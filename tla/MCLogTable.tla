------------------------------ MODULE MCLogTable ------------------------------
(***************************************************************************)
(* Small instances of LogTable: three cases, one of them excluded, with    *)
(* costs of their own.                                                     *)
(***************************************************************************)
EXTENDS LogTable

CONSTANTS c1, c2, c3

\* Phase i starts gap after the one before and takes costs[i].
Costs(gap, costs, duration) ==
    LET number(ph) == CHOOSE i \in 1 .. 6 : PhaseOrder[i] = ph
        upto(i)    == i * gap + Sum([j \in 1 .. i |-> costs[j]])
    IN  [end      |-> [ph \in Phases |-> upto(number(ph))],
         start    |-> [ph \in Phases |-> upto(number(ph)) - costs[number(ph)]],
         duration |-> duration]

\* c1 costs more than c2 and c3 and takes seconds; the others less than one.
MCFigures ==
    c1 :> Costs(1, <<5, 30, 4, 40, 90, 2>>, 1200)
    @@ c2 :> Costs(2, <<3, 20, 4, 11, 60, 1>>, 900)
    @@ c3 :> Costs(1, <<1, 1, 1, 1, 1, 1>>, 0)

MCOrders == {PhaseOrder, Reverse(PhaseOrder),
             SubSeq(PhaseOrder, 4, 6) \o SubSeq(PhaseOrder, 1, 3)}

AllBackends ==
    {"sp1", "risc-zero", "zisk", "pico", "jolt"} \X {"execute", "prove"}

ZiskExecutes    == {<<"zisk", "execute">>}
RiscZeroExecutes == {<<"risc-zero", "execute">>}
================================================================================
