---------------------------- MODULE HarnessContract ----------------------------
(***************************************************************************)
(* What a harness process promises to whoever reads its summary and exit   *)
(* code: cases are settled one at a time and for good, a case is reported  *)
(* only if it may be, and the process ends normally only when every case   *)
(* is settled.  How a case is run is of no concern here.                   *)
(***************************************************************************)
EXTENDS HarnessInputs

CONSTANTS Proc, Invocations, Trees

VARIABLES args, disk, status, exit

vars == <<args, disk, status, exit>>

Present(p) == {c \in Cases : disk[args[p].operation][c] # Absent}

Unsettled(p) == {c \in Present(p) : status[p][c] = "pending"}

Init ==
    /\ args \in [Proc -> Invocations]
    /\ disk \in Trees
    /\ status = [p \in Proc |-> [c \in Cases |-> "pending"]]
    /\ exit = [p \in Proc |-> "running"]

Skip(p) ==
    \E c \in Unsettled(p) :
        /\ exit[p] = "running"
        /\ c \in args[p].excluded_cases
        /\ status' = [status EXCEPT ![p][c] = "skipped"]
        /\ UNCHANGED <<args, disk, exit>>

Report(p) ==
    \E c \in Unsettled(p) :
        /\ exit[p] = "running"
        /\ c \notin args[p].excluded_cases
        /\ Reportable(args[p], disk[args[p].operation][c])
        /\ status' = [status EXCEPT ![p][c] = "reported"]
        /\ UNCHANGED <<args, disk, exit>>

\* The exit codes a process may end with now: a failure of the prover or of
\* ZISK's tools may come at any time, a panic of an execution may not.
ExitCodes(p) ==
    {"killed"}
    \cup (IF Unsettled(p) = {} THEN {"ok"} ELSE {})
    \cup (IF args[p].zkvm = "zisk" THEN {"exit1"} ELSE {})
    \cup (IF \/ args[p].mode = "prove" /\ args[p].zkvm # "jolt"
             \/ \E c \in Unsettled(p) \ args[p].excluded_cases :
                    ~Faultless(args[p], disk[args[p].operation][c])
          THEN {"panic"} ELSE {})

End(p) ==
    /\ exit[p] = "running"
    /\ \E code \in ExitCodes(p) : exit' = [exit EXCEPT ![p] = code]
    /\ UNCHANGED <<args, disk, status>>

Next == \E p \in Proc : Skip(p) \/ Report(p) \/ End(p)

Spec == Init /\ [][Next]_vars
================================================================================
