---------------------------- MODULE LogTable_proofs -----------------------------
(***************************************************************************)
(* The rows of the table are those of the cases that were reported: what   *)
(* the runs check of LogTable, for any cases, costs and backends.          *)
(***************************************************************************)
EXTENDS LogTable, ZiskTiming_proofs

BackendModes == {"sp1", "risc-zero", "zisk", "pico", "jolt"} \X {"execute", "prove"}

Times == [num : Nat, unit : {"", "s", "ms"}]

AccType == [test_case : Cases \cup {""}, start : [Phases -> Nat],
            end : [Phases -> Nat], cycles : [Phases -> Nat],
            total_cycles : Nat, execution_time : Times,
            execution_time_host_call : Times, is_zisk : BOOLEAN]

-----------------------------------------------------------------------------
(* What the lines of a case say, and what they leave in the accumulators *)

Executes(b, name) == b = <<name, "execute">>

\* The lines logged for case c, from its first to the one before its End line.
IsLineOf(l, b, c) ==
    \/ l = CaseLine(c)
    \/ /\ Executes(b, "sp1")
       /\ \/ l = Line("Number of cycles:", "", Total(c))
          \/ l = Line("execution-time-host-call:", "", AsSecs(Figures[c].duration))
          \/ \E ph \in Phases : l = Line("tracker", ph, Cycles(c, ph))
    \/ /\ b[1] = "risc-zero"
       /\ \E ph \in Phases : \/ l = Line("start", ph, Figures[c].start[ph])
                             \/ l = Line("end", ph, Figures[c].end[ph])
    \/ /\ Executes(b, "risc-zero")
       /\ \/ l = Line("execution time:", "", SdkTime(Figures[c].duration))
          \/ l = Line("execution-time-host-call:", "", Debug(Figures[c].duration))
    \/ /\ Executes(b, "pico")
       /\ \/ l = Line("Execution time:", "", Debug(Figures[c].duration))
          \/ l = Line("execution-time-host-call:", "", AsSecs(Figures[c].duration))
          \/ l = Line("Execution cycles:", "", Total(c))
    \/ /\ b[1] = "jolt"
       /\ l = Line("Execution time:", "", Debug(Figures[c].duration))
    \/ /\ Executes(b, "zisk")
       /\ \/ In(l, GuestLines)
          \/ l = Line("process_rom", "", [steps    |-> Total(c),
                                          duration |-> Figures[c].duration])

\* What the accumulators hold of c in the end.
StartsOf(b, c) == IF b[1] = "risc-zero" THEN Figures[c].start ELSE Zeros
EndsOf(b, c) == IF b[1] = "risc-zero" THEN Figures[c].end ELSE Zeros
CyclesOf(b, c) == IF Executes(b, "sp1") THEN [ph \in Phases |-> Cycles(c, ph)]
                                        ELSE Zeros
TotalOf(b, c) == IF Executes(b, "sp1") \/ Executes(b, "pico") \/ Executes(b, "zisk")
                 THEN Total(c) ELSE 0
SdkTimeOf(b, c) == IF Executes(b, "risc-zero") THEN SdkTime(Figures[c].duration)
                                               ELSE NoTime
\* In seconds or in a unit of its own, whichever line came last.
HostCallsOf(b, c) ==
    IF HasTime(b) THEN {AsSecs(Figures[c].duration), Debug(Figures[c].duration)}
                  ELSE {NoTime}

\* a holds nothing yet or figures of c.
Between(a, b, c) ==
    /\ a \in AccType
    /\ a.test_case \in {"", c}
    /\ \A ph \in Phases : /\ a.start[ph] \in {0, StartsOf(b, c)[ph]}
                          /\ a.end[ph] \in {0, EndsOf(b, c)[ph]}
                          /\ a.cycles[ph] \in {0, CyclesOf(b, c)[ph]}
    /\ a.total_cycles \in {0, TotalOf(b, c)}
    /\ a.execution_time \in {NoTime, SdkTimeOf(b, c)}
    /\ a.execution_time_host_call \in {NoTime} \cup HostCallsOf(b, c)
    /\ a.is_zisk => Executes(b, "zisk")

\* a holds what line l says of c.
Took(a, l, b, c) ==
    /\ l.tag = "Test case:" => a.test_case = c
    /\ l.tag = "read-inputs:start" => a.is_zisk
    /\ l.tag = "start" => a.start[l.key] = StartsOf(b, c)[l.key]
    /\ l.tag = "end" => a.end[l.key] = EndsOf(b, c)[l.key]
    /\ l.tag = "tracker" => a.cycles[l.key] = CyclesOf(b, c)[l.key]
    /\ l.tag \in {"Number of cycles:", "Execution cycles:", "process_rom"} =>
           a.total_cycles = TotalOf(b, c)
    /\ l.tag = "execution time:" => a.execution_time = SdkTimeOf(b, c)
    /\ l.tag \in {"execution-time-host-call:", "Execution time:", "process_rom"} =>
           a.execution_time_host_call \in HostCallsOf(b, c)

\* l says of c what is to be held of it.
Agrees(l, b, c) ==
    /\ l.tag # "Cycle Tracker End" /\ l.tag # "Skipping test case:"
    /\ l.tag = "Test case:" => l.val = c
    /\ l.tag = "read-inputs:start" => Executes(b, "zisk")
    /\ l.tag = "start" => l.key \in Phases /\ l.val = StartsOf(b, c)[l.key]
    /\ l.tag = "end" => l.key \in Phases /\ l.val = EndsOf(b, c)[l.key]
    /\ l.tag = "tracker" => l.key \in Phases /\ l.val = CyclesOf(b, c)[l.key]
    /\ l.tag \in {"Number of cycles:", "Execution cycles:"} =>
           l.val = TotalOf(b, c)
    /\ l.tag = "execution time:" => l.val = SdkTimeOf(b, c)
    /\ l.tag \in {"execution-time-host-call:", "Execution time:"} =>
           l.val \in HostCallsOf(b, c)
    /\ l.tag = "process_rom" => /\ l.val.steps = TotalOf(b, c)
                                /\ AsSecs(l.val.duration) \in HostCallsOf(b, c)

LEMMA FiguresType ==
    ASSUME NEW c \in Cases
    PROVE  /\ Figures[c].start \in [Phases -> Nat]
           /\ Figures[c].end \in [Phases -> Nat]
           /\ Figures[c].duration \in Nat
           /\ \A ph \in Phases : /\ Figures[c].start[ph] > 0
                                 /\ Cycles(c, ph) \in Nat /\ Cycles(c, ph) > 0
           /\ Total(c) \in Nat /\ Total(c) > 0
<1>1. /\ Figures[c] \in [start : [Phases -> Nat], end : [Phases -> Nat],
                         duration : Nat]
      /\ \A ph \in Phases : 0 < Figures[c].start[ph]
                            /\ Figures[c].start[ph] < Figures[c].end[ph]
  BY FiguresAssumption
<1>2. "commit" \in Phases
  BY DEF Phases
<1> QED
  BY <1>1, <1>2 DEF Cycles, Total

LEMMA TimesAre ==
    ASSUME NEW d \in Nat
    PROVE  /\ AsSecs(d) \in Times /\ SdkTime(d) \in Times /\ Debug(d) \in Times
           /\ NoTime \in Times
           /\ Milliseconds(AsSecs(d)) = d /\ Milliseconds(Debug(d)) = d
           /\ Milliseconds(NoTime) = 0
<1>1. (d * 1000) \div 1000 = d /\ d * 1000 \in Nat
  OBVIOUS
<1> QED
  BY <1>1 DEF AsSecs, SdkTime, Debug, NoTime, Times, Milliseconds

LEMMA ExecutesIs ==
    ASSUME NEW b, NEW name
    PROVE  Executes(b, name) => b[1] = name /\ b[2] = "execute"
BY DEF Executes

\* The types of what is to be held.
LEMMA HeldTypes ==
    ASSUME NEW c \in Cases, NEW b \in BackendModes
    PROVE  /\ StartsOf(b, c) \in [Phases -> Nat]
           /\ EndsOf(b, c) \in [Phases -> Nat]
           /\ CyclesOf(b, c) \in [Phases -> Nat]
           /\ TotalOf(b, c) \in Nat
           /\ SdkTimeOf(b, c) \in Times
           /\ HostCallsOf(b, c) \subseteq Times
<1>1. Zeros \in [Phases -> Nat]
  BY DEF Zeros
<1>2. Figures[c].duration \in Nat
  BY FiguresType
<1>3. StartsOf(b, c) \in [Phases -> Nat] /\ EndsOf(b, c) \in [Phases -> Nat]
  BY <1>1, FiguresType DEF StartsOf, EndsOf
<1>4. CyclesOf(b, c) \in [Phases -> Nat]
  BY <1>1, FiguresType DEF CyclesOf
<1>5. TotalOf(b, c) \in Nat
  BY FiguresType DEF TotalOf
<1>6. SdkTimeOf(b, c) \in Times
  BY <1>2, TimesAre DEF SdkTimeOf
<1>7. HostCallsOf(b, c) \subseteq Times
  BY <1>2, TimesAre DEF HostCallsOf
<1> QED
  BY <1>3, <1>4, <1>5, <1>6, <1>7

\* Every line of a case says what is to be held of it.
LEMMA LineAgrees ==
    ASSUME NEW c \in Cases, NEW b \in BackendModes, NEW l, IsLineOf(l, b, c)
    PROVE  Agrees(l, b, c)
<1>1. CASE l = CaseLine(c)
  BY <1>1 DEF CaseLine, Line, Agrees
<1>2. CASE Executes(b, "sp1")
  <2>1. CASE l = Line("Number of cycles:", "", Total(c))
    BY <1>2, <2>1 DEF Line, Agrees, TotalOf
  <2>2. CASE l = Line("execution-time-host-call:", "", AsSecs(Figures[c].duration))
    BY <1>2, <2>2 DEF Line, Agrees, HostCallsOf, HasTime, Executes
  <2>3. ASSUME NEW ph \in Phases, l = Line("tracker", ph, Cycles(c, ph))
        PROVE  Agrees(l, b, c)
    BY <1>2, <2>3 DEF Line, Agrees, CyclesOf
  <2> QED
    BY <1>1, <1>2, <2>1, <2>2, <2>3 DEF IsLineOf, Executes
<1>3. CASE b[1] = "risc-zero"
  <2>1. ASSUME NEW ph \in Phases, l = Line("start", ph, Figures[c].start[ph])
        PROVE  Agrees(l, b, c)
    BY <1>3, <2>1 DEF Line, Agrees, StartsOf
  <2>2. ASSUME NEW ph \in Phases, l = Line("end", ph, Figures[c].end[ph])
        PROVE  Agrees(l, b, c)
    BY <1>3, <2>2 DEF Line, Agrees, EndsOf
  <2>3. CASE /\ Executes(b, "risc-zero")
             /\ l = Line("execution time:", "", SdkTime(Figures[c].duration))
    BY <2>3 DEF Line, Agrees, SdkTimeOf
  <2>4. CASE /\ Executes(b, "risc-zero")
             /\ l = Line("execution-time-host-call:", "", Debug(Figures[c].duration))
    BY <2>4 DEF Line, Agrees, HostCallsOf, HasTime, Executes
  <2> QED
    <3>1. /\ ~Executes(b, "sp1") /\ ~Executes(b, "pico") /\ ~Executes(b, "zisk")
          /\ b[1] # "jolt"
      BY <1>3, ExecutesIs
    <3> QED
      BY <1>1, <3>1, <2>1, <2>2, <2>3, <2>4 DEF IsLineOf
<1>4. CASE Executes(b, "pico")
  <2>1. CASE l = Line("Execution time:", "", Debug(Figures[c].duration))
    BY <1>4, <2>1 DEF Line, Agrees, HostCallsOf, HasTime, Executes
  <2>2. CASE l = Line("execution-time-host-call:", "", AsSecs(Figures[c].duration))
    BY <1>4, <2>2 DEF Line, Agrees, HostCallsOf, HasTime, Executes
  <2>3. CASE l = Line("Execution cycles:", "", Total(c))
    BY <1>4, <2>3 DEF Line, Agrees, TotalOf
  <2> QED
    BY <1>1, <1>4, <2>1, <2>2, <2>3 DEF IsLineOf, Executes
<1>5. CASE b[1] = "jolt"
  <2>1. CASE l = Line("Execution time:", "", Debug(Figures[c].duration))
    BY <1>5, <2>1 DEF Line, Agrees, HostCallsOf, HasTime
  <2> QED
    <3>1. /\ ~Executes(b, "sp1") /\ ~Executes(b, "pico") /\ ~Executes(b, "zisk")
          /\ ~Executes(b, "risc-zero") /\ b[1] # "risc-zero"
      BY <1>5, ExecutesIs
    <3> QED
      BY <1>1, <3>1, <2>1 DEF IsLineOf
<1>6. CASE Executes(b, "zisk")
  <2>1. CASE In(l, GuestLines)
    <3>1. l \in GuestLine
      <4>1. ASSUME NEW X, NEW s \in Seq(X) PROVE \A i \in DOMAIN s : s[i] \in X
        OBVIOUS
      <4>2. \A i \in DOMAIN GuestLines : GuestLines[i] \in GuestLine
        BY <4>1, GuestLinesAre
      <4> QED
        BY <2>1, <4>2 DEF In
    <3>2. l.tag \in {"read-inputs:start", "TIMING_START", "OPERATION_PROGRESS",
                     "TIMING_END"}
      BY <3>1 DEF GuestLine
    <3> QED
      BY <1>6, <3>2 DEF Agrees
  <2>2. CASE l = Line("process_rom", "", [steps    |-> Total(c),
                                          duration |-> Figures[c].duration])
    <3>1. /\ l.tag = "process_rom" /\ l.val.steps = Total(c)
          /\ l.val.duration = Figures[c].duration
      BY <2>2 DEF Line
    <3>2. AsSecs(l.val.duration) \in HostCallsOf(b, c)
      BY <1>6, <3>1 DEF HostCallsOf, HasTime, Executes
    <3>3. TotalOf(b, c) = Total(c)
      BY <1>6 DEF TotalOf
    <3> QED
      BY <3>1, <3>2, <3>3 DEF Agrees
  <2> QED
    BY <1>1, <1>6, <2>1, <2>2 DEF IsLineOf, Executes
<1> QED
  BY <1>1, <1>2, <1>3, <1>4, <1>5, <1>6, ExecutesIs DEF IsLineOf

LEMMA FreshBetween ==
    ASSUME NEW c, NEW b PROVE Between(Fresh, b, c)
<1>1. NoTime \in Times
  BY DEF NoTime, Times
<1>2. Zeros \in [Phases -> Nat] /\ \A ph \in Phases : Zeros[ph] = 0
  BY DEF Zeros
<1> QED
  BY <1>1, <1>2 DEF Between, Fresh, AccType

\* Every field of next is that of a or what is to be held.
Grows(a, next, b, c) ==
    /\ next \in AccType
    /\ next.test_case \in {a.test_case, c}
    /\ \A ph \in Phases : /\ next.start[ph] \in {a.start[ph], StartsOf(b, c)[ph]}
                          /\ next.end[ph] \in {a.end[ph], EndsOf(b, c)[ph]}
                          /\ next.cycles[ph] \in {a.cycles[ph], CyclesOf(b, c)[ph]}
    /\ next.total_cycles \in {a.total_cycles, TotalOf(b, c)}
    /\ next.execution_time \in {a.execution_time, SdkTimeOf(b, c)}
    /\ \/ next.execution_time_host_call = a.execution_time_host_call
       \/ next.execution_time_host_call \in HostCallsOf(b, c)
    /\ next.is_zisk => a.is_zisk \/ Executes(b, "zisk")
    /\ a.is_zisk => next.is_zisk

LEMMA GrowingKeeps ==
    ASSUME NEW c, NEW b, NEW a, Between(a, b, c), NEW next, Grows(a, next, b, c)
    PROVE  /\ Between(next, b, c)
           /\ \A m : Agrees(m, b, c) /\ Took(a, m, b, c) => Took(next, m, b, c)
<1>1. Between(next, b, c)
  BY DEF Between, Grows
<1>2. ASSUME NEW m, Agrees(m, b, c), Took(a, m, b, c) PROVE Took(next, m, b, c)
  <2>1. m.tag = "Test case:" => next.test_case = c
    BY <1>2 DEF Grows, Took
  <2>2. m.tag = "read-inputs:start" => next.is_zisk
    BY <1>2 DEF Grows, Took
  <2>3. m.tag \in {"start", "end", "tracker"} => m.key \in Phases
    BY <1>2 DEF Agrees
  <2>4. /\ m.tag = "start" => next.start[m.key] = StartsOf(b, c)[m.key]
        /\ m.tag = "end" => next.end[m.key] = EndsOf(b, c)[m.key]
        /\ m.tag = "tracker" => next.cycles[m.key] = CyclesOf(b, c)[m.key]
    BY <1>2, <2>3 DEF Grows, Took
  <2>5. m.tag \in {"Number of cycles:", "Execution cycles:", "process_rom"} =>
            next.total_cycles = TotalOf(b, c)
    BY <1>2 DEF Grows, Took
  <2>6. m.tag = "execution time:" => next.execution_time = SdkTimeOf(b, c)
    BY <1>2 DEF Grows, Took
  <2>7. m.tag \in {"execution-time-host-call:", "Execution time:", "process_rom"} =>
            next.execution_time_host_call \in HostCallsOf(b, c)
    BY <1>2 DEF Grows, Took
  <2> QED
    BY <2>1, <2>2, <2>4, <2>5, <2>6, <2>7 DEF Took
<1> QED
  BY <1>1, <1>2

\* Reading a line of c keeps the accumulators to figures of c, takes what the
\* line says and loses nothing another line of c said.
LEMMA ReadingTakes ==
    ASSUME NEW c \in Cases, NEW b \in BackendModes, NEW a, Between(a, b, c),
           NEW l, Agrees(l, b, c)
    PROVE  /\ Between(Accumulate(a, l), b, c)
           /\ Took(Accumulate(a, l), l, b, c)
           /\ \A m : Agrees(m, b, c) /\ Took(a, m, b, c)
                         => Took(Accumulate(a, l), m, b, c)
<1> SUFFICES ASSUME NEW next, next = Accumulate(a, l)
             PROVE  Grows(a, next, b, c) /\ Took(next, l, b, c)
  BY GrowingKeeps
<1>0. a \in AccType
  BY DEF Between
<1>1. CASE l.tag = "Test case:"
  <2>1. next = [a EXCEPT !.test_case = c]
    BY <1>1 DEF Accumulate, Agrees
  <2>2. next \in AccType
    BY <1>0, <2>1, HeldTypes DEF AccType
  <2>3. Grows(a, next, b, c)
    BY <1>0, <2>1, <2>2 DEF Grows, AccType
  <2>4. Took(next, l, b, c)
    BY <1>0, <1>1, <2>1 DEF Took, AccType
  <2> QED
    BY <2>3, <2>4
<1>2. CASE l.tag = "read-inputs:start"
  <2>1. next = [a EXCEPT !.is_zisk = TRUE] /\ Executes(b, "zisk")
    BY <1>2 DEF Accumulate, Agrees
  <2>2. next \in AccType
    BY <1>0, <2>1, HeldTypes DEF AccType
  <2>3. Grows(a, next, b, c)
    BY <1>0, <2>1, <2>2 DEF Grows, AccType
  <2>4. Took(next, l, b, c)
    BY <1>0, <1>2, <2>1 DEF Took, AccType
  <2> QED
    BY <2>3, <2>4
<1>3. CASE l.tag = "start"
  <2> DEFINE v == StartsOf(b, c)[l.key]
  <2>1. next = [a EXCEPT !.start[l.key] = v] /\ l.key \in Phases
    BY <1>3 DEF Accumulate, Agrees
  <2>2. v \in Nat
    BY <2>1, HeldTypes
  <2>3. a.start \in [Phases -> Nat] /\ [a.start EXCEPT ![l.key] = v] \in [Phases -> Nat]
    BY <1>0, <2>1, <2>2 DEF AccType
  <2>4. next = [a EXCEPT !.start = [a.start EXCEPT ![l.key] = v]]
    BY <1>0, <2>1 DEF AccType
  <2>5. next \in AccType
    BY <1>0, <2>3, <2>4 DEF AccType
  <2>6. next.start = [a.start EXCEPT ![l.key] = v]
    BY <1>0, <2>4 DEF AccType
  <2>7. /\ \A ph \in Phases : next.start[ph] \in {a.start[ph], StartsOf(b, c)[ph]}
        /\ next.start[l.key] = v
    BY <2>1, <2>3, <2>6
  <2>8. Grows(a, next, b, c)
    BY <1>0, <2>4, <2>5, <2>7 DEF Grows, AccType
  <2>9. Took(next, l, b, c)
    BY <1>3, <2>7 DEF Took
  <2> QED
    BY <2>8, <2>9
<1>4. CASE l.tag = "end"
  <2> DEFINE v == EndsOf(b, c)[l.key]
  <2>1. next = [a EXCEPT !.end[l.key] = v] /\ l.key \in Phases
    BY <1>4 DEF Accumulate, Agrees
  <2>2. v \in Nat
    BY <2>1, HeldTypes
  <2>3. a.end \in [Phases -> Nat] /\ [a.end EXCEPT ![l.key] = v] \in [Phases -> Nat]
    BY <1>0, <2>1, <2>2 DEF AccType
  <2>4. next = [a EXCEPT !.end = [a.end EXCEPT ![l.key] = v]]
    BY <1>0, <2>1 DEF AccType
  <2>5. next \in AccType
    BY <1>0, <2>3, <2>4 DEF AccType
  <2>6. next.end = [a.end EXCEPT ![l.key] = v]
    BY <1>0, <2>4 DEF AccType
  <2>7. /\ \A ph \in Phases : next.end[ph] \in {a.end[ph], EndsOf(b, c)[ph]}
        /\ next.end[l.key] = v
    BY <2>1, <2>3, <2>6
  <2>8. Grows(a, next, b, c)
    BY <1>0, <2>4, <2>5, <2>7 DEF Grows, AccType
  <2>9. Took(next, l, b, c)
    BY <1>4, <2>7 DEF Took
  <2> QED
    BY <2>8, <2>9
<1>5. CASE l.tag = "tracker"
  <2> DEFINE v == CyclesOf(b, c)[l.key]
  <2>1. next = [a EXCEPT !.cycles[l.key] = v] /\ l.key \in Phases
    BY <1>5 DEF Accumulate, Agrees
  <2>2. v \in Nat
    BY <2>1, HeldTypes
  <2>3. a.cycles \in [Phases -> Nat] /\ [a.cycles EXCEPT ![l.key] = v] \in [Phases -> Nat]
    BY <1>0, <2>1, <2>2 DEF AccType
  <2>4. next = [a EXCEPT !.cycles = [a.cycles EXCEPT ![l.key] = v]]
    BY <1>0, <2>1 DEF AccType
  <2>5. next \in AccType
    BY <1>0, <2>3, <2>4 DEF AccType
  <2>6. next.cycles = [a.cycles EXCEPT ![l.key] = v]
    BY <1>0, <2>4 DEF AccType
  <2>7. /\ \A ph \in Phases : next.cycles[ph] \in {a.cycles[ph], CyclesOf(b, c)[ph]}
        /\ next.cycles[l.key] = v
    BY <2>1, <2>3, <2>6
  <2>8. Grows(a, next, b, c)
    BY <1>0, <2>4, <2>5, <2>7 DEF Grows, AccType
  <2>9. Took(next, l, b, c)
    BY <1>5, <2>7 DEF Took
  <2> QED
    BY <2>8, <2>9
<1>6. CASE l.tag \in {"Number of cycles:", "Execution cycles:"}
  <2>1. next = [a EXCEPT !.total_cycles = TotalOf(b, c)]
    BY <1>6 DEF Accumulate, Agrees
  <2>2. next \in AccType
    BY <1>0, <2>1, HeldTypes DEF AccType
  <2>3. Grows(a, next, b, c)
    BY <1>0, <2>1, <2>2 DEF Grows, AccType
  <2>4. Took(next, l, b, c)
    BY <1>0, <1>6, <2>1 DEF Took, AccType
  <2> QED
    BY <2>3, <2>4
<1>7. CASE l.tag = "execution time:"
  <2>1. next = [a EXCEPT !.execution_time = SdkTimeOf(b, c)]
    BY <1>7 DEF Accumulate, Agrees
  <2>2. next \in AccType
    BY <1>0, <2>1, HeldTypes DEF AccType
  <2>3. Grows(a, next, b, c)
    BY <1>0, <2>1, <2>2 DEF Grows, AccType
  <2>4. Took(next, l, b, c)
    BY <1>0, <1>7, <2>1 DEF Took, AccType
  <2> QED
    BY <2>3, <2>4
<1>8. CASE l.tag \in {"execution-time-host-call:", "Execution time:"}
  <2>1. /\ next = [a EXCEPT !.execution_time_host_call = l.val]
        /\ l.val \in HostCallsOf(b, c)
    BY <1>8 DEF Accumulate, Agrees
  <2>2. next \in AccType
    BY <1>0, <2>1, HeldTypes DEF AccType
  <2>3. Grows(a, next, b, c)
    BY <1>0, <2>1, <2>2 DEF Grows, AccType
  <2>4. Took(next, l, b, c)
    BY <1>0, <1>8, <2>1 DEF Took, AccType
  <2> QED
    BY <2>3, <2>4
<1>9. CASE l.tag = "process_rom"
  <2>1. /\ next = [a EXCEPT !.total_cycles = TotalOf(b, c),
                            !.execution_time_host_call = AsSecs(l.val.duration)]
        /\ AsSecs(l.val.duration) \in HostCallsOf(b, c)
    BY <1>9 DEF Accumulate, Agrees
  <2>2. next \in AccType
    <3>1. AsSecs(l.val.duration) \in Times /\ TotalOf(b, c) \in Nat
      BY <2>1, HeldTypes
    <3> QED
      BY <1>0, <2>1, <3>1 DEF AccType
  <2>3. Grows(a, next, b, c)
    BY <1>0, <2>1, <2>2 DEF Grows, AccType
  <2>4. Took(next, l, b, c)
    BY <1>0, <1>9, <2>1 DEF Took, AccType
  <2> QED
    BY <2>3, <2>4
<1>10. CASE l.tag \notin {"Test case:", "read-inputs:start", "start", "end",
                          "tracker", "Number of cycles:", "Execution cycles:",
                          "execution time:", "execution-time-host-call:",
                          "Execution time:", "process_rom"}
  <2>1. next = a
    BY <1>10 DEF Accumulate
  <2>2. Grows(a, next, b, c)
    BY <1>0, <2>1 DEF Grows
  <2> QED
    BY <1>10, <2>2 DEF Took
<1> QED
  BY <1>1, <1>2, <1>3, <1>4, <1>5, <1>6, <1>7, <1>8, <1>9, <1>10

Complete(a, b, c) ==
    /\ a \in AccType
    /\ a.test_case = c
    /\ a.start = StartsOf(b, c)
    /\ a.end = EndsOf(b, c)
    /\ a.cycles = CyclesOf(b, c)
    /\ a.total_cycles = TotalOf(b, c)
    /\ a.execution_time = SdkTimeOf(b, c)
    /\ a.execution_time_host_call \in HostCallsOf(b, c)
    /\ a.is_zisk <=> Executes(b, "zisk")

\* Once every line of c is read the accumulators hold all its figures.
LEMMA AllTaken ==
    ASSUME NEW c \in Cases, NEW b \in BackendModes, NEW a, Between(a, b, c),
           \A l : IsLineOf(l, b, c) => Took(a, l, b, c)
    PROVE  Complete(a, b, c)
<1>1. a.test_case = c
  <2>1. IsLineOf(CaseLine(c), b, c) /\ CaseLine(c).tag = "Test case:"
    BY DEF IsLineOf, CaseLine, Line
  <2> QED
    BY <2>1 DEF Took
<1>2. \A ph \in Phases : a.start[ph] = StartsOf(b, c)[ph]
                         /\ a.end[ph] = EndsOf(b, c)[ph]
  <2>1. CASE b[1] = "risc-zero"
    <3>1. ASSUME NEW ph \in Phases
          PROVE  a.start[ph] = StartsOf(b, c)[ph] /\ a.end[ph] = EndsOf(b, c)[ph]
      <4> DEFINE l == Line("start", ph, Figures[c].start[ph])
                 m == Line("end", ph, Figures[c].end[ph])
      <4>1. IsLineOf(l, b, c) /\ IsLineOf(m, b, c)
        BY <2>1 DEF IsLineOf
      <4>2. l.tag = "start" /\ l.key = ph /\ m.tag = "end" /\ m.key = ph
        BY DEF Line
      <4> HIDE DEF l, m
      <4> QED
        BY <4>1, <4>2 DEF Took
    <3> QED
      BY <3>1
  <2>2. CASE b[1] # "risc-zero"
    <3>1. StartsOf(b, c) = Zeros /\ EndsOf(b, c) = Zeros
      BY <2>2 DEF StartsOf, EndsOf
    <3> QED
      BY <3>1 DEF Between, Zeros
  <2> QED
    BY <2>1, <2>2
<1>3. \A ph \in Phases : a.cycles[ph] = CyclesOf(b, c)[ph]
  <2>1. CASE Executes(b, "sp1")
    <3>1. ASSUME NEW ph \in Phases PROVE a.cycles[ph] = CyclesOf(b, c)[ph]
      <4> DEFINE l == Line("tracker", ph, Cycles(c, ph))
      <4>1. IsLineOf(l, b, c)
        BY <2>1 DEF IsLineOf
      <4>2. l.tag = "tracker" /\ l.key = ph
        BY DEF Line
      <4> HIDE DEF l
      <4> QED
        BY <4>1, <4>2 DEF Took
    <3> QED
      BY <3>1
  <2>2. CASE ~Executes(b, "sp1")
    <3>1. CyclesOf(b, c) = Zeros
      BY <2>2 DEF CyclesOf
    <3> QED
      BY <3>1 DEF Between, Zeros
  <2> QED
    BY <2>1, <2>2
<1> DEFINE rom == Line("process_rom", "", [steps    |-> Total(c),
                                           duration |-> Figures[c].duration])
           read == Line("read-inputs:start", "", "")
<1>4. rom.tag = "process_rom" /\ read.tag = "read-inputs:start"
  BY DEF Line
<1>5. Executes(b, "zisk") => IsLineOf(rom, b, c) /\ IsLineOf(read, b, c)
  BY GuestLinesAre DEF IsLineOf
<1>6. a.total_cycles = TotalOf(b, c)
  <2>1. CASE Executes(b, "sp1")
    <3> DEFINE l == Line("Number of cycles:", "", Total(c))
    <3>1. IsLineOf(l, b, c) /\ l.tag = "Number of cycles:"
      BY <2>1 DEF IsLineOf, Line
    <3> QED
      BY <3>1 DEF Took
  <2>2. CASE Executes(b, "pico")
    <3> DEFINE l == Line("Execution cycles:", "", Total(c))
    <3>1. IsLineOf(l, b, c) /\ l.tag = "Execution cycles:"
      BY <2>2 DEF IsLineOf, Line
    <3> QED
      BY <3>1 DEF Took
  <2>3. CASE Executes(b, "zisk")
    <3> HIDE DEF rom
    <3> QED
      BY <1>4, <1>5, <2>3 DEF Took
  <2>4. CASE ~(Executes(b, "sp1") \/ Executes(b, "pico") \/ Executes(b, "zisk"))
    BY <2>4 DEF Between, TotalOf
  <2> QED
    BY <2>1, <2>2, <2>3, <2>4
<1>7. a.execution_time = SdkTimeOf(b, c)
  <2>1. CASE Executes(b, "risc-zero")
    <3> DEFINE l == Line("execution time:", "", SdkTime(Figures[c].duration))
    <3>1. IsLineOf(l, b, c) /\ l.tag = "execution time:"
      BY <2>1 DEF IsLineOf, Line
    <3> QED
      BY <3>1 DEF Took
  <2>2. CASE ~Executes(b, "risc-zero")
    BY <2>2 DEF Between, SdkTimeOf
  <2> QED
    BY <2>1, <2>2
<1>8. a.execution_time_host_call \in HostCallsOf(b, c)
  <2> DEFINE host(t) == Line("execution-time-host-call:", "", t)
             time(t) == Line("Execution time:", "", t)
             s == AsSecs(Figures[c].duration)
             d == Debug(Figures[c].duration)
  <2>0. \A t : host(t).tag = "execution-time-host-call:"
               /\ time(t).tag = "Execution time:"
    BY DEF Line
  <2>1. CASE Executes(b, "sp1") \/ Executes(b, "pico")
    <3>1. IsLineOf(host(s), b, c)
      BY <2>1 DEF IsLineOf
    <3> HIDE DEF host
    <3> QED
      BY <2>0, <3>1 DEF Took
  <2>2. CASE Executes(b, "risc-zero")
    <3>1. IsLineOf(host(d), b, c)
      BY <2>2 DEF IsLineOf
    <3> HIDE DEF host
    <3> QED
      BY <2>0, <3>1 DEF Took
  <2>3. CASE b[1] = "jolt"
    <3>1. IsLineOf(time(d), b, c)
      BY <2>3 DEF IsLineOf
    <3> HIDE DEF time
    <3> QED
      BY <2>0, <3>1 DEF Took
  <2>4. CASE Executes(b, "zisk")
    <3> HIDE DEF rom
    <3> QED
      BY <1>4, <1>5, <2>4 DEF Took
  <2>5. CASE b[2] = "prove" /\ b[1] # "jolt"
    <3>1. HostCallsOf(b, c) = {NoTime}
      BY <2>5 DEF HostCallsOf, HasTime
    <3> QED
      BY <3>1 DEF Between
  <2> QED
    BY <2>1, <2>2, <2>3, <2>4, <2>5 DEF BackendModes, Executes
<1>9. a.is_zisk <=> Executes(b, "zisk")
  <2>1. CASE Executes(b, "zisk")
    <3> HIDE DEF read
    <3> QED
      BY <1>4, <1>5, <2>1 DEF Took
  <2>2. CASE ~Executes(b, "zisk")
    BY <2>2 DEF Between
  <2> QED
    BY <2>1, <2>2
<1>10. a \in AccType
  BY DEF Between
<1>11. /\ a.start = StartsOf(b, c) /\ a.end = EndsOf(b, c)
       /\ a.cycles = CyclesOf(b, c)
  <2>1. /\ a.start \in [Phases -> Nat] /\ a.end \in [Phases -> Nat]
        /\ a.cycles \in [Phases -> Nat]
    BY <1>10 DEF AccType
  <2>2. ASSUME NEW f \in [Phases -> Nat], NEW g \in [Phases -> Nat],
               \A ph \in Phases : f[ph] = g[ph]
        PROVE  f = g
    BY <2>2
  <2> QED
    BY <1>2, <1>3, <2>1, <2>2, HeldTypes
<1> QED
  BY <1>1, <1>6, <1>7, <1>8, <1>9, <1>10, <1>11 DEF Complete

-----------------------------------------------------------------------------
(* What the End block makes of complete accumulators *)

LEMMA PhasesFinite == IsFiniteSet(Phases)
<1> DEFINE A == {"read_pre_state_ssz"}
           B == A \cup {"deserialize_pre_state_ssz"}
           C == B \cup {"read_operation_input"}
           D == C \cup {"process_operation"}
           E == D \cup {"merkleize_operation"}
<1>1. IsFiniteSet(A)
  BY FS_Singleton
<1>2. IsFiniteSet(B)
  BY <1>1, FS_AddElement
<1>3. IsFiniteSet(C)
  BY <1>2, FS_AddElement
<1>4. IsFiniteSet(D)
  BY <1>3, FS_AddElement
<1>5. IsFiniteSet(E)
  BY <1>4, FS_AddElement
<1>6. Phases = E \cup {"commit"}
  BY DEF Phases
<1> HIDE DEF E
<1> QED
  BY <1>5, <1>6, FS_AddElement

LEMMA SumPhases ==
    ASSUME NEW f \in [Phases -> Int]
    PROVE  Sum(f) = f["read_pre_state_ssz"] + f["deserialize_pre_state_ssz"]
                    + f["read_operation_input"] + f["process_operation"]
                    + f["merkleize_operation"] + f["commit"]
<1> DEFINE A == Phases \ {"read_pre_state_ssz"}
           B == A \ {"deserialize_pre_state_ssz"}
           C == B \ {"read_operation_input"}
           D == C \ {"process_operation"}
           E == D \ {"merkleize_operation"}
           F == E \ {"commit"}
<1>1. /\ "read_pre_state_ssz" \in Phases /\ "deserialize_pre_state_ssz" \in A
      /\ "read_operation_input" \in B /\ "process_operation" \in C
      /\ "merkleize_operation" \in D /\ "commit" \in E
      /\ F = {}
  BY DEF Phases
<1>2. /\ A \in SUBSET Phases /\ B \in SUBSET Phases /\ C \in SUBSET Phases
      /\ D \in SUBSET Phases /\ E \in SUBSET Phases
  OBVIOUS
<1>3. Sum(Only(f, Phases)) = f["read_pre_state_ssz"] + Sum(Only(f, A))
  BY <1>1, PhasesFinite, SumTake
<1>4. Sum(Only(f, A)) = f["deserialize_pre_state_ssz"] + Sum(Only(f, B))
  BY <1>1, <1>2, PhasesFinite, SumTake
<1>5. Sum(Only(f, B)) = f["read_operation_input"] + Sum(Only(f, C))
  <2> HIDE DEF B
  <2> QED
    BY <1>1, <1>2, PhasesFinite, SumTake
<1>6. Sum(Only(f, C)) = f["process_operation"] + Sum(Only(f, D))
  <2> HIDE DEF C
  <2> QED
    BY <1>1, <1>2, PhasesFinite, SumTake
<1>7. Sum(Only(f, D)) = f["merkleize_operation"] + Sum(Only(f, E))
  <2> HIDE DEF D
  <2> QED
    BY <1>1, <1>2, PhasesFinite, SumTake
<1>8. Sum(Only(f, E)) = f["commit"] + Sum(Only(f, F))
  <2> HIDE DEF E
  <2> QED
    BY <1>1, <1>2, PhasesFinite, SumTake
<1>9. Sum(Only(f, F)) = 0
  BY <1>1, SumEmpty DEF Only
<1>10. Only(f, Phases) = f
  BY DEF Only
<1>11. \A ph \in Phases : f[ph] \in Int
  OBVIOUS
<1>12. /\ f["read_pre_state_ssz"] \in Int /\ f["deserialize_pre_state_ssz"] \in Int
       /\ f["read_operation_input"] \in Int /\ f["process_operation"] \in Int
       /\ f["merkleize_operation"] \in Int /\ f["commit"] \in Int
  BY <1>11 DEF Phases
<1> HIDE DEF A, B, C, D, E, F
<1> QED
  BY <1>3, <1>4, <1>5, <1>6, <1>7, <1>8, <1>9, <1>10, <1>12

LEMMA SumZeros == Sum(Zeros) = 0
<1>1. /\ Zeros \in [Phases -> Int]
      /\ Zeros["read_pre_state_ssz"] = 0 /\ Zeros["deserialize_pre_state_ssz"] = 0
      /\ Zeros["read_operation_input"] = 0 /\ Zeros["process_operation"] = 0
      /\ Zeros["merkleize_operation"] = 0 /\ Zeros["commit"] = 0
  BY DEF Zeros, Phases
<1> HIDE DEF Zeros
<1> QED
  BY <1>1, SumPhases

\* The phases follow one another: what they take is within the total.
LEMMA PhasesWithinTotal ==
    ASSUME NEW c \in Cases
    PROVE  Sum([ph \in Phases |-> Cycles(c, ph)]) <= Total(c)
<1> DEFINE f == [ph \in Phases |-> Cycles(c, ph)]
           s == Figures[c].start
           e == Figures[c].end
<1>1. /\ s \in [Phases -> Nat] /\ e \in [Phases -> Nat]
      /\ \A ph \in Phases : Cycles(c, ph) \in Nat
  BY FiguresType
<1>2. \A i \in 1 .. 5 : e[PhaseOrder[i]] <= s[PhaseOrder[i + 1]]
  BY FiguresAssumption
<1>3. /\ e["read_pre_state_ssz"] <= s["deserialize_pre_state_ssz"]
      /\ e["deserialize_pre_state_ssz"] <= s["read_operation_input"]
      /\ e["read_operation_input"] <= s["process_operation"]
      /\ e["process_operation"] <= s["merkleize_operation"]
      /\ e["merkleize_operation"] <= s["commit"]
  <2>1. /\ PhaseOrder[1] = "read_pre_state_ssz"
        /\ PhaseOrder[2] = "deserialize_pre_state_ssz"
        /\ PhaseOrder[3] = "read_operation_input"
        /\ PhaseOrder[4] = "process_operation"
        /\ PhaseOrder[5] = "merkleize_operation"
        /\ PhaseOrder[6] = "commit"
    BY DEF PhaseOrder
  <2>2. /\ e[PhaseOrder[1]] <= s[PhaseOrder[2]] /\ e[PhaseOrder[2]] <= s[PhaseOrder[3]]
        /\ e[PhaseOrder[3]] <= s[PhaseOrder[4]] /\ e[PhaseOrder[4]] <= s[PhaseOrder[5]]
        /\ e[PhaseOrder[5]] <= s[PhaseOrder[6]]
    <3>1. /\ e[PhaseOrder[1]] <= s[PhaseOrder[1 + 1]]
          /\ e[PhaseOrder[2]] <= s[PhaseOrder[2 + 1]]
          /\ e[PhaseOrder[3]] <= s[PhaseOrder[3 + 1]]
          /\ e[PhaseOrder[4]] <= s[PhaseOrder[4 + 1]]
          /\ e[PhaseOrder[5]] <= s[PhaseOrder[5 + 1]]
      <4> HIDE DEF s, e
      <4> QED
        BY <1>2
    <3>2. 1 + 1 = 2 /\ 2 + 1 = 3 /\ 3 + 1 = 4 /\ 4 + 1 = 5 /\ 5 + 1 = 6
      OBVIOUS
    <3> QED
      BY <3>1, <3>2
  <2> QED
    BY <2>1, <2>2
<1>4. f \in [Phases -> Int]
  BY <1>1
<1>5. \A ph \in Phases : f[ph] = e[ph] - s[ph] /\ e[ph] \in Nat /\ s[ph] \in Nat
  BY <1>1 DEF Cycles
<1>6. /\ "read_pre_state_ssz" \in Phases /\ "deserialize_pre_state_ssz" \in Phases
      /\ "read_operation_input" \in Phases /\ "process_operation" \in Phases
      /\ "merkleize_operation" \in Phases /\ "commit" \in Phases
  BY DEF Phases
<1>7. Sum(f) = f["read_pre_state_ssz"] + f["deserialize_pre_state_ssz"]
               + f["read_operation_input"] + f["process_operation"]
               + f["merkleize_operation"] + f["commit"]
  BY <1>4, SumPhases
<1> HIDE DEF f, s, e
<1>8. Sum(f) <= e["commit"]
  BY <1>3, <1>5, <1>6, <1>7
<1> QED
  BY <1>8 DEF f, e, Total

\* The shares of a time are within it.
LEMMA SharesWithin ==
    ASSUME NEW a, a.execution_time_host_call \in Times,
           NEW cycles \in [Phases -> Nat], NEW total \in Nat,
           Sum(cycles) <= total
    PROVE  /\ Shares(a, cycles, total) \in [Phases -> Nat]
           /\ Sum(Shares(a, cycles, total)) <= a.execution_time_host_call.num
<1> DEFINE d == a.execution_time_host_call.num
           sh == Shares(a, cycles, total)
<1>1. d \in Nat
  BY DEF Times
<1>2. sh = [ph \in Phases |-> IF total > 0 THEN Share(d, cycles[ph], total) ELSE 0]
  BY DEF Shares
<1>3. \A ph \in Phases : cycles[ph] \in Nat
  OBVIOUS
<1> HIDE DEF d, sh
<1>4. CASE total > 0
  <2>1. \A ph \in Phases : /\ sh[ph] \in Nat
                           /\ total * sh[ph] <= d * cycles[ph] + 0
    <3>1. ASSUME NEW ph \in Phases
          PROVE  sh[ph] \in Nat /\ total * sh[ph] <= d * cycles[ph] + 0
      <4>1. sh[ph] = Share(d, cycles[ph], total)
        BY <1>2, <1>4
      <4>2. /\ Share(d, cycles[ph], total) \in Nat
            /\ total * Share(d, cycles[ph], total) <= d * cycles[ph]
        BY <1>1, <1>3, <1>4, ShareBounds
      <4> QED
        BY <1>1, <1>3, <4>1, <4>2
    <3> QED
      BY <3>1
  <2>2. sh \in [Phases -> Nat] /\ sh \in [Phases -> Int] /\ cycles \in [Phases -> Int]
    BY <1>2, <2>1
  <2>3. total \in Int /\ d \in Int /\ 0 \in Int
    BY <1>1
  <2>4. /\ Sum(sh) \in Int /\ Sum(cycles) \in Int
        /\ total * Sum(sh) <= d * Sum(cycles) + 0 * Cardinality(Phases)
    BY <2>1, <2>2, <2>3, PhasesFinite, SumLinear, Zenon
  <2>5. Cardinality(Phases) \in Nat
    BY PhasesFinite, FS_CardinalityType
  <2>6. ASSUME NEW n \in Int, NEW k \in Int, k <= total, total * n <= d * k
        PROVE  n <= d
    <3>1. d * k <= d * total
      BY <1>1, <2>6
    <3>2. CASE n >= d + 1
      <4>1. total * n >= total * (d + 1)
        BY <1>1, <1>4, <2>6, <3>2
      <4>2. total * (d + 1) = d * total + total
        BY <1>1
      <4> QED
        BY <1>1, <1>4, <2>6, <3>1, <4>1, <4>2
    <3> QED
      BY <1>1, <2>6, <3>2
  <2>7. total * Sum(sh) <= d * Sum(cycles)
    <3>1. 0 * Cardinality(Phases) = 0
      BY <2>5
    <3>2. d * Sum(cycles) + 0 = d * Sum(cycles)
      BY <1>1, <2>4
    <3> QED
      BY <2>4, <3>1, <3>2
  <2>8. Sum(sh) <= d
    BY <2>4, <2>6, <2>7
  <2> QED
    BY <2>2, <2>8 DEF sh, d
<1>5. CASE ~(total > 0)
  <2>1. sh = Zeros
    BY <1>2, <1>5 DEF Zeros
  <2>2. Zeros \in [Phases -> Nat]
    BY DEF Zeros
  <2>3. Sum(sh) <= d
    BY <1>1, <2>1, SumZeros
  <2> QED
    BY <2>1, <2>2, <2>3 DEF sh, d
<1> QED
  BY <1>4, <1>5

\* The branch the End block guesses is the one made for the backend.
LEMMA FormatGuess ==
    ASSUME NEW c \in Cases, NEW b \in BackendModes, NEW a, Complete(a, b, c)
    PROVE  Format(a) = IF Executes(b, "pico") THEN "pico"
                       ELSE IF Executes(b, "zisk") THEN "zisk"
                       ELSE IF Executes(b, "sp1") THEN "sp1"
                       ELSE "risc-zero"
<1>1. "read_pre_state_ssz" \in Phases
  BY DEF Phases
<1>2. /\ Figures[c].start["read_pre_state_ssz"] > 0
      /\ Cycles(c, "read_pre_state_ssz") > 0
      /\ Total(c) > 0
  BY <1>1, FiguresType
<1>3. Zeros["read_pre_state_ssz"] = 0
  BY <1>1 DEF Zeros
<1>4. CASE Executes(b, "pico")
  <2>1. ~Executes(b, "sp1") /\ ~Executes(b, "zisk") /\ b[1] # "risc-zero"
    BY <1>4, ExecutesIs
  <2>2. /\ a.cycles["read_pre_state_ssz"] = 0 /\ a.start["read_pre_state_ssz"] = 0
        /\ a.total_cycles > 0 /\ ~a.is_zisk
    BY <1>2, <1>3, <1>4, <2>1 DEF Complete, CyclesOf, StartsOf, TotalOf
  <2> QED
    BY <1>4, <2>2 DEF Format
<1>5. CASE Executes(b, "zisk")
  <2>1. ~Executes(b, "pico") /\ a.is_zisk
    BY <1>5, ExecutesIs DEF Complete
  <2> QED
    BY <1>5, <2>1 DEF Format
<1>6. CASE Executes(b, "sp1")
  <2>1. ~Executes(b, "pico") /\ ~Executes(b, "zisk")
    BY <1>6, ExecutesIs
  <2>2. a.cycles["read_pre_state_ssz"] > 0 /\ ~a.is_zisk
    BY <1>1, <1>2, <1>6, <2>1 DEF Complete, CyclesOf
  <2> QED
    BY <1>6, <2>1, <2>2 DEF Format
<1>7. CASE ~Executes(b, "pico") /\ ~Executes(b, "zisk") /\ ~Executes(b, "sp1")
  <2>1. /\ a.total_cycles = 0 /\ ~a.is_zisk
        /\ a.cycles["read_pre_state_ssz"] = 0
    BY <1>3, <1>7 DEF Complete, CyclesOf, TotalOf
  <2> QED
    BY <1>7, <2>1 DEF Format
<1> QED
  BY <1>4, <1>5, <1>6, <1>7

TimingType == [Stages -> [cycles : Nat, time : Nat]]

\* A row has the figures of its case, parts within their whole.
LEMMA RowOfCase ==
    ASSUME backend \in BackendModes, timing \in TimingType,
           NEW c \in Cases, NEW a, Complete(a, backend, c)
    PROVE  /\ PrintedRow(a) \in RowType
           /\ Reading(PrintedRow(a)) = TrueRow(backend, c)
           /\ zkvm # "zisk" => PartsWithinWhole(PrintedRow(a))
<1> DEFINE h == a.execution_time_host_call
           row == PrintedRow(a)
<1>1. /\ a.test_case = c /\ a.execution_time \in Times /\ h \in Times
      /\ Zeros \in [Phases -> Nat] /\ Zeros \in [Phases -> Int]
  <2>1. a \in AccType /\ a.test_case = c
    BY DEF Complete
  <2>2. a.execution_time \in Times /\ h \in Times
    BY <2>1 DEF AccType
  <2>3. Zeros \in [Phases -> Nat] /\ Zeros \in [Phases -> Int]
    BY DEF Zeros
  <2> QED
    BY <2>1, <2>2, <2>3
<1>2. Milliseconds(h) = IF HasTime(backend) THEN Figures[c].duration ELSE 0
  <2>1. Figures[c].duration \in Nat
    BY FiguresType
  <2>2. h \in HostCallsOf(backend, c)
    BY DEF Complete
  <2> HIDE DEF h
  <2> QED
    BY <2>1, <2>2, TimesAre DEF HostCallsOf
<1>3. ASSUME NEW cycles, NEW time, NEW total
      PROVE  /\ Row(a, cycles, time, total).test_case = c
             /\ Row(a, cycles, time, total).cycles = cycles
             /\ Row(a, cycles, time, total).time = time
             /\ Row(a, cycles, time, total).total = total
             /\ Row(a, cycles, time, total).host_call = h
  BY <1>1 DEF Row
<1>4. ASSUME NEW cycles \in [Phases -> Int], NEW time \in [Phases -> Int],
             NEW total \in Int
      PROVE  Row(a, cycles, time, total) \in RowType
  BY <1>1 DEF Row, RowType, Times
<1> HIDE DEF h
<1>5. \A f \in [Phases -> Nat] : f \in [Phases -> Int]
  OBVIOUS
<1>6. ASSUME NEW cycles \in [Phases -> Nat], NEW total \in Nat,
             Sum(cycles) <= total,
             row = Row(a, cycles, Shares(a, cycles, total), total)
      PROVE  row \in RowType /\ PartsWithinWhole(row)
  <2>1. /\ Shares(a, cycles, total) \in [Phases -> Nat]
        /\ Sum(Shares(a, cycles, total)) <= h.num
    BY <1>1, <1>6, SharesWithin DEF h
  <2>2. row \in RowType
    BY <1>4, <1>5, <1>6, <2>1
  <2> DEFINE time == Shares(a, cycles, total)
  <2>3. row.cycles = cycles /\ row.time = time /\ row.total = total /\ row.host_call = h
    BY <1>3, <1>6
  <2>4. \A ph \in Phases : cycles[ph] >= 0 /\ time[ph] >= 0
    BY <2>1
  <2> HIDE DEF row, time
  <2> QED
    BY <1>6, <2>1, <2>2, <2>3, <2>4 DEF PartsWithinWhole, Milliseconds, time
<1>7. CASE Executes(backend, "pico")
  <2>1. /\ ~Executes(backend, "sp1") /\ ~Executes(backend, "zisk")
        /\ zkvm = "pico" /\ backend[2] = "execute"
    BY <1>7, ExecutesIs DEF zkvm
  <2>2. row = Row(a, Zeros, Zeros, Total(c))
    <3>1. a.total_cycles = Total(c)
      BY <1>7 DEF Complete, TotalOf
    <3>2. Format(a) = "pico"
      BY <1>7, FormatGuess
    <3> QED
      BY <3>1, <3>2 DEF PrintedRow
  <2>3. Total(c) \in Nat
    BY FiguresType
  <2>4. row \in RowType
    BY <1>1, <1>4, <2>2, <2>3
  <2>5. PartsWithinWhole(row)
    <3>1. /\ row.cycles = Zeros /\ row.time = Zeros /\ row.total = Total(c)
          /\ row.host_call = h
      BY <1>3, <2>2
    <3>2. h.num \in Nat
      BY <1>1 DEF Times
    <3>3. \A ph \in Phases : Zeros[ph] = 0
      BY DEF Zeros
    <3> HIDE DEF row
    <3> QED
      BY <2>3, <3>1, <3>2, <3>3, SumZeros DEF PartsWithinWhole, Milliseconds
  <2>6. /\ ~HasPhases(backend) /\ HasTotal(backend)
    BY <1>7 DEF HasPhases, HasTotal, Executes
  <2>7. Reading(row) = TrueRow(backend, c)
    <3>1. /\ row.test_case = c /\ row.cycles = Zeros /\ row.total = Total(c)
          /\ row.host_call = h
      BY <1>3, <2>2
    <3> HIDE DEF row
    <3> QED
      BY <1>2, <2>1, <2>6, <3>1 DEF Reading, TrueRow, Zeros
  <2> QED
    BY <2>4, <2>5, <2>7
<1>8. CASE Executes(backend, "zisk")
  <2>1. /\ ~Executes(backend, "sp1") /\ ~Executes(backend, "pico")
        /\ zkvm = "zisk" /\ backend[2] = "execute"
    BY <1>8, ExecutesIs DEF zkvm
  <2> DEFINE cycles == [ph \in Phases |-> IF ph \in DOMAIN ColumnStage
                            THEN [s \in Stages |-> timing[s].cycles][ColumnStage[ph]]
                            ELSE 0]
             time == [ph \in Phases |-> IF ph \in DOMAIN ColumnStage
                            THEN [s \in Stages |-> timing[s].time][ColumnStage[ph]]
                            ELSE 0]
  <2>2. row = Row(a, cycles, time, Total(c))
    <3>1. a.total_cycles = Total(c)
      BY <1>8 DEF Complete, TotalOf
    <3>2. Format(a) = "zisk"
      BY <1>8, <2>1, FormatGuess
    <3> QED
      BY <3>1, <3>2 DEF PrintedRow
  <2>3. Total(c) \in Nat
    BY FiguresType
  <2>4. cycles \in [Phases -> Int] /\ time \in [Phases -> Int]
    <3>1. \A ph \in DOMAIN ColumnStage : ColumnStage[ph] \in Stages
      BY DEF ColumnStage, Stages
    <3>2. \A s \in Stages : timing[s].cycles \in Int /\ timing[s].time \in Int
      BY DEF TimingType
    <3>3. /\ \A ph \in Phases : cycles[ph] \in Int
          /\ \A ph \in Phases : time[ph] \in Int
      BY <3>1, <3>2
    <3> QED
      BY <3>3
  <2> HIDE DEF cycles, time
  <2>5. row \in RowType
    BY <1>4, <2>2, <2>3, <2>4
  <2>6. /\ ~HasPhases(backend) /\ HasTotal(backend)
    BY <1>8 DEF HasPhases, HasTotal, Executes
  <2>7. Reading(row) = TrueRow(backend, c)
    <3>1. row.test_case = c /\ row.total = Total(c) /\ row.host_call = h
      BY <1>3, <2>2
    <3> HIDE DEF row
    <3> QED
      BY <1>2, <2>1, <2>6, <3>1 DEF Reading, TrueRow, Zeros
  <2> QED
    BY <2>1, <2>5, <2>7
<1>9. CASE Executes(backend, "sp1")
  <2> DEFINE cycles == [ph \in Phases |-> Cycles(c, ph)]
  <2>1. /\ ~Executes(backend, "zisk") /\ ~Executes(backend, "pico")
        /\ zkvm = "sp1" /\ backend[2] = "execute"
    BY <1>9, ExecutesIs DEF zkvm
  <2>2. row = Row(a, cycles, Shares(a, cycles, Total(c)), Total(c))
    <3>1. a.total_cycles = Total(c) /\ a.cycles = cycles
      BY <1>9 DEF Complete, TotalOf, CyclesOf
    <3>2. Format(a) = "sp1"
      BY <1>9, <2>1, FormatGuess
    <3> HIDE DEF cycles
    <3> QED
      BY <3>1, <3>2 DEF PrintedRow
  <2>3. Total(c) \in Nat /\ cycles \in [Phases -> Nat] /\ Sum(cycles) <= Total(c)
    BY FiguresType, PhasesWithinTotal
  <2> HIDE DEF cycles
  <2>4. row \in RowType /\ PartsWithinWhole(row)
    BY <1>6, <2>2, <2>3
  <2>5. /\ HasPhases(backend) /\ HasTotal(backend)
    BY <1>9 DEF HasPhases, HasTotal, Executes
  <2>6. Reading(row) = TrueRow(backend, c)
    <3>1. /\ row.test_case = c /\ row.total = Total(c) /\ row.host_call = h
          /\ row.cycles = cycles
      BY <1>3, <2>2
    <3> HIDE DEF row
    <3> QED
      BY <1>2, <2>1, <2>5, <3>1 DEF Reading, TrueRow, cycles
  <2> QED
    BY <2>4, <2>6
<1>10. CASE backend[1] = "risc-zero"
  <2> DEFINE cycles == [ph \in Phases |-> Cycles(c, ph)]
  <2>1. /\ ~Executes(backend, "zisk") /\ ~Executes(backend, "pico")
        /\ ~Executes(backend, "sp1") /\ zkvm = "risc-zero"
    BY <1>10, ExecutesIs DEF zkvm
  <2>2. row = Row(a, cycles, Shares(a, cycles, Total(c)), Total(c))
    <3>1. a.start = Figures[c].start /\ a.end = Figures[c].end
      BY <1>10 DEF Complete, StartsOf, EndsOf
    <3>2. /\ [ph \in Phases |-> a.end[ph] - a.start[ph]] = cycles
          /\ a.end["commit"] = Total(c)
      BY <3>1 DEF Cycles, Total
    <3>3. Format(a) = "risc-zero"
      BY <2>1, FormatGuess
    <3> HIDE DEF cycles
    <3> QED
      BY <3>2, <3>3 DEF PrintedRow
  <2>3. Total(c) \in Nat /\ cycles \in [Phases -> Nat] /\ Sum(cycles) <= Total(c)
    BY FiguresType, PhasesWithinTotal
  <2> HIDE DEF cycles
  <2>4. row \in RowType /\ PartsWithinWhole(row)
    BY <1>6, <2>2, <2>3
  <2>5. /\ HasPhases(backend) /\ HasTotal(backend)
    BY <1>10 DEF HasPhases, HasTotal, BackendModes
  <2>6. Reading(row) = TrueRow(backend, c)
    <3>1. /\ row.test_case = c /\ row.total = Total(c) /\ row.host_call = h
          /\ row.cycles = cycles
      BY <1>3, <2>2
    <3> HIDE DEF row
    <3> QED
      BY <1>2, <2>1, <2>5, <3>1 DEF Reading, TrueRow, cycles
  <2> QED
    BY <2>4, <2>6
<1>11. CASE /\ ~Executes(backend, "zisk") /\ ~Executes(backend, "pico")
            /\ ~Executes(backend, "sp1") /\ backend[1] # "risc-zero"
  <2>1. row = Row(a, Zeros, Shares(a, Zeros, 0), 0)
    <3>1. a.start = Zeros /\ a.end = Zeros
      BY <1>11 DEF Complete, StartsOf, EndsOf
    <3>2. /\ [ph \in Phases |-> a.end[ph] - a.start[ph]] = Zeros
          /\ a.end["commit"] = 0
      BY <3>1 DEF Zeros, Phases
    <3>3. Format(a) = "risc-zero"
      BY <1>11, FormatGuess
    <3> HIDE DEF Zeros
    <3> QED
      BY <3>2, <3>3 DEF PrintedRow
  <2>2. row \in RowType /\ PartsWithinWhole(row)
    <3>1. Sum(Zeros) <= 0 /\ 0 \in Nat
      BY SumZeros
    <3> QED
      BY <1>1, <1>6, <2>1, <3>1
  <2>3. /\ ~HasPhases(backend) /\ ~HasTotal(backend)
    BY <1>11 DEF HasPhases, HasTotal, BackendModes, Executes
  <2>4. Reading(row) = TrueRow(backend, c)
    <3>1. /\ row.test_case = c /\ row.total = 0 /\ row.host_call = h
          /\ row.cycles = Zeros
      BY <1>3, <2>1
    <3> HIDE DEF row
    <3> QED
      BY <1>2, <2>3, <3>1 DEF Reading, TrueRow, Zeros
  <2> QED
    BY <2>2, <2>4
<1> QED
  BY <1>7, <1>8, <1>9, <1>10, <1>11

-----------------------------------------------------------------------------
(* The lines a run logs are the lines of its case *)

SkipLine(c) == Line("Skipping test case:", "", c)

SomeLine(c) ==
    {CaseLine(c), SkipLine(c),
     Line("Number of cycles:", "", Total(c)),
     Line("Execution cycles:", "", Total(c)),
     Line("execution time:", "", SdkTime(Figures[c].duration)),
     Line("Execution time:", "", Debug(Figures[c].duration)),
     Line("execution-time-host-call:", "", AsSecs(Figures[c].duration)),
     Line("execution-time-host-call:", "", Debug(Figures[c].duration)),
     Line("process_rom", "", [steps    |-> Total(c),
                              duration |-> Figures[c].duration])}
    \cup {Line("tracker", ph, Cycles(c, ph)) : ph \in Phases}
    \cup {Line("start", ph, Figures[c].start[ph]) : ph \in Phases}
    \cup {Line("end", ph, Figures[c].end[ph]) : ph \in Phases}

AnyLine == {EndLine} \cup GuestLine \cup UNION {SomeLine(c) : c \in Cases}

\* s holds the lines of c and, but for the first of them, all of them.
Tells(s, b, c) ==
    /\ s \in Seq(AnyLine)
    /\ \A x : In(x, s) => IsLineOf(x, b, c)
    /\ \A l : IsLineOf(l, b, c) => l = CaseLine(c) \/ In(l, s)

LEMMA IsAnyLine ==
    ASSUME NEW c \in Cases, NEW l, l \in SomeLine(c) \/ l = EndLine \/ l \in GuestLine
    PROVE  l \in AnyLine
BY DEF AnyLine

LEMMA Singles ==
    ASSUME NEW X, NEW p \in X
    PROVE  <<p>> \in Seq(X) /\ \A x : In(x, <<p>>) <=> x = p
<1>1. <<p>> \in Seq(X) /\ DOMAIN <<p>> = {1}
  OBVIOUS
<1> QED
  BY <1>1 DEF In

LEMMA Pairs ==
    ASSUME NEW X, NEW p \in X, NEW q \in X
    PROVE  <<p, q>> \in Seq(X) /\ \A x : In(x, <<p, q>>) <=> x = p \/ x = q
<1>1. <<p, q>> \in Seq(X) /\ DOMAIN <<p, q>> = {1, 2}
  OBVIOUS
<1> QED
  BY <1>1 DEF In

LEMMA Triples ==
    ASSUME NEW X
    PROVE  \A p, q, r \in X :
               /\ <<p, q, r>> \in Seq(X)
               /\ \A x : In(x, <<p, q, r>>) <=> x = p \/ x = q \/ x = r
<1> TAKE p, q, r \in X
<1>1. <<p, q, r>> \in Seq(X) /\ DOMAIN <<p, q, r>> = {1, 2, 3}
  OBVIOUS
<1>2. \A x : In(x, <<p, q, r>>) <=> x = p \/ x = q \/ x = r
  BY <1>1 DEF In
<1> QED
  BY <1>1, <1>2

LEMMA MarkerLinesAre ==
    ASSUME NEW c \in Cases
    PROVE  /\ MarkerLines(c) \in Seq(AnyLine)
           /\ \A x : In(x, MarkerLines(c)) <=>
                  \E ph \in Phases : \/ x = Line("start", ph, Figures[c].start[ph])
                                     \/ x = Line("end", ph, Figures[c].end[ph])
<1> DEFINE start(ph) == Line("start", ph, Figures[c].start[ph])
           end(ph)   == Line("end", ph, Figures[c].end[ph])
           parts == [i \in 1 .. 6 |-> <<start(PhaseOrder[i]), end(PhaseOrder[i])>>]
<1>1. /\ \A i \in 1 .. 6 : PhaseOrder[i] \in Phases
      /\ \A ph \in Phases : \E i \in 1 .. 6 : PhaseOrder[i] = ph
  BY DEF PhaseOrder, Phases
<1>2. \A ph \in Phases : start(ph) \in AnyLine /\ end(ph) \in AnyLine
  BY IsAnyLine DEF SomeLine
<1> HIDE DEF start, end
<1>3. ASSUME NEW i \in 1 .. 6
      PROVE  /\ parts[i] \in Seq(AnyLine)
             /\ \A x : In(x, parts[i]) <=> \/ x = start(PhaseOrder[i])
                                           \/ x = end(PhaseOrder[i])
  <2>1. parts[i] = <<start(PhaseOrder[i]), end(PhaseOrder[i])>>
    OBVIOUS
  <2>2. start(PhaseOrder[i]) \in AnyLine /\ end(PhaseOrder[i]) \in AnyLine
    BY <1>1, <1>2
  <2> QED
    BY <2>1, <2>2, Pairs
<1>4. parts \in Seq(Seq(AnyLine)) /\ DOMAIN parts = 1 .. 6
  BY <1>3
<1>5. parts # <<>>
  <2>1. 1 \in DOMAIN parts
    BY <1>4
  <2> HIDE DEF parts
  <2> QED
    BY <2>1
<1>6. MarkerLines(c) = FlattenSeq(parts)
  BY DEF MarkerLines, start, end
<1> HIDE DEF parts
<1>7. /\ FlattenSeq(parts) \in Seq(AnyLine)
      /\ \A x : In(x, FlattenSeq(parts)) <=> \E k \in DOMAIN parts : In(x, parts[k])
  BY <1>4, <1>5, FlattenElements
<1>8. ASSUME NEW x
      PROVE  In(x, FlattenSeq(parts)) <=>
                 \E ph \in Phases : x = start(ph) \/ x = end(ph)
  <2>1. ASSUME NEW k \in 1 .. 6, In(x, parts[k])
        PROVE  \E ph \in Phases : x = start(ph) \/ x = end(ph)
    BY <1>1, <1>3, <2>1
  <2>2. ASSUME NEW ph \in Phases, x = start(ph) \/ x = end(ph)
        PROVE  \E k \in 1 .. 6 : In(x, parts[k])
    BY <1>1, <1>3, <2>2
  <2> QED
    BY <1>4, <1>7, <2>1, <2>2
<1> QED
  BY <1>6, <1>7, <1>8 DEF start, end

LEMMA Sp1Tells ==
    ASSUME NEW c \in Cases, NEW order \in Orders, NEW b, Executes(b, "sp1")
    PROVE  Tells(Sp1Lines(c, order), b, c)
<1> DEFINE number == Line("Number of cycles:", "", Total(c))
           host == Line("execution-time-host-call:", "", AsSecs(Figures[c].duration))
           tracker(ph) == Line("tracker", ph, Cycles(c, ph))
           p == <<CaseLine(c), number, host>>
           q == [i \in 1 .. 6 |-> tracker(order[i])]
<1>1. /\ \A i \in 1 .. 6 : order[i] \in Phases
      /\ \A ph \in Phases : \E i \in 1 .. 6 : order[i] = ph
  BY OrdersAssumption
<1>2. /\ CaseLine(c) \in AnyLine /\ number \in AnyLine /\ host \in AnyLine
      /\ \A ph \in Phases : tracker(ph) \in AnyLine
  BY IsAnyLine DEF SomeLine
<1>3. Sp1Lines(c, order) = p \o q
  BY DEF Sp1Lines
<1>4. /\ ~Executes(b, "zisk") /\ ~Executes(b, "pico") /\ ~Executes(b, "risc-zero")
      /\ b[1] # "risc-zero" /\ b[1] # "jolt"
  BY ExecutesIs
<1>5. \A l : IsLineOf(l, b, c) <=> \/ l = CaseLine(c) \/ l = number \/ l = host
                                   \/ \E ph \in Phases : l = tracker(ph)
  BY <1>4 DEF IsLineOf
<1> HIDE DEF number, host, tracker
<1>6. p \in Seq(AnyLine) /\ \A x : In(x, p) <=> x = CaseLine(c) \/ x = number \/ x = host
  BY <1>2, Triples
<1>7. q \in Seq(AnyLine)
  BY <1>1, <1>2
<1>8. \A x : In(x, q) <=> \E ph \in Phases : x = tracker(ph)
  <2>1. DOMAIN q = 1 .. 6 /\ \A i \in 1 .. 6 : q[i] = tracker(order[i])
    OBVIOUS
  <2> HIDE DEF q
  <2>2. ASSUME NEW x, In(x, q) PROVE \E ph \in Phases : x = tracker(ph)
    BY <1>1, <2>1, <2>2 DEF In
  <2>3. ASSUME NEW x, NEW ph \in Phases, x = tracker(ph) PROVE In(x, q)
    BY <1>1, <2>1, <2>3 DEF In
  <2> QED
    BY <2>2, <2>3
<1> HIDE DEF p, q
<1>9. p \o q \in Seq(AnyLine)
  BY <1>6, <1>7
<1>10. \A x : In(x, p \o q) <=> In(x, p) \/ In(x, q)
  BY <1>6, <1>7, ConcatElements
<1> QED
  BY <1>3, <1>5, <1>6, <1>8, <1>9, <1>10 DEF Tells

LEMMA RiscZeroTells ==
    ASSUME NEW c \in Cases, NEW b, b[1] = "risc-zero"
    PROVE  /\ Executes(b, "risc-zero") => Tells(RiscZeroLines(c), b, c)
           /\ ~Executes(b, "risc-zero") => Tells(MarkerLines(c), b, c)
<1> DEFINE time == Line("execution time:", "", SdkTime(Figures[c].duration))
           host == Line("execution-time-host-call:", "", Debug(Figures[c].duration))
           marker(l) == \E ph \in Phases :
                            \/ l = Line("start", ph, Figures[c].start[ph])
                            \/ l = Line("end", ph, Figures[c].end[ph])
           p == MarkerLines(c)
           q == <<time, host, CaseLine(c)>>
<1>1. CaseLine(c) \in AnyLine /\ time \in AnyLine /\ host \in AnyLine
  BY IsAnyLine DEF SomeLine
<1>2. RiscZeroLines(c) = p \o q
  BY DEF RiscZeroLines
<1>3. /\ ~Executes(b, "zisk") /\ ~Executes(b, "pico") /\ ~Executes(b, "sp1")
      /\ b[1] # "jolt"
  BY ExecutesIs
<1>4. \A l : IsLineOf(l, b, c) <=>
                 \/ l = CaseLine(c) \/ marker(l)
                 \/ Executes(b, "risc-zero") /\ (l = time \/ l = host)
  BY <1>3 DEF IsLineOf
<1>5. p \in Seq(AnyLine) /\ \A x : In(x, p) <=> marker(x)
  BY MarkerLinesAre
<1> HIDE DEF time, host, marker, p
<1>6. q \in Seq(AnyLine) /\ \A x : In(x, q) <=> x = time \/ x = host \/ x = CaseLine(c)
  BY <1>1, Triples
<1> HIDE DEF q
<1>7. p \o q \in Seq(AnyLine)
  BY <1>5, <1>6
<1>8. \A x : In(x, p \o q) <=> In(x, p) \/ In(x, q)
  BY <1>5, <1>6, ConcatElements
<1>9. CASE Executes(b, "risc-zero")
  BY <1>2, <1>4, <1>5, <1>6, <1>7, <1>8, <1>9 DEF Tells
<1>10. CASE ~Executes(b, "risc-zero")
  <2>1. Tells(p, b, c)
    BY <1>4, <1>5, <1>10 DEF Tells
  <2> QED
    BY <1>10, <2>1 DEF p
<1> QED
  BY <1>9, <1>10

LEMMA PicoTells ==
    ASSUME NEW c \in Cases, NEW b, Executes(b, "pico")
    PROVE  Tells(PicoLines(c), b, c)
<1> DEFINE time == Line("Execution time:", "", Debug(Figures[c].duration))
           host == Line("execution-time-host-call:", "", AsSecs(Figures[c].duration))
           number == Line("Execution cycles:", "", Total(c))
           s == <<time, host, number, CaseLine(c)>>
<1>1. /\ CaseLine(c) \in AnyLine /\ time \in AnyLine /\ host \in AnyLine
      /\ number \in AnyLine
  BY IsAnyLine DEF SomeLine
<1>2. PicoLines(c) = s
  BY DEF PicoLines
<1>3. /\ ~Executes(b, "zisk") /\ ~Executes(b, "sp1") /\ ~Executes(b, "risc-zero")
      /\ b[1] # "jolt" /\ b[1] # "risc-zero"
  BY ExecutesIs
<1>4. \A l : IsLineOf(l, b, c) <=> \/ l = CaseLine(c) \/ l = time \/ l = host
                                   \/ l = number
  BY <1>3 DEF IsLineOf
<1> HIDE DEF time, host, number
<1>5. s \in Seq(AnyLine) /\ DOMAIN s = {1, 2, 3, 4}
  BY <1>1
<1>6. \A x : In(x, s) <=> x = time \/ x = host \/ x = number \/ x = CaseLine(c)
  BY <1>5 DEF In
<1> HIDE DEF s
<1> QED
  BY <1>2, <1>4, <1>5, <1>6 DEF Tells

LEMMA JoltTells ==
    ASSUME NEW c \in Cases, NEW b, b[1] = "jolt"
    PROVE  Tells(JoltLines(c), b, c)
<1> DEFINE time == Line("Execution time:", "", Debug(Figures[c].duration))
           s == <<CaseLine(c), time>>
<1>1. CaseLine(c) \in AnyLine /\ time \in AnyLine
  BY IsAnyLine DEF SomeLine
<1>2. JoltLines(c) = s
  BY DEF JoltLines
<1>3. /\ ~Executes(b, "zisk") /\ ~Executes(b, "sp1") /\ ~Executes(b, "risc-zero")
      /\ ~Executes(b, "pico") /\ b[1] # "risc-zero"
  BY ExecutesIs
<1>4. \A l : IsLineOf(l, b, c) <=> l = CaseLine(c) \/ l = time
  BY <1>3 DEF IsLineOf
<1> HIDE DEF time
<1>5. s \in Seq(AnyLine) /\ \A x : In(x, s) <=> x = CaseLine(c) \/ x = time
  BY <1>1, Pairs
<1> HIDE DEF s
<1> QED
  BY <1>2, <1>4, <1>5 DEF Tells

RomLine(c) == Line("process_rom", "", [steps    |-> Total(c),
                                       duration |-> Figures[c].duration])

LEMMA ZiskOutputIs ==
    ASSUME NEW c \in Cases
    PROVE  /\ ZiskOutput(c) \in Seq(AnyLine)
           /\ \A x : In(x, ZiskOutput(c)) <=> In(x, GuestLines) \/ x = RomLine(c)
<1>1. RomLine(c) \in AnyLine
  BY IsAnyLine DEF SomeLine, RomLine
<1>2. ZiskOutput(c) = GuestLines \o <<RomLine(c)>>
  BY DEF ZiskOutput, RomLine
<1>3. GuestLines \in Seq(AnyLine)
  <2>1. ASSUME NEW X, NEW Y, X \subseteq Y, NEW s \in Seq(X) PROVE s \in Seq(Y)
    BY <2>1
  <2>2. GuestLine \subseteq AnyLine
    BY DEF AnyLine
  <2> QED
    BY <2>1, <2>2, GuestLinesAre
<1>4. <<RomLine(c)>> \in Seq(AnyLine) /\ \A x : In(x, <<RomLine(c)>>) <=> x = RomLine(c)
  BY <1>1, Singles
<1>5. GuestLines \o <<RomLine(c)>> \in Seq(AnyLine)
  BY <1>3, <1>4
<1>6. \A x : In(x, GuestLines \o <<RomLine(c)>>)
                <=> In(x, GuestLines) \/ In(x, <<RomLine(c)>>)
  BY <1>3, <1>4, ConcatElements
<1> QED
  BY <1>2, <1>4, <1>5, <1>6

LEMMA ZiskTells ==
    ASSUME NEW c \in Cases, NEW b, Executes(b, "zisk")
    PROVE  Tells(ZiskOutput(c), b, c)
<1>1. /\ ~Executes(b, "pico") /\ ~Executes(b, "sp1") /\ ~Executes(b, "risc-zero")
      /\ b[1] # "jolt" /\ b[1] # "risc-zero"
  BY ExecutesIs
<1>2. \A l : IsLineOf(l, b, c) <=> \/ l = CaseLine(c) \/ In(l, GuestLines)
                                   \/ l = RomLine(c)
  BY <1>1 DEF IsLineOf, RomLine
<1> QED
  BY <1>2, ZiskOutputIs DEF Tells

\* Blocks that hold the lines of c and, but for the first of them, all of them.
BlocksTell(r, b, c) ==
    /\ r \in Seq(Seq(AnyLine))
    /\ \A k \in DOMAIN r : \A x : In(x, r[k]) => IsLineOf(x, b, c)
    /\ \A l : IsLineOf(l, b, c) => l = CaseLine(c) \/ \E k \in DOMAIN r : In(l, r[k])

LEMMA BlocksTellToo ==
    ASSUME NEW s, NEW b, NEW c, Tells(s, b, c)
    PROVE  BlocksTell(Blocks(s), b, c) /\ BlocksTell(<<s>>, b, c)
<1>1. s \in Seq(AnyLine)
  BY DEF Tells
<1>2. Blocks(s) \in Seq(Seq(AnyLine)) /\ DOMAIN Blocks(s) = DOMAIN s
  <2>1. \A i \in DOMAIN s : <<s[i]>> \in Seq(AnyLine)
    <3>1. \A i \in DOMAIN s : s[i] \in AnyLine
      BY <1>1
    <3> QED
      BY <3>1, Singles
  <2>2. DOMAIN s = 1 .. Len(s) /\ Len(s) \in Nat
    BY <1>1
  <2> QED
    BY <2>1, <2>2 DEF Blocks
<1>3. ASSUME NEW k \in DOMAIN s
      PROVE  \A x : In(x, Blocks(s)[k]) <=> x = s[k]
  <2>1. Blocks(s)[k] = <<s[k]>> /\ s[k] \in AnyLine
    BY <1>1 DEF Blocks
  <2> QED
    BY <2>1, Singles
<1>4. BlocksTell(Blocks(s), b, c)
  BY <1>2, <1>3 DEF BlocksTell, Tells, In
<1>5. /\ <<s>> \in Seq(Seq(AnyLine))
      /\ DOMAIN <<s>> = {1} /\ <<s>>[1] = s
  BY <1>1
<1>6. BlocksTell(<<s>>, b, c)
  BY <1>5 DEF BlocksTell, Tells
<1> QED
  BY <1>4, <1>6

LEMMA RunnerTells ==
    ASSUME backend \in BackendModes, NEW c \in Cases, NEW order \in Orders
    PROVE  /\ BlocksTell(RunnerLines(c, order), backend, c)
           /\ zkvm = "zisk" => \A k \in DOMAIN RunnerLines(c, order) :
                                   /\ RunnerLines(c, order)[k] = ZiskOutput(c)
                                   /\ mode = "execute"
<1> DEFINE r == RunnerLines(c, order)
<1>1. /\ backend = <<zkvm, mode>> /\ mode \in {"execute", "prove"}
      /\ zkvm \in {"sp1", "risc-zero", "zisk", "pico", "jolt"}
  BY DEF BackendModes, zkvm, mode
<1>2. \A name : Executes(backend, name) <=> zkvm = name /\ mode = "execute"
  BY <1>1 DEF Executes
<1>3. CASE zkvm = "sp1" /\ mode = "execute"
  <2>1. r = Blocks(Sp1Lines(c, order))
    BY <1>3 DEF RunnerLines
  <2> QED
    BY <1>2, <1>3, <2>1, Sp1Tells, BlocksTellToo
<1>4. CASE zkvm = "risc-zero" /\ mode = "execute"
  <2>1. r = Blocks(RiscZeroLines(c))
    BY <1>4 DEF RunnerLines
  <2> QED
    BY <1>2, <1>4, <2>1, RiscZeroTells, BlocksTellToo DEF zkvm
<1>5. CASE zkvm = "risc-zero" /\ mode = "prove"
  <2>1. r = Blocks(MarkerLines(c))
    BY <1>5 DEF RunnerLines
  <2> QED
    BY <1>2, <1>5, <2>1, RiscZeroTells, BlocksTellToo DEF zkvm
<1>6. CASE zkvm = "pico" /\ mode = "execute"
  <2>1. r = Blocks(PicoLines(c))
    BY <1>6 DEF RunnerLines
  <2> QED
    BY <1>2, <1>6, <2>1, PicoTells, BlocksTellToo
<1>7. CASE zkvm = "zisk" /\ mode = "execute"
  <2>1. r = <<ZiskOutput(c)>>
    BY <1>7 DEF RunnerLines
  <2>2. DOMAIN r = {1} /\ r[1] = ZiskOutput(c)
    BY <2>1
  <2>3. BlocksTell(r, backend, c)
    BY <1>2, <1>7, <2>1, ZiskTells, BlocksTellToo
  <2> HIDE DEF r
  <2> QED
    BY <1>7, <2>2, <2>3 DEF r
<1>8. CASE zkvm = "jolt"
  <2>1. r = Blocks(JoltLines(c))
    BY <1>8 DEF RunnerLines
  <2> QED
    BY <1>8, <2>1, JoltTells, BlocksTellToo DEF zkvm
<1>9. CASE zkvm \notin {"risc-zero", "jolt"} /\ mode = "prove"
  <2>1. r = <<>>
    BY <1>9 DEF RunnerLines
  <2>2. \A l : IsLineOf(l, backend, c) => l = CaseLine(c)
    BY <1>2, <1>9 DEF IsLineOf, zkvm
  <2>3. r \in Seq(Seq(AnyLine)) /\ DOMAIN r = {}
    BY <2>1
  <2> HIDE DEF r
  <2> QED
    BY <2>2, <2>3 DEF BlocksTell, r
<1> QED
  BY <1>1, <1>3, <1>4, <1>5, <1>6, <1>7, <1>8, <1>9

-----------------------------------------------------------------------------
(* The inductive invariant.

   Every line of the log belongs to a case by its place: own numbers the lines,
   one more after each End line.  What is numbered k <= Len(reported) is of
   reported[k]; what comes after the last End line is of the case that runs. *)

IsEnd(l) == l.tag = "Cycle Tracker End"

Ordered(own, lg, t, r) ==
    /\ own \in [1 .. Len(lg) -> Nat]
    /\ t <= r
    /\ lg = <<>> => t = r
    /\ lg # <<>> => own[1] = t + 1
    /\ lg # <<>> => own[Len(lg)] = IF IsEnd(lg[Len(lg)]) THEN r ELSE r + 1
    /\ \A i \in 1 .. Len(lg) - 1 :
           own[i + 1] = IF IsEnd(lg[i]) THEN own[i] + 1 ELSE own[i]
    /\ \A i, j \in 1 .. Len(lg) :
           i < j => own[i] <= own[j] /\ (IsEnd(lg[i]) => own[i] < own[j])
    /\ \A i \in 1 .. Len(lg) : /\ t + 1 <= own[i] /\ own[i] <= r + 1
                               /\ IsEnd(lg[i]) => own[i] <= r

CaseOf(k) == IF k <= Len(reported) THEN reported[k] ELSE case

Numbered(own, l, k) == \E i \in 1 .. Len(log) : own[i] = k /\ log[i] = l

\* A line numbered k is of that case.
Placed(l, k) ==
    \/ IsEnd(l) \/ l.tag = "Skipping test case:"
    \/ /\ CaseOf(k) \in Cases
       /\ IsLineOf(l, backend, CaseOf(k))
       /\ k = Len(reported) + 1 => lines # <<>>

Assigned(own) == \A i \in 1 .. Len(log) : Placed(log[i], own[i])

\* No line of a case that has no row yet is missing: it is in the log or, of the
\* case the script is at, was read.
NoneMissing(own) ==
    \A k \in Len(table) + 1 .. Len(reported) : \A l :
        IsLineOf(l, backend, reported[k]) =>
            \/ Numbered(own, l, k)
            \/ /\ stage = "parse" /\ k = Len(table) + 1
               /\ Took(acc, l, backend, reported[k])

\* Of the case that runs, it may still have to be logged.
Coming(own) ==
    stage = "run" /\ lines # <<>> => \A l :
        IsLineOf(l, backend, case) =>
            \/ Numbered(own, l, Len(reported) + 1)
            \/ \E n \in 1 .. Len(lines) - 1 : In(l, lines[n])

Attributed(own) == Assigned(own) /\ NoneMissing(own) /\ Coming(own)

LogInv == \E own : Ordered(own, log, Len(table), Len(reported)) /\ Attributed(own)

ControlInv ==
    /\ backend \in Backends
    /\ todo \subseteq Cases
    /\ reported \in Seq(Cases)
    /\ \A i \in 1 .. Len(reported) : reported[i] \notin todo
    /\ stage \in {"run", "analyse", "parse"}
    /\ stage # "parse" => acc = Fresh /\ table = <<>>
    /\ log \in Seq(AnyLine)

CaseInv == case \in Cases \cup {""}

LinesInv ==
    /\ lines \in Seq(Seq(AnyLine))
    /\ lines # <<>> =>
           /\ case \in Cases
           /\ case \notin todo
           /\ \A i \in 1 .. Len(reported) : reported[i] # case
           /\ lines[Len(lines)] = <<EndLine>>
           /\ \A n \in 1 .. Len(lines) - 1 :
                  /\ \A x : In(x, lines[n]) => IsLineOf(x, backend, case)
                  /\ zkvm = "zisk" =>
                         \/ lines[n] = <<CaseLine(case)>>
                         \/ lines[n] = ZiskOutput(case) /\ mode = "execute"

AccInv ==
    \/ acc = Fresh
    \/ /\ CaseOf(Len(table) + 1) \in Cases
       /\ Between(acc, backend, CaseOf(Len(table) + 1))

RowsInv ==
    /\ table \in Seq(RowType)
    /\ \A i \in 1 .. Len(table) :
           \E a : Complete(a, backend, reported[i]) /\ table[i] = PrintedRow(a)

\* ZISK's guest prints the same for every case, so that the weights of the
\* stages keep their proportions as the log grows.
TimingInv ==
    /\ timing \in TimingType
    /\ zkvm = "zisk" /\ stage # "parse" =>
           \E m \in Nat :
               /\ \A s \in Stages : Weight(log, s) = m * Weight(GuestLines, s)
               /\ (\E i \in 1 .. Len(log) : log[i].tag = "process_rom") => m >= 1
    /\ zkvm = "zisk" /\ mode = "execute" /\ stage = "parse" /\ reported # <<>> =>
           timing = ShellVars(ZiskOutput(reported[1]))

Inv == /\ ControlInv /\ CaseInv /\ LinesInv /\ LogInv /\ AccInv /\ RowsInv /\ TimingInv

-----------------------------------------------------------------------------
(* How the numbers of the lines change *)

\* m lines of the case numbered k come after n others.
Extended(own, n, m, k) == [i \in 1 .. n + m |-> IF i <= n THEN own[i] ELSE k]

LEMMA ExtendedOrder ==
    ASSUME NEW lg \in Seq(AnyLine), NEW t \in Nat, NEW r \in Nat,
           NEW own, Ordered(own, lg, t, r),
           NEW block \in Seq(AnyLine), block # <<>>,
           \A i \in 1 .. Len(block) - 1 : ~IsEnd(block[i])
    PROVE  Ordered(Extended(own, Len(lg), Len(block), r + 1), lg \o block, t,
                   IF IsEnd(block[Len(block)]) THEN r + 1 ELSE r)
<1> DEFINE n == Len(lg)
           m == Len(block)
           both == lg \o block
           new == Extended(own, n, m, r + 1)
           last == IF IsEnd(block[m]) THEN r + 1 ELSE r
<1>1. n \in Nat /\ m \in Nat /\ m >= 1
  OBVIOUS
<1>2. /\ both \in Seq(AnyLine) /\ Len(both) = n + m
      /\ \A i \in 1 .. n : both[i] = lg[i]
      /\ \A i \in n + 1 .. n + m : both[i] = block[i - n]
  OBVIOUS
<1>3. /\ new \in [1 .. n + m -> Nat]
      /\ \A i \in 1 .. n : new[i] = own[i]
      /\ \A i \in n + 1 .. n + m : new[i] = r + 1
  <2>1. own \in [1 .. n -> Nat]
    BY DEF Ordered
  <2> QED
    BY <1>1, <2>1 DEF Extended
<1>4. \A i \in 1 .. n : /\ t + 1 <= own[i] /\ own[i] <= r + 1
                        /\ IsEnd(lg[i]) => own[i] <= r
  BY DEF Ordered
<1>5. \A i \in n + 1 .. n + m - 1 : ~IsEnd(both[i])
  BY <1>1, <1>2
<1>6. both[n + m] = block[m] /\ both # <<>>
  BY <1>1, <1>2
<1>7. t <= last /\ r <= last
  BY DEF Ordered
<1> HIDE DEF new, both
<1>8. new[1] = t + 1
  <2>1. CASE n = 0
    BY <1>1, <1>3, <2>1 DEF Ordered
  <2>2. CASE n > 0
    BY <1>1, <1>3, <2>2 DEF Ordered
  <2> QED
    BY <1>1, <2>1, <2>2
<1>9. new[n + m] = IF IsEnd(both[n + m]) THEN last ELSE last + 1
  BY <1>1, <1>3, <1>6
<1>10. ASSUME NEW i \in 1 .. n + m - 1
       PROVE  new[i + 1] = IF IsEnd(both[i]) THEN new[i] + 1 ELSE new[i]
  <2>1. CASE i < n
    <3>1. i \in 1 .. n - 1 /\ i \in 1 .. n /\ i + 1 \in 1 .. n
      BY <1>1, <2>1
    <3>2. own[i + 1] = IF IsEnd(lg[i]) THEN own[i] + 1 ELSE own[i]
      BY <3>1 DEF Ordered
    <3> QED
      BY <1>2, <1>3, <3>1, <3>2
  <2>2. CASE i = n
    <3>1. lg # <<>> /\ i \in 1 .. n /\ i + 1 \in n + 1 .. n + m
      BY <1>1, <2>2
    <3>2. own[n] = IF IsEnd(lg[n]) THEN r ELSE r + 1
      BY <3>1 DEF Ordered
    <3> QED
      BY <1>2, <1>3, <2>2, <3>1, <3>2
  <2>3. CASE i > n
    <3>1. i \in n + 1 .. n + m - 1 /\ i \in n + 1 .. n + m /\ i + 1 \in n + 1 .. n + m
      BY <1>1, <2>3
    <3> QED
      BY <1>3, <1>5, <3>1
  <2> QED
    BY <1>1, <2>1, <2>2, <2>3
<1>11. ASSUME NEW i \in 1 .. n + m, NEW j \in 1 .. n + m, i < j
       PROVE  new[i] <= new[j] /\ (IsEnd(both[i]) => new[i] < new[j])
  <2>1. CASE j <= n
    <3>1. i \in 1 .. n /\ j \in 1 .. n
      BY <1>1, <1>11, <2>1
    <3>2. own[i] <= own[j] /\ (IsEnd(lg[i]) => own[i] < own[j])
      BY <1>11, <3>1 DEF Ordered
    <3> QED
      BY <1>2, <1>3, <3>1, <3>2
  <2>2. CASE i <= n /\ j > n
    <3>1. i \in 1 .. n /\ j \in n + 1 .. n + m
      BY <1>1, <2>2
    <3>2. own[i] \in Nat
      BY <3>1 DEF Ordered
    <3> QED
      BY <1>2, <1>3, <1>4, <3>1, <3>2
  <2>3. CASE i > n
    <3>1. i \in n + 1 .. n + m - 1 /\ i \in n + 1 .. n + m /\ j \in n + 1 .. n + m
      BY <1>1, <1>11, <2>3
    <3> QED
      BY <1>3, <1>5, <3>1
  <2> QED
    BY <1>1, <2>1, <2>2, <2>3
<1>12. ASSUME NEW i \in 1 .. n + m
       PROVE  /\ t + 1 <= new[i] /\ new[i] <= last + 1
              /\ IsEnd(both[i]) => new[i] <= last
  <2>1. CASE i <= n
    <3>1. i \in 1 .. n /\ own[i] \in Nat
      BY <1>1, <2>1 DEF Ordered
    <3> QED
      BY <1>2, <1>3, <1>4, <1>7, <3>1
  <2>2. CASE i > n /\ i < n + m
    <3>1. i \in n + 1 .. n + m - 1 /\ i \in n + 1 .. n + m
      BY <1>1, <2>2
    <3> QED
      BY <1>3, <1>5, <1>7, <3>1 DEF Ordered
  <2>3. CASE i = n + m
    <3>1. i \in n + 1 .. n + m
      BY <1>1, <2>3
    <3> QED
      BY <1>3, <1>6, <1>7, <2>3, <3>1 DEF Ordered
  <2> QED
    BY <1>1, <2>1, <2>2, <2>3
<1>13. last \in Nat
  OBVIOUS
<1> HIDE DEF last
<1>14. Ordered(new, both, t, last)
  BY <1>2, <1>3, <1>6, <1>7, <1>8, <1>9, <1>10, <1>11, <1>12, <1>13 DEF Ordered
<1> QED
  BY <1>14 DEF new, both, last

\* The script has read the first line.
LEMMA TailOrder ==
    ASSUME NEW lg \in Seq(AnyLine), lg # <<>>, NEW t \in Nat, NEW r \in Nat,
           NEW own, Ordered(own, lg, t, r)
    PROVE  /\ own[1] = t + 1
           /\ IsEnd(Head(lg)) => t < r
           /\ Ordered([i \in 1 .. Len(lg) - 1 |-> own[i + 1]], Tail(lg),
                      IF IsEnd(Head(lg)) THEN t + 1 ELSE t, r)
<1> DEFINE n == Len(lg) - 1
           new == [i \in 1 .. n |-> own[i + 1]]
           rest == Tail(lg)
           first == IF IsEnd(Head(lg)) THEN t + 1 ELSE t
<1>1. n \in Nat /\ Len(lg) = n + 1 /\ Head(lg) = lg[1]
  OBVIOUS
<1>2. Len(rest) = n /\ \A i \in 1 .. n : rest[i] = lg[i + 1]
  OBVIOUS
<1>3. own \in [1 .. n + 1 -> Nat] /\ own[1] = t + 1 /\ t <= r
  BY <1>1 DEF Ordered
<1>4. new \in [1 .. n -> Nat] /\ \A i \in 1 .. n : new[i] = own[i + 1]
  BY <1>3
<1>5. own[n + 1] = IF IsEnd(lg[n + 1]) THEN r ELSE r + 1
  BY <1>1 DEF Ordered
<1>6. \A i \in 1 .. n : own[i + 1] = IF IsEnd(lg[i]) THEN own[i] + 1 ELSE own[i]
  BY <1>1 DEF Ordered
<1>7. \A i, j \in 1 .. n + 1 :
          i < j => own[i] <= own[j] /\ (IsEnd(lg[i]) => own[i] < own[j])
  BY <1>1 DEF Ordered
<1>8. \A i \in 1 .. n + 1 : /\ t + 1 <= own[i] /\ own[i] <= r + 1
                            /\ IsEnd(lg[i]) => own[i] <= r
  BY <1>1 DEF Ordered
<1>9. first \in Nat /\ first <= r /\ (IsEnd(Head(lg)) => t < r)
  BY <1>1, <1>3, <1>8
<1>10. n = 0 => first = r
  <2> HIDE DEF n
  <2> SUFFICES ASSUME n = 0 PROVE first = r
    OBVIOUS
  <2>1. n + 1 = 1
    OBVIOUS
  <2>2. own[1] = IF IsEnd(lg[1]) THEN r ELSE r + 1
    BY <1>5, <2>1
  <2> QED
    BY <1>1, <1>3, <2>2
<1>11. n > 0 => own[2] = first + 1
  BY <1>1, <1>3, <1>6
<1>12. rest = <<>> <=> n = 0
  <2>1. rest \in Seq(AnyLine)
    OBVIOUS
  <2> HIDE DEF rest, n
  <2> QED
    BY <1>2, <2>1
<1> HIDE DEF new, rest, first, n
<1>13. \A i \in 1 .. n : first + 1 <= own[i + 1]
  <2> SUFFICES ASSUME NEW i \in 1 .. n PROVE first + 1 <= own[i + 1]
    OBVIOUS
  <2>1. n > 0 /\ 2 \in 1 .. n + 1 /\ i + 1 \in 1 .. n + 1 /\ (i = 1 \/ 2 < i + 1)
    BY <1>1
  <2>2. own[2] <= own[i + 1]
    BY <1>3, <1>7, <2>1
  <2> QED
    BY <1>3, <1>9, <1>11, <2>1, <2>2
<1>14. n > 0 => new[1] = first + 1 /\ new[n] = IF IsEnd(rest[n]) THEN r ELSE r + 1
  BY <1>1, <1>2, <1>4, <1>5, <1>11
<1>15. \A i \in 1 .. n - 1 : new[i + 1] = IF IsEnd(rest[i]) THEN new[i] + 1 ELSE new[i]
  <2> SUFFICES ASSUME NEW i \in 1 .. n - 1
               PROVE  new[i + 1] = IF IsEnd(rest[i]) THEN new[i] + 1 ELSE new[i]
    OBVIOUS
  <2>1. i \in 1 .. n /\ i + 1 \in 1 .. n
    BY <1>1
  <2> QED
    BY <1>2, <1>4, <1>6, <2>1
<1>16. \A i, j \in 1 .. n :
           i < j => new[i] <= new[j] /\ (IsEnd(rest[i]) => new[i] < new[j])
  <2> SUFFICES ASSUME NEW i \in 1 .. n, NEW j \in 1 .. n, i < j
               PROVE  new[i] <= new[j] /\ (IsEnd(rest[i]) => new[i] < new[j])
    OBVIOUS
  <2>1. i + 1 \in 1 .. n + 1 /\ j + 1 \in 1 .. n + 1 /\ i + 1 < j + 1
    BY <1>1
  <2> QED
    BY <1>2, <1>4, <1>7, <2>1
<1>17. \A i \in 1 .. n : /\ first + 1 <= new[i] /\ new[i] <= r + 1
                         /\ IsEnd(rest[i]) => new[i] <= r
  <2> SUFFICES ASSUME NEW i \in 1 .. n
               PROVE  /\ first + 1 <= new[i] /\ new[i] <= r + 1
                      /\ IsEnd(rest[i]) => new[i] <= r
    OBVIOUS
  <2>1. i + 1 \in 1 .. n + 1
    BY <1>1
  <2> QED
    BY <1>2, <1>4, <1>8, <1>13, <2>1
<1>18. Ordered(new, rest, first, r)
  <2>1. rest # <<>> => new[1] = first + 1 /\ new[Len(rest)] = IF IsEnd(rest[Len(rest)]) THEN r ELSE r + 1
    BY <1>1, <1>2, <1>12, <1>14
  <2> QED
    BY <1>2, <1>4, <1>9, <1>10, <1>12, <1>15, <1>16, <1>17, <2>1 DEF Ordered
<1> QED
  BY <1>3, <1>9, <1>18 DEF new, rest, first, n

LEMMA Backends10 == Backends \subseteq BackendModes
BY BackendsAssumption DEF BackendModes

-----------------------------------------------------------------------------
(* What the timing analysis finds in a log *)

LEMMA MinIs ==
    ASSUME NEW S, S \subseteq Nat, S # {}
    PROVE  Min(S) \in S /\ \A y \in S : Min(S) <= y
<1> DEFINE R == OpToRel(<, Nat)
<1>1. IsWellFoundedOn(R, Nat)
  BY NatLessThanWellFounded
<1>2. PICK x \in S : \A y \in S : <<y, x>> \notin R
  BY <1>1, WFMin
<1>3. ASSUME NEW y \in S PROVE x <= y
  <2>1. x \in Nat /\ y \in Nat
    OBVIOUS
  <2>2. ~(y < x)
    BY <1>2, <2>1 DEF OpToRel
  <2> QED
    BY <2>1, <2>2
<1> HIDE DEF R
<1>4. \E z \in S : \A y \in S : z <= y
  BY <1>3
<1> QED
  BY <1>4 DEF Min

LEMMA RomLines ==
    ASSUME NEW l \in AnyLine, l.tag = "process_rom"
    PROVE  l.val \in Stats
<1>1. l # EndLine
  <2>1. EndLine.tag = "Cycle Tracker End"
    BY DEF EndLine, Line
  <2> QED
    BY <2>1
<1>2. l \notin GuestLine
  BY DEF GuestLine
<1>3. PICK c \in Cases : l \in SomeLine(c)
  BY <1>1, <1>2 DEF AnyLine
<1>4. l = RomLine(c)
  <2>1. \A tag, key, val : Line(tag, key, val).tag = tag
    BY DEF Line
  <2>2. CaseLine(c).tag = "Test case:" /\ SkipLine(c).tag = "Skipping test case:"
    BY <2>1 DEF CaseLine, SkipLine
  <2>3. \A ph \in Phases : /\ l # Line("tracker", ph, Cycles(c, ph))
                          /\ l # Line("start", ph, Figures[c].start[ph])
                          /\ l # Line("end", ph, Figures[c].end[ph])
    BY <2>1
  <2>4. /\ l # CaseLine(c) /\ l # SkipLine(c)
        /\ l # Line("Number of cycles:", "", Total(c))
        /\ l # Line("Execution cycles:", "", Total(c))
        /\ l # Line("execution time:", "", SdkTime(Figures[c].duration))
        /\ l # Line("Execution time:", "", Debug(Figures[c].duration))
        /\ l # Line("execution-time-host-call:", "", AsSecs(Figures[c].duration))
        /\ l # Line("execution-time-host-call:", "", Debug(Figures[c].duration))
    <3>1. \A tag, val : l = Line(tag, "", val) => tag = "process_rom"
      BY <2>1
    <3> QED
      BY <2>2, <3>1
  <2> QED
    BY <1>3, <2>3, <2>4, Zenon DEF SomeLine, RomLine
<1>5. Total(c) \in Nat /\ Figures[c].duration \in Nat
  BY FiguresType
<1> QED
  BY <1>4, <1>5 DEF RomLine, Line, Stats

\* The statistics are those of the first line that has any.
LEMMA StatsAre ==
    ASSUME NEW lg \in Seq(AnyLine)
    PROVE  /\ ExecutionStats(lg) \in Stats
           /\ \A i \in 1 .. Len(lg) : lg[i].tag = "process_rom" =>
                  \E j \in 1 .. i : /\ lg[j].tag = "process_rom"
                                    /\ ExecutionStats(lg) = lg[j].val
<1> DEFINE found == {i \in DOMAIN lg : lg[i].tag = "process_rom"}
<1>1. DOMAIN lg = 1 .. Len(lg) /\ Len(lg) \in Nat
  OBVIOUS
<1>2. CASE found = {}
  <2>1. ExecutionStats(lg) = [steps |-> 0, duration |-> 0]
    BY <1>2 DEF ExecutionStats
  <2>2. \A i \in 1 .. Len(lg) : lg[i].tag # "process_rom"
    BY <1>1, <1>2
  <2> QED
    BY <2>1, <2>2 DEF Stats
<1>3. CASE found # {}
  <2> DEFINE j == Min(found)
  <2>1. ExecutionStats(lg) = lg[j].val
    BY <1>3 DEF ExecutionStats
  <2>2. found \subseteq Nat
    BY <1>1
  <2>3. j \in found /\ \A i \in found : j <= i
    <3> HIDE DEF found
    <3> QED
      BY <1>3, <2>2, MinIs
  <2> HIDE DEF j
  <2>4. j \in 1 .. Len(lg) /\ lg[j].tag = "process_rom" /\ lg[j] \in AnyLine
    BY <1>1, <2>3
  <2>5. lg[j].val \in Stats
    BY <2>4, RomLines
  <2>6. ASSUME NEW i \in 1 .. Len(lg), lg[i].tag = "process_rom"
        PROVE  j \in 1 .. i
    <3>1. i \in found
      BY <1>1, <2>6
    <3> QED
      BY <1>1, <2>3, <2>4, <3>1
  <2> QED
    BY <2>1, <2>4, <2>5, <2>6
<1> QED
  BY <1>2, <1>3

LEMMA WeightNone ==
    ASSUME NEW s
    PROVE  Weight(<<>>, s) = 0
<1>1. LinesOf(<<>>, "OPERATION_PROGRESS", s) = {}
  BY DEF LinesOf
<1> QED
  BY <1>1, SumEmpty DEF Weight

\* A line that is no step of the guest weighs nothing.
LEMMA WeightOther ==
    ASSUME NEW lg \in Seq(AnyLine), NEW l \in AnyLine,
           l.tag # "OPERATION_PROGRESS", NEW s
    PROVE  Weight(lg \o <<l>>, s) = Weight(lg, s)
<1>1. Weight(Append(lg, l), s) = Weight(lg, s) + Points(l, s)
  BY WeightAppend
<1>2. Points(l, s) = 0
  BY DEF Points
<1>3. Weight(lg, s) \in Nat
  BY WeightType
<1>4. Weight(Append(lg, l), s) = Weight(lg, s)
  BY <1>1, <1>2, <1>3
<1>5. lg \o <<l>> = Append(lg, l)
  OBVIOUS
<1> QED
  BY <1>4, <1>5, Zenon

\* Stages whose lines occur are operations and weigh something.
LEMMA StagesIn ==
    ASSUME NEW X, NEW lg \in Seq(X), \A s \in Stages : HasStage(lg, s)
    PROVE  Operations(lg) = Stages /\ \A s \in Stages : Weight(lg, s) >= 1
<1>1. ASSUME NEW s \in Stages
      PROVE  /\ LinesOf(lg, "TIMING_START", s) # {}
             /\ LinesOf(lg, "TIMING_END", s) # {}
             /\ LinesOf(lg, "OPERATION_PROGRESS", s) # {}
  <2>1. HasStage(lg, s)
    OBVIOUS
  <2>2. \E i \in DOMAIN lg : lg[i] = Line("TIMING_START", s, "")
    BY <2>1 DEF HasStage, In
  <2>3. \E i \in DOMAIN lg : lg[i] = Line("TIMING_END", s, "")
    BY <2>1 DEF HasStage, In
  <2>4. \E step : \E i \in DOMAIN lg : lg[i] = Line("OPERATION_PROGRESS", s, step)
    BY <2>1 DEF HasStage, In
  <2>5. \A i \in DOMAIN lg : \A tag, val :
            lg[i] = Line(tag, s, val) => i \in LinesOf(lg, tag, s)
    BY DEF LinesOf, Line
  <2> QED
    BY <2>2, <2>3, <2>4, <2>5
<1>2. \A s \in Stages : Weight(lg, s) >= 1
  BY <1>1, WeightType
<1>3. Operations(lg) = Stages
  BY <1>1 DEF Operations
<1> QED
  BY <1>2, <1>3

\* What ziskemu prints of c: the stages of its guest, and the costs of c.
LEMMA ZiskOutputTimes ==
    ASSUME NEW c \in Cases
    PROVE  /\ Operations(ZiskOutput(c)) = Stages
           /\ \A s \in Stages : /\ Weight(ZiskOutput(c), s) = Weight(GuestLines, s)
                                /\ Weight(GuestLines, s) >= 1
                                /\ Weight(GuestLines, s) \in Nat
           /\ ExecutionStats(ZiskOutput(c)) = RomLine(c).val
           /\ ExecutionStats(ZiskOutput(c)) \in Stats
<1>1. /\ ZiskOutput(c) \in Seq(AnyLine)
      /\ \A x : In(x, ZiskOutput(c)) <=> In(x, GuestLines) \/ x = RomLine(c)
  BY ZiskOutputIs
<1>2. \A s \in Stages : HasStage(ZiskOutput(c), s)
  BY <1>1, GuestLinesAre DEF HasStage
<1>3. Operations(ZiskOutput(c)) = Stages
  BY <1>1, <1>2, StagesIn
<1>4. \A s \in Stages : Weight(GuestLines, s) >= 1 /\ Weight(GuestLines, s) \in Nat
  <2>1. \A s \in Stages : HasStage(GuestLines, s)
    BY GuestLinesAre
  <2>2. GuestLines \in Seq(GuestLine)
    BY GuestLinesAre
  <2> QED
    BY <2>1, <2>2, StagesIn, WeightType
<1>5. GuestLines \in Seq(AnyLine) /\ RomLine(c) \in AnyLine
  <2>1. ASSUME NEW X, NEW Y, X \subseteq Y, NEW s \in Seq(X) PROVE s \in Seq(Y)
    BY <2>1
  <2>2. GuestLine \subseteq AnyLine
    BY DEF AnyLine
  <2>3. RomLine(c) \in AnyLine
    BY IsAnyLine DEF SomeLine, RomLine
  <2> QED
    BY <2>1, <2>2, <2>3, GuestLinesAre
<1>6. ZiskOutput(c) = GuestLines \o <<RomLine(c)>>
  BY DEF ZiskOutput, RomLine
<1>7. RomLine(c).tag # "OPERATION_PROGRESS" /\ RomLine(c).tag = "process_rom"
  BY DEF RomLine, Line
<1>8. \A s \in Stages : Weight(ZiskOutput(c), s) = Weight(GuestLines, s)
  BY <1>5, <1>6, <1>7, WeightOther
<1>9. ExecutionStats(ZiskOutput(c)) \in Stats
  BY <1>1, StatsAre
<1>10. ExecutionStats(ZiskOutput(c)) = RomLine(c).val
  <2>1. PICK i \in 1 .. Len(ZiskOutput(c)) : ZiskOutput(c)[i] = RomLine(c)
    BY <1>1 DEF In
  <2>2. PICK j \in 1 .. i : /\ ZiskOutput(c)[j].tag = "process_rom"
                            /\ ExecutionStats(ZiskOutput(c)) = ZiskOutput(c)[j].val
    BY <1>1, <1>7, <2>1, StatsAre
  <2>3. In(ZiskOutput(c)[j], ZiskOutput(c))
    BY <1>1, <2>1, <2>2 DEF In
  <2>4. ~In(ZiskOutput(c)[j], GuestLines)
    <3>1. \A k \in DOMAIN GuestLines : GuestLines[k] \in GuestLine
      <4>1. ASSUME NEW X, NEW s \in Seq(X) PROVE \A k \in DOMAIN s : s[k] \in X
        OBVIOUS
      <4> QED
        BY <4>1, GuestLinesAre
    <3>2. \A l \in GuestLine : l.tag # "process_rom"
      BY DEF GuestLine
    <3> QED
      BY <2>2, <3>1, <3>2 DEF In
  <2> QED
    BY <1>1, <2>2, <2>3, <2>4
<1> QED
  BY <1>3, <1>4, <1>8, <1>9, <1>10

-----------------------------------------------------------------------------
(* The invariant holds at first *)

LEMMA BackendIs == Inv => /\ backend \in BackendModes
                          /\ zkvm = backend[1] /\ mode = backend[2]
BY Backends10 DEF Inv, ControlInv, zkvm, mode

LEMMA TimingIs == Inv => timing \in TimingType
BY DEF Inv, TimingInv

LEMMA InitInv == Init => Inv
<1> SUFFICES ASSUME Init PROVE Inv
  OBVIOUS
<1>0. /\ backend \in Backends /\ todo = Cases /\ lines = <<>>
      /\ reported = <<>> /\ stage = "run" /\ log = <<>> /\ acc = Fresh
      /\ table = <<>>
  BY DEF Init
<1>1. ControlInv
  <2>1. \A X : <<>> \in Seq(X)
    OBVIOUS
  <2>2. \A i \in 1 .. Len(reported) : reported[i] \notin todo
    BY <1>0
  <2> QED
    BY <1>0, <2>1, <2>2 DEF ControlInv
<1>2. LinesInv
  BY <1>0 DEF LinesInv
<1>3. LogInv
  <2> DEFINE own == [i \in 1 .. 0 |-> 0]
  <2>1. /\ Len(log) = 0 /\ Len(table) = 0 /\ Len(reported) = 0
        /\ own \in [1 .. Len(log) -> Nat] /\ 1 .. Len(log) = {}
    BY <1>0
  <2> HIDE DEF own
  <2>2. Ordered(own, log, Len(table), Len(reported))
    BY <1>0, <2>1 DEF Ordered
  <2>3. Attributed(own)
    BY <1>0, <2>1 DEF Attributed, Assigned, NoneMissing, Coming
  <2> QED
    BY <2>2, <2>3 DEF LogInv
<1>4. AccInv
  BY <1>0 DEF AccInv
<1>5. RowsInv
  <2>1. table \in Seq(RowType) /\ 1 .. Len(table) = {}
    BY <1>0
  <2> QED
    BY <2>1 DEF RowsInv
<1>6. TimingInv
  <2>1. timing \in TimingType
    BY DEF Init, TimingType
  <2>2. \A s \in Stages : Weight(log, s) = 0 * Weight(GuestLines, s)
    <3>1. \A s \in Stages : Weight(GuestLines, s) \in Nat
      BY GuestLinesAre, WeightType
    <3>2. \A s \in Stages : Weight(log, s) = 0
      BY <1>0, WeightNone, Zenon
    <3> QED
      BY <3>1, <3>2
  <2>3. ~\E i \in 1 .. Len(log) : log[i].tag = "process_rom"
    BY <1>0
  <2> QED
    BY <1>0, <2>1, <2>2, <2>3 DEF TimingInv
<1>7. CaseInv
  BY DEF Init, CaseInv
<1> QED
  BY <1>1, <1>2, <1>3, <1>4, <1>5, <1>6, <1>7 DEF Inv

-----------------------------------------------------------------------------
(* The steps of the harness *)

\* What a step that leaves table and timing alone leaves of the rows.
LEMMA RowsStay ==
    ASSUME RowsInv, table' = table, timing' = timing, backend' = backend,
           \A i \in 1 .. Len(table) : reported'[i] = reported[i]
    PROVE  RowsInv'
<1>1. \A a : PrintedRow(a)' = PrintedRow(a)
  BY DEF PrintedRow
<1> QED
  BY <1>1 DEF RowsInv

LEMMA OneLine ==
    \A l \in AnyLine :
        /\ \A lg \in Seq(AnyLine) : Append(lg, l) = lg \o <<l>>
        /\ <<l>> \in Seq(AnyLine) /\ Len(<<l>>) = 1 /\ <<l>>[1] = l /\ <<l>> # <<>>
<1> SUFFICES ASSUME NEW l \in AnyLine, NEW lg \in Seq(AnyLine)
             PROVE  /\ Append(lg, l) = lg \o <<l>>
                    /\ <<l>> \in Seq(AnyLine) /\ Len(<<l>>) = 1 /\ <<l>>[1] = l
                    /\ <<l>> # <<>>
  BY EmptySeq
<1> QED
  OBVIOUS

\* A block of lines of the case after those reported comes to the log.
LEMMA Grown ==
    ASSUME NEW lg \in Seq(AnyLine), NEW block \in Seq(AnyLine), NEW both,
           both = lg \o block
    PROVE  /\ both \in Seq(AnyLine) /\ Len(lg) \in Nat /\ Len(block) \in Nat
           /\ Len(both) = Len(lg) + Len(block)
           /\ \A i \in 1 .. Len(lg) : both[i] = lg[i]
           /\ \A i \in 1 .. Len(block) : both[Len(lg) + i] = block[i]
           /\ \A i \in 1 .. Len(both) : i \in 1 .. Len(lg)
                  \/ \E j \in 1 .. Len(block) : i = Len(lg) + j
<1>1. /\ both \in Seq(AnyLine) /\ Len(lg) \in Nat /\ Len(block) \in Nat
      /\ Len(both) = Len(lg) + Len(block)
      /\ \A i \in 1 .. Len(lg) : both[i] = lg[i]
      /\ \A i \in 1 .. Len(block) : both[Len(lg) + i] = block[i]
  OBVIOUS
<1>2. ASSUME NEW i \in 1 .. Len(both), i \notin 1 .. Len(lg)
      PROVE  \E j \in 1 .. Len(block) : i = Len(lg) + j
  <2>1. i - Len(lg) \in 1 .. Len(block) /\ i = Len(lg) + (i - Len(lg))
    BY <1>1, <1>2
  <2> QED
    BY <2>1
<1> QED
  BY <1>1, <1>2

LEMMA GrownNumbers ==
    ASSUME log \in Seq(AnyLine), NEW block \in Seq(AnyLine), log' = log \o block,
           NEW own, NEW k, NEW new, new = Extended(own, Len(log), Len(block), k)
    PROVE  /\ \A i \in 1 .. Len(log) : new[i] = own[i]
           /\ \A j \in 1 .. Len(block) : new[Len(log) + j] = k
           /\ \A x, n : Numbered(own, x, n) => Numbered(new, x, n)'
           /\ \A x : In(x, block) => Numbered(new, x, k)'
<1>1. /\ Len(log) \in Nat /\ Len(block) \in Nat
      /\ Len(log') = Len(log) + Len(block)
      /\ \A i \in 1 .. Len(log) : log'[i] = log[i]
      /\ \A i \in 1 .. Len(block) : log'[Len(log) + i] = block[i]
  BY Grown
<1>2. /\ \A i \in 1 .. Len(log) : new[i] = own[i]
      /\ \A j \in 1 .. Len(block) : new[Len(log) + j] = k
  BY <1>1 DEF Extended
<1>3. ASSUME NEW x, NEW n, Numbered(own, x, n) PROVE Numbered(new, x, n)'
  <2>1. PICK i \in 1 .. Len(log) : own[i] = n /\ log[i] = x
    BY <1>3 DEF Numbered
  <2>2. i \in 1 .. Len(log') /\ new[i] = n /\ log'[i] = x
    BY <1>1, <1>2, <2>1
  <2> QED
    BY <2>2 DEF Numbered
<1>4. ASSUME NEW x, In(x, block) PROVE Numbered(new, x, k)'
  <2>1. PICK j \in 1 .. Len(block) : block[j] = x
    BY <1>4 DEF In
  <2>2. /\ Len(log) + j \in 1 .. Len(log') /\ new[Len(log) + j] = k
        /\ log'[Len(log) + j] = x
    BY <1>1, <1>2, <2>1
  <2> QED
    BY <2>2 DEF Numbered
<1> QED
  BY <1>2, <1>3, <1>4

LEMMA SkipKeeps ==
    ASSUME Inv, NEW c \in Cases, SkipCase(c)
    PROVE  Inv'
<1> DEFINE l == SkipLine(c)
           block == <<l>>
<1>a. /\ stage = "run" /\ lines = <<>> /\ c \in todo /\ todo' = todo \ {c}
      /\ backend' = backend /\ case' = case /\ lines' = lines
      /\ reported' = reported /\ stage' = stage /\ timing' = timing
      /\ acc' = acc /\ table' = table
  BY DEF SkipCase, SkipLine, script
<1>b. log \in Seq(AnyLine) /\ l \in AnyLine /\ l.tag = "Skipping test case:"
  <2>1. l \in AnyLine
    BY IsAnyLine DEF SomeLine
  <2>2. l.tag = "Skipping test case:"
    BY DEF SkipLine, Line
  <2> QED
    BY <2>1, <2>2 DEF Inv, ControlInv
<1>c. log' = Append(log, l)
  BY DEF SkipCase, SkipLine
<1> HIDE DEF l
<1>d. log' = log \o block
  BY <1>b, <1>c, OneLine, Zenon
<1>e. block \in Seq(AnyLine) /\ Len(block) = 1 /\ block[1] = l /\ block # <<>>
  BY <1>b, OneLine, Zenon
<1> HIDE DEF block
<1>1. /\ log' \in Seq(AnyLine) /\ Len(log') = Len(log) + 1 /\ Len(log) \in Nat
      /\ \A i \in 1 .. Len(log) : log'[i] = log[i]
      /\ log'[Len(log) + 1] = l
  <2>1. /\ log' \in Seq(AnyLine) /\ Len(log) \in Nat
        /\ Len(log') = Len(log) + Len(block)
        /\ \A i \in 1 .. Len(log) : log'[i] = log[i]
        /\ \A i \in 1 .. Len(block) : log'[Len(log) + i] = block[i]
    BY <1>b, <1>d, <1>e, Grown, ZenonT(40)
  <2> QED
    BY <1>e, <2>1
<1>2. ControlInv'
  BY <1>a, <1>1 DEF Inv, ControlInv
<1>3. LinesInv' /\ CaseInv'
  BY <1>a DEF Inv, LinesInv, CaseInv
<1>4. LogInv'
  <2>1. PICK own : /\ Ordered(own, log, Len(table), Len(reported))
                   /\ Assigned(own) /\ NoneMissing(own)
    BY DEF Inv, LogInv, Attributed
  <2>n. PICK new : new = Extended(own, Len(log), Len(block), Len(reported) + 1)
    OBVIOUS
  <2>2. Ordered(new, log', Len(table), Len(reported))
    <3>1. Len(table) \in Nat /\ Len(reported) \in Nat
      BY DEF Inv, RowsInv, ControlInv
    <3>2. ~IsEnd(l)
      BY <1>b DEF IsEnd
    <3>3. \A i \in 1 .. Len(block) - 1 : ~IsEnd(block[i])
      BY <1>e
    <3>4. Ordered(new, log \o block, Len(table),
                  IF IsEnd(block[Len(block)]) THEN Len(reported) + 1 ELSE Len(reported))
      BY <1>b, <1>e, <2>1, <2>n, <3>1, <3>3, ExtendedOrder
    <3> QED
      BY <1>d, <1>e, <3>2, <3>4, Zenon
  <2>3. /\ \A i \in 1 .. Len(log) : new[i] = own[i]
        /\ \A x, k : Numbered(own, x, k) => Numbered(new, x, k)'
    <3>1. log \in Seq(AnyLine) /\ block \in Seq(AnyLine) /\ log' = log \o block
      BY <1>b, <1>d, <1>e
    <3> QED
      BY <2>n, <3>1, GrownNumbers
  <2>4. Assigned(new)'
    <3>1. \A x, k : Placed(x, k)' <=> Placed(x, k)
      BY <1>a DEF Placed, CaseOf
    <3>2. ASSUME NEW i \in 1 .. Len(log) + 1 PROVE Placed(log'[i], new[i])
      <4>1. CASE i = Len(log) + 1
        BY <1>b, <1>1, <4>1 DEF Placed
      <4>2. CASE i \in 1 .. Len(log)
        BY <1>1, <2>1, <2>3, <4>2 DEF Assigned
      <4> QED
        BY <1>1, <4>1, <4>2
    <3> QED
      BY <1>1, <3>1, <3>2 DEF Assigned
  <2>6. NoneMissing(new)'
    BY <1>a, <2>1, <2>3 DEF NoneMissing
  <2>7. Coming(new)'
    BY <1>a DEF Coming
  <2> QED
    BY <1>a, <2>2, <2>4, <2>6, <2>7 DEF LogInv, Attributed
<1>5. AccInv'
  BY <1>a DEF Inv, AccInv, ControlInv
<1>6. RowsInv'
  BY <1>a, RowsStay DEF Inv
<1>7. TimingInv'
  <2>1. \A s : Weight(log', s) = Weight(log, s)
    <3>1. l.tag # "OPERATION_PROGRESS"
      BY <1>b
    <3> QED
      BY <1>b, <1>d, <3>1, WeightOther, Zenon DEF block
  <2>2. (\E i \in 1 .. Len(log') : log'[i].tag = "process_rom")
            => \E i \in 1 .. Len(log) : log[i].tag = "process_rom"
    <3>1. ASSUME NEW i \in 1 .. Len(log'), log'[i].tag = "process_rom"
          PROVE  i \in 1 .. Len(log) /\ log[i].tag = "process_rom"
      <4>1. i \in 1 .. Len(log) \/ i = Len(log) + 1
        BY <1>1
      <4> QED
        BY <1>b, <1>1, <3>1, <4>1
    <3> QED
      BY <3>1
  <2> QED
    BY <1>a, <2>1, <2>2 DEF Inv, TimingInv, zkvm, mode
<1> QED
  BY <1>2, <1>3, <1>4, <1>5, <1>6, <1>7 DEF Inv

LEMMA CaseLines ==
    ASSUME NEW r \in Seq(Seq(AnyLine)), NEW first \in Seq(AnyLine),
           NEW last \in Seq(AnyLine), NEW all, all = <<first>> \o r \o <<last>>
    PROVE  /\ all \in Seq(Seq(AnyLine)) /\ all # <<>>
           /\ Len(r) \in Nat /\ Len(all) = Len(r) + 2
           /\ all[1] = first /\ all[Len(r) + 2] = last
           /\ \A n \in 1 .. Len(r) : all[n + 1] = r[n]
OBVIOUS

LEMMA StartKeeps ==
    ASSUME Inv, NEW c \in Cases, StartCase(c)
    PROVE  Inv'
<1>a. /\ stage = "run" /\ lines = <<>> /\ c \in todo /\ todo' = todo \ {c}
      /\ case' = c /\ backend' = backend /\ log' = log
      /\ reported' = reported /\ stage' = stage /\ timing' = timing
      /\ acc' = acc /\ table' = table
  BY DEF StartCase, script
<1>b. PICK order \in Orders : lines' = <<<<CaseLine(c)>>>> \o RunnerLines(c, order)
                                       \o <<<<EndLine>>>>
  BY DEF StartCase
<1>c. backend \in BackendModes
  BY BackendIs
<1>d. PICK r : r = RunnerLines(c, order)
  OBVIOUS
<1>e. /\ BlocksTell(r, backend, c)
      /\ zkvm = "zisk" => \A k \in DOMAIN r : r[k] = ZiskOutput(c) /\ mode = "execute"
  BY <1>c, <1>d, RunnerTells
<1>f. PICK first, last : first = <<CaseLine(c)>> /\ last = <<EndLine>>
  OBVIOUS
<1>g. /\ first \in Seq(AnyLine) /\ last \in Seq(AnyLine)
      /\ \A x : In(x, first) <=> x = CaseLine(c)
  <2>1. CaseLine(c) \in AnyLine /\ EndLine \in AnyLine
    BY IsAnyLine DEF SomeLine
  <2> QED
    BY <1>f, <2>1, Singles
<1>h. /\ lines' \in Seq(Seq(AnyLine)) /\ lines' # <<>>
      /\ Len(r) \in Nat /\ Len(lines') = Len(r) + 2
      /\ lines'[1] = first /\ lines'[Len(r) + 2] = last
      /\ \A n \in 1 .. Len(r) : lines'[n + 1] = r[n]
  <2>1. r \in Seq(Seq(AnyLine))
    BY <1>e DEF BlocksTell
  <2>2. lines' = <<first>> \o r \o <<last>>
    BY <1>b, <1>d, <1>f, Zenon
  <2> QED
    BY <1>g, <2>1, <2>2, CaseLines
<1>i. DOMAIN r = 1 .. Len(r)
  BY <1>e DEF BlocksTell
<1>j. \A n \in 1 .. Len(lines') - 1 : n = 1 \/ \E k \in DOMAIN r : n = k + 1
  <2> SUFFICES ASSUME NEW n \in 1 .. Len(lines') - 1, n # 1
               PROVE  \E k \in 1 .. Len(r) : n = k + 1
    BY <1>i
  <2>1. n - 1 \in 1 .. Len(r) /\ n = (n - 1) + 1
    BY <1>h
  <2> QED
    BY <2>1
<1>1. ControlInv'
  BY <1>a DEF Inv, ControlInv
<1>2. CaseInv'
  BY <1>a DEF CaseInv
<1>3. LinesInv'
  <2>1. c \notin todo' /\ \A i \in 1 .. Len(reported) : reported[i] # c
    BY <1>a DEF Inv, ControlInv
  <2>2. lines'[Len(lines')] = <<EndLine>>
    BY <1>f, <1>h
  <2>3. ASSUME NEW n \in 1 .. Len(lines') - 1
        PROVE  /\ \A x : In(x, lines'[n]) => IsLineOf(x, backend, c)
               /\ zkvm = "zisk" => \/ lines'[n] = <<CaseLine(c)>>
                                   \/ lines'[n] = ZiskOutput(c) /\ mode = "execute"
    <3>1. CASE n = 1
      <4>1. lines'[n] = first
        BY <1>h, <3>1
      <4>2. \A x : In(x, first) => IsLineOf(x, backend, c)
        BY <1>g DEF IsLineOf
      <4> QED
        BY <1>f, <4>1, <4>2, Zenon
    <3>2. ASSUME NEW k \in DOMAIN r, n = k + 1
          PROVE  /\ \A x : In(x, lines'[n]) => IsLineOf(x, backend, c)
                 /\ zkvm = "zisk" => lines'[n] = ZiskOutput(c) /\ mode = "execute"
      <4>1. lines'[n] = r[k]
        BY <1>h, <1>i, <3>2
      <4> QED
        BY <1>e, <4>1 DEF BlocksTell
    <3> QED
      BY <1>j, <3>1, <3>2
  <2> QED
    BY <1>a, <1>h, <2>1, <2>2, <2>3 DEF LinesInv, zkvm, mode
<1>4. LogInv'
  <2>1. PICK own : /\ Ordered(own, log, Len(table), Len(reported))
                   /\ Assigned(own) /\ NoneMissing(own)
    BY DEF Inv, LogInv, Attributed
  <2>2. Len(reported) \in Nat
    BY DEF Inv, ControlInv
  <2>3. Assigned(own)'
    <3>1. ASSUME NEW i \in 1 .. Len(log) PROVE Placed(log[i], own[i])'
      <4>1. Placed(log[i], own[i])
        BY <2>1 DEF Assigned
      <4>2. own[i] \in Nat /\ own[i] <= Len(reported) + 1
        BY <2>1 DEF Ordered
      <4>3. CASE own[i] = Len(reported) + 1
        BY <1>a, <4>1, <4>3 DEF Placed
      <4>4. CASE own[i] <= Len(reported)
        <5>1. CaseOf(own[i])' = CaseOf(own[i]) /\ own[i] # Len(reported) + 1
          BY <1>a, <2>2, <4>2, <4>4 DEF CaseOf
        <5> QED
          BY <1>a, <4>1, <5>1 DEF Placed
      <4> QED
        BY <2>2, <4>2, <4>3, <4>4
    <3> QED
      BY <1>a, <3>1 DEF Assigned
  <2>4. \A x, k : Numbered(own, x, k)' <=> Numbered(own, x, k)
    BY <1>a DEF Numbered
  <2>5. NoneMissing(own)'
    BY <1>a, <2>1, <2>4 DEF NoneMissing
  <2>6. Coming(own)'
    <3>1. ASSUME NEW l, IsLineOf(l, backend, c)
          PROVE  \E n \in 1 .. Len(lines') - 1 : In(l, lines'[n])
      <4>1. CASE l = CaseLine(c)
        <5>1. 1 \in 1 .. Len(lines') - 1 /\ In(l, lines'[1])
          BY <1>g, <1>h, <4>1
        <5> QED
          BY <5>1
      <4>2. CASE \E k \in DOMAIN r : In(l, r[k])
        <5>1. PICK k \in 1 .. Len(r) : In(l, r[k])
          BY <1>i, <4>2
        <5>2. k + 1 \in 1 .. Len(lines') - 1 /\ In(l, lines'[k + 1])
          BY <1>h, <5>1
        <5> QED
          BY <5>2
      <4> QED
        BY <1>e, <3>1, <4>1, <4>2 DEF BlocksTell
    <3> QED
      BY <1>a, <3>1 DEF Coming
  <2> QED
    BY <1>a, <2>1, <2>3, <2>5, <2>6 DEF LogInv, Attributed
<1>5. AccInv'
  BY <1>a DEF Inv, AccInv, ControlInv
<1>6. RowsInv'
  BY <1>a, RowsStay DEF Inv
<1>7. TimingInv'
  BY <1>a DEF Inv, TimingInv, zkvm, mode
<1> QED
  BY <1>1, <1>2, <1>3, <1>4, <1>5, <1>6, <1>7 DEF Inv

LEMMA StopKeeps ==
    ASSUME Inv, Stop
    PROVE  Inv'
<1>a. /\ stage = "run" /\ stage' = "analyse" /\ backend' = backend
      /\ todo' = todo /\ case' = case /\ lines' = lines /\ log' = log
      /\ reported' = reported /\ timing' = timing /\ acc' = acc /\ table' = table
  BY DEF Stop, harness, script
<1>1. ControlInv' /\ CaseInv' /\ LinesInv'
  BY <1>a DEF Inv, ControlInv, CaseInv, LinesInv, zkvm, mode
<1>2. LogInv'
  <2>1. PICK own : /\ Ordered(own, log, Len(table), Len(reported))
                   /\ Assigned(own) /\ NoneMissing(own)
    BY DEF Inv, LogInv, Attributed
  <2>2. Assigned(own)'
    <3>1. \A x, k : Placed(x, k)' <=> Placed(x, k)
      BY <1>a DEF Placed, CaseOf
    <3> QED
      BY <1>a, <2>1, <3>1 DEF Assigned
  <2>3. \A x, k : Numbered(own, x, k)' <=> Numbered(own, x, k)
    BY <1>a DEF Numbered
  <2>4. NoneMissing(own)'
    BY <1>a, <2>1, <2>3 DEF NoneMissing
  <2>5. Coming(own)'
    BY <1>a DEF Coming
  <2> QED
    BY <1>a, <2>1, <2>2, <2>4, <2>5 DEF LogInv, Attributed
<1>3. AccInv'
  BY <1>a DEF Inv, AccInv, CaseOf
<1>4. RowsInv'
  BY <1>a, RowsStay DEF Inv
<1>5. TimingInv'
  BY <1>a DEF Inv, TimingInv, zkvm, mode
<1> QED
  BY <1>1, <1>2, <1>3, <1>4, <1>5 DEF Inv

\* The order of the lines when a block of the case that runs was logged.
LEMMA BlockOrder ==
    ASSUME NEW lg \in Seq(AnyLine), NEW t \in Nat, NEW r \in Nat,
           NEW own, Ordered(own, lg, t, r),
           NEW block \in Seq(AnyLine), \A x : In(x, block) => ~IsEnd(x)
    PROVE  Ordered(Extended(own, Len(lg), Len(block), r + 1), lg \o block, t, r)
<1>1. CASE block = <<>>
  <2>1. Len(lg) \in Nat /\ Len(block) = 0 /\ lg \o block = lg
    BY <1>1
  <2>2. own \in [1 .. Len(lg) -> Nat]
    BY DEF Ordered
  <2>3. Extended(own, Len(lg), Len(block), r + 1) = own
    BY <2>1, <2>2 DEF Extended
  <2> QED
    BY <2>1, <2>3
<1>2. CASE block # <<>>
  <2>1. DOMAIN block = 1 .. Len(block) /\ Len(block) \in Nat /\ Len(block) >= 1
    BY <1>2
  <2>2. \A i \in 1 .. Len(block) : ~IsEnd(block[i])
    BY <2>1 DEF In
  <2>3. (\A i \in 1 .. Len(block) - 1 : ~IsEnd(block[i])) /\ ~IsEnd(block[Len(block)])
    BY <2>1, <2>2
  <2>4. Ordered(Extended(own, Len(lg), Len(block), r + 1), lg \o block, t,
                IF IsEnd(block[Len(block)]) THEN r + 1 ELSE r)
    BY <1>2, <2>3, ExtendedOrder
  <2> QED
    BY <2>3, <2>4, Zenon
<1> QED
  BY <1>1, <1>2

\* What comes of lines when their first block is logged.
LEMMA TailIs ==
    ASSUME NEW X, NEW s \in Seq(X), s # <<>>
    PROVE  /\ Head(s) = s[1] /\ s[1] \in X /\ Tail(s) \in Seq(X)
           /\ Len(s) \in Nat /\ Len(s) >= 1 /\ Len(Tail(s)) = Len(s) - 1
           /\ \A n \in 1 .. Len(s) - 1 : Tail(s)[n] = s[n + 1]
           /\ Tail(s) = <<>> <=> Len(s) = 1
<1>1. /\ Head(s) = s[1] /\ s[1] \in X /\ Tail(s) \in Seq(X)
      /\ Len(s) \in Nat /\ Len(s) >= 1 /\ Len(Tail(s)) = Len(s) - 1
      /\ \A n \in 1 .. Len(s) - 1 : Tail(s)[n] = s[n + 1]
  OBVIOUS
<1>2. Tail(s) = <<>> <=> Len(Tail(s)) = 0
  <2>1. \A t \in Seq(X) : t = <<>> <=> Len(t) = 0
    BY EmptySeq
  <2> QED
    BY <1>1, <2>1
<1>3. Tail(s) = <<>> <=> Len(s) = 1
  <2>1. Len(s) \in Nat /\ Len(Tail(s)) = Len(s) - 1
    BY <1>1
  <2>2. Len(Tail(s)) = 0 <=> Len(s) = 1
    BY <2>1
  <2> QED
    BY <1>2, <2>2, Zenon
<1> QED
  BY <1>1, <1>3, Zenon

\* A line of a case is neither an End line nor one of a skipped case.
LEMMA NotEnd ==
    ASSUME NEW c \in Cases, NEW b \in BackendModes, NEW l, IsLineOf(l, b, c)
    PROVE  ~IsEnd(l)
<1>1. Agrees(l, b, c)
  BY LineAgrees
<1> QED
  BY <1>1 DEF Agrees, IsEnd

LEMMA EndIs == EndLine \in AnyLine /\ IsEnd(EndLine) /\ EndLine.tag = "Cycle Tracker End"
<1>1. EndLine \in AnyLine
  BY DEF AnyLine
<1>2. EndLine.tag = "Cycle Tracker End"
  BY DEF EndLine, Line
<1> QED
  BY <1>1, <1>2 DEF IsEnd

LEMMA BlockKeepsLines ==
    ASSUME Inv, LogBlock
    PROVE  /\ stage = "run" /\ case \in Cases /\ backend \in BackendModes
           /\ log \in Seq(AnyLine) /\ Head(lines) \in Seq(AnyLine)
           /\ log' = log \o Head(lines) /\ log' \in Seq(AnyLine)
           /\ Len(reported) \in Nat
           /\ backend' = backend /\ todo' = todo /\ case' = case
           /\ stage' = stage /\ timing' = timing /\ acc' = acc /\ table' = table
           /\ LinesInv'
           /\ \/ /\ Head(lines) = <<EndLine>> /\ lines' = <<>>
                 /\ Len(lines) = 1
                 /\ reported' = Append(reported, case)
              \/ /\ lines' # <<>> /\ reported' = reported
                 /\ \A x : In(x, Head(lines)) => IsLineOf(x, backend, case)
                 /\ \A l, n : n \in 1 .. Len(lines) - 1 /\ In(l, lines[n]) =>
                        \/ In(l, Head(lines))
                        \/ \E k \in 1 .. Len(lines') - 1 : In(l, lines'[k])
                 /\ zkvm = "zisk" =>
                        \/ Head(lines) = <<CaseLine(case)>>
                        \/ Head(lines) = ZiskOutput(case) /\ mode = "execute"
<1>a. /\ stage = "run" /\ lines # <<>> /\ log' = log \o Head(lines)
      /\ lines' = Tail(lines) /\ backend' = backend /\ todo' = todo
      /\ case' = case /\ stage' = stage /\ timing' = timing /\ acc' = acc
      /\ table' = table
      /\ reported' = IF lines' = <<>> THEN Append(reported, case) ELSE reported
  BY DEF LogBlock, script
<1>b. backend \in BackendModes /\ log \in Seq(AnyLine) /\ Len(reported) \in Nat
  BY BackendIs DEF Inv, ControlInv
<1>c. /\ lines \in Seq(Seq(AnyLine))
      /\ case \in Cases /\ case \notin todo
      /\ \A i \in 1 .. Len(reported) : reported[i] # case
      /\ lines[Len(lines)] = <<EndLine>>
      /\ \A n \in 1 .. Len(lines) - 1 :
             /\ \A x : In(x, lines[n]) => IsLineOf(x, backend, case)
             /\ zkvm = "zisk" =>
                    \/ lines[n] = <<CaseLine(case)>>
                    \/ lines[n] = ZiskOutput(case) /\ mode = "execute"
  BY <1>a DEF Inv, LinesInv
<1>d. /\ Head(lines) = lines[1] /\ lines[1] \in Seq(AnyLine)
      /\ Tail(lines) \in Seq(Seq(AnyLine))
      /\ Len(lines) \in Nat /\ Len(lines) >= 1 /\ Len(Tail(lines)) = Len(lines) - 1
      /\ \A n \in 1 .. Len(lines) - 1 : Tail(lines)[n] = lines[n + 1]
      /\ Tail(lines) = <<>> <=> Len(lines) = 1
  BY <1>a, <1>c, TailIs, Zenon
<1>e. log' \in Seq(AnyLine)
  BY <1>a, <1>b, <1>d, Grown, Zenon
<1>1. CASE Len(lines) = 1
  <2>1. Head(lines) = <<EndLine>> /\ lines' = <<>>
    BY <1>a, <1>c, <1>d, <1>1
  <2>2. LinesInv'
    BY <1>a, <1>d, <2>1 DEF LinesInv
  <2>3. reported' = Append(reported, case)
    BY <1>a, <2>1
  <2> QED
    BY <1>a, <1>b, <1>c, <1>d, <1>e, <1>1, <2>1, <2>2, <2>3, Zenon
<1>2. CASE Len(lines) > 1
  <2>1. lines' # <<>> /\ reported' = reported /\ Len(lines') = Len(lines) - 1
    BY <1>a, <1>d, <1>2
  <2>2. \A x : In(x, Head(lines)) => IsLineOf(x, backend, case)
    <3>1. 1 \in 1 .. Len(lines) - 1
      BY <1>d, <1>2
    <3>2. \A x : In(x, lines[1]) => IsLineOf(x, backend, case)
      BY <1>c, <3>1
    <3> QED
      BY <1>d, <3>2, Zenon
  <2>3. zkvm = "zisk" => \/ Head(lines) = <<CaseLine(case)>>
                         \/ Head(lines) = ZiskOutput(case) /\ mode = "execute"
    BY <1>c, <1>d, <1>2
  <2>4. ASSUME NEW l, NEW n, n \in 1 .. Len(lines) - 1, In(l, lines[n])
        PROVE  \/ In(l, Head(lines))
               \/ \E k \in 1 .. Len(lines') - 1 : In(l, lines'[k])
    <3>1. CASE n = 1
      BY <1>d, <2>4, <3>1
    <3>2. CASE n > 1
      <4>1. n - 1 \in 1 .. Len(lines') - 1 /\ lines'[n - 1] = lines[n]
        BY <1>a, <1>d, <2>1, <2>4, <3>2
      <4> QED
        BY <2>4, <4>1
    <3> QED
      BY <1>d, <2>4, <3>1, <3>2
  <2>5. LinesInv'
    <3>1. lines'[Len(lines')] = <<EndLine>>
      <4>1. /\ Len(lines) - 1 \in 1 .. Len(lines) - 1
            /\ (Len(lines) - 1) + 1 = Len(lines)
        BY <1>d, <1>2
      <4>2. Tail(lines)[Len(lines) - 1] = lines[Len(lines)]
        BY <1>d, <4>1
      <4>3. lines'[Len(lines')] = Tail(lines)[Len(lines) - 1]
        BY <1>a, <2>1, Zenon
      <4> QED
        BY <1>c, <4>2, <4>3, Zenon
    <3>2. ASSUME NEW n \in 1 .. Len(lines') - 1
          PROVE  /\ \A x : In(x, lines'[n]) => IsLineOf(x, backend, case)
                 /\ zkvm = "zisk" =>
                        \/ lines'[n] = <<CaseLine(case)>>
                        \/ lines'[n] = ZiskOutput(case) /\ mode = "execute"
      <4>1. n + 1 \in 1 .. Len(lines) - 1 /\ lines'[n] = lines[n + 1]
        BY <1>a, <1>d, <2>1
      <4> QED
        BY <1>c, <4>1
    <3> QED
      BY <1>a, <1>c, <1>d, <2>1, <3>1, <3>2 DEF LinesInv, zkvm, mode
  <2> QED
    BY <1>a, <1>b, <1>c, <1>d, <1>e, <2>1, <2>2, <2>3, <2>4, <2>5, Zenon
<1> QED
  BY <1>d, <1>1, <1>2

LEMMA BlockKeepsLog ==
    ASSUME Inv, LogBlock
    PROVE  LogInv'
<1>a. /\ stage = "run" /\ case \in Cases /\ backend \in BackendModes
      /\ log \in Seq(AnyLine) /\ Head(lines) \in Seq(AnyLine)
      /\ log' = log \o Head(lines)
      /\ Len(reported) \in Nat /\ reported \in Seq(Cases)
      /\ Len(table) \in Nat /\ lines # <<>>
      /\ backend' = backend /\ case' = case
      /\ stage' = stage /\ acc' = acc /\ table' = table
  BY BlockKeepsLines DEF Inv, ControlInv, RowsInv, LogBlock
<1>b. PICK own : /\ Ordered(own, log, Len(table), Len(reported))
                 /\ Assigned(own) /\ NoneMissing(own) /\ Coming(own)
  BY DEF Inv, LogInv, Attributed
<1>k. PICK next : next = Len(reported) + 1
  OBVIOUS
<1>c. PICK block : block = Head(lines)
  OBVIOUS
<1>d. PICK new : new = Extended(own, Len(log), Len(block), next)
  OBVIOUS
<1>e. block \in Seq(AnyLine) /\ log' = log \o block
  BY <1>a, <1>c
<1>f. /\ \A i \in 1 .. Len(log) : new[i] = own[i]
      /\ \A j \in 1 .. Len(block) : new[Len(log) + j] = next
      /\ \A x, n : Numbered(own, x, n) => Numbered(new, x, n)'
      /\ \A x : In(x, block) => Numbered(new, x, next)'
  <2>1. log \in Seq(AnyLine) /\ block \in Seq(AnyLine) /\ log' = log \o block
    BY <1>a, <1>e
  <2> QED
    BY <1>d, <2>1, GrownNumbers
<1>g. /\ Len(log) \in Nat /\ Len(block) \in Nat
      /\ \A i \in 1 .. Len(log) : log'[i] = log[i]
      /\ \A j \in 1 .. Len(block) : log'[Len(log) + j] = block[j]
      /\ \A i \in 1 .. Len(log') : i \in 1 .. Len(log)
             \/ \E j \in 1 .. Len(block) : i = Len(log) + j
  <2>1. log \in Seq(AnyLine) /\ block \in Seq(AnyLine) /\ log' = log \o block
    BY <1>a, <1>e
  <2>2. /\ Len(log) \in Nat /\ Len(block) \in Nat
        /\ Len(log') = Len(log) + Len(block)
        /\ \A i \in 1 .. Len(log) : log'[i] = log[i]
        /\ \A j \in 1 .. Len(block) : log'[Len(log) + j] = block[j]
    BY <2>1
  <2>3. \A i \in 1 .. Len(log') : i \in 1 .. Len(log)
            \/ \E j \in 1 .. Len(block) : i = Len(log) + j
    <3>1. ASSUME NEW i \in 1 .. Len(log'), i \notin 1 .. Len(log)
          PROVE  \E j \in 1 .. Len(block) : i = Len(log) + j
      <4>1. i - Len(log) \in 1 .. Len(block) /\ i = Len(log) + (i - Len(log))
        BY <2>2, <3>1
      <4> QED
        BY <4>1
    <3> QED
      BY <3>1
  <2> QED
    BY <2>2, <2>3
<1>h. \A j \in 1 .. Len(block) : In(block[j], block)
  BY <1>e DEF In
<1>i. \A i \in 1 .. Len(log) : /\ Placed(log[i], own[i])
                               /\ own[i] \in Nat /\ own[i] <= Len(reported) + 1
  BY <1>b DEF Assigned, Ordered
<1>1. CASE /\ block = <<EndLine>> /\ lines' = <<>>
           /\ Len(lines) = 1 /\ reported' = Append(reported, case)
  <2>1. /\ Len(reported') = Len(reported) + 1
        /\ reported'[Len(reported) + 1] = case
        /\ \A k \in 1 .. Len(reported) : reported'[k] = reported[k]
    BY <1>a, <1>1
  <2>2. /\ Len(block) = 1 /\ block[1] = EndLine /\ block # <<>>
    BY <1>1, EndIs, OneLine, Zenon
  <2>3. Ordered(new, log', Len(table), Len(reported) + 1)
    <3>1. \A i \in 1 .. Len(block) - 1 : ~IsEnd(block[i])
      BY <2>2
    <3>2. Ordered(new, log \o block, Len(table),
                  IF IsEnd(block[Len(block)]) THEN Len(reported) + 1 ELSE Len(reported))
      BY <1>a, <1>b, <1>d, <1>e, <1>k, <2>2, <3>1, ExtendedOrder
    <3> QED
      BY <1>e, <2>2, <3>2, EndIs, Zenon
  <2>4. ASSUME NEW i \in 1 .. Len(log') PROVE Placed(log[i], new[i])'
    <3>1. CASE i \in 1 .. Len(log)
      <4>1. log'[i] = log[i] /\ new[i] = own[i]
        BY <1>f, <1>g, <3>1
      <4>2. CaseOf(own[i])' = CaseOf(own[i])
        <5>1. CASE own[i] = Len(reported) + 1
          BY <1>a, <2>1, <5>1 DEF CaseOf
        <5>2. CASE own[i] <= Len(reported)
          <6>1. own[i] \in 1 .. Len(reported)
            BY <1>a, <1>b, <1>i, <3>1, <5>2 DEF Ordered
          <6> QED
            BY <1>a, <2>1, <6>1 DEF CaseOf
        <5> QED
          BY <1>a, <1>i, <3>1, <5>1, <5>2
      <4>3. own[i] # Len(reported') + 1
        BY <1>a, <1>i, <2>1, <3>1
      <4>4. Placed(log[i], own[i])
        BY <1>i, <3>1
      <4> QED
        BY <1>a, <4>1, <4>2, <4>3, <4>4 DEF Placed
    <3>2. ASSUME NEW j \in 1 .. Len(block), i = Len(log) + j
          PROVE  Placed(log[i], new[i])'
      <4>1. log'[i] = EndLine
        BY <1>g, <2>2, <3>2
      <4> QED
        BY <4>1, EndIs DEF Placed
    <3> QED
      BY <1>g, <3>1, <3>2
  <2>5. NoneMissing(new)'
    <3>1. ASSUME NEW k \in Len(table) + 1 .. Len(reported'), NEW l,
                 IsLineOf(l, backend, reported'[k])
          PROVE  Numbered(new, l, k)'
      <4>1. CASE k = Len(reported) + 1
        <5>1. IsLineOf(l, backend, case)
          BY <2>1, <3>1, <4>1
        <5>2. Numbered(own, l, Len(reported) + 1)
          BY <1>a, <1>b, <1>1, <5>1 DEF Coming
        <5> QED
          BY <1>f, <1>k, <4>1, <5>2
      <4>2. CASE k <= Len(reported)
        <5>1. k \in 1 .. Len(reported) /\ k \in Len(table) + 1 .. Len(reported)
          BY <1>a, <2>1, <4>2
        <5>2. IsLineOf(l, backend, reported[k])
          BY <2>1, <3>1, <5>1
        <5>3. Numbered(own, l, k)
          BY <1>a, <1>b, <5>1, <5>2 DEF NoneMissing
        <5> QED
          BY <1>f, <5>3
      <4> QED
        BY <1>a, <2>1, <4>1, <4>2
    <3> QED
      BY <1>a, <3>1 DEF NoneMissing
  <2>6. Coming(new)'
    BY <1>1 DEF Coming
  <2>7. Assigned(new)'
    BY <2>4 DEF Assigned
  <2> QED
    BY <1>a, <2>1, <2>3, <2>5, <2>6, <2>7 DEF LogInv, Attributed
<1>2. CASE /\ lines' # <<>> /\ reported' = reported
           /\ \A x : In(x, block) => IsLineOf(x, backend, case)
           /\ \A l, n : n \in 1 .. Len(lines) - 1 /\ In(l, lines[n]) =>
                  \/ In(l, block)
                  \/ \E k \in 1 .. Len(lines') - 1 : In(l, lines'[k])
  <2>1. Ordered(new, log', Len(table), Len(reported))
    <3>1. \A x : In(x, block) => ~IsEnd(x)
      BY <1>a, <1>2, NotEnd
    <3> QED
      BY <1>a, <1>b, <1>d, <1>e, <1>k, <3>1, BlockOrder
  <2>2. \A k : CaseOf(k)' = CaseOf(k)
    BY <1>a, <1>2 DEF CaseOf
  <2>3. ASSUME NEW i \in 1 .. Len(log') PROVE Placed(log[i], new[i])'
    <3>1. CASE i \in 1 .. Len(log)
      <4>1. log'[i] = log[i] /\ new[i] = own[i]
        BY <1>f, <1>g, <3>1
      <4>2. Placed(log[i], own[i])
        BY <1>i, <3>1
      <4> QED
        BY <1>a, <1>2, <2>2, <4>1, <4>2 DEF Placed
    <3>2. ASSUME NEW j \in 1 .. Len(block), i = Len(log) + j
          PROVE  Placed(log[i], new[i])'
      <4>1. log'[i] = block[j] /\ new[i] = Len(reported) + 1
        BY <1>f, <1>g, <1>k, <3>2
      <4>2. IsLineOf(block[j], backend, case)
        BY <1>h, <1>2
      <4>3. CaseOf(Len(reported) + 1) = case
        BY <1>a DEF CaseOf
      <4> QED
        BY <1>a, <1>2, <2>2, <4>1, <4>2, <4>3 DEF Placed
    <3> QED
      BY <1>g, <3>1, <3>2
  <2>4. NoneMissing(new)'
    BY <1>a, <1>b, <1>f, <1>2 DEF NoneMissing
  <2>5. Coming(new)'
    <3>1. ASSUME NEW l, IsLineOf(l, backend, case)
          PROVE  \/ Numbered(new, l, next)'
                 \/ \E k \in 1 .. Len(lines') - 1 : In(l, lines'[k])
      <4>1. CASE Numbered(own, l, Len(reported) + 1)
        BY <1>f, <1>k, <4>1
      <4>2. ASSUME NEW n \in 1 .. Len(lines) - 1, In(l, lines[n])
            PROVE  \/ Numbered(new, l, next)'
                   \/ \E k \in 1 .. Len(lines') - 1 : In(l, lines'[k])
        BY <1>f, <1>2, <4>2
      <4>3. \/ Numbered(own, l, Len(reported) + 1)
            \/ \E n \in 1 .. Len(lines) - 1 : In(l, lines[n])
        BY <1>a, <1>b, <3>1 DEF Coming
      <4> QED
        BY <4>1, <4>2, <4>3
    <3> QED
      BY <1>a, <1>k, <1>2, <3>1 DEF Coming
  <2>6. Assigned(new)'
    BY <2>3 DEF Assigned
  <2> QED
    BY <1>a, <1>2, <2>1, <2>4, <2>5, <2>6 DEF LogInv, Attributed
<1> QED
  BY <1>c, <1>1, <1>2, BlockKeepsLines

LEMMA BlockKeepsTiming ==
    ASSUME Inv, LogBlock
    PROVE  TimingInv'
<1>a. /\ stage = "run" /\ stage' = "run" /\ backend' = backend /\ timing' = timing
      /\ case \in Cases /\ log \in Seq(AnyLine) /\ Head(lines) \in Seq(AnyLine)
      /\ log' = log \o Head(lines) /\ log' \in Seq(AnyLine)
      /\ \/ Head(lines) = <<EndLine>>
         \/ zkvm = "zisk" => \/ Head(lines) = <<CaseLine(case)>>
                             \/ Head(lines) = ZiskOutput(case)
  BY BlockKeepsLines
<1>b. timing \in TimingType
  BY DEF Inv, TimingInv
<1>c. PICK block : block = Head(lines)
  OBVIOUS
<1>d. block \in Seq(AnyLine) /\ log' = log \o block
  BY <1>a, <1>c
<1>e. \A s \in Stages : Weight(GuestLines, s) \in Nat
  BY GuestLinesAre, WeightType
<1>1. CASE zkvm = "zisk"
  <2>1. PICK m \in Nat :
            /\ \A s \in Stages : Weight(log, s) = m * Weight(GuestLines, s)
            /\ (\E i \in 1 .. Len(log) : log[i].tag = "process_rom") => m >= 1
    BY <1>a, <1>1 DEF Inv, TimingInv
  <2>2. CASE block = ZiskOutput(case)
    <3>1. \A s \in Stages : Weight(log', s) = Weight(log, s) + Weight(GuestLines, s)
      <4>1. \A s \in Stages : Weight(block, s) = Weight(GuestLines, s)
        BY <1>a, <2>2, ZiskOutputTimes
      <4>2. \A s \in Stages : Weight(log', s) = Weight(log, s) + Weight(block, s)
        <5>1. \A s \in Stages :
                  Weight(log \o block, s) = Weight(log, s) + Weight(block, s)
          BY <1>a, <1>d, WeightConcat
        <5> QED
          BY <1>d, <5>1, Zenon
      <4> QED
        BY <4>1, <4>2
    <3>2. \A s \in Stages : Weight(log', s) = (m + 1) * Weight(GuestLines, s)
      <4>1. \A x \in Nat : m * x + x = (m + 1) * x
        BY <2>1
      <4> QED
        BY <1>e, <2>1, <3>1, <4>1
    <3>3. m + 1 \in Nat /\ m + 1 >= 1
      BY <2>1
    <3> QED
      BY <1>a, <1>b, <3>2, <3>3 DEF TimingInv
  <2>3. ASSUME NEW l \in AnyLine, l.tag # "OPERATION_PROGRESS",
               l.tag # "process_rom", block = <<l>>
        PROVE  TimingInv'
    <3>1. \A s \in Stages : Weight(log', s) = m * Weight(GuestLines, s)
      <4>1. log' = log \o <<l>>
        BY <1>d, <2>3, Zenon
      <4>2. \A s \in Stages : Weight(log \o <<l>>, s) = Weight(log, s)
        BY <1>a, <2>3, WeightOther
      <4> QED
        BY <2>1, <4>1, <4>2, Zenon
    <3>2. /\ Len(log') = Len(log) + 1 /\ Len(log) \in Nat /\ log'[Len(log) + 1] = l
          /\ \A i \in 1 .. Len(log) : log'[i] = log[i]
      <4>1. Len(block) = 1 /\ block[1] = l
        BY <2>3
      <4>2. /\ Len(log') = Len(log) + Len(block) /\ Len(log) \in Nat
            /\ \A i \in 1 .. Len(log) : log'[i] = log[i]
            /\ \A i \in 1 .. Len(block) : log'[Len(log) + i] = block[i]
        <5>1. log \in Seq(AnyLine) /\ block \in Seq(AnyLine) /\ log' = log \o block
          BY <1>a, <1>d
        <5> QED
          BY <5>1
      <4> QED
        BY <4>1, <4>2
    <3>3. (\E i \in 1 .. Len(log') : log'[i].tag = "process_rom")
              => \E i \in 1 .. Len(log) : log[i].tag = "process_rom"
      <4>1. ASSUME NEW i \in 1 .. Len(log'), log'[i].tag = "process_rom"
            PROVE  i \in 1 .. Len(log) /\ log[i].tag = "process_rom"
        <5>1. i \in 1 .. Len(log) \/ i = Len(log) + 1
          BY <3>2
        <5> QED
          BY <2>3, <3>2, <4>1, <5>1
      <4> QED
        BY <4>1
    <3> QED
      BY <1>a, <1>b, <2>1, <3>1, <3>3 DEF TimingInv
  <2>4. CASE block = <<EndLine>>
    <3>1. /\ EndLine \in AnyLine /\ EndLine.tag # "OPERATION_PROGRESS"
          /\ EndLine.tag # "process_rom"
      BY EndIs
    <3> QED
      BY <2>3, <2>4, <3>1
  <2>5. CASE block = <<CaseLine(case)>>
    <3>1. CaseLine(case) \in AnyLine
      BY <1>a, IsAnyLine DEF SomeLine
    <3>2. CaseLine(case).tag = "Test case:"
      BY DEF CaseLine, Line
    <3> QED
      BY <2>3, <2>5, <3>1, <3>2
  <2> QED
    BY <1>a, <1>c, <1>1, <2>2, <2>4, <2>5
<1>2. CASE zkvm # "zisk"
  BY <1>a, <1>b, <1>2 DEF TimingInv, zkvm
<1> QED
  BY <1>1, <1>2

LEMMA BlockKeeps ==
    ASSUME Inv, LogBlock
    PROVE  Inv'
<1>a. /\ stage = "run" /\ stage' = stage /\ backend' = backend /\ todo' = todo
      /\ case' = case /\ case \in Cases /\ log' \in Seq(AnyLine)
      /\ timing' = timing /\ acc' = acc /\ table' = table
      /\ reported' = Append(reported, case) \/ reported' = reported
  BY BlockKeepsLines
<1>b. /\ backend \in Backends /\ todo \subseteq Cases /\ reported \in Seq(Cases)
      /\ \A i \in 1 .. Len(reported) : reported[i] \notin todo
      /\ acc = Fresh /\ table = <<>>
  BY <1>a DEF Inv, ControlInv
<1>c. case \notin todo
  BY DEF Inv, LinesInv, LogBlock
<1>1. ControlInv'
  <2>1. /\ reported' \in Seq(Cases)
        /\ \A i \in 1 .. Len(reported') : reported'[i] \notin todo
    <3>1. CASE reported' = Append(reported, case)
      <4>1. /\ reported' \in Seq(Cases) /\ Len(reported) \in Nat
            /\ Len(reported') = Len(reported) + 1
            /\ reported'[Len(reported) + 1] = case
            /\ \A i \in 1 .. Len(reported) : reported'[i] = reported[i]
        BY <1>a, <1>b, <3>1
      <4>2. ASSUME NEW i \in 1 .. Len(reported') PROVE reported'[i] \notin todo
        <5>1. i \in 1 .. Len(reported) \/ i = Len(reported) + 1
          BY <4>1
        <5> QED
          BY <1>b, <1>c, <4>1, <5>1
      <4> QED
        BY <4>1, <4>2
    <3>2. CASE reported' = reported
      BY <1>b, <3>2
    <3> QED
      BY <1>a, <3>1, <3>2
  <2> QED
    BY <1>a, <1>b, <2>1 DEF ControlInv
<1>2. CaseInv' /\ LinesInv'
  BY <1>a, BlockKeepsLines DEF CaseInv
<1>3. LogInv'
  BY BlockKeepsLog
<1>4. AccInv'
  BY <1>a, <1>b DEF AccInv
<1>5. RowsInv'
  <2>1. 1 .. Len(table) = {}
    BY <1>b
  <2> QED
    BY <1>a, <2>1, RowsStay DEF Inv
<1>6. TimingInv'
  BY BlockKeepsTiming
<1> QED
  BY <1>1, <1>2, <1>3, <1>4, <1>5, <1>6 DEF Inv

-----------------------------------------------------------------------------
(* The analysis *)

\* The only statistics ziskemu prints for c.
LEMMA RomLineOf ==
    ASSUME NEW c \in Cases, NEW b, Executes(b, "zisk"), NEW l, IsLineOf(l, b, c),
           l.tag = "process_rom"
    PROVE  l = RomLine(c)
<1>1. /\ ~Executes(b, "sp1") /\ ~Executes(b, "pico") /\ ~Executes(b, "risc-zero")
      /\ b[1] # "risc-zero" /\ b[1] # "jolt"
  BY ExecutesIs
<1>2. l # CaseLine(c)
  <2>1. CaseLine(c).tag = "Test case:"
    BY DEF CaseLine, Line
  <2> QED
    BY <2>1
<1>3. ~In(l, GuestLines)
  <2>1. \A k \in DOMAIN GuestLines : GuestLines[k] \in GuestLine
    <3>1. ASSUME NEW X, NEW s \in Seq(X) PROVE \A k \in DOMAIN s : s[k] \in X
      OBVIOUS
    <3> QED
      BY <3>1, GuestLinesAre
  <2>2. \A x \in GuestLine : x.tag # "process_rom"
    BY DEF GuestLine
  <2> QED
    BY <2>1, <2>2 DEF In
<1> QED
  BY <1>1, <1>2, <1>3 DEF IsLineOf, RomLine

\* What the analysis makes of a log with a case that was reported.
LEMMA AnalysisIs ==
    ASSUME Inv, stage = "analyse", zkvm = "zisk", mode = "execute",
           reported # <<>>
    PROVE  ShellVars(log) = ShellVars(ZiskOutput(reported[1]))
<1> DEFINE c == reported[1]
<1>a. /\ log \in Seq(AnyLine) /\ reported \in Seq(Cases) /\ table = <<>>
      /\ backend \in BackendModes /\ backend[1] = "zisk" /\ backend[2] = "execute"
  BY BackendIs DEF Inv, ControlInv
<1>b. Len(reported) \in Nat /\ Len(reported) >= 1 /\ c \in Cases /\ Len(table) = 0
  BY <1>a
<1>c. Executes(backend, "zisk")
  <2>1. backend = <<backend[1], backend[2]>>
    BY <1>a DEF BackendModes
  <2> QED
    BY <1>a, <2>1, Zenon DEF Executes
<1>d. PICK own : /\ Ordered(own, log, Len(table), Len(reported))
                 /\ Assigned(own) /\ NoneMissing(own)
  BY DEF Inv, LogInv, Attributed
<1>e. CaseOf(1) = c
  BY <1>b DEF CaseOf
<1>f. ASSUME NEW l, IsLineOf(l, backend, c) PROVE Numbered(own, l, 1)
  <2>1. 1 \in Len(table) + 1 .. Len(reported)
    BY <1>b
  <2>2. \A x : IsLineOf(x, backend, reported[1]) => Numbered(own, x, 1)
    BY <1>d, <2>1 DEF NoneMissing
  <2> QED
    BY <1>f, <2>2
<1> HIDE DEF c
<1>1. /\ \A s \in Stages : HasStage(log, s)
      /\ IsLineOf(RomLine(c), backend, c)
  <2>1. ASSUME NEW x, In(x, GuestLines) PROVE In(x, log)
    <3>1. IsLineOf(x, backend, c)
      BY <1>c, <2>1 DEF IsLineOf
    <3>2. \E i \in 1 .. Len(log) : log[i] = x
      BY <1>f, <3>1 DEF Numbered
    <3> QED
      BY <1>a, <3>2 DEF In
  <2>2. \A s \in Stages : HasStage(log, s)
    BY <2>1, GuestLinesAre DEF HasStage
  <2>3. IsLineOf(RomLine(c), backend, c)
    BY <1>c DEF IsLineOf, RomLine
  <2> QED
    BY <2>2, <2>3
<1>2. Operations(log) = Stages
  BY <1>a, <1>1, StagesIn
<1>3. PICK i \in 1 .. Len(log) : own[i] = 1 /\ log[i] = RomLine(c)
  BY <1>f, <1>1 DEF Numbered
<1>4. log[i].tag = "process_rom"
  <2>1. RomLine(c).tag = "process_rom"
    BY DEF RomLine, Line
  <2> QED
    BY <1>3, <2>1
<1>5. PICK j \in 1 .. i : /\ log[j].tag = "process_rom"
                          /\ ExecutionStats(log) = log[j].val
  BY <1>a, <1>3, <1>4, StatsAre
<1>6. j \in 1 .. Len(log) /\ own[j] = 1
  <2>1. j \in 1 .. Len(log) /\ (j = i \/ j < i)
    BY <1>a, <1>3, <1>5
  <2>2. own[j] \in Nat /\ own[j] >= 1
    BY <1>b, <1>d, <2>1 DEF Ordered
  <2>3. j < i => own[j] <= own[i]
    BY <1>d, <1>3, <2>1 DEF Ordered
  <2> QED
    BY <1>3, <2>1, <2>2, <2>3
<1>7. IsLineOf(log[j], backend, c)
  <2>1. Placed(log[j], 1)
    BY <1>d, <1>6 DEF Assigned
  <2> QED
    BY <1>5, <1>e, <2>1 DEF Placed, IsEnd
<1>8. ExecutionStats(log) = RomLine(c).val
  <2>1. log[j] = RomLine(c)
    BY <1>b, <1>c, <1>5, <1>7, RomLineOf
  <2> QED
    BY <1>5, <2>1
<1>9. PICK m \in Nat :
          /\ \A s \in Stages : Weight(log, s) = m * Weight(GuestLines, s)
          /\ (\E n \in 1 .. Len(log) : log[n].tag = "process_rom") => m >= 1
  BY DEF Inv, TimingInv
<1>10. m >= 1
  BY <1>3, <1>4, <1>9
<1>11. ZiskOutput(c) \in Seq(AnyLine)
  BY <1>b, ZiskOutputIs
<1>12. /\ Operations(ZiskOutput(c)) = Stages
       /\ \A s \in Stages : /\ Weight(ZiskOutput(c), s) = Weight(GuestLines, s)
                            /\ Weight(GuestLines, s) >= 1
       /\ ExecutionStats(ZiskOutput(c)) = RomLine(c).val
       /\ ExecutionStats(ZiskOutput(c)) \in Stats
  BY <1>b, ZiskOutputTimes
<1>13. \A s \in Stages : /\ Weight(ZiskOutput(c), s) >= 1
                         /\ Weight(log, s) = m * Weight(ZiskOutput(c), s)
  BY <1>9, <1>12
<1>14. ShellVars(log) = ShellVars(ZiskOutput(c))
  BY <1>a, <1>2, <1>8, <1>10, <1>11, <1>12, <1>13, ShellVarsOfCopies
<1> QED
  BY <1>14 DEF c

LEMMA AnalyseKeeps ==
    ASSUME Inv, Analyse
    PROVE  Inv'
<1>a. /\ stage = "analyse" /\ stage' = "parse" /\ backend' = backend
      /\ todo' = todo /\ case' = case /\ lines' = lines /\ log' = log
      /\ reported' = reported /\ acc' = acc /\ table' = table
      /\ timing' = IF zkvm = "zisk" THEN ShellVars(log) ELSE timing
  BY DEF Analyse, harness
<1>b. /\ log \in Seq(AnyLine) /\ acc = Fresh /\ table = <<>> /\ timing \in TimingType
  BY <1>a DEF Inv, ControlInv, TimingInv
<1>1. ControlInv' /\ CaseInv' /\ LinesInv'
  BY <1>a DEF Inv, ControlInv, CaseInv, LinesInv, zkvm, mode
<1>2. LogInv'
  <2>1. PICK own : /\ Ordered(own, log, Len(table), Len(reported))
                   /\ Assigned(own) /\ NoneMissing(own)
    BY DEF Inv, LogInv, Attributed
  <2>2. Assigned(own)'
    <3>1. \A x, k : Placed(x, k)' <=> Placed(x, k)
      BY <1>a DEF Placed, CaseOf
    <3> QED
      BY <1>a, <2>1, <3>1 DEF Assigned
  <2>3. \A x, k : Numbered(own, x, k)' <=> Numbered(own, x, k)
    BY <1>a DEF Numbered
  <2>4. NoneMissing(own)'
    BY <1>a, <2>1, <2>3 DEF NoneMissing
  <2>5. Coming(own)'
    BY <1>a DEF Coming
  <2> QED
    BY <1>a, <2>1, <2>2, <2>4, <2>5 DEF LogInv, Attributed
<1>3. AccInv'
  BY <1>a, <1>b DEF AccInv
<1>4. RowsInv'
  <2>1. table' \in Seq(RowType) /\ 1 .. Len(table') = {}
    BY <1>a, <1>b
  <2> QED
    BY <2>1 DEF RowsInv
<1>5. TimingInv'
  <2>1. timing' \in TimingType
    <3>1. ExecutionStats(log) \in Stats
      BY <1>b, StatsAre
    <3>2. ShellVars(log) \in TimingType
      BY <1>b, <3>1, ShellVarsType DEF TimingType
    <3> QED
      BY <1>a, <1>b, <3>2
  <2>2. zkvm = "zisk" /\ mode = "execute" /\ reported # <<>> =>
            timing' = ShellVars(ZiskOutput(reported[1]))
    BY <1>a, AnalysisIs
  <2>3. zkvm' = zkvm /\ mode' = mode
    BY <1>a DEF zkvm, mode
  <2> QED
    BY <1>a, <2>1, <2>2, <2>3 DEF TimingInv
<1> QED
  BY <1>1, <1>2, <1>3, <1>4, <1>5 DEF Inv

-----------------------------------------------------------------------------
(* The steps of the awk program *)

\* The accumulators, fresh or in use, are those of the case that comes next.
LEMMA AccBetween ==
    ASSUME Inv, NEW c, c = CaseOf(Len(table) + 1)
    PROVE  Between(acc, backend, c)
<1>1. CASE acc = Fresh
  BY <1>1, FreshBetween
<1>2. CASE acc # Fresh
  BY <1>2 DEF Inv, AccInv
<1> QED
  BY <1>1, <1>2

\* The rest of the log is numbered as before.
LEMMA RestNumbers ==
    ASSUME log \in Seq(AnyLine), log # <<>>, log' = Tail(log), NEW own, NEW new,
           new = [i \in 1 .. Len(log) - 1 |-> own[i + 1]]
    PROVE  /\ Len(log') = Len(log) - 1 /\ Len(log) \in Nat /\ Head(log) = log[1]
           /\ log' \in Seq(AnyLine)
           /\ \A i \in 1 .. Len(log') : /\ log'[i] = log[i + 1] /\ new[i] = own[i + 1]
                                        /\ i + 1 \in 1 .. Len(log)
<1>1. /\ Len(log') = Len(log) - 1 /\ Len(log) \in Nat /\ Head(log) = log[1]
      /\ log' \in Seq(AnyLine)
      /\ \A i \in 1 .. Len(log) - 1 : log'[i] = log[i + 1]
  OBVIOUS
<1>2. \A i \in 1 .. Len(log') : /\ log'[i] = log[i + 1] /\ new[i] = own[i + 1]
                                /\ i + 1 \in 1 .. Len(log)
  BY <1>1
<1> QED
  BY <1>1, <1>2

\* A line that is read is taken, one of a skipped case changes nothing, and what
\* was taken stays.
LEMMA LineTaken ==
    ASSUME Inv, log # <<>>, NEW l, l = Head(log), ~IsEnd(l),
           NEW k, k = Len(table) + 1, Placed(l, k),
           NEW c, c = CaseOf(k)
    PROVE  \/ /\ l.tag = "Skipping test case:" /\ Accumulate(acc, l) = acc
           \/ /\ c \in Cases /\ IsLineOf(l, backend, c)
              /\ Between(Accumulate(acc, l), backend, c)
              /\ Took(Accumulate(acc, l), l, backend, c)
              /\ \A m : IsLineOf(m, backend, c) /\ Took(acc, m, backend, c)
                            => Took(Accumulate(acc, l), m, backend, c)
<1>1. CASE l.tag = "Skipping test case:"
  BY <1>1 DEF Accumulate
<1>2. CASE c \in Cases /\ IsLineOf(l, backend, c)
  <2>1. backend \in BackendModes
    BY BackendIs
  <2>2. Between(acc, backend, c)
    BY AccBetween
  <2>3. \A m : IsLineOf(m, backend, c) => Agrees(m, backend, c)
    BY <1>2, <2>1, LineAgrees
  <2>4. /\ Between(Accumulate(acc, l), backend, c)
        /\ Took(Accumulate(acc, l), l, backend, c)
        /\ \A m : Agrees(m, backend, c) /\ Took(acc, m, backend, c)
                      => Took(Accumulate(acc, l), m, backend, c)
    BY <1>2, <2>1, <2>2, <2>3, ReadingTakes
  <2> QED
    BY <1>2, <2>3, <2>4
<1> QED
  BY <1>1, <1>2 DEF Placed

LEMMA ReadLineKeeps ==
    ASSUME Inv, ReadLine
    PROVE  Inv'
<1>a. /\ stage = "parse" /\ log # <<>> /\ ~AtEndLine
      /\ acc' = Accumulate(acc, Head(log)) /\ log' = Tail(log)
      /\ backend' = backend /\ todo' = todo /\ case' = case /\ lines' = lines
      /\ reported' = reported /\ stage' = stage /\ timing' = timing
      /\ table' = table
  BY DEF ReadLine, harness
<1>b. /\ log \in Seq(AnyLine) /\ Len(reported) \in Nat /\ Len(table) \in Nat
      /\ ~IsEnd(Head(log))
  <2>1. log \in Seq(AnyLine) /\ reported \in Seq(Cases) /\ table \in Seq(RowType)
    BY DEF Inv, ControlInv, RowsInv
  <2>2. Len(reported) \in Nat
    BY <2>1
  <2>3. Len(table) \in Nat
    BY <2>1
  <2>4. ~IsEnd(Head(log))
    BY <1>a DEF AtEndLine, IsEnd
  <2> QED
    BY <2>1, <2>2, <2>3, <2>4
<1>c. PICK own : /\ Ordered(own, log, Len(table), Len(reported))
                 /\ Assigned(own) /\ NoneMissing(own)
  BY DEF Inv, LogInv, Attributed
<1>d. PICK new : new = [i \in 1 .. Len(log) - 1 |-> own[i + 1]]
  OBVIOUS
<1>e. /\ Len(log') = Len(log) - 1 /\ Len(log) \in Nat /\ Head(log) = log[1]
      /\ log' \in Seq(AnyLine)
      /\ \A i \in 1 .. Len(log') : /\ log'[i] = log[i + 1] /\ new[i] = own[i + 1]
                                   /\ i + 1 \in 1 .. Len(log)
  <2>1. log \in Seq(AnyLine) /\ log # <<>> /\ log' = Tail(log)
    BY <1>a, <1>b
  <2> QED
    BY <1>d, <2>1, RestNumbers
<1>m. ASSUME NEW i \in 1 .. Len(log), i # 1
      PROVE  \E j \in 1 .. Len(log') : new[j] = own[i] /\ log'[j] = log[i]
  <2>1. i - 1 \in 1 .. Len(log') /\ (i - 1) + 1 = i
    BY <1>e, <1>m
  <2>2. log'[i - 1] = log[i] /\ new[i - 1] = own[i]
    BY <1>e, <2>1
  <2> QED
    BY <2>1, <2>2
<1>n. ASSUME NEW x, NEW n, Numbered(own, x, n)
      PROVE  Numbered(new, x, n)' \/ (own[1] = n /\ Head(log) = x)
  <2>1. PICK i \in 1 .. Len(log) : own[i] = n /\ log[i] = x
    BY <1>n DEF Numbered
  <2>2. i = 1 \/ \E j \in 1 .. Len(log') : new[j] = own[i] /\ log'[j] = log[i]
    BY <1>m
  <2>3. CASE i = 1
    BY <1>e, <2>1, <2>3
  <2>4. CASE \E j \in 1 .. Len(log') : new[j] = own[i] /\ log'[j] = log[i]
    BY <2>1, <2>4 DEF Numbered
  <2> QED
    BY <2>2, <2>3, <2>4
<1>f. /\ own[1] = Len(table) + 1
      /\ Ordered([i \in 1 .. Len(log) - 1 |-> own[i + 1]], Tail(log),
                 IF IsEnd(Head(log)) THEN Len(table) + 1 ELSE Len(table),
                 Len(reported))
  BY <1>a, <1>b, <1>c, TailOrder
<1>g. PICK l, k, c : l = Head(log) /\ k = Len(table) + 1 /\ c = CaseOf(k)
  OBVIOUS
<1>h. Placed(l, k)
  <2>1. 1 \in 1 .. Len(log)
    BY <1>a, <1>b
  <2> QED
    BY <1>c, <1>e, <1>f, <1>g, <2>1 DEF Assigned
<1>i. \/ /\ l.tag = "Skipping test case:" /\ acc' = acc
      \/ /\ c \in Cases /\ IsLineOf(l, backend, c)
         /\ Between(acc', backend, c)
         /\ Took(acc', l, backend, c)
         /\ \A m : IsLineOf(m, backend, c) /\ Took(acc, m, backend, c)
                       => Took(acc', m, backend, c)
  <2>1. acc' = Accumulate(acc, l)
    BY <1>a, <1>g
  <2> QED
    BY <1>a, <1>b, <1>g, <1>h, <2>1, LineTaken
<1>j. \A n : CaseOf(n)' = CaseOf(n)
  BY <1>a DEF CaseOf
<1>1. ControlInv' /\ CaseInv' /\ LinesInv'
  BY <1>a, <1>e DEF Inv, ControlInv, CaseInv, LinesInv, zkvm, mode
<1>2. LogInv'
  <2>1. Ordered(new, log', Len(table), Len(reported))
    BY <1>a, <1>b, <1>d, <1>f
  <2>2. Assigned(new)'
    <3>1. \A x, n : Placed(x, n)' <=> Placed(x, n)
      BY <1>a, <1>j DEF Placed
    <3>2. \A i \in 1 .. Len(log') : Placed(log'[i], new[i])
      BY <1>c, <1>e DEF Assigned
    <3> QED
      BY <3>1, <3>2 DEF Assigned
  <2>3. NoneMissing(new)'
    <3>1. ASSUME NEW n \in Len(table) + 1 .. Len(reported), NEW x,
                 IsLineOf(x, backend, reported[n])
          PROVE  \/ Numbered(new, x, n)'
                 \/ n = k /\ Took(acc', x, backend, reported[n])
      <4>1. n = k => c = reported[n]
        BY <1>b, <1>g DEF CaseOf
      <4>2. CASE Numbered(own, x, n)
        <5>1. CASE own[1] = n /\ l = x
          <6>1. n = k /\ IsLineOf(x, backend, c)
            BY <1>f, <1>g, <3>1, <4>1, <5>1
          <6>2. Took(acc', x, backend, c)
            <7>1. CASE l.tag = "Skipping test case:"
              <8>1. x.tag # "Skipping test case:"
                <9>1. backend \in BackendModes
                  BY BackendIs
                <9>2. c \in Cases
                  <10>1. reported \in Seq(Cases) /\ n \in 1 .. Len(reported)
                    BY <1>b DEF Inv, ControlInv
                  <10> QED
                    BY <4>1, <6>1, <10>1
                <9>3. Agrees(x, backend, c)
                  BY <6>1, <9>1, <9>2, LineAgrees
                <9> QED
                  BY <9>3 DEF Agrees
              <8> QED
                BY <5>1, <7>1, <8>1
            <7> QED
              BY <1>i, <5>1, <7>1
          <6> QED
            BY <4>1, <6>1, <6>2
        <5> QED
          BY <1>g, <1>n, <4>2, <5>1
      <4>3. CASE n = k /\ Took(acc, x, backend, reported[n])
        BY <1>i, <3>1, <4>1, <4>3
      <4> QED
        BY <1>c, <1>g, <3>1, <4>2, <4>3 DEF NoneMissing
    <3> QED
      BY <1>a, <1>g, <3>1 DEF NoneMissing
  <2>4. Coming(new)'
    BY <1>a DEF Coming
  <2> QED
    BY <1>a, <2>1, <2>2, <2>3, <2>4 DEF LogInv, Attributed
<1>3. AccInv'
  BY <1>a, <1>g, <1>i, <1>j DEF Inv, AccInv
<1>4. RowsInv'
  BY <1>a, RowsStay DEF Inv
<1>5. TimingInv'
  BY <1>a DEF Inv, TimingInv, zkvm, mode
<1> QED
  BY <1>1, <1>2, <1>3, <1>4, <1>5 DEF Inv

\* At an End line everything its case logged was read: the row is that case's.
LEMMA RowIsOfCase ==
    ASSUME Inv, ReadEndLine, NEW k, k = Len(table) + 1
    PROVE  /\ k \in 1 .. Len(reported)
           /\ Complete(acc, backend, reported[k])
<1>a. stage = "parse" /\ log # <<>> /\ AtEndLine
  BY DEF ReadEndLine, AtEndLine
<1>b. /\ log \in Seq(AnyLine) /\ reported \in Seq(Cases) /\ table \in Seq(RowType)
  BY DEF Inv, ControlInv, RowsInv
<1>c. /\ Len(reported) \in Nat /\ Len(table) \in Nat /\ Head(log) = log[1]
      /\ Len(log) \in Nat /\ 1 \in 1 .. Len(log)
  BY <1>a, <1>b
<1>d. IsEnd(Head(log)) /\ IsEnd(log[1])
  BY <1>a, <1>c DEF AtEndLine, IsEnd
<1>e. PICK own : Ordered(own, log, Len(table), Len(reported)) /\ NoneMissing(own)
  BY DEF Inv, LogInv, Attributed
<1>f. own[1] = k /\ Len(table) < Len(reported)
  BY <1>a, <1>b, <1>c, <1>d, <1>e, TailOrder
<1>g. k \in 1 .. Len(reported) /\ k \in Len(table) + 1 .. Len(reported)
  BY <1>c, <1>f
<1>h. PICK c : c = reported[k]
  OBVIOUS
<1>i. c \in Cases /\ c = CaseOf(k)
  BY <1>b, <1>c, <1>g, <1>h DEF CaseOf
<1>j. backend \in BackendModes
  BY BackendIs
<1>k. ASSUME NEW x, IsLineOf(x, backend, c)
      PROVE  Took(acc, x, backend, c)
  <2>1. CASE Numbered(own, x, k)
    <3>1. PICK i \in 1 .. Len(log) : own[i] = k /\ log[i] = x
      BY <2>1 DEF Numbered
    <3>2. i # 1
      <4>1. ~IsEnd(x)
        BY <1>i, <1>j, <1>k, NotEnd
      <4> QED
        BY <1>d, <3>1, <4>1
    <3>3. 1 < i
      BY <1>c, <3>1, <3>2
    <3>4. own[1] < own[i]
      BY <1>c, <1>d, <1>e, <3>1, <3>3 DEF Ordered
    <3> QED
      BY <1>c, <1>f, <3>1, <3>4
  <2> QED
    BY <1>e, <1>g, <1>h, <1>k, <2>1 DEF NoneMissing
<1>l. Between(acc, backend, c)
  BY <1>i, AccBetween
<1>m. Complete(acc, backend, c)
  BY <1>i, <1>j, <1>k, <1>l, AllTaken
<1> QED
  BY <1>g, <1>h, <1>m

LEMMA ReadEndLineKeeps ==
    ASSUME Inv, ReadEndLine
    PROVE  Inv'
<1>a. /\ stage = "parse" /\ log # <<>> /\ AtEndLine
      /\ acc' = Fresh /\ log' = Tail(log)
      /\ backend' = backend /\ todo' = todo /\ case' = case /\ lines' = lines
      /\ reported' = reported /\ stage' = stage /\ timing' = timing
      /\ table' = Append(table, PrintedRow(acc))
  BY DEF ReadEndLine, harness, AtEndLine
<1>b. /\ log \in Seq(AnyLine) /\ Len(reported) \in Nat /\ Len(table) \in Nat
      /\ IsEnd(Head(log)) /\ table \in Seq(RowType) /\ reported \in Seq(Cases)
  <2>1. log \in Seq(AnyLine) /\ reported \in Seq(Cases) /\ table \in Seq(RowType)
    BY DEF Inv, ControlInv, RowsInv
  <2>2. Len(reported) \in Nat
    BY <2>1
  <2>3. Len(table) \in Nat
    BY <2>1
  <2>4. IsEnd(Head(log))
    BY <1>a DEF AtEndLine, IsEnd
  <2> QED
    BY <2>1, <2>2, <2>3, <2>4
<1>c. PICK own : /\ Ordered(own, log, Len(table), Len(reported))
                 /\ Assigned(own) /\ NoneMissing(own)
  BY DEF Inv, LogInv, Attributed
<1>d. PICK new : new = [i \in 1 .. Len(log) - 1 |-> own[i + 1]]
  OBVIOUS
<1>e. /\ Len(log') = Len(log) - 1 /\ Len(log) \in Nat /\ Head(log) = log[1]
      /\ log' \in Seq(AnyLine)
      /\ \A i \in 1 .. Len(log') : /\ log'[i] = log[i + 1] /\ new[i] = own[i + 1]
                                   /\ i + 1 \in 1 .. Len(log)
  <2>1. log \in Seq(AnyLine) /\ log # <<>> /\ log' = Tail(log)
    BY <1>a, <1>b
  <2> QED
    BY <1>d, <2>1, RestNumbers
<1>f. /\ own[1] = Len(table) + 1
      /\ Ordered([i \in 1 .. Len(log) - 1 |-> own[i + 1]], Tail(log),
                 IF IsEnd(Head(log)) THEN Len(table) + 1 ELSE Len(table),
                 Len(reported))
  BY <1>a, <1>b, <1>c, TailOrder
<1>g. PICK k : k = Len(table) + 1
  OBVIOUS
<1>h. k \in 1 .. Len(reported) /\ Complete(acc, backend, reported[k])
  BY <1>g, RowIsOfCase
<1>i. \A n : CaseOf(n)' = CaseOf(n)
  BY <1>a DEF CaseOf
<1>j. backend \in BackendModes /\ timing \in TimingType /\ reported[k] \in Cases
  BY <1>b, <1>h, BackendIs, TimingIs
<1>k. PrintedRow(acc) \in RowType
  BY <1>h, <1>j, RowOfCase
<1>l. PICK row : row = PrintedRow(acc)
  OBVIOUS
<1>m. /\ table' \in Seq(RowType) /\ Len(table') = k
      /\ \A i \in 1 .. Len(table) : table'[i] = table[i]
      /\ table'[k] = row
  <2>1. table' = Append(table, row) /\ row \in RowType
    BY <1>a, <1>k, <1>l
  <2> HIDE <1>l DEF RowType
  <2> QED
    BY <1>b, <1>g, <2>1
<1>1. ControlInv' /\ CaseInv' /\ LinesInv'
  BY <1>a, <1>e DEF Inv, ControlInv, CaseInv, LinesInv, zkvm, mode
<1>2. LogInv'
  <2>1. Ordered(new, log', Len(table'), Len(reported))
    BY <1>a, <1>b, <1>d, <1>f, <1>g, <1>m
  <2>2. Assigned(new)'
    <3>1. \A x, n : Placed(x, n)' <=> Placed(x, n)
      BY <1>a, <1>i DEF Placed
    <3>2. \A i \in 1 .. Len(log') : Placed(log'[i], new[i])
      BY <1>c, <1>e DEF Assigned
    <3> QED
      BY <3>1, <3>2 DEF Assigned
  <2>3. NoneMissing(new)'
    <3>1. ASSUME NEW n \in k + 1 .. Len(reported), NEW x,
                 IsLineOf(x, backend, reported[n])
          PROVE  Numbered(new, x, n)'
      <4>1. n \in Len(table) + 1 .. Len(reported) /\ n # k
        BY <1>b, <1>g, <3>1
      <4>2. Numbered(own, x, n)
        BY <1>c, <1>g, <3>1, <4>1 DEF NoneMissing
      <4>3. PICK i \in 1 .. Len(log) : own[i] = n /\ log[i] = x
        BY <4>2 DEF Numbered
      <4>4. i # 1
        BY <1>f, <1>g, <4>1, <4>3
      <4>5. i - 1 \in 1 .. Len(log') /\ (i - 1) + 1 = i
        BY <1>e, <4>3, <4>4
      <4>6. log'[i - 1] = x /\ new[i - 1] = n
        BY <1>e, <4>3, <4>5
      <4> QED
        BY <4>5, <4>6 DEF Numbered
    <3> QED
      BY <1>a, <1>m, <3>1 DEF NoneMissing
  <2>4. Coming(new)'
    BY <1>a DEF Coming
  <2> QED
    BY <1>a, <2>1, <2>2, <2>3, <2>4 DEF LogInv, Attributed
<1>3. AccInv'
  BY <1>a DEF AccInv
<1>4. RowsInv'
  <2>1. \A a : PrintedRow(a)' = PrintedRow(a)
    BY <1>a DEF PrintedRow
  <2>2. ASSUME NEW i \in 1 .. k
        PROVE  \E a : Complete(a, backend, reported[i]) /\ table'[i] = PrintedRow(a)
    <3>1. CASE i = k
      BY <1>h, <1>l, <1>m, <3>1
    <3>2. CASE i # k
      <4>1. i \in 1 .. Len(table)
        BY <1>b, <1>g, <3>2
      <4>2. \E a : Complete(a, backend, reported[i]) /\ table[i] = PrintedRow(a)
        BY <4>1 DEF Inv, RowsInv
      <4> QED
        BY <1>m, <4>1, <4>2
    <3> QED
      BY <3>1, <3>2
  <2> QED
    BY <1>a, <1>m, <2>1, <2>2 DEF RowsInv
<1>5. TimingInv'
  BY <1>a DEF Inv, TimingInv, zkvm, mode
<1> QED
  BY <1>1, <1>2, <1>3, <1>4, <1>5 DEF Inv

-----------------------------------------------------------------------------
(* The theorems *)

LEMMA StutterKeeps ==
    ASSUME Inv, UNCHANGED vars
    PROVE  Inv'
<1>a. /\ backend' = backend /\ todo' = todo /\ case' = case /\ lines' = lines
      /\ reported' = reported /\ stage' = stage /\ log' = log
      /\ timing' = timing /\ acc' = acc /\ table' = table
  BY DEF vars
<1>1. ControlInv' /\ CaseInv' /\ LinesInv' /\ TimingInv'
  BY <1>a DEF Inv, ControlInv, CaseInv, LinesInv, TimingInv, zkvm, mode
<1>2. AccInv'
  BY <1>a DEF Inv, AccInv, CaseOf
<1>3. RowsInv'
  BY <1>a, RowsStay DEF Inv
<1>4. LogInv'
  <2>1. PICK own : Ordered(own, log, Len(table), Len(reported)) /\ Attributed(own)
    BY DEF Inv, LogInv
  <2>2. Assigned(own)'
    <3>1. \A x, k : Placed(x, k)' <=> Placed(x, k)
      BY <1>a DEF Placed, CaseOf
    <3> QED
      BY <1>a, <2>1, <3>1 DEF Assigned, Attributed
  <2>3. \A x, k : Numbered(own, x, k)' <=> Numbered(own, x, k)
    BY <1>a DEF Numbered
  <2>4. NoneMissing(own)'
    BY <1>a, <2>1, <2>3 DEF NoneMissing, Attributed
  <2>5. Coming(own)'
    BY <1>a, <2>1, <2>3 DEF Coming, Attributed
  <2> QED
    BY <1>a, <2>1, <2>2, <2>4, <2>5 DEF LogInv, Attributed
<1> QED
  BY <1>1, <1>2, <1>3, <1>4 DEF Inv

LEMMA NextKeeps ==
    ASSUME Inv, [Next]_vars
    PROVE  Inv'
<1>1. CASE \E c \in Cases : SkipCase(c) \/ StartCase(c)
  BY <1>1, SkipKeeps, StartKeeps
<1>2. CASE LogBlock
  BY <1>2, BlockKeeps
<1>3. CASE Stop
  BY <1>3, StopKeeps
<1>4. CASE Analyse
  BY <1>4, AnalyseKeeps
<1>5. CASE ReadLine
  BY <1>5, ReadLineKeeps
<1>6. CASE ReadEndLine
  BY <1>6, ReadEndLineKeeps
<1>7. CASE UNCHANGED vars
  BY <1>7, StutterKeeps
<1> QED
  BY <1>1, <1>2, <1>3, <1>4, <1>5, <1>6, <1>7 DEF Next

\* Whatever the process logs and wherever it stops, each line belongs to the
\* case that will have the row its End line makes.
THEOREM LogInductive == Spec => []Inv
<1>1. Init => Inv
  BY InitInv
<1>2. Inv /\ [Next]_vars => Inv'
  BY NextKeeps
<1> QED
  BY <1>1, <1>2, PTL DEF Spec

\* Only rows of listed cases are printed, each with figures.
THEOREM LogTableTypes == Spec => []TypeOK
<1>1. Inv => TypeOK
  <2> SUFFICES ASSUME Inv PROVE TypeOK
    OBVIOUS
  <2>1. /\ backend \in Backends /\ todo \subseteq Cases /\ reported \in Seq(Cases)
        /\ stage \in {"run", "analyse", "parse"} /\ table \in Seq(RowType)
    BY DEF Inv, ControlInv, RowsInv
  <2>2. case \in Cases \cup {""}
    BY DEF Inv, CaseInv
  <2>3. timing \in [Stages -> [cycles : Nat, time : Nat]]
    BY DEF Inv, TimingInv, TimingType
  <2>4. acc.test_case \in Cases \cup {""}
    <3>1. acc \in AccType
      BY AccBetween DEF Between
    <3> QED
      BY <3>1 DEF AccType
  <2> QED
    BY <2>1, <2>2, <2>3, <2>4 DEF TypeOK
<1> QED
  BY <1>1, LogInductive, PTL

\* What the phases of a row add up to is within its totals, the time too where
\* it is printed in seconds, for every cost of every case, every order of the
\* lines and every backend but ZISK.
THEOREM RowsAddUp == Spec => []MeasuredRowsAddUp
<1>1. Inv => MeasuredRowsAddUp
  <2> SUFFICES ASSUME Inv, zkvm # "zisk", NEW i \in DOMAIN table
               PROVE  PartsWithinWhole(table[i])
    BY DEF MeasuredRowsAddUp
  <2>1. /\ table \in Seq(RowType) /\ reported \in Seq(Cases)
        /\ Len(table) <= Len(reported)
    BY DEF Inv, ControlInv, RowsInv, LogInv, Ordered
  <2>2. i \in 1 .. Len(table) /\ i \in 1 .. Len(reported)
    BY <2>1
  <2>3. PICK a : Complete(a, backend, reported[i]) /\ table[i] = PrintedRow(a)
    BY <2>2 DEF Inv, RowsInv
  <2>4. backend \in BackendModes /\ timing \in TimingType /\ reported[i] \in Cases
    BY <2>1, <2>2, BackendIs, TimingIs
  <2>5. PartsWithinWhole(PrintedRow(a))
    BY <2>3, <2>4, RowOfCase
  <2> QED
    BY <2>3, <2>5
<1> QED
  BY <1>1, LogInductive, PTL

\* A row is printed when the analysis was done and a case was reported.
LEMMA RowsAreOfReported ==
    ASSUME Inv, table # <<>>
    PROVE  stage = "parse" /\ reported # <<>> /\ reported[1] \in Cases
<1>1. /\ table \in Seq(RowType) /\ reported \in Seq(Cases)
      /\ Len(table) <= Len(reported) /\ stage = "parse"
  BY DEF Inv, ControlInv, RowsInv, LogInv, Ordered
<1> HIDE DEF RowType
<1>2. Len(table) >= 1
  BY <1>1
<1>3. Len(reported) >= 1 /\ reported # <<>>
  BY <1>1, <1>2
<1> QED
  BY <1>1, <1>3

\* What ZISK's rows say of the phases is the estimate for the first case of the
\* log, however many cases follow.
THEOREM EstimateOfFirstCase == Spec => []EstimateIsOfFirstCase
<1>1. Inv => EstimateIsOfFirstCase
  BY RowsAreOfReported DEF Inv, TimingInv, EstimateIsOfFirstCase
<1> QED
  BY <1>1, LogInductive, PTL

\* The estimates of the stages fall short of the total by less than a cycle
\* each, whatever total the emulator gives.
THEOREM EstimateOfTotal == Spec => []EstimateAddsUp
<1>1. Inv => EstimateAddsUp
  <2> SUFFICES ASSUME Inv, zkvm = "zisk", mode = "execute", table # <<>>
               PROVE  LET estimated == Sum([s \in Stages |-> timing[s].cycles])
                      IN  /\ estimated <= Total(reported[1])
                          /\ Total(reported[1]) < estimated + Cardinality(Stages)
    BY DEF EstimateAddsUp
  <2>1. stage = "parse" /\ reported # <<>> /\ reported[1] \in Cases
    BY RowsAreOfReported
  <2>2. PICK c \in Cases : c = reported[1]
    BY <2>1
  <2>3. timing = ShellVars(ZiskOutput(c))
    BY <2>1, <2>2 DEF Inv, TimingInv
  <2>4. /\ ZiskOutput(c) \in Seq(AnyLine) /\ Operations(ZiskOutput(c)) = Stages
        /\ ExecutionStats(ZiskOutput(c)) \in Stats
    BY ZiskOutputIs, ZiskOutputTimes
  <2>5. ExecutionStats(ZiskOutput(c)).steps = Total(c)
    BY ZiskOutputTimes DEF RomLine, Line
  <2>6. LET estimated == Sum([s \in Stages |-> ShellVars(ZiskOutput(c))[s].cycles])
        IN  /\ estimated <= ExecutionStats(ZiskOutput(c)).steps
            /\ ExecutionStats(ZiskOutput(c)).steps < estimated + Cardinality(Stages)
    BY <2>4, ShellVarsAddUp
  <2> QED
    BY <2>2, <2>3, <2>5, <2>6, Zenon
<1> QED
  BY <1>1, LogInductive, PTL

-----------------------------------------------------------------------------
(* The table is the one SummaryContract promises *)

LEMMA FunctionIsSeq ==
    ASSUME NEW n \in Nat, NEW T, NEW f \in [1 .. n -> T]
    PROVE  f \in Seq(T) /\ Len(f) = n /\ DOMAIN f = 1 .. n
OBVIOUS

LEMMA AppendIs ==
    ASSUME NEW n \in Nat, NEW T, NEW f \in [1 .. n -> T],
           NEW g \in [1 .. n + 1 -> T],
           \A i \in 1 .. n : g[i] = f[i]
    PROVE  g = Append(f, g[n + 1])
OBVIOUS

LEMMA ReportedIsReport ==
    ASSUME Inv, LogBlock
    PROVE  [Summary!Next]_(Summary!vars)
<1>1. /\ table = <<>> /\ table' = table /\ backend' = backend
      /\ lines # <<>>
      /\ reported' = IF lines' = <<>> THEN Append(reported, case) ELSE reported
  BY DEF Inv, ControlInv, LogBlock, script
<1>2. /\ case \in Cases
      /\ \A i \in 1 .. Len(reported) : reported[i] # case
      /\ DOMAIN reported = 1 .. Len(reported)
  <2>1. reported \in Seq(Cases)
    BY DEF Inv, ControlInv
  <2> QED
    BY <1>1, <2>1 DEF Inv, LinesInv
<1>3. \A row : Reading(row)' = Reading(row)
  BY <1>1 DEF Reading, zkvm
<1>4. /\ [i \in DOMAIN table |-> Reading(table[i])]
             = [i \in DOMAIN table |-> Reading(table[i])]'
      /\ [i \in DOMAIN table |-> Reading(table[i])] = <<>>
  BY <1>1, <1>3
<1>5. CASE lines' = <<>>
  <2>1. Summary!Report(case)
    BY <1>1, <1>2, <1>4, <1>5 DEF Summary!Report
  <2> QED
    BY <1>2, <2>1 DEF Summary!Next
<1>6. CASE lines' # <<>>
  BY <1>1, <1>4, <1>6 DEF Summary!vars
<1> QED
  BY <1>5, <1>6

LEMMA EndLineTabulates ==
    ASSUME Inv, ReadEndLine
    PROVE  Summary!Tabulate
<1>a. /\ table' = Append(table, PrintedRow(acc)) /\ backend' = backend
      /\ reported' = reported
  BY DEF ReadEndLine, harness
<1>b. table \in Seq(RowType) /\ reported \in Seq(Cases) /\ PrintedRow(acc) \in RowType
  <2>1. table \in Seq(RowType) /\ reported \in Seq(Cases)
    BY DEF Inv, ControlInv, RowsInv
  <2>2. PICK k : k = Len(table) + 1
    OBVIOUS
  <2>3. k \in 1 .. Len(reported) /\ Complete(acc, backend, reported[k])
    BY <2>2, RowIsOfCase
  <2>4. backend \in BackendModes /\ timing \in TimingType /\ reported[k] \in Cases
    BY <2>1, <2>3, BackendIs, TimingIs
  <2> QED
    BY <2>1, <2>3, <2>4, RowOfCase
<1>c. /\ Len(table) \in Nat /\ Len(table') = Len(table) + 1
      /\ DOMAIN table = 1 .. Len(table) /\ DOMAIN table' = 1 .. Len(table) + 1
      /\ \A i \in 1 .. Len(table) : table'[i] = table[i]
  <2>1. PICK row : row = PrintedRow(acc)
    OBVIOUS
  <2>2. table' = Append(table, row) /\ row \in RowType /\ table \in Seq(RowType)
    BY <1>a, <1>b, <2>1
  <2> HIDE DEF RowType
  <2> QED
    BY <2>2
<1>1. PICK n \in Nat : n = Len(table)
  BY <1>c
<1>2. PICK read : read = [i \in 1 .. n |-> Reading(table[i])]
  OBVIOUS
<1>3. PICK next : next = [i \in 1 .. n + 1 |-> Reading(table'[i])]
  OBVIOUS
<1>5. read = [i \in DOMAIN table |-> Reading(table[i])]
  BY <1>c, <1>1, <1>2
<1>6. next = [i \in DOMAIN table |-> Reading(table[i])]'
  BY <1>a, <1>c, <1>1, <1>3 DEF Reading, zkvm
<1>7. Len(read) = n /\ next = Append(read, next[n + 1])
  <2>1. PICK T : T = {Reading(table'[i]) : i \in 1 .. n + 1}
    OBVIOUS
  <2>2. next \in [1 .. n + 1 -> T]
    BY <1>3, <2>1
  <2>3. read \in [1 .. n -> T] /\ \A i \in 1 .. n : next[i] = read[i]
    BY <1>c, <1>1, <1>2, <1>3, <2>1
  <2> QED
    BY <2>2, <2>3, FunctionIsSeq, AppendIs
<1>8. next[n + 1] = TrueRow(backend, reported[n + 1])
  <2>1. PICK k : k = n + 1
    OBVIOUS
  <2>2. table'[k] = PrintedRow(acc) /\ next[k] = Reading(table'[k])
    <3>1. PICK row : row = PrintedRow(acc)
      OBVIOUS
    <3>2. table' = Append(table, row) /\ row \in RowType /\ table \in Seq(RowType)
      BY <1>a, <1>b, <3>1
    <3>3. table'[k] = row
      <4> HIDE DEF RowType
      <4> QED
        BY <1>1, <2>1, <3>2
    <3> QED
      BY <1>3, <2>1, <3>1, <3>3
  <2>3. Complete(acc, backend, reported[k]) /\ k \in 1 .. Len(reported)
    BY <1>1, <2>1, RowIsOfCase
  <2>4. backend \in BackendModes /\ timing \in TimingType /\ reported[k] \in Cases
    BY <1>b, <2>3, BackendIs, TimingIs
  <2>5. Reading(PrintedRow(acc)) = TrueRow(backend, reported[k])
    BY <2>3, <2>4, RowOfCase
  <2> QED
    BY <2>1, <2>2, <2>5
<1>9. n < Len(reported)
  <2>1. n + 1 \in 1 .. Len(reported)
    BY <1>1, RowIsOfCase
  <2>2. Len(reported) \in Nat
    BY <1>b
  <2> QED
    BY <2>1, <2>2
<1> QED
  BY <1>a, <1>5, <1>6, <1>7, <1>8, <1>9 DEF Summary!Tabulate

\* The End lines of a log become rows, in the order of the cases, none twice or
\* before its case was reported, each with the figures of its own case.
THEOREM TableImplementsSummary == Spec => ImplementsSummary
<1>1. Init => Summary!Init
  <2> SUFFICES ASSUME Init PROVE Summary!Init
    OBVIOUS
  <2>1. backend \in Backends /\ reported = <<>> /\ table = <<>>
    BY DEF Init
  <2>2. [i \in DOMAIN table |-> Reading(table[i])] = <<>>
    BY <2>1
  <2> QED
    BY <2>1, <2>2 DEF Summary!Init
<1>2. Inv /\ [Next]_vars => [Summary!Next]_(Summary!vars)
  <2> SUFFICES ASSUME Inv, [Next]_vars
               PROVE  [Summary!Next]_(Summary!vars)
    OBVIOUS
  <2>1. ASSUME backend' = backend, reported' = reported, table' = table
        PROVE  UNCHANGED Summary!vars
    <3>1. \A row : Reading(row)' = Reading(row)
      BY <2>1 DEF Reading, zkvm
    <3> QED
      BY <2>1, <3>1 DEF Summary!vars
  <2>2. CASE \E c \in Cases : SkipCase(c) \/ StartCase(c)
    BY <2>1, <2>2 DEF SkipCase, StartCase, script
  <2>3. CASE LogBlock
    BY <2>3, ReportedIsReport
  <2>4. CASE Stop \/ Analyse \/ ReadLine
    BY <2>1, <2>4 DEF Stop, Analyse, ReadLine, harness, script
  <2>5. CASE ReadEndLine
    BY <2>5, EndLineTabulates DEF Summary!Next
  <2>6. CASE UNCHANGED vars
    BY <2>1, <2>6 DEF vars
  <2> QED
    BY <2>2, <2>3, <2>4, <2>5, <2>6 DEF Next
<1> QED
  BY <1>1, <1>2, LogInductive, PTL DEF Spec, ImplementsSummary, Summary!Spec
================================================================================
