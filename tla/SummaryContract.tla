---------------------------- MODULE SummaryContract ----------------------------
(***************************************************************************)
(* What the summary of a process promises to its reader: the cases the     *)
(* process reported, in that order, and of each the figures measured on    *)
(* it.  How they are measured, logged and read back is of no concern here. *)
(***************************************************************************)
EXTENDS Naturals, Sequences

CONSTANTS Cases, Backends, TrueRow(_, _)

VARIABLES backend, reported, table

vars == <<backend, reported, table>>

Init ==
    /\ backend \in Backends
    /\ reported = <<>>
    /\ table = <<>>

Report(c) ==
    /\ table = <<>>
    /\ c \notin {reported[i] : i \in DOMAIN reported}
    /\ reported' = Append(reported, c)
    /\ UNCHANGED <<backend, table>>

Tabulate ==
    /\ Len(table) < Len(reported)
    /\ table' = Append(table, TrueRow(backend, reported[Len(table) + 1]))
    /\ UNCHANGED <<backend, reported>>

Next == (\E c \in Cases : Report(c)) \/ Tabulate

Spec == Init /\ [][Next]_vars

\* A case that was reported gets its row.
Finishes == WF_vars(Tabulate)
================================================================================
