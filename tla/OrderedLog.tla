----------------------------- MODULE OrderedLog -----------------------------
(***************************************************************************)
(* What an event stream promises its readers: one log of events, numbered  *)
(* 1, 2, 3, ... in the order in which the readers receive them.            *)
(***************************************************************************)
EXTENDS Naturals, Sequences

VARIABLE log          \* the numbers of the events, as broadcast

Init == log = <<>>

Publish == log' = Append(log, Len(log) + 1)

Next == Publish

Spec == Init /\ [][Next]_log

=============================================================================
