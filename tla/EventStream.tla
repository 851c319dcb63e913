---------------------------- MODULE EventStream ----------------------------
(***************************************************************************)
(* What one background operation promises its owner, with no process, no   *)
(* queue and no polling: a producer appends messages to a log, the owner   *)
(* is shown a prefix of its payloads, and the stream closes once, either   *)
(* with the producer's complete log or with a terminal of the parent.      *)
(***************************************************************************)
EXTENDS Integers, Sequences

CONSTANTS Payloads,       \* messages shown while the operation runs
          Terminals,      \* outcomes the producer itself can report
          ParentOutcomes, \* outcomes made up when the log is not believed
          End,            \* the message that closes a stream
          Others          \* messages that break the protocol, never shown

VARIABLES produced, shown, over

svars == <<produced, shown, over>>

Init == produced = <<>> /\ shown = <<>> /\ over = FALSE

Produce ==
    /\ ~over
    /\ \E m \in Payloads \cup Terminals \cup Others \cup {End} : produced' = Append(produced, m)
    /\ UNCHANGED <<shown, over>>

Show ==
    /\ ~over
    /\ Len(shown) < Len(produced)
    /\ produced[Len(shown) + 1] \in Payloads
    /\ shown' = Append(shown, produced[Len(shown) + 1])
    /\ UNCHANGED <<produced, over>>

\* The rest of the log is one terminal and the end: the owner gets all of it.
CloseBelieved ==
    /\ ~over
    /\ Len(produced) = Len(shown) + 2
    /\ produced[Len(shown) + 1] \in Terminals
    /\ produced[Len(shown) + 2] = End
    /\ shown' = produced
    /\ over' = TRUE
    /\ UNCHANGED produced

CloseUnbelieved ==
    /\ ~over
    /\ \E m \in ParentOutcomes : shown' = Append(Append(shown, m), End)
    /\ over' = TRUE
    /\ UNCHANGED produced

Next == Produce \/ Show \/ CloseBelieved \/ CloseUnbelieved

Spec == Init /\ [][Next]_svars
=============================================================================
