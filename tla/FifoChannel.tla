---------------------------- MODULE FifoChannel ----------------------------
(***************************************************************************)
(* What an InternalChannel (src/src/channel.rs) promises its two users: a  *)
(* FIFO of whole messages.  A message the writer's send accepted is taken  *)
(* by the reader unchanged, once, and in the order of acceptance; a send   *)
(* that returned false leaves no trace.                                    *)
(***************************************************************************)
EXTENDS Naturals, Sequences

CONSTANT Messages

VARIABLES accepted, \* the messages send returned true for, oldest first
          taken     \* the messages recv returned, oldest first

fifoVars == <<accepted, taken>>

Init ==
    /\ accepted = <<>>
    /\ taken = <<>>

Accept(m) ==
    /\ accepted' = Append(accepted, m)
    /\ UNCHANGED taken

Take ==
    /\ Len(taken) < Len(accepted)
    /\ taken' = Append(taken, accepted[Len(taken) + 1])
    /\ UNCHANGED accepted

Next ==
    \/ \E m \in Messages : Accept(m)
    \/ Take

Spec == Init /\ [][Next]_fifoVars
=============================================================================
