----------------------------- MODULE MsgChannel -----------------------------
(***************************************************************************)
(* What a MsgTask promises those who post messages to it: messages are     *)
(* handled one at a time, in the order they were accepted, by one thread;  *)
(* a closed channel accepts nothing, begins at most one message more, and  *)
(* discards the rest.                                                      *)
(***************************************************************************)
EXTENDS Sequences

CONSTANTS Message, None

VARIABLES
    pending,    \* accepted messages, oldest first
    busy,       \* the message being handled, or None
    closed,     \* has the channel been closed?
    late        \* was a message begun after that?

vars == <<pending, busy, closed, late>>

Init == pending = <<>> /\ busy = None /\ closed = FALSE /\ late = FALSE

Post(m) ==
    /\ ~ closed
    /\ pending' = Append(pending, m)
    /\ UNCHANGED <<busy, closed, late>>

Begin ==
    /\ busy = None /\ pending # <<>>
    /\ ~ late
    /\ busy' = Head(pending)
    /\ pending' = Tail(pending)
    /\ late' = closed
    /\ UNCHANGED closed

Finish == busy' = None /\ UNCHANGED <<pending, closed, late>>

Close == closed' = TRUE /\ UNCHANGED <<pending, busy, late>>

Discard == closed /\ pending' = <<>> /\ UNCHANGED <<busy, closed, late>>

Next == (\E m \in Message : Post(m)) \/ Begin \/ Finish \/ Close \/ Discard

Spec == Init /\ [][Next]_vars
=============================================================================
