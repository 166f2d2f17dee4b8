----------------------------- MODULE MCMsgTask ------------------------------
(* MsgTask for TLC, with a history variable that tells joinable tasks apart. *)
EXTENDS MsgTask

VARIABLE joined     \* did the owner wait in pthread_join?

MCInit == Init /\ joined = FALSE
MCNext == Next /\ joined' = (joined \/ owner' = "join")
MCSpec == MCInit /\ [][MCNext]_<<vars, joined>> /\ Fairness

(* The worker never runs the task, or takes from its queue, after it is     *)
(* deleted, nor does a destroy() that the task's own thread runs, as        *)
(* ~LocApiBase has it run (LocApiBase.h:128, from LocKillMsg), write to it  *)
(* then; and once the owner and the worker are through, a detached task is  *)
(* deleted ("The obj will be deleted by LocThread if start() returns        *)
(* true").  A joinable one whose thread read mRunnable after stop() nulled  *)
(* it is not.                                                               *)
TaskDeletedAfterUse ==
    /\ worker \in {"loop", "receive", "wait", "handle", "leave", "free"} => taskAlive
    /\ owner = "clear" /\ caller = "self" => taskAlive
    /\ owner = "gone" /\ worker \in {"none", "done"} => ~ taskAlive \/ joined

(* The same of a destroy() on any thread.  It does not hold: the worker,    *)
(* let go by msg_q_unblock, may delete the task before mThread = NULL       *)
(* (MsgTask.cpp:69).                                                        *)
OwnerUsesLiveTask == owner = "clear" => taskAlive

(* Every accepted message is handled, or flushed with the task, if the task *)
(* got its thread and is detached.                                          *)
EveryMessageEnds ==
    \A m \in Message :
        (fate[m] = "queued" /\ worker # "none")
            ~> (fate[m] \in {"handled", "flushed"} \/ joined)

=============================================================================
