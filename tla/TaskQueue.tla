----------------------------- MODULE TaskQueue -----------------------------
(***************************************************************************)
(* What an event loop promises to whoever hands it a callback, with no     *)
(* threads, locks, wakeups or polling in it: a first-in first-out queue of *)
(* tasks of which every task is run at most once, and run unless the queue *)
(* is stopped or destroyed.  EventLoop is shown to implement it.           *)
(***************************************************************************)
EXTENDS Sequences, SequencesExt

CONSTANT Task

VARIABLES
    queue,    \* the tasks accepted and not yet started, oldest first
    done,     \* the tasks started, in the order they were started
    issued,   \* every task ever handed over
    stopped,  \* someone asked for the end: tasks may be left unstarted
    destroyed \* the queue is gone, and with it what was not started

vars == <<queue, done, issued, stopped, destroyed>>

Init ==
    /\ queue = <<>>
    /\ done = <<>>
    /\ issued = {}
    /\ stopped = FALSE
    /\ destroyed = FALSE

(* A new task goes to the end of the queue.                                *)
Submit(t) ==
    /\ ~destroyed
    /\ t \notin issued
    /\ issued' = issued \cup {t}
    /\ queue' = Append(queue, t)
    /\ UNCHANGED <<done, stopped, destroyed>>

(* A new task is started at once, ahead of the queue.                      *)
RunNow(t) ==
    /\ ~destroyed
    /\ t \notin issued
    /\ issued' = issued \cup {t}
    /\ done' = Append(done, t)
    /\ UNCHANGED <<queue, stopped, destroyed>>

(* The oldest task of the queue is started.                                *)
RunNext ==
    /\ ~destroyed
    /\ queue # <<>>
    /\ done' = Append(done, Head(queue))
    /\ queue' = Tail(queue)
    /\ UNCHANGED <<issued, stopped, destroyed>>

(* The end is asked for, or the request forgotten.                         *)
SetStopped ==
    /\ ~destroyed
    /\ stopped' \in BOOLEAN
    /\ UNCHANGED <<queue, done, issued, destroyed>>

(* The queue is destroyed with what was never started.  Only here, and only*)
(* once, does a task leave the queue without being run.                    *)
Discard ==
    /\ ~destroyed
    /\ destroyed' = TRUE
    /\ queue' = <<>>
    /\ UNCHANGED <<done, issued, stopped>>

Next ==
    \/ \E t \in Task : Submit(t) \/ RunNow(t)
    \/ RunNext
    \/ SetStopped
    \/ Discard

SafeSpec == Init /\ [][Next]_vars

(* A task in the queue is started, or the queue is stopped or destroyed.   *)
Progress ==
    \A t \in Task : t \in ToSet(queue) ~> t \in ToSet(done) \/ stopped \/ destroyed

=============================================================================
