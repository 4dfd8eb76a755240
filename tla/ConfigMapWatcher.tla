------------------------- MODULE ConfigMapWatcher -------------------------
(***************************************************************************)
(* The ChangeWatcher of src/cmd/remoteexec_proxy/main.go: the pub/sub     *)
(* watcher (configMapBucketWatcher, lines 678-768), the poll watcher       *)
(* (configMapBucketPoller, lines 770-796) and the choice between them at   *)
(* setup (ConfigMapBucket.Watcher and pubsubWatcher, lines 839-910).       *)
(*                                                                         *)
(* The pub/sub watcher has three goroutines around one unbuffered channel  *)
(* w.ch: run, whose Receive callbacks each block in "w.ch <- msg" until a  *)
(* reader takes the message; the caller's Next, which reads w.ch; and the  *)
(* drain goroutine Close starts.  A send completes only together with a   *)
(* receive, so a message is either with a blocked callback ("cb") or      *)
(* already taken and acked; the channel itself holds nothing.  Receive    *)
(* returns only after all its callbacks have returned, and run closes w.ch *)
(* after its retry loop ends.                                              *)
(*                                                                         *)
(* The caller (the proxy's watch loop, outside this repository) calls     *)
(* Next, runs a Load after each successful return, and calls Next again;  *)
(* it stops when Next returns an error.  Close may be called by its owner *)
(* at any time, once.                                                      *)
(*                                                                         *)
(* A notification is abstracted to its kind: "seq" for an OBJECT_FINALIZE *)
(* event whose objectId has base name "seq", "other" for any other event.  *)
(***************************************************************************)
EXTENDS Naturals, FiniteSets

CONSTANTS
    Msgs,          \* notification messages the bucket may publish
    MaxRetries     \* bound: Receive errors that rpc.Retry retries

ASSUME WatcherAssumption ==
    /\ IsFiniteSet(Msgs)
    /\ MaxRetries \in Nat

Kinds == {"seq", "other"}

VARIABLES
    push,       \* Watcher() set up the pub/sub watcher (else the poller)
    kind,       \* kind[m]: the event m reports, "none" until published
    mst,        \* mst[m]: "unpub", "queued" in the subscription, "cb" with a
                \* Receive callback blocked sending it on w.ch, or "acked"
    recv,       \* run: "recv" in Receive, "retry" or "stop" while Receive
                \* returns, "closed" once close(w.ch) ran
    retries,    \* Receive errors retried so far
    cancelled,  \* w.cancel() was called: run's context is done
    npc,        \* the caller: "idle" between Nexts, "wait" in Next's first
                \* select, "drain" in its drain loop, "done" after an error
                \* return, "panic" after a nil dereference
    nres,       \* what the last Next returned: "none", "ok", "closed",
                \* "cancelled"
    closed,     \* Close has been called
    drainer,    \* Close's drain goroutine: "no", "yes" (running), "done"
    pending     \* history: a "seq" event was published and Next has not
                \* returned ok since

vars == <<push, kind, mst, recv, retries, cancelled, npc, nres, closed,
          drainer, pending>>

TypeOK ==
    /\ push \in BOOLEAN
    /\ kind \in [Msgs -> Kinds \cup {"none"}]
    /\ mst \in [Msgs -> {"unpub", "queued", "cb", "acked"}]
    /\ recv \in {"recv", "retry", "stop", "closed"}
    /\ retries \in 0..MaxRetries
    /\ cancelled \in BOOLEAN
    /\ npc \in {"idle", "wait", "drain", "done", "panic"}
    /\ nres \in {"none", "ok", "closed", "cancelled"}
    /\ closed \in BOOLEAN
    /\ drainer \in {"no", "yes", "done"}
    /\ pending \in BOOLEAN

\* The messages a blocked callback offers on w.ch: a receive from w.ch
\* succeeds at once exactly when one exists or the channel is closed.
Senders == {m \in Msgs : mst[m] = "cb"}

-----------------------------------------------------------------------------
\* ConfigMapBucket.Watcher: pubsubWatcher either succeeds (the bucket's
\* notification topic exists and the subscription exists with that topic
\* or is created), the watcher is built with an unbuffered channel and run
\* starts; or one of its checks fails and the poller with a 1 hour base
\* delay is used.
\* The caller is about to call Next.
Init ==
    /\ push \in BOOLEAN
    /\ kind = [m \in Msgs |-> "none"]
    /\ mst = [m \in Msgs |-> "unpub"]
    /\ recv = "recv"
    /\ retries = 0
    /\ cancelled = FALSE
    /\ npc = "idle"
    /\ nres = "none"
    /\ closed = FALSE
    /\ drainer = "no"
    /\ pending = FALSE

\* The bucket publishes a notification (after the object was written).
Publish(m, k) ==
    /\ mst[m] = "unpub"
    /\ mst' = [mst EXCEPT ![m] = "queued"]
    /\ kind' = [kind EXCEPT ![m] = k]
    /\ pending' = (pending \/ k = "seq")
    /\ UNCHANGED <<push, recv, retries, cancelled, npc, nres, closed, drainer>>

-----------------------------------------------------------------------------
(* configMapBucketWatcher.run                                              *)

\* Receive hands a queued message to a callback, which blocks on w.ch.
Deliver(m) ==
    /\ push
    /\ recv = "recv"
    /\ ~cancelled
    /\ mst[m] = "queued"
    /\ mst' = [mst EXCEPT ![m] = "cb"]
    /\ UNCHANGED <<push, kind, recv, retries, cancelled, npc, nres, closed,
                   drainer, pending>>

\* Mutant of ReceiveFail: the retry count is not checked.
ReceiveFailUnbounded ==
    /\ push
    /\ recv = "recv"
    /\ retries' = retries + 1
    /\ recv' \in {"retry", "stop"}
    /\ UNCHANGED <<push, kind, mst, cancelled, npc, nres, closed, drainer,
                   pending>>

\* Receive fails.  An error with code Unknown is wrapped as retriable
\* (crbug.com/1226107); whether rpc.Retry retries the others is its policy,
\* so the outcome is a choice.
ReceiveFail ==
    /\ push
    /\ recv = "recv"
    /\ retries < MaxRetries
    /\ retries' = retries + 1
    /\ recv' \in {"retry", "stop"}
    /\ UNCHANGED <<push, kind, mst, cancelled, npc, nres, closed, drainer,
                   pending>>

\* Receive notices its context was cancelled by Close.
ReceiveCancelled ==
    /\ push
    /\ recv = "recv"
    /\ cancelled
    /\ recv' = "stop"
    /\ UNCHANGED <<push, kind, mst, retries, cancelled, npc, nres, closed,
                   drainer, pending>>

\* Mutant of ReceiveReturn: run goes on (and closes w.ch) as soon as
\* Receive fails, without waiting for its callbacks.
ReceiveReturnEarly ==
    /\ push
    /\ recv \in {"retry", "stop"}
    /\ recv' = IF recv = "retry" /\ ~cancelled THEN "recv" ELSE "closed"
    /\ UNCHANGED <<push, kind, mst, retries, cancelled, npc, nres, closed,
                   drainer, pending>>

\* Receive returns once no callback is running.  rpc.Retry calls it again
\* after a retriable error unless the context is done; otherwise run's
\* retry loop ends and run closes w.ch.
ReceiveReturn ==
    /\ push
    /\ recv \in {"retry", "stop"}
    /\ Senders = {}
    /\ recv' = IF recv = "retry" /\ ~cancelled THEN "recv" ELSE "closed"
    /\ UNCHANGED <<push, kind, mst, retries, cancelled, npc, nres, closed,
                   drainer, pending>>

-----------------------------------------------------------------------------
(* The caller and configMapBucketWatcher.Next / configMapBucketPoller.Next *)

\* The caller's loop calls Next (again).
NextCall ==
    /\ npc = "idle"
    /\ npc' = "wait"
    /\ UNCHANGED <<push, kind, mst, recv, retries, cancelled, nres, closed,
                   drainer, pending>>

\* Mutant of NextRecv: the objectId filter is inverted.
NextRecvSwapped(m) ==
    /\ push
    /\ npc = "wait"
    /\ mst[m] = "cb"
    /\ mst' = [mst EXCEPT ![m] = "acked"]
    /\ npc' = IF kind[m] = "other" THEN "drain" ELSE "wait"
    /\ UNCHANGED <<push, kind, recv, retries, cancelled, nres, closed,
                   drainer, pending>>

\* Next receives m and acks it; a "seq" event moves on to the drain loop,
\* any other event is dropped and Next waits again.
NextRecv(m) ==
    /\ push
    /\ npc = "wait"
    /\ mst[m] = "cb"
    /\ mst' = [mst EXCEPT ![m] = "acked"]
    /\ npc' = IF kind[m] = "seq" THEN "drain" ELSE "wait"
    /\ UNCHANGED <<push, kind, recv, retries, cancelled, nres, closed,
                   drainer, pending>>

\* w.ch is closed: Next returns ErrWatcherClosed and the caller stops.
NextClosed ==
    /\ push
    /\ npc = "wait"
    /\ recv = "closed"
    /\ npc' = "done"
    /\ nres' = "closed"
    /\ UNCHANGED <<push, kind, mst, recv, retries, cancelled, closed,
                   drainer, pending>>

\* The caller's context is done: Next returns ctx.Err() (either variant).
NextCancelled ==
    /\ npc = "wait"
    /\ npc' = "done"
    /\ nres' = "cancelled"
    /\ UNCHANGED <<push, kind, mst, recv, retries, cancelled, closed,
                   drainer, pending>>

\* The drain loop takes a message still offered on w.ch and acks it.
DrainRecv(m) ==
    /\ npc = "drain"
    /\ mst[m] = "cb"
    /\ mst' = [mst EXCEPT ![m] = "acked"]
    /\ UNCHANGED <<push, kind, recv, retries, cancelled, npc, nres, closed,
                   drainer, pending>>

\* The drain loop's receive does not check ok: on a closed w.ch it yields
\* a nil *pubsub.Message, and msg.ID dereferences it.
DrainNil ==
    /\ npc = "drain"
    /\ recv = "closed"
    /\ npc' = "panic"
    /\ UNCHANGED <<push, kind, mst, recv, retries, cancelled, nres, closed,
                   drainer, pending>>

\* Nothing is offered on w.ch: the default case returns nil.
DrainDefault ==
    /\ npc = "drain"
    /\ Senders = {}
    /\ recv # "closed"
    /\ npc' = "idle"
    /\ nres' = "ok"
    /\ pending' = FALSE
    /\ UNCHANGED <<push, kind, mst, recv, retries, cancelled, closed, drainer>>

\* The poller's timer fires (base delay +-20%) and Next returns nil.  A
\* Close wakes the select at once, long before any timer, so the timer
\* case is taken only while the poller is open.
PollWake ==
    /\ ~push
    /\ npc = "wait"
    /\ ~closed
    /\ npc' = "idle"
    /\ nres' = "ok"
    /\ pending' = FALSE
    /\ UNCHANGED <<push, kind, mst, recv, retries, cancelled, closed, drainer>>

\* w.done is closed: the poller's Next returns "poller closed".
PollClosed ==
    /\ ~push
    /\ npc = "wait"
    /\ closed
    /\ npc' = "done"
    /\ nres' = "closed"
    /\ UNCHANGED <<push, kind, mst, recv, retries, cancelled, closed,
                   drainer, pending>>

-----------------------------------------------------------------------------
(* Close                                                                   *)

\* Mutant of Close: no drain goroutine is started.
CloseNoDrain ==
    /\ ~closed
    /\ closed' = TRUE
    /\ cancelled' = push
    /\ drainer' = "no"
    /\ UNCHANGED <<push, kind, mst, recv, retries, npc, nres, pending>>

\* Mutant of Close: run's context is not cancelled.
CloseNoCancel ==
    /\ ~closed
    /\ closed' = TRUE
    /\ cancelled' = FALSE
    /\ drainer' = IF push THEN "yes" ELSE "no"
    /\ UNCHANGED <<push, kind, mst, recv, retries, npc, nres, pending>>

\* configMapBucketWatcher.Close: cancel run's context, start the drain
\* goroutine, delete the subscription.  configMapBucketPoller.Close: close
\* w.done.  The owner calls Close once.
Close ==
    /\ ~closed
    /\ closed' = TRUE
    /\ cancelled' = push
    /\ drainer' = IF push THEN "yes" ELSE "no"
    /\ UNCHANGED <<push, kind, mst, recv, retries, npc, nres, pending>>

\* The drain goroutine's "for msg := range w.ch": take and ack m.
DrainerRecv(m) ==
    /\ drainer = "yes"
    /\ mst[m] = "cb"
    /\ mst' = [mst EXCEPT ![m] = "acked"]
    /\ UNCHANGED <<push, kind, recv, retries, cancelled, npc, nres, closed,
                   drainer, pending>>

\* The range loop ends when w.ch is closed.
DrainerEnd ==
    /\ drainer = "yes"
    /\ recv = "closed"
    /\ drainer' = "done"
    /\ UNCHANGED <<push, kind, mst, recv, retries, cancelled, npc, nres,
                   closed, pending>>

-----------------------------------------------------------------------------
\* run's own progress; a Receive error is not assumed to happen.
RunProgress ==
    \/ \E m \in Msgs : Deliver(m)
    \/ ReceiveCancelled
    \/ ReceiveReturn

Run == RunProgress \/ ReceiveFail

Caller ==
    \/ NextCall
    \/ \E m \in Msgs : NextRecv(m) \/ DrainRecv(m)
    \/ NextClosed
    \/ DrainNil
    \/ DrainDefault
    \/ PollWake
    \/ PollClosed

Drainer ==
    \/ \E m \in Msgs : DrainerRecv(m)
    \/ DrainerEnd

Environment ==
    \/ \E m \in Msgs, k \in Kinds : Publish(m, k)
    \/ NextCancelled
    \/ Close

Next ==
    \/ Run
    \/ Caller
    \/ Drainer
    \/ Environment

\* Each goroutine that can proceed eventually does: the pub/sub client
\* keeps pulling, the caller's loop calls Next again after its Load, the
\* poller's timer fires within 1.2 hours and the drain goroutine runs.
\* Publications, errors, cancellation and Close are not assumed to happen.
Spec ==
    /\ Init /\ [][Next]_vars
    /\ WF_vars(RunProgress)
    /\ WF_vars(Caller)
    /\ WF_vars(Drainer)

-----------------------------------------------------------------------------
(* Properties.                                                             *)

\* A change is never lost by the watcher: after a seq object is written
\* and its notification published, Next eventually returns ok (so the
\* caller runs a Load that reads the new seq), unless the caller's loop has
\* ended.  It rests on Next's filter, on the drain loop coalescing only
\* events published before it returns, and on the poller's timer.
WakeAfterSeqChange == pending ~> (~pending \/ npc \in {"done", "panic"})

\* Close releases the watcher's goroutines: once Close is called, run
\* eventually closes w.ch with no Receive callback left blocked on it,
\* even when the caller no longer reads w.ch.
CloseReleasesReceiver ==
    (closed /\ push) ~> (recv = "closed" /\ Senders = {})

\* run's close(w.ch) never races a Receive callback: when w.ch is closed
\* no callback is still blocked in "w.ch <- msg", which would panic with a
\* send on a closed channel.  It rests on Receive returning only after its
\* callbacks have, on nothing being delivered after Receive returned, and
\* on Close cancelling run instead of closing w.ch itself.
NoSendOnClosedChannel == recv = "closed" => Senders = {}

\* Next never dereferences a nil message: it panics in the drain loop when
\* run closes w.ch while Next is draining.
NoNilDeref == npc # "panic"

\* Spec 4.1: close() causes any outstanding next to resolve with "closed".
\* Once Close is called, the caller's loop of Next calls eventually ends:
\* Close must stop run so that w.ch gets closed, or close the poller's
\* done channel.
CloseEndsNext == closed ~> npc \in {"done", "panic"}
=============================================================================
