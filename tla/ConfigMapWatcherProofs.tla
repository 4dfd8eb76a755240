--------------------- MODULE ConfigMapWatcherProofs ---------------------
(***************************************************************************)
(* Safety of the pub/sub watcher's channel for every set of notification   *)
(* messages and every retry bound: the variables keep their types, and    *)
(* run never closes w.ch under a Receive callback blocked sending on it.  *)
(* The watcher's liveness properties (WakeAfterSeqChange,                 *)
(* CloseReleasesReceiver, CloseEndsNext) rest on fairness and stay with   *)
(* TLC.                                                                    *)
(***************************************************************************)
EXTENDS ConfigMapWatcher, TLAPS

USE WatcherAssumption DEF Kinds, Senders

(* The step relation, action by action.                                    *)
LEMMA NextCases ==
    ASSUME [Next]_vars
    PROVE  \/ \E m \in Msgs, k \in Kinds : Publish(m, k)
           \/ \E m \in Msgs : Deliver(m) \/ NextRecv(m) \/ DrainRecv(m)
                              \/ DrainerRecv(m)
           \/ ReceiveFail \/ ReceiveCancelled \/ ReceiveReturn
           \/ NextCall \/ NextClosed \/ NextCancelled \/ DrainNil
           \/ DrainDefault \/ PollWake \/ PollClosed
           \/ Close \/ DrainerEnd
           \/ UNCHANGED vars
BY DEF Next, Run, RunProgress, Caller, Drainer, Environment

(* The initial state is well typed.                                       *)
LEMMA InitTypeOK == Init => TypeOK
<1> SUFFICES ASSUME Init PROVE TypeOK
  OBVIOUS
<1>1. push \in BOOLEAN /\ cancelled \in BOOLEAN /\ closed \in BOOLEAN
      /\ pending \in BOOLEAN
  BY Zenon DEF Init
<1>2. retries \in 0..MaxRetries
  BY DEF Init
<1>3. QED
  BY <1>1, <1>2 DEF Init, TypeOK

(* The variables keep their types in every reachable state.                *)
LEMMA WatcherTypeCorrect == Spec => []TypeOK
<1>1. Init => TypeOK
  BY InitTypeOK
<1>2. TypeOK /\ [Next]_vars => TypeOK'
  <2> SUFFICES ASSUME TypeOK, [Next]_vars PROVE TypeOK'
    OBVIOUS
  <2> USE DEF TypeOK
  <2>1. ASSUME NEW m \in Msgs, NEW k \in Kinds, Publish(m, k) PROVE TypeOK'
    BY <2>1 DEF Publish
  <2>2. ASSUME NEW m \in Msgs, Deliver(m) \/ NextRecv(m) \/ DrainRecv(m)
                                \/ DrainerRecv(m)
        PROVE TypeOK'
    BY <2>2 DEF Deliver, NextRecv, DrainRecv, DrainerRecv
  <2>3. CASE ReceiveFail
    BY <2>3 DEF ReceiveFail
  <2>4. CASE ReceiveCancelled \/ ReceiveReturn
    BY <2>4 DEF ReceiveCancelled, ReceiveReturn
  <2>5. CASE NextCall \/ NextClosed \/ NextCancelled \/ DrainNil
    BY <2>5 DEF NextCall, NextClosed, NextCancelled, DrainNil
  <2>6. CASE DrainDefault \/ PollWake \/ PollClosed
    BY <2>6 DEF DrainDefault, PollWake, PollClosed
  <2>7. CASE Close \/ DrainerEnd
    BY <2>7 DEF Close, DrainerEnd
  <2>8. CASE UNCHANGED vars
    BY <2>8 DEF vars
  <2>9. QED
    BY <2>1, <2>2, <2>3, <2>4, <2>5, <2>6, <2>7, <2>8, NextCases
<1>3. QED
  BY <1>1, <1>2, PTL DEF Spec

(* run closes w.ch only when no Receive callback is blocked sending on it, *)
(* so no callback panics with a send on a closed channel: Receive returns  *)
(* after its callbacks, nothing is delivered once it has returned, and     *)
(* Close cancels run's context instead of closing w.ch.  The invariant is  *)
(* inductive together with the types.                                      *)
THEOREM NoSendOnClosedChannelInvariant == Spec => []NoSendOnClosedChannel
<1> DEFINE IInv == TypeOK /\ NoSendOnClosedChannel
<1>1. Init => IInv
  BY InitTypeOK DEF Init, NoSendOnClosedChannel
<1>2. IInv /\ [Next]_vars => NoSendOnClosedChannel'
  <2> SUFFICES ASSUME TypeOK, NoSendOnClosedChannel, [Next]_vars
               PROVE  NoSendOnClosedChannel'
    OBVIOUS
  <2> USE DEF NoSendOnClosedChannel
  <2>1. ASSUME NEW m \in Msgs, NEW k \in Kinds, Publish(m, k)
        PROVE NoSendOnClosedChannel'
    BY <2>1 DEF Publish, TypeOK
  <2>2. ASSUME NEW m \in Msgs, Deliver(m) PROVE NoSendOnClosedChannel'
    BY <2>2 DEF Deliver
  <2>3. ASSUME NEW m \in Msgs, NextRecv(m) \/ DrainRecv(m) \/ DrainerRecv(m)
        PROVE NoSendOnClosedChannel'
    BY <2>3 DEF NextRecv, DrainRecv, DrainerRecv, TypeOK
  <2>4. CASE ReceiveReturn
    BY <2>4 DEF ReceiveReturn
  <2>5. CASE ReceiveFail \/ ReceiveCancelled
    BY <2>5 DEF ReceiveFail, ReceiveCancelled
  <2>6. CASE NextCall \/ NextClosed \/ NextCancelled \/ DrainNil
             \/ DrainDefault \/ PollWake \/ PollClosed \/ Close \/ DrainerEnd
    BY <2>6 DEF NextCall, NextClosed, NextCancelled, DrainNil, DrainDefault,
       PollWake, PollClosed, Close, DrainerEnd
  <2>7. CASE UNCHANGED vars
    BY <2>7 DEF vars
  <2>8. QED
    BY <2>1, <2>2, <2>3, <2>4, <2>5, <2>6, <2>7, NextCases
<1>3. QED
  BY <1>1, <1>2, WatcherTypeCorrect, PTL DEF Spec
=============================================================================
