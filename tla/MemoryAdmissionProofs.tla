------------------------ MODULE MemoryAdmissionProofs ------------------------
(***************************************************************************)
(* Proofs about the memory admission checks for every memory limit, base  *)
(* size, message size and number of concurrent requests: the frontend     *)
(* keeps its -memory-margin promise exactly when the margin is less than  *)
(* half the memory limit.                                                  *)
(***************************************************************************)
EXTENDS MemoryAdmission, TLAPS

(* The memory counts are integers and the slots' states and sizes have    *)
(* their types; Admit's arithmetic needs nothing more.                    *)
IntTypes ==
    /\ pc \in [Reqs -> {"idle", "admitted", "received", "running"}]
    /\ size \in [Reqs -> Int]
    /\ live \in Int
    /\ garbage \in Int

(* The constants the arithmetic is over.                                   *)
IntConstants ==
    /\ Limit \in Int
    /\ Margin \in Int
    /\ Base \in Int
    /\ MaxMsg \in Nat

LEMMA IntTypesInvariant ==
    ASSUME IntConstants
    PROVE  Spec => []IntTypes
<1>1. Init => IntTypes
  BY DEF Init, IntTypes
<1>2. IntTypes /\ [Next]_vars => IntTypes'
  <2> SUFFICES ASSUME IntTypes, [Next]_vars PROVE IntTypes'
    OBVIOUS
  <2>1. ASSUME NEW r \in Reqs, Admit(r) PROVE IntTypes'
    BY <2>1 DEF Admit, Admitted, Refused, IntTypes
  <2>2. ASSUME NEW r \in Reqs, Receive(r) PROVE IntTypes'
    BY <2>2, IntConstants DEF Receive, IntTypes
  <2>3. ASSUME NEW r \in Reqs, PutReceive(r) PROVE IntTypes'
    BY <2>3, IntConstants DEF PutReceive, IntTypes
  <2>4. ASSUME NEW r \in Reqs, AdmitPut(r) PROVE IntTypes'
    BY <2>4 DEF AdmitPut, PutAdmitted, PutRefused, IntTypes
  <2>5. ASSUME NEW r \in Reqs, Finish(r) PROVE IntTypes'
    BY <2>5 DEF Finish, IntTypes
  <2>6. CASE RuntimeGC
    BY <2>6 DEF RuntimeGC, IntTypes
  <2>7. CASE UNCHANGED vars
    BY <2>7 DEF vars, IntTypes
  <2>8. QED
    BY <2>1, <2>2, <2>3, <2>4, <2>5, <2>6, <2>7 DEF Next
<1>3. QED
  BY <1>1, <1>2, PTL DEF Spec

(* No step but Admit takes a slot from "idle" to "admitted".               *)
LEMMA OnlyAdmitAdmits ==
    ASSUME IntTypes, [Next]_vars, NEW r \in Reqs,
           pc[r] = "idle", pc'[r] = "admitted"
    PROVE  Admit(r)
<1>1. ASSUME NEW q \in Reqs, q # r PROVE ~Admit(q) \/ pc'[r] = pc[r]
  BY <1>1 DEF Admit, Admitted, Refused, IntTypes
<1>2. ASSUME NEW q \in Reqs PROVE ~Receive(q) /\ ~PutReceive(q) /\ ~AdmitPut(q) /\ ~Finish(q)
  BY DEF Receive, PutReceive, AdmitPut, PutAdmitted, PutRefused, Finish, IntTypes
<1>3. ~RuntimeGC /\ ~UNCHANGED vars
  BY DEF RuntimeGC, vars
<1>4. QED
  BY <1>1, <1>2, <1>3 DEF Next

(* With a positive margin less than half the memory limit, the frontend    *)
(* admits a request only when more than the margin is left under the      *)
(* limit, whichever requests run concurrently and whatever GC frees: the  *)
(* other side of the finding that a margin of half the limit or more     *)
(* turns memoryCheck.Admit off.                                            *)
THEOREM MarginRespectedBelowHalf ==
    ASSUME IntConstants, Configured = TRUE, Margin > 0, 2 * Margin < Limit
    PROVE  Spec => AdmitOnlyWithMargin
<1>1. SoftThreshold = Limit - 2 * Margin /\ SoftThreshold > 0
  BY DEF SoftThreshold, IntConstants
<1>2. IntTypes /\ [Next]_vars =>
        \A r \in Reqs :
          (Configured /\ Margin > 0 /\ pc[r] = "idle" /\ pc'[r] = "admitted")
              => Limit - (Base + live + garbage') > Margin
  <2> SUFFICES ASSUME IntTypes, [Next]_vars, NEW r \in Reqs,
                      pc[r] = "idle", pc'[r] = "admitted"
               PROVE  Limit - (Base + live + garbage') > Margin
    OBVIOUS
  <2>1. Admit(r)
    BY OnlyAdmitAdmits
  <2>2. \E g0 \in Int : garbage' = g0 /\ Base + live + g0 <= SoftThreshold
    BY <1>1, <2>1 DEF Admit, Admitted, Refused, RSS, IntTypes
  <2>3. PICK g0 \in Int : garbage' = g0 /\ Base + live + g0 <= Limit - 2 * Margin
    BY <1>1, <2>2
  <2>4. live \in Int /\ Base \in Int /\ Limit \in Int /\ Margin \in Int
    BY DEF IntTypes, IntConstants
  <2>5. QED
    BY <2>3, <2>4
<1>3. QED
  BY <1>2, IntTypesInvariant, PTL DEF Spec, AdmitOnlyWithMargin
(* No step but AdmitPut takes a slot from "received" to "running".         *)
LEMMA OnlyAdmitPutStarts ==
    ASSUME IntTypes, [Next]_vars, NEW r \in Reqs,
           pc[r] = "received", pc'[r] = "running"
    PROVE  AdmitPut(r)
<1>1. ASSUME NEW q \in Reqs, q # r PROVE ~AdmitPut(q) \/ pc'[r] = pc[r]
  BY <1>1 DEF AdmitPut, PutAdmitted, PutRefused, IntTypes
<1>2. ASSUME NEW q \in Reqs PROVE ~Admit(q) /\ ~PutReceive(q) /\ ~Finish(q)
  BY DEF Admit, Admitted, Refused, PutReceive, Finish, IntTypes
<1>3. ASSUME NEW q \in Reqs PROVE ~Receive(q)
  BY DEF Receive, IntTypes
<1>4. ~RuntimeGC /\ ~UNCHANGED vars
  BY DEF RuntimeGC, vars
<1>5. QED
  BY <1>1, <1>2, <1>3, <1>4 DEF Next

(* What admissionController.AdmitPut promises when its limit is positive: *)
(* a put it lets through fits, twice over, under the limit on top of the *)
(* resident size it read (after server.GC when it ran), whichever puts    *)
(* run concurrently and whatever the runtime's collection frees.          *)
PutOnlyWithinLimit ==
    [][\A r \in Reqs :
          (pc[r] = "received" /\ pc'[r] = "running")
              => Base + live + garbage' + 2 * size[r] <= PutLimit]_vars

(* file_server keeps that promise for every memory limit above twice the *)
(* largest message, every base size and every number of concurrent puts.  *)
THEOREM PutAdmittedWithinLimit ==
    ASSUME IntConstants, Configured = TRUE, Limit > 2 * MaxMsg
    PROVE  Spec => PutOnlyWithinLimit
<1>1. PutLimit = Limit - 2 * MaxMsg /\ PutLimit > 0
  BY DEF PutLimit, IntConstants
<1>2. IntTypes /\ [Next]_vars =>
        \A r \in Reqs :
          (pc[r] = "received" /\ pc'[r] = "running")
              => Base + live + garbage' + 2 * size[r] <= PutLimit
  <2> SUFFICES ASSUME IntTypes, [Next]_vars, NEW r \in Reqs,
                      pc[r] = "received", pc'[r] = "running"
               PROVE  Base + live + garbage' + 2 * size[r] <= PutLimit
    OBVIOUS
  <2>1. AdmitPut(r)
    BY OnlyAdmitPutStarts
  <2>2. \E g0 \in Int : garbage' = g0 /\ Base + live + g0 + 2 * size[r] <= PutLimit
    <3>1. CASE (PutLimit <= 0 \/ RSS + 2 * size[r] <= PutLimit) /\ UNCHANGED garbage
      BY <1>1, <3>1 DEF RSS, IntTypes
    <3>2. CASE \E g \in 0..garbage :
                 IF Base + live + g + 2 * size[r] <= PutLimit
                 THEN PutAdmitted(r) /\ garbage' = g
                 ELSE PutRefused(r, g)
      <4>1. PICK g \in 0..garbage :
                 IF Base + live + g + 2 * size[r] <= PutLimit
                 THEN PutAdmitted(r) /\ garbage' = g
                 ELSE PutRefused(r, g)
        BY <3>2
      <4>2. ~PutRefused(r, g)
        BY DEF PutRefused, IntTypes
      <4>3. QED
        BY <4>1, <4>2 DEF IntTypes
    <3>3. QED
      BY <2>1, <3>1, <3>2 DEF AdmitPut
  <2>3. QED
    BY <2>2
<1>3. QED
  BY <1>2, IntTypesInvariant, PTL DEF Spec, PutOnlyWithinLimit

(* Nothing has been refused: the process was never marked unhealthy and  *)
(* every slot was last answered nil or not yet at all.                    *)
NeverRefused ==
    /\ unhealthy = FALSE
    /\ \A r \in Reqs : ret[r] \in {"none", "ok"}

(* The edge of both checks, for every memory limit and every load: when  *)
(* the frontend's soft threshold limit - 2*margin, or file_server's limit *)
(* less 2*file.DefaultMaxMsgSize, is at or below zero, the check is off: *)
(* no request is ever refused, however far the resident size grows.      *)
THEOREM DisabledCheckNeverRefuses ==
    ASSUME IntConstants,
           \/ Binary = "frontend" /\ SoftThreshold <= 0
           \/ Binary = "file_server" /\ PutLimit <= 0
    PROVE  Spec => []NeverRefused
<1>1. Init => NeverRefused
  BY DEF Init, NeverRefused
<1>2. NeverRefused /\ [Next]_vars => NeverRefused'
  <2> SUFFICES ASSUME NeverRefused, [Next]_vars PROVE NeverRefused'
    OBVIOUS
  <2>0. SoftThreshold \in Int /\ PutLimit \in Int
    BY DEF SoftThreshold, PutLimit, IntConstants
  <2>1. ASSUME NEW r \in Reqs, Binary = "frontend", Admit(r) PROVE NeverRefused'
    <3>1. SoftThreshold <= 0
      BY <2>1
    <3>2. Admitted(r)
      BY <2>0, <2>1, <3>1 DEF Admit
    <3>3. QED
      BY <3>2 DEF Admitted, NeverRefused
  <2>2. ASSUME NEW r \in Reqs, Binary = "file_server", AdmitPut(r) PROVE NeverRefused'
    <3>1. PutLimit <= 0
      BY <2>2
    <3>2. PutAdmitted(r)
      BY <2>0, <2>2, <3>1 DEF AdmitPut
    <3>3. QED
      BY <3>2 DEF PutAdmitted, NeverRefused
  <2>3. ASSUME NEW r \in Reqs, Receive(r) \/ PutReceive(r) \/ Finish(r)
        PROVE  NeverRefused'
    BY <2>3 DEF Receive, PutReceive, Finish, NeverRefused
  <2>4. CASE RuntimeGC \/ UNCHANGED vars
    BY <2>4 DEF RuntimeGC, vars, NeverRefused
  <2>5. QED
    BY <2>1, <2>2, <2>3, <2>4 DEF Next
<1>3. QED
  BY <1>1, <1>2, PTL DEF Spec

=============================================================================
