------------------------- MODULE MemoryAdmission -------------------------
(***************************************************************************)
(* The memory admission checks of src/cache/redis/fake_redis.go: the      *)
(* frontend's memoryCheck.Admit, with the thresholds its main derives     *)
(* from the container's memory limit and -memory-margin, and file_server's*)
(* admissionController.AdmitPut, whose limit is the memory limit less     *)
(* twice the largest message; and the requests each admits running        *)
(* concurrently.  The two binaries are separate processes: Binary says    *)
(* which one the model is.                                                 *)
(*                                                                         *)
(* Memory is counted in units.  The resident size is the process's base  *)
(* memory, the memory live requests hold and the garbage their finished   *)
(* predecessors left.  Admit reads it, runs server.GC when it is over the *)
(* soft threshold and decides on the size GC leaves; an admitted request  *)
(* then reads its message (at most MaxMsg units, grpc.MaxRecvMsgSize) and *)
(* frees it when it finishes.  A put reaches AdmitPut with its message    *)
(* already read, and a refused put frees it.  The Go runtime also collects garbage by    *)
(* itself, which keeps the garbage under MaxGarbage.                       *)
(***************************************************************************)
EXTENDS Integers

CONSTANTS
    Binary,      \* "frontend" or "file_server"
    Limit,       \* server.MemoryLimit()
    Margin,      \* the value of -memory-margin
    Configured,  \* -memory-margin is set and the memory limit is known
    Base,        \* memory the process holds with no request
    MaxMsg,      \* the largest request message
    MaxGarbage,  \* garbage the runtime's own collection lets pile up
    Reqs         \* request slots (goroutines serving requests)

\* main: memoryChecker.hardThreshold and softThreshold, left at zero when
\* the margin flag is empty or the limit unknown.
HardThreshold == IF Configured THEN Limit - Margin ELSE 0
SoftThreshold == IF Configured THEN Limit - 2 * Margin ELSE 0

\* file_server's main: admissionController.limit, the limit less twice
\* file.DefaultMaxMsgSize, left at zero when the limit is unknown.
PutLimit == IF Configured THEN Limit - 2 * MaxMsg ELSE 0

VARIABLES
    pc,         \* pc[r]: "idle", "admitted" (Admit returned nil), "received"
                \* (a put read, AdmitPut not yet called), "running"
    size,       \* size[r]: the memory request r's message holds
    ret,        \* ret[r]: what Admit last returned to slot r
    live,       \* memory held by running requests
    garbage,    \* memory freed by finished requests and not collected
    unhealthy   \* healthz.SetUnhealthy was called

vars == <<pc, size, ret, live, garbage, unhealthy>>

Rets == {"none", "ok", "unavailable", "exhausted"}

\* server.ResidentMemorySize().
RSS == Base + live + garbage

TypeOK ==
    /\ pc \in [Reqs -> {"idle", "admitted", "received", "running"}]
    /\ size \in [Reqs -> 0..MaxMsg]
    /\ ret \in [Reqs -> Rets]
    /\ live \in Nat
    /\ garbage \in 0..MaxGarbage
    /\ unhealthy \in BOOLEAN

Init ==
    /\ pc = [r \in Reqs |-> "idle"]
    /\ size = [r \in Reqs |-> 0]
    /\ ret = [r \in Reqs |-> "none"]
    /\ live = 0
    /\ garbage = 0
    /\ unhealthy = FALSE

-----------------------------------------------------------------------------
\* Admit decides on the size server.GC left.
Refused(r, rss) ==
    /\ unhealthy' = TRUE
    /\ ret' = [ret EXCEPT ![r] = IF HardThreshold > 0 /\ rss > HardThreshold
                                 THEN "exhausted" ELSE "unavailable"]
    /\ UNCHANGED <<pc, size, live>>

Admitted(r) ==
    /\ pc' = [pc EXCEPT ![r] = "admitted"]
    /\ ret' = [ret EXCEPT ![r] = "ok"]
    /\ UNCHANGED <<size, live, unhealthy>>

\* A request arrives on slot r and memoryCheck.Admit runs.
Admit(r) ==
    /\ pc[r] = "idle"
    /\ \/ /\ SoftThreshold <= 0 \/ RSS <= SoftThreshold
          /\ Admitted(r)
          /\ UNCHANGED garbage
       \/ /\ SoftThreshold > 0
          /\ RSS > SoftThreshold
          /\ \E g \in 0..garbage :
                /\ garbage' = g
                /\ IF Base + live + g <= SoftThreshold
                   THEN Admitted(r)
                   ELSE Refused(r, Base + live + g)

\* The admitted request reads its message.
Receive(r) ==
    /\ pc[r] = "admitted"
    /\ \E s \in 1..MaxMsg :
          /\ size' = [size EXCEPT ![r] = s]
          /\ live' = live + s
    /\ pc' = [pc EXCEPT ![r] = "running"]
    /\ UNCHANGED <<ret, garbage, unhealthy>>

\* The request is served and its memory becomes garbage.
Finish(r) ==
    /\ pc[r] = "running"
    /\ garbage + size[r] <= MaxGarbage
    /\ pc' = [pc EXCEPT ![r] = "idle"]
    /\ size' = [size EXCEPT ![r] = 0]
    /\ live' = live - size[r]
    /\ garbage' = garbage + size[r]
    /\ UNCHANGED <<ret, unhealthy>>

\* The Go runtime collects some garbage on its own.
RuntimeGC ==
    /\ garbage > 0
    /\ \E g \in 0..garbage - 1 : garbage' = g
    /\ UNCHANGED <<pc, size, ret, live, unhealthy>>

\* grpc reads a put request on slot r before file_server's handler runs.
PutReceive(r) ==
    /\ pc[r] = "idle"
    /\ \E s \in 1..MaxMsg :
          /\ size' = [size EXCEPT ![r] = s]
          /\ live' = live + s
    /\ pc' = [pc EXCEPT ![r] = "received"]
    /\ UNCHANGED <<ret, garbage, unhealthy>>

\* AdmitPut refuses the put after GC: the handler returns and the
\* request's message becomes garbage.
PutRefused(r, g) ==
    /\ g + size[r] <= MaxGarbage
    /\ garbage' = g + size[r]
    /\ unhealthy' = TRUE
    /\ ret' = [ret EXCEPT ![r] = "exhausted"]
    /\ pc' = [pc EXCEPT ![r] = "idle"]
    /\ size' = [size EXCEPT ![r] = 0]
    /\ live' = live - size[r]

PutAdmitted(r) ==
    /\ pc' = [pc EXCEPT ![r] = "running"]
    /\ ret' = [ret EXCEPT ![r] = "ok"]
    /\ UNCHANGED <<size, live, unhealthy>>

\* admissionController.AdmitPut for the put on slot r, whose key and value
\* take size[r] units.
AdmitPut(r) ==
    /\ pc[r] = "received"
    /\ \/ /\ PutLimit <= 0 \/ RSS + 2 * size[r] <= PutLimit
          /\ PutAdmitted(r)
          /\ UNCHANGED garbage
       \/ /\ PutLimit > 0
          /\ RSS + 2 * size[r] > PutLimit
          /\ \E g \in 0..garbage :
                IF Base + live + g + 2 * size[r] <= PutLimit
                THEN PutAdmitted(r) /\ garbage' = g
                ELSE PutRefused(r, g)

Next ==
    \/ /\ Binary = "frontend"
       /\ \E r \in Reqs : Admit(r) \/ Receive(r)
    \/ /\ Binary = "file_server"
       /\ \E r \in Reqs : PutReceive(r) \/ AdmitPut(r)
    \/ \E r \in Reqs : Finish(r)
    \/ RuntimeGC

Spec == Init /\ [][Next]_vars

-----------------------------------------------------------------------------
(* The -memory-margin flag promises: a positive margin makes the frontend *)
(* accept a request only when more than margin bytes of memory are        *)
(* available (the memory limit minus the resident size Admit last read,  *)
(* after its GC), whatever the requests running concurrently hold.        *)
AdmitOnlyWithMargin ==
    [][\A r \in Reqs :
          (Configured /\ Margin > 0 /\ pc[r] = "idle" /\ pc'[r] = "admitted")
              => Limit - (Base + live + garbage') > Margin]_vars
=============================================================================
