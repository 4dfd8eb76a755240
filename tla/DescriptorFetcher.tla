------------------------- MODULE DescriptorFetcher -------------------------
(***************************************************************************)
(* loadConfigs (src/cmd/remoteexec_proxy/main.go lines 1254-1365): list   *)
(* the objects under a runtime's prefix, keep those that pass             *)
(* checkPrebuilt and lie under descriptors/, then read them with an       *)
(* errgroup.Group of goroutines, at most Concurrency at a time (a          *)
(* semaphore channel of that capacity), each writing its config into the  *)
(* slot of its index; after eg.Wait the first error is returned, or a    *)
(* loop appends the non-empty slots, in index order, to the result.       *)
(*                                                                         *)
(* The objects and their kinds are those of DescriptorFetch, which this   *)
(* module implements.                                                      *)
(***************************************************************************)
EXTENDS Naturals, Sequences, FiniteSets

CONSTANTS
    NObjs,         \* objects listed under the runtime's prefix
    Concurrency    \* semaphore capacity: 1, or runtime.NumCPU() * 4

ASSUME FetcherAssumption ==
    /\ NObjs \in Nat
    /\ Concurrency \in Nat \ {0}

Objs == 1..NObjs

ObjKinds == {"filtered", "unreadable", "invalid", "desc"}

VARIABLES
    obj,       \* obj[i]: the kind of the i-th listed object
    lpc,       \* loadConfigs: "list", "dispatch", "wait", "collect" or "done"
    li,        \* the next object iter.Next returns
    attrs,     \* attrsList: the indices of the objects kept, in order
    di,        \* the loop over attrsList: next position to start
    running,   \* positions whose goroutine eg.Wait still waits for
    reading,   \* positions whose goroutine has not finished its body
    sema,      \* the tokens in the semaphore channel
    slot,      \* confList: slot[p] is the config of position p, or 0
    firstErr,  \* the error eg.Wait returns: 0, or the failed position
    ci,        \* the loop over confList after eg.Wait: next position
    result,    \* "none", then "error" or "ok" when loadConfigs returns
    confs      \* the configs appended by that loop and returned with "ok"

vars == <<obj, lpc, li, attrs, di, running, reading, sema, slot, firstErr, ci, result, confs>>

TypeOK ==
    /\ obj \in [Objs -> ObjKinds]
    /\ lpc \in {"list", "dispatch", "wait", "collect", "done"}
    /\ li \in 1..NObjs + 1
    /\ attrs \in Seq(Objs)
    /\ di \in 1..Len(attrs) + 1
    /\ running \subseteq 1..Len(attrs)
    /\ reading \subseteq 1..Len(attrs)
    /\ sema \in 0..Concurrency
    /\ slot \in [Objs -> Objs \cup {0}]
    /\ firstErr \in 0..NObjs
    /\ ci \in 1..Len(attrs) + 1
    /\ result \in {"none", "error", "ok"}
    /\ confs \in Seq(Objs)

\* loadDescriptor returns an error for object i: storageReadAll finds no
\* bucket or object, or NewReader or ReadFrom fails, or proto.Unmarshal
\* rejects the bytes.
LoadDescriptorFails(i) == obj[i] = "unreadable"

\* errgroup.Group keeps the first error a goroutine returns.
FirstError(e, p) == IF e = 0 THEN p ELSE e

-----------------------------------------------------------------------------
Init ==
    /\ obj \in [Objs -> ObjKinds]
    /\ lpc = "list"
    /\ li = 1
    /\ attrs = << >>
    /\ di = 1
    /\ running = {}
    /\ reading = {}
    /\ sema = 0
    /\ slot = [p \in Objs |-> 0]
    /\ firstErr = 0
    /\ ci = 1
    /\ result = "none"
    /\ confs = << >>

\* iter.Next returns the next object; checkPrebuilt and the descriptors/
\* check drop it or it is appended to attrsList.
ListNext ==
    /\ lpc = "list"
    /\ li <= NObjs
    /\ attrs' = IF obj[li] = "filtered" THEN attrs ELSE Append(attrs, li)
    /\ li' = li + 1
    /\ UNCHANGED <<obj, lpc, di, running, reading, sema, slot, firstErr, ci, result, confs>>

\* loadConfigs returns an error before the reads: splitGCSPath rejects the
\* URI, the bucket is nil, or iter.Next returns an error.
ListFail ==
    /\ lpc = "list"
    /\ lpc' = "done"
    /\ result' = "error"
    /\ UNCHANGED <<obj, li, attrs, di, running, reading, sema, slot, firstErr, ci, confs>>

\* iter.Next returns iterator.Done.
ListDone ==
    /\ lpc = "list"
    /\ li = NObjs + 1
    /\ lpc' = "dispatch"
    /\ UNCHANGED <<obj, li, attrs, di, running, reading, sema, slot, firstErr, ci, result, confs>>

\* Mutant of Dispatch: the loop runs one position past attrsList.
DispatchPastEnd ==
    /\ lpc = "dispatch"
    /\ di <= Len(attrs) + 1
    /\ sema < Concurrency
    /\ sema' = sema + 1
    /\ running' = running \cup {di}
    /\ reading' = reading \cup {di}
    /\ di' = di + 1
    /\ UNCHANGED <<obj, lpc, li, attrs, slot, firstErr, ci, result, confs>>

\* "sema <- struct{}{}" blocks while the channel holds Concurrency tokens;
\* then eg.Go starts the goroutine of position di.
Dispatch ==
    /\ lpc = "dispatch"
    /\ di <= Len(attrs)
    /\ sema < Concurrency
    /\ sema' = sema + 1
    /\ running' = running \cup {di}
    /\ reading' = reading \cup {di}
    /\ di' = di + 1
    /\ UNCHANGED <<obj, lpc, li, attrs, slot, firstErr, ci, result, confs>>

\* Every position has been started: eg.Wait.
DispatchDone ==
    /\ lpc = "dispatch"
    /\ di = Len(attrs) + 1
    /\ lpc' = "wait"
    /\ UNCHANGED <<obj, li, attrs, di, running, reading, sema, slot, firstErr, ci, result, confs>>

\* Mutant of Worker: the config goes into the first empty slot, so the
\* output follows completion order.
WorkerFirstFree(p) ==
    /\ p \in reading
    /\ reading' = reading \ {p}
    /\ LET q == CHOOSE q \in Objs : slot[q] = 0 /\ \A r \in 1..q - 1 : slot[r] # 0
       IN  slot' = IF obj[attrs[p]] = "desc" THEN [slot EXCEPT ![q] = attrs[p]] ELSE slot
    /\ UNCHANGED <<obj, lpc, li, attrs, di, running, sema, firstErr, ci, result, confs>>

\* Mutant of Worker: the error path also receives from the semaphore, as
\* well as the deferred release, taking a token another goroutine holds.
WorkerDoubleRelease(p) ==
    /\ p \in reading
    /\ reading' = reading \ {p}
    /\ slot' = IF obj[attrs[p]] = "desc" THEN [slot EXCEPT ![p] = attrs[p]] ELSE slot
    /\ IF LoadDescriptorFails(attrs[p])
       THEN sema > 0 /\ sema' = sema - 1
       ELSE UNCHANGED sema
    /\ UNCHANGED <<obj, lpc, li, attrs, di, running, firstErr, ci, result, confs>>

\* The body of the goroutine of position p: it reads and checks its
\* descriptor and fills its slot if the descriptor is valid.
Worker(p) ==
    /\ p \in reading
    /\ reading' = reading \ {p}
    /\ slot' = IF obj[attrs[p]] = "desc" THEN [slot EXCEPT ![p] = attrs[p]] ELSE slot
    /\ UNCHANGED <<obj, lpc, li, attrs, di, running, sema, firstErr, ci, result, confs>>

\* The goroutine of position p returns: its deferred "<-sema" takes a
\* token back, then the errgroup keeps its error if it is the first.
Release(p) ==
    /\ p \in running \ reading
    /\ sema > 0
    /\ sema' = sema - 1
    /\ running' = running \ {p}
    /\ firstErr' = IF LoadDescriptorFails(attrs[p]) THEN FirstError(firstErr, p)
                                                    ELSE firstErr
    /\ UNCHANGED <<obj, lpc, li, attrs, di, reading, slot, ci, result, confs>>

\* Mutant of Wait: the error of eg.Wait is ignored.
WaitIgnoreErr ==
    /\ lpc = "wait"
    /\ running = {}
    /\ lpc' = "collect"
    /\ UNCHANGED <<obj, li, attrs, di, running, reading, sema, slot, firstErr, ci, result, confs>>

\* eg.Wait returns when every goroutine has: loadConfigs returns the first
\* error, or goes on to the loop over confList.
Wait ==
    /\ lpc = "wait"
    /\ running = {}
    /\ \/ firstErr # 0 /\ lpc' = "done" /\ result' = "error"
       \/ firstErr = 0 /\ lpc' = "collect" /\ UNCHANGED result
    /\ UNCHANGED <<obj, li, attrs, di, running, reading, sema, slot, firstErr, ci, confs>>

\* One turn of the loop: a nil slot is skipped, any other appended.
Collect ==
    /\ lpc = "collect"
    /\ ci <= Len(attrs)
    /\ confs' = IF slot[ci] = 0 THEN confs ELSE Append(confs, slot[ci])
    /\ ci' = ci + 1
    /\ UNCHANGED <<obj, lpc, li, attrs, di, running, reading, sema, slot, firstErr, result>>

\* The loop is over: loadConfigs returns confs.
Return ==
    /\ lpc = "collect"
    /\ ci = Len(attrs) + 1
    /\ lpc' = "done"
    /\ result' = "ok"
    /\ UNCHANGED <<obj, li, attrs, di, running, reading, sema, slot, firstErr, ci, confs>>

Next ==
    \/ ListNext
    \/ ListFail
    \/ ListDone
    \/ Dispatch
    \/ DispatchDone
    \/ \E p \in 1..NObjs : Worker(p) \/ Release(p)
    \/ Wait
    \/ Collect
    \/ Return
    \/ lpc = "done" /\ UNCHANGED vars

\* The goroutines and the loop run until loadConfigs returns; a listing
\* error is not assumed to happen.
Spec ==
    /\ Init /\ [][Next]_vars
    /\ WF_vars(ListNext \/ ListDone \/ Dispatch \/ DispatchDone \/ Wait \/ Collect \/ Return)
    /\ \A p \in 1..NObjs : WF_vars(Worker(p)) /\ WF_vars(Release(p))

-----------------------------------------------------------------------------
(* Properties.                                                             *)

\* The semaphore bounds the goroutines reading descriptors at once: a
\* goroutine gives its token back only once its read is over, so never
\* more than Concurrency reads are in flight, whatever order the
\* goroutines finish and release in.
BoundedWorkers == Cardinality(reading) <= Concurrency

\* The refinement mapping: the listing and the result are the abstract
\* ones, and confs is once loadConfigs has returned (before, the loop
\* over confList is still building it); the loop counters, attrsList, the
\* running goroutines, the slots and the recorded error are hidden.
Abstract == INSTANCE DescriptorFetch
                WITH NObjs <- NObjs, obj <- obj, result <- result,
                     confs <- IF result = "none" THEN << >> ELSE confs

\* loadConfigs never returns configs when one of the descriptors it had to
\* read failed to load, whichever goroutine failed and whenever: the
\* error survives the other goroutines and eg.Wait reports it.
OkOnlyWithoutReadFailure == result = "ok" => ~Abstract!ReadFails

\* loadConfigs implements DescriptorFetch: whatever order the goroutines
\* finish in, it returns the valid descriptors' configs in listing order,
\* or an error, never configs when a read failed, and it always returns.
FetchRefinement == Abstract!Spec

\* Spec 4.3 step 4: the first read error aborts the batch.  No goroutine
\* is started after one has returned an error.
AbortOnFirstError == [][firstErr # 0 => running' \subseteq running]_vars
=============================================================================
