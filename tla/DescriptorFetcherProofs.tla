---------------------- MODULE DescriptorFetcherProofs ----------------------
(***************************************************************************)
(* Proofs about DescriptorFetcher (loadConfigs) for every number of        *)
(* objects and every semaphore capacity: the variables keep their types,  *)
(* the semaphore bounds the descriptor reads, configs are never returned after  *)
(* a failed read, and every step is a step of DescriptorFetch or leaves   *)
(* it unchanged, so that the configs returned are the valid descriptors'  *)
(* in listing order whatever order the goroutines finish in.               *)
(***************************************************************************)
EXTENDS DescriptorFetcher, FiniteSetTheorems, SequenceTheorems, TLAPS

(* attrsList holds, in listing order, exactly the objects iter.Next has    *)
(* returned that checkPrebuilt and the descriptors/ check keep.            *)
ListedExactly ==
    /\ Len(attrs) <= li - 1
    /\ \A i \in 1..li - 1 :
          obj[i] # "filtered" => \E p \in 1..Len(attrs) : attrs[p] = i
    /\ \A p \in 1..Len(attrs) : attrs[p] < li /\ obj[attrs[p]] # "filtered"
    /\ \A p, q \in 1..Len(attrs) : p < q => attrs[p] < attrs[q]

(* The goroutines running are among those started, and every one that     *)
(* has returned after a failed read has left its error in the group.      *)
ErrRecorded ==
    /\ running \subseteq 1..di - 1
    /\ \A p \in (1..di - 1) \ running :
          obj[attrs[p]] = "unreadable" => firstErr # 0

(* A slot is filled only by its own goroutine, with its own object, when  *)
(* that is a valid descriptor, and every such goroutine that has finished *)
(* its body has filled it.                                                 *)
SlotsFilled ==
    /\ \A p \in Objs :
          slot[p] # 0 => /\ p \in (1..di - 1) \ reading
                         /\ slot[p] = attrs[p]
                         /\ obj[attrs[p]] = "desc"
    /\ \A p \in (1..di - 1) \ reading :
          obj[attrs[p]] = "desc" => slot[p] = attrs[p]

(* A goroutine still reading has not returned, and the channel holds one  *)
(* token for every goroutine that has not returned: each took one before  *)
(* eg.Go and gives it back in its deferred receive.                       *)
Tokens ==
    /\ reading \subseteq running
    /\ sema = Cardinality(running)

(* Where loadConfigs is constrains the loop variables.                    *)
PhaseOK ==
    /\ lpc = "list" => di = 1 /\ running = {}
    /\ lpc \in {"dispatch", "wait", "collect"} => li = NObjs + 1
    /\ lpc \in {"wait", "collect"} => di = Len(attrs) + 1
    /\ lpc = "collect" => running = {} /\ firstErr = 0
    /\ lpc = "done" => running = {}
    /\ lpc \in {"list", "dispatch", "wait"} => ci = 1 /\ confs = << >>
    /\ result = "error" => confs = << >>
    /\ result = "ok" => ci = Len(attrs) + 1
    /\ result # "none" <=> lpc = "done"

(* The loop over confList has appended the non-nil slots before ci, in    *)
(* listing order.                                                          *)
Collected ==
    (lpc = "collect" \/ result = "ok") =>
        /\ Len(confs) <= ci - 1
        /\ {confs[k] : k \in 1..Len(confs)} = {slot[p] : p \in 1..ci - 1} \ {0}
        /\ Abstract!InListingOrder(confs)

IInv ==
    /\ TypeOK
    /\ ListedExactly
    /\ ErrRecorded
    /\ SlotsFilled
    /\ PhaseOK
    /\ Collected
    /\ Tokens
    /\ OkOnlyWithoutReadFailure

USE FetcherAssumption DEF Objs, ObjKinds, LoadDescriptorFails

-----------------------------------------------------------------------------
LEMMA InitIInv == Init => IInv
BY FS_EmptySet DEF Init, IInv, TypeOK, ListedExactly, ErrRecorded, SlotsFilled,
   PhaseOK, Collected, Tokens, OkOnlyWithoutReadFailure,
   Abstract!ReadFails, Abstract!Objs

(* The running goroutines are finitely many.                               *)
LEMMA RunningFinite ==
    ASSUME TypeOK
    PROVE  IsFiniteSet(running)
<1>1. Len(attrs) \in Nat
  BY DEF TypeOK
<1>2. IsFiniteSet(1..Len(attrs))
  BY <1>1, FS_Interval
<1>3. QED
  BY <1>2, FS_Subset DEF TypeOK

(* The tokens bound the reads: the goroutines still reading are among     *)
(* those holding a token, and the channel holds at most Concurrency.       *)
LEMMA TokensBoundReads ==
    ASSUME TypeOK, Tokens
    PROVE  BoundedWorkers
<1>1. IsFiniteSet(running)
  BY RunningFinite
<1>2. Cardinality(reading) <= Cardinality(running)
  BY <1>1, FS_Subset DEF Tokens
<1>3. Cardinality(reading) \in Nat /\ Cardinality(running) \in Nat
  BY <1>1, FS_Subset, FS_CardinalityType DEF Tokens
<1>4. sema \in 0..Concurrency /\ sema = Cardinality(running)
  BY DEF TypeOK, Tokens
<1>5. QED
  BY <1>2, <1>3, <1>4 DEF BoundedWorkers

(* Every object of the listing that is not filtered has been kept, once   *)
(* iter.Next has returned iterator.Done.                                   *)
LEMMA ListedAll ==
    ASSUME ListedExactly, li = NObjs + 1, NEW i \in Objs, obj[i] # "filtered"
    PROVE  \E p \in 1..Len(attrs) : attrs[p] = i
BY DEF ListedExactly

(* iter.Next keeps the listing in order and complete.                      *)
LEMMA ListNextIInv ==
    ASSUME IInv, ListNext
    PROVE  IInv'
<1> USE DEF IInv
<1>0. /\ li \in Objs /\ di = 1 /\ running = {} /\ ci = 1 /\ confs = << >>
      /\ result = "none" /\ Len(attrs) \in Nat
  BY DEF ListNext, TypeOK, PhaseOK
<1>a. li' = li + 1 /\ obj' = obj
  BY DEF ListNext
<1>b. 1..li' - 1 = 1..li
  <2>1. (li + 1) - 1 = li
    BY <1>0
  <2>2. QED
    BY <1>a, <2>1, Zenon
<1>1. /\ attrs' \in Seq(Objs)
      /\ Len(attrs') <= Len(attrs) + 1
      /\ \A p \in 1..Len(attrs) : attrs'[p] = attrs[p]
      /\ \A p \in 1..Len(attrs') : p > Len(attrs) => attrs'[p] = li /\ obj[li] # "filtered"
      /\ obj[li] # "filtered" => Len(attrs') = Len(attrs) + 1
  <2>1. CASE obj[li] = "filtered"
    BY <2>1 DEF ListNext, TypeOK
  <2>2. CASE obj[li] # "filtered"
    <3>1. attrs' = Append(attrs, li)
      BY <2>2 DEF ListNext
    <3>2. QED
      BY <1>0, <2>2, <3>1, AppendProperties DEF TypeOK
  <2>3. QED
    BY <2>1, <2>2
<1>2. TypeOK'
  BY <1>0, <1>1 DEF ListNext, TypeOK
<1>3. ListedExactly'
  <2>1. Len(attrs') <= li' - 1
    BY <1>0, <1>1 DEF ListNext, ListedExactly
  <2>2. ASSUME NEW i \in 1..li' - 1, obj'[i] # "filtered"
        PROVE  \E p \in 1..Len(attrs') : attrs'[p] = i
    <3>0. i \in 1..li /\ obj[i] # "filtered"
      BY <2>2, <1>a, <1>b, Zenon
    <3>1. CASE i < li
      <4>1. PICK p \in 1..Len(attrs) : attrs[p] = i
        BY <3>0, <3>1, <1>0 DEF ListedExactly
      <4>2. p \in 1..Len(attrs') /\ attrs'[p] = i
        BY <1>0, <1>1, <4>1 DEF ListNext
      <4>3. QED
        BY <4>2
    <3>2. CASE i = li
      <4>1. Len(attrs) + 1 \in 1..Len(attrs') /\ attrs'[Len(attrs) + 1] = li
        BY <1>0, <1>1, <3>0, <3>2 DEF ListNext
      <4>2. QED
        BY <4>1, <3>2
    <3>3. QED
      BY <1>0, <3>0, <3>1, <3>2
  <2>3. \A p \in 1..Len(attrs') : attrs'[p] < li' /\ obj'[attrs'[p]] # "filtered"
    <3>1. \A p \in 1..Len(attrs') : attrs'[p] < li + 1 /\ obj[attrs'[p]] # "filtered"
      BY <1>0, <1>1 DEF ListedExactly
    <3>2. QED
      BY <3>1, <1>a, Zenon
  <2>4. \A p, q \in 1..Len(attrs') : p < q => attrs'[p] < attrs'[q]
    BY <1>0, <1>1 DEF ListNext, ListedExactly
  <2>5. QED
    BY <2>1, <2>2, <2>3, <2>4 DEF ListedExactly
<1>4. ErrRecorded' /\ SlotsFilled'
  BY <1>0 DEF ListNext, ErrRecorded, SlotsFilled
<1>5. PhaseOK' /\ Collected'
  BY <1>0 DEF ListNext, PhaseOK, Collected
<1>6. Tokens' /\ OkOnlyWithoutReadFailure'
  BY <1>0 DEF ListNext, Tokens, OkOnlyWithoutReadFailure
<1>7. QED
  BY <1>2, <1>3, <1>4, <1>5, <1>6

(* A listing error ends the call with an error and no configs.             *)
LEMMA ListFailIInv ==
    ASSUME IInv, ListFail
    PROVE  IInv'
<1> USE DEF IInv
<1>1. confs = << >> /\ running = {}
  BY DEF ListFail, PhaseOK
<1>2. TypeOK' /\ ListedExactly' /\ ErrRecorded' /\ SlotsFilled'
  BY DEF ListFail, TypeOK, ListedExactly, ErrRecorded, SlotsFilled
<1>3. PhaseOK' /\ Collected'
  BY <1>1 DEF ListFail, PhaseOK, Collected
<1>4. Tokens' /\ OkOnlyWithoutReadFailure'
  BY DEF ListFail, Tokens, OkOnlyWithoutReadFailure
<1>5. QED
  BY <1>2, <1>3, <1>4

(* iterator.Done starts the reads.                                         *)
LEMMA ListDoneIInv ==
    ASSUME IInv, ListDone
    PROVE  IInv'
<1> USE DEF IInv
<1>1. di = 1 /\ Len(attrs) \in Nat /\ result = "none"
  BY DEF ListDone, PhaseOK, TypeOK
<1>2. TypeOK' /\ ListedExactly' /\ ErrRecorded' /\ SlotsFilled'
  BY DEF ListDone, TypeOK, ListedExactly, ErrRecorded, SlotsFilled
<1>3. PhaseOK' /\ Collected'
  BY <1>1 DEF ListDone, PhaseOK, Collected
<1>4. Tokens' /\ OkOnlyWithoutReadFailure'
  BY <1>1 DEF ListDone, Tokens, OkOnlyWithoutReadFailure
<1>5. QED
  BY <1>2, <1>3, <1>4

(* Extending an interval by one adds the function's value there to the    *)
(* image.                                                                  *)
LEMMA ImageStep ==
    ASSUME NEW f, NEW n \in Nat
    PROVE  {f[p] : p \in 1..n + 1} = {f[p] : p \in 1..n} \cup {f[n + 1]}
OBVIOUS

(* Append adds its element to the sequence's values.                       *)
LEMMA AppendValues ==
    ASSUME NEW S, NEW s \in Seq(S), NEW x \in S
    PROVE  {Append(s, x)[k] : k \in 1..Len(Append(s, x))}
             = {s[k] : k \in 1..Len(s)} \cup {x}
<1>1. Len(Append(s, x)) = Len(s) + 1 /\ Len(s) \in Nat
  BY AppendProperties, LenProperties
<1>2. \A k \in 1..Len(s) : Append(s, x)[k] = s[k]
  BY AppendProperties
<1>3. Append(s, x)[Len(s) + 1] = x
  BY AppendProperties
<1>4. QED
  BY <1>1, <1>2, <1>3, ImageStep

(* The semaphore lets a goroutine start only while the channel has room, *)
(* and the goroutine it starts holds the token it put there.              *)
LEMMA DispatchIInv ==
    ASSUME IInv, Dispatch
    PROVE  IInv'
<1> USE DEF IInv
<1>0. /\ di \in 1..Len(attrs) /\ Len(attrs) \in Nat /\ result = "none"
      /\ lpc = "dispatch" /\ di' = di + 1 /\ running' = running \cup {di}
      /\ reading' = reading \cup {di} /\ sema' = sema + 1
      /\ sema \in 0..Concurrency /\ sema < Concurrency
  BY DEF Dispatch, TypeOK, PhaseOK
<1>1. /\ 1..di' - 1 = 1..di
      /\ (1..di' - 1) \ running' = (1..di - 1) \ running
      /\ (1..di' - 1) \ reading' = (1..di - 1) \ reading
  <2>1. (di + 1) - 1 = di
    BY <1>0
  <2>2. 1..di' - 1 = 1..di
    BY <1>0, <2>1, Zenon
  <2>3. /\ (1..di) \ (running \cup {di}) = (1..di - 1) \ running
        /\ (1..di) \ (reading \cup {di}) = (1..di - 1) \ reading
    BY <1>0
  <2>4. QED
    BY <1>0, <2>2, <2>3, Zenon
<1>2. IsFiniteSet(running) /\ di \notin running
  <2>1. IsFiniteSet(running)
    BY RunningFinite
  <2>2. di \notin running
    BY <1>0 DEF ErrRecorded
  <2>3. QED
    BY <2>1, <2>2
<1>3. Tokens'
  <2>1. Cardinality(running \cup {di}) = sema + 1
    BY <1>2, FS_AddElement DEF Tokens
  <2>2. reading \cup {di} \subseteq running \cup {di}
    BY DEF Tokens
  <2>3. QED
    BY <1>0, <2>1, <2>2, Zenon DEF Tokens
<1>4. TypeOK'
  <2>1. sema + 1 \in 0..Concurrency
    BY <1>0
  <2>2. sema' \in 0..Concurrency
    BY <1>0, <2>1, Zenon
  <2>3. running' \subseteq 1..Len(attrs') /\ reading' \subseteq 1..Len(attrs')
    BY <1>0 DEF Dispatch, TypeOK
  <2>4. di' \in 1..Len(attrs') + 1
    BY <1>0 DEF Dispatch
  <2>5. QED
    BY <2>2, <2>3, <2>4 DEF Dispatch, TypeOK
<1>5. ErrRecorded'
  <2>1. running' \subseteq 1..di
    BY <1>0 DEF ErrRecorded
  <2>2. \A p \in (1..di - 1) \ running :
          obj'[attrs'[p]] = "unreadable" => firstErr' # 0
    BY DEF Dispatch, ErrRecorded
  <2>3. QED
    BY <1>1, <2>1, <2>2 DEF ErrRecorded
<1>6. SlotsFilled'
  <2>1. \A p \in Objs : slot'[p] # 0 => /\ p \in (1..di - 1) \ reading
                                        /\ slot'[p] = attrs'[p]
                                        /\ obj'[attrs'[p]] = "desc"
    BY DEF Dispatch, SlotsFilled
  <2>2. \A p \in (1..di - 1) \ reading :
          obj'[attrs'[p]] = "desc" => slot'[p] = attrs'[p]
    BY DEF Dispatch, SlotsFilled
  <2>3. QED
    BY <1>1, <2>1, <2>2 DEF SlotsFilled
<1>7. PhaseOK' /\ Collected' /\ ListedExactly' /\ OkOnlyWithoutReadFailure'
  BY <1>0 DEF Dispatch, PhaseOK, Collected, ListedExactly, OkOnlyWithoutReadFailure
<1>8. QED
  BY <1>3, <1>4, <1>5, <1>6, <1>7

(* Every goroutine has been started: eg.Wait.                              *)
LEMMA DispatchDoneIInv ==
    ASSUME IInv, DispatchDone
    PROVE  IInv'
<1> USE DEF IInv
<1>1. result = "none" /\ li = NObjs + 1 /\ ci = 1 /\ confs = << >>
  BY DEF DispatchDone, PhaseOK
<1>2. TypeOK' /\ ListedExactly' /\ ErrRecorded' /\ SlotsFilled'
  BY DEF DispatchDone, TypeOK, ListedExactly, ErrRecorded, SlotsFilled
<1>3. PhaseOK' /\ Collected'
  BY <1>1 DEF DispatchDone, PhaseOK, Collected
<1>4. Tokens' /\ OkOnlyWithoutReadFailure'
  BY <1>1 DEF DispatchDone, Tokens, OkOnlyWithoutReadFailure
<1>5. QED
  BY <1>2, <1>3, <1>4

(* The body of a goroutine fills its own slot with a valid descriptor.    *)
LEMMA WorkerIInv ==
    ASSUME IInv, NEW p \in 1..NObjs, Worker(p)
    PROVE  IInv'
<1> USE DEF IInv
<1>0. /\ p \in reading /\ p \in running /\ p \in 1..Len(attrs) /\ p \in 1..di - 1
      /\ attrs[p] \in Objs
      /\ reading' = reading \ {p}
      /\ slot' = IF obj[attrs[p]] = "desc" THEN [slot EXCEPT ![p] = attrs[p]] ELSE slot
  <2>1. p \in reading /\ reading' = reading \ {p}
    BY DEF Worker
  <2>2. p \in running
    BY <2>1 DEF Tokens
  <2>3. p \in 1..Len(attrs) /\ p \in 1..di - 1 /\ attrs[p] \in Objs
    BY <2>2 DEF TypeOK, ListedExactly, ErrRecorded
  <2>4. slot' = IF obj[attrs[p]] = "desc" THEN [slot EXCEPT ![p] = attrs[p]] ELSE slot
    BY DEF Worker
  <2>5. QED
    BY <2>1, <2>2, <2>3, <2>4
<1>1. TypeOK'
  BY <1>0 DEF Worker, TypeOK
<1>2. ErrRecorded' /\ Tokens'
  BY <1>0 DEF Worker, ErrRecorded, Tokens
<1>3. SlotsFilled'
  <2>1. ASSUME NEW q \in Objs, slot'[q] # 0
        PROVE  /\ q \in (1..di - 1) \ reading'
               /\ slot'[q] = attrs[q]
               /\ obj[attrs[q]] = "desc"
    <3>1. CASE q = p
      <4>1. obj[attrs[p]] = "desc"
        BY <1>0, <2>1, <3>1 DEF SlotsFilled, TypeOK
      <4>2. QED
        BY <1>0, <3>1, <4>1 DEF TypeOK
    <3>2. CASE q # p
      BY <1>0, <2>1, <3>2 DEF SlotsFilled, TypeOK
    <3>3. QED
      BY <3>1, <3>2
  <2>2. ASSUME NEW q \in (1..di - 1) \ reading', obj[attrs[q]] = "desc"
        PROVE  slot'[q] = attrs[q]
    <3>1. CASE q = p
      BY <1>0, <2>2, <3>1 DEF TypeOK
    <3>2. CASE q # p
      BY <1>0, <2>2, <3>2 DEF SlotsFilled, TypeOK
    <3>3. QED
      BY <3>1, <3>2
  <2>3. QED
    BY <2>1, <2>2 DEF Worker, SlotsFilled
<1>4. ListedExactly' /\ PhaseOK' /\ Collected' /\ OkOnlyWithoutReadFailure'
  BY <1>0 DEF Worker, ListedExactly, PhaseOK, Collected, OkOnlyWithoutReadFailure
<1>5. QED
  BY <1>1, <1>2, <1>3, <1>4

(* A goroutine that has finished its body gives its token back and the    *)
(* group keeps its error if it is the first.                               *)
LEMMA ReleaseIInv ==
    ASSUME IInv, NEW p \in 1..NObjs, Release(p)
    PROVE  IInv'
<1> USE DEF IInv
<1>0. /\ p \in running /\ p \notin reading /\ p \in 1..Len(attrs) /\ p \in 1..di - 1
      /\ attrs[p] \in Objs
      /\ lpc \in {"dispatch", "wait"} /\ result = "none"
      /\ running' = running \ {p} /\ sema' = sema - 1 /\ sema \in 1..Concurrency
      /\ firstErr' = IF obj[attrs[p]] = "unreadable" THEN FirstError(firstErr, p)
                                                     ELSE firstErr
  <2>1. p \in running /\ p \notin reading /\ running' = running \ {p}
        /\ sema' = sema - 1 /\ sema > 0
    BY DEF Release
  <2>2. p \in 1..Len(attrs) /\ p \in 1..di - 1 /\ attrs[p] \in Objs
    BY <2>1 DEF TypeOK, ListedExactly, ErrRecorded
  <2>3. lpc \in {"dispatch", "wait"} /\ result = "none"
    BY <2>1 DEF TypeOK, PhaseOK
  <2>4. sema \in 1..Concurrency
    BY <2>1 DEF TypeOK
  <2>5. firstErr' = IF obj[attrs[p]] = "unreadable" THEN FirstError(firstErr, p)
                                                    ELSE firstErr
    BY DEF Release
  <2>6. QED
    BY <2>1, <2>2, <2>3, <2>4, <2>5
<1>1. firstErr # 0 => firstErr' # 0
  BY <1>0 DEF FirstError
<1>2. obj[attrs[p]] = "unreadable" => firstErr' # 0
  BY <1>0 DEF FirstError
<1>3. TypeOK'
  <2>1. sema - 1 \in 0..Concurrency
    BY <1>0
  <2>2. sema' \in 0..Concurrency
    BY <1>0, <2>1, Zenon
  <2>3. firstErr' \in 0..NObjs
    BY <1>0 DEF TypeOK, FirstError
  <2>4. QED
    BY <1>0, <2>2, <2>3 DEF Release, TypeOK
<1>4. ErrRecorded'
  BY <1>0, <1>1, <1>2 DEF Release, ErrRecorded
<1>5. Tokens'
  <2>1. IsFiniteSet(running)
    BY RunningFinite
  <2>2. Cardinality(running \ {p}) = sema - 1
    BY <1>0, <2>1, FS_RemoveElement DEF Tokens
  <2>3. reading \subseteq running \ {p}
    BY <1>0 DEF Tokens
  <2>4. QED
    BY <1>0, <2>2, <2>3, Zenon DEF Release, Tokens
<1>6. SlotsFilled' /\ ListedExactly' /\ PhaseOK' /\ Collected' /\ OkOnlyWithoutReadFailure'
  BY <1>0 DEF Release, SlotsFilled, ListedExactly, PhaseOK, Collected,
     OkOnlyWithoutReadFailure
<1>7. QED
  BY <1>3, <1>4, <1>5, <1>6

(* eg.Wait returns the first error, or the loop over confList starts with *)
(* nothing collected.                                                      *)
LEMMA WaitIInv ==
    ASSUME IInv, Wait
    PROVE  IInv'
<1> USE DEF IInv
<1>0. /\ lpc = "wait" /\ running = {} /\ ci = 1 /\ confs = << >> /\ result = "none"
      /\ li = NObjs + 1 /\ di = Len(attrs) + 1
  BY DEF Wait, PhaseOK
<1>1. TypeOK' /\ ListedExactly' /\ ErrRecorded' /\ SlotsFilled' /\ Tokens'
  BY DEF Wait, TypeOK, ListedExactly, ErrRecorded, SlotsFilled, Tokens
<1>2. CASE firstErr # 0 /\ lpc' = "done" /\ result' = "error"
  BY <1>0, <1>1, <1>2 DEF Wait, PhaseOK, Collected, OkOnlyWithoutReadFailure
<1>3. CASE firstErr = 0 /\ lpc' = "collect" /\ UNCHANGED result
  <2>1. PhaseOK'
    BY <1>0, <1>3 DEF Wait, PhaseOK
  <2>2. Collected'
    <3>1. ci' = 1 /\ confs' = << >>
      BY <1>0 DEF Wait
    <3>2. QED
      BY <3>1 DEF Collected, Abstract!InListingOrder
  <2>3. OkOnlyWithoutReadFailure'
    BY <1>0, <1>3 DEF OkOnlyWithoutReadFailure
  <2>4. QED
    BY <1>1, <2>1, <2>2, <2>3
<1>4. QED
  BY <1>2, <1>3 DEF Wait

(* One turn of the loop over confList appends its slot when it is not nil, *)
(* and that config comes after those already appended.                     *)
LEMMA CollectIInv ==
    ASSUME IInv, Collect
    PROVE  IInv'
<1> USE DEF IInv
<1> DEFINE x == slot[ci]
           R(n) == {slot[p] : p \in 1..n} \ {0}
<1>0. /\ lpc = "collect" /\ ci \in 1..Len(attrs) /\ Len(attrs) \in Nat /\ ci \in Objs
      /\ running = {} /\ di = Len(attrs) + 1 /\ result = "none" /\ firstErr = 0
      /\ confs \in Seq(Objs) /\ x \in Objs \cup {0}
      /\ Len(confs) <= ci - 1
      /\ {confs[k] : k \in 1..Len(confs)} = R(ci - 1)
      /\ Abstract!InListingOrder(confs)
  <2>1. lpc = "collect" /\ ci \in 1..Len(attrs) /\ Len(attrs) \in Nat /\ ci \in Objs
    BY DEF Collect, TypeOK, ListedExactly, x, R
  <2>2. running = {} /\ di = Len(attrs) + 1 /\ result = "none" /\ firstErr = 0
    BY <2>1 DEF PhaseOK, x, R
  <2>3. confs \in Seq(Objs) /\ x \in Objs \cup {0}
    BY <2>1 DEF TypeOK, ListedExactly, x, R
  <2>4. /\ Len(confs) <= ci - 1
        /\ {confs[k] : k \in 1..Len(confs)} = R(ci - 1)
        /\ Abstract!InListingOrder(confs)
    BY <2>1 DEF Collected, x, R
  <2>5. QED
    BY <2>1, <2>2, <2>3, <2>4 DEF x, R
<1>1. ci' - 1 = ci /\ 1..ci' - 1 = 1..ci /\ slot' = slot
  <2>1. ci' = ci + 1 /\ slot' = slot
    BY DEF Collect, x, R
  <2>2. (ci + 1) - 1 = ci
    BY <1>0 DEF x, R
  <2>3. QED
    BY <2>1, <2>2, Zenon
<1>2. R(ci) = R(ci - 1) \cup ({x} \ {0})
  <2>1. ci - 1 \in Nat /\ (ci - 1) + 1 = ci
    BY <1>0
  <2>2. {slot[p] : p \in 1..(ci - 1) + 1}
          = {slot[p] : p \in 1..ci - 1} \cup {slot[(ci - 1) + 1]}
    BY <2>1, ImageStep
  <2>3. {slot[p] : p \in 1..ci} = {slot[p] : p \in 1..ci - 1} \cup {x}
    BY <2>1, <2>2, Zenon DEF x
  <2>4. QED
    BY <2>3 DEF R
<1>3. x # 0 => x = attrs[ci] /\ x \in Objs
  BY <1>0 DEF SlotsFilled, x, R
<1>4. \A k \in 1..Len(confs) : confs[k] < attrs[ci]
  <2> SUFFICES ASSUME NEW k \in 1..Len(confs) PROVE confs[k] < attrs[ci]
    OBVIOUS
  <2>1. PICK q \in 1..ci - 1 : confs[k] = slot[q] /\ slot[q] # 0
    BY <1>0 DEF x, R
  <2>2. slot[q] = attrs[q]
    BY <1>0, <2>1 DEF SlotsFilled, TypeOK, x, R
  <2>3. q \in 1..Len(attrs) /\ q < ci
    BY <1>0
  <2>4. attrs[q] < attrs[ci]
    BY <1>0, <2>3 DEF ListedExactly
  <2>5. QED
    BY <2>1, <2>2, <2>4
<1>5. /\ confs' \in Seq(Objs)
      /\ Len(confs') <= ci
      /\ {confs'[k] : k \in 1..Len(confs')} = R(ci)
      /\ Abstract!InListingOrder(confs')
  <2>1. CASE x = 0
    <3>1. confs' = confs
      BY <2>1 DEF Collect, x, R
    <3>2. R(ci) = R(ci - 1)
      BY <1>2, <2>1
    <3>3. Len(confs) <= ci
      BY <1>0
    <3>4. QED
      BY <1>0, <3>1, <3>2, <3>3, Zenon
  <2>2. CASE x # 0
    <3>1. confs' = Append(confs, x) /\ x \in Objs
      BY <1>3, <2>2 DEF Collect, x, R
    <3> DEFINE A == Append(confs, x)
    <3>2. /\ A \in Seq(Objs) /\ Len(A) = Len(confs) + 1
          /\ \A k \in 1..Len(confs) : A[k] = confs[k]
          /\ A[Len(confs) + 1] = x
      BY <1>0, <3>1, AppendProperties
    <3>3. {A[k] : k \in 1..Len(A)} = R(ci)
      <4>1. {A[k] : k \in 1..Len(A)} = {confs[k] : k \in 1..Len(confs)} \cup {x}
        BY <1>0, <3>1, AppendValues
      <4>2. R(ci) = R(ci - 1) \cup {x}
        BY <1>2, <2>2
      <4>3. QED
        BY <1>0, <4>1, <4>2
    <3>4. Abstract!InListingOrder(A)
      BY <1>0, <1>3, <1>4, <2>2, <3>2 DEF Abstract!InListingOrder
    <3>5. Len(A) <= ci
      BY <1>0, <3>2
    <3>6. QED
      BY <3>1, <3>2, <3>3, <3>4, <3>5, Zenon
  <2>3. QED
    BY <2>1, <2>2 DEF x, R
<1>6. Collected'
  BY <1>1, <1>5, Zenon DEF Collected, Collect
<1>7. TypeOK'
  BY <1>0, <1>5 DEF Collect, TypeOK, x, R
<1>8. PhaseOK'
  BY <1>0 DEF Collect, PhaseOK, x, R
<1>9. ListedExactly' /\ ErrRecorded' /\ SlotsFilled' /\ Tokens'
      /\ OkOnlyWithoutReadFailure'
  BY <1>0 DEF Collect, ListedExactly, ErrRecorded, SlotsFilled, Tokens,
     OkOnlyWithoutReadFailure
<1>10. QED
  BY <1>6, <1>7, <1>8, <1>9

(* The loop is over and loadConfigs returns its configs: no read failed,   *)
(* since every unreadable object was kept, started, and has returned its  *)
(* error, and eg.Wait returned none.                                       *)
LEMMA ReturnIInv ==
    ASSUME IInv, Return
    PROVE  IInv'
<1> USE DEF IInv
<1>0. /\ lpc = "collect" /\ ci = Len(attrs) + 1 /\ running = {} /\ firstErr = 0
      /\ li = NObjs + 1 /\ di = Len(attrs) + 1 /\ result = "none"
  BY DEF Return, PhaseOK
<1>1. ~Abstract!ReadFails
  <2> SUFFICES ASSUME NEW i \in Objs, obj[i] = "unreadable" PROVE FALSE
    BY DEF Abstract!ReadFails, Abstract!Objs
  <2>1. PICK p \in 1..Len(attrs) : attrs[p] = i
    BY <1>0, ListedAll
  <2>2. p \in (1..di - 1) \ running
    BY <1>0
  <2>3. QED
    BY <1>0, <2>1, <2>2 DEF ErrRecorded
<1>2. OkOnlyWithoutReadFailure'
  BY <1>1 DEF Return, OkOnlyWithoutReadFailure, Abstract!ReadFails, Abstract!Objs
<1>3. TypeOK' /\ ListedExactly' /\ ErrRecorded' /\ SlotsFilled' /\ Tokens'
  BY DEF Return, TypeOK, ListedExactly, ErrRecorded, SlotsFilled, Tokens
<1>4. PhaseOK'
  BY <1>0 DEF Return, PhaseOK
<1>5. Collected'
  BY <1>0 DEF Return, Collected
<1>6. QED
  BY <1>2, <1>3, <1>4, <1>5

LEMMA NextIInv == IInv /\ [Next]_vars => IInv'
<1> SUFFICES ASSUME IInv, [Next]_vars PROVE IInv'
  OBVIOUS
<1>1. CASE UNCHANGED vars
  <2> USE <1>1 DEF vars, IInv
  <2>1. TypeOK' /\ ListedExactly'
    BY DEF TypeOK, ListedExactly
  <2>2. ErrRecorded' /\ SlotsFilled'
    BY DEF ErrRecorded, SlotsFilled
  <2>3. PhaseOK'
    BY DEF PhaseOK
  <2>6. Collected'
    BY DEF Collected, Abstract!InListingOrder
  <2>4. Tokens' /\ OkOnlyWithoutReadFailure'
    BY DEF Tokens, OkOnlyWithoutReadFailure, Abstract!ReadFails, Abstract!Objs
  <2>5. QED
    BY <2>1, <2>2, <2>3, <2>4, <2>6
<1>2. CASE lpc = "done" /\ UNCHANGED vars
  BY <1>1, <1>2
<1>3. QED
  BY <1>1, <1>2, ListNextIInv, ListFailIInv, ListDoneIInv, DispatchIInv,
     DispatchDoneIInv, WorkerIInv, ReleaseIInv, WaitIInv, CollectIInv, ReturnIInv DEF Next

LEMMA IInvInvariant == Spec => []IInv
BY InitIInv, NextIInv, PTL DEF Spec

-----------------------------------------------------------------------------
(* Whatever the order the goroutines finish in, loadConfigs's variables   *)
(* keep their types: the slots and the configs hold listed objects.        *)
THEOREM FetcherTypeCorrect == Spec => []TypeOK
BY IInvInvariant, PTL DEF IInv

(* The semaphore channel bounds the descriptor reads running at once, for *)
(* every capacity: a goroutine takes a token before eg.Go and gives it     *)
(* back only in the defer that runs after its read.                        *)
THEOREM BoundedWorkersInvariant == Spec => []BoundedWorkers
<1>1. IInv => BoundedWorkers
  BY TokensBoundReads DEF IInv
<1>2. QED
  BY <1>1, IInvInvariant, PTL

(* loadConfigs never returns configs when a descriptor it had to read     *)
(* failed, whatever the order its goroutines finish in.                    *)
THEOREM OkOnlyWithoutReadFailureInvariant == Spec => []OkOnlyWithoutReadFailure
BY IInvInvariant, PTL DEF IInv

-----------------------------------------------------------------------------
(* The refinement.                                                         *)

(* What the caller of loadConfigs sees of confs: nothing until it returns. *)
ReturnedConfs == IF result = "none" THEN << >> ELSE confs

(* When the loop over confList is over, confs holds the valid             *)
(* descriptors' configs, each once, in listing order.                     *)
LEMMA ConfigsAtReturn ==
    ASSUME IInv, lpc = "collect", ci = Len(attrs) + 1
    PROVE  confs \in Abstract!Configs
<1> USE DEF IInv
<1> DEFINE Valid == {i \in Objs : obj[i] = "desc"}
<1>0. /\ running = {} /\ li = NObjs + 1 /\ di = Len(attrs) + 1
      /\ Len(attrs) \in Nat /\ Len(attrs) <= NObjs
      /\ confs \in Seq(Objs) /\ Len(confs) <= Len(attrs)
      /\ {confs[k] : k \in 1..Len(confs)} = {slot[p] : p \in 1..Len(attrs)} \ {0}
      /\ Abstract!InListingOrder(confs)
  <2>1. /\ running = {} /\ li = NObjs + 1 /\ di = Len(attrs) + 1
        /\ Len(attrs) \in Nat /\ Len(attrs) <= NObjs /\ confs \in Seq(Objs)
    BY DEF PhaseOK, TypeOK, ListedExactly
  <2>2. /\ Len(confs) <= ci - 1
        /\ {confs[k] : k \in 1..Len(confs)} = {slot[p] : p \in 1..ci - 1} \ {0}
        /\ Abstract!InListingOrder(confs)
    BY DEF Collected
  <2>3. ci - 1 = Len(attrs)
    BY <2>1
  <2>4. QED
    BY <2>1, <2>2, <2>3
<1>1. {slot[p] : p \in 1..Len(attrs)} \ {0} \subseteq Valid
  <2> SUFFICES ASSUME NEW p \in 1..Len(attrs), slot[p] # 0 PROVE slot[p] \in Valid
    OBVIOUS
  <2>1. p \in Objs
    BY <1>0
  <2>2. slot[p] = attrs[p] /\ obj[attrs[p]] = "desc" /\ attrs[p] \in Objs
    BY <1>0, <2>1 DEF SlotsFilled, TypeOK
  <2>3. QED
    BY <2>2
<1>2. Valid \subseteq {slot[p] : p \in 1..Len(attrs)} \ {0}
  <2> SUFFICES ASSUME NEW i \in Objs, obj[i] = "desc"
               PROVE  \E p \in 1..Len(attrs) : slot[p] = i
    BY DEF Valid
  <2>1. PICK p \in 1..Len(attrs) : attrs[p] = i
    BY <1>0, ListedAll
  <2>2. p \in (1..di - 1) \ reading
    BY <1>0 DEF Tokens
  <2>3. slot[p] = attrs[p]
    BY <2>1, <2>2 DEF SlotsFilled
  <2>4. QED
    BY <2>1, <2>3
<1>3. {confs[k] : k \in DOMAIN confs} = Valid
  BY <1>0, <1>1, <1>2, LenProperties
<1>4. confs \in [1..Len(confs) -> Valid] /\ Len(confs) \in 0..NObjs
  BY <1>0, <1>3, LenProperties
<1>5. QED
  BY <1>0, <1>3, <1>4 DEF Abstract!Configs, Abstract!Valid, Abstract!Objs

(* Every step of loadConfigs is a step of DescriptorFetch or leaves what  *)
(* its caller sees unchanged.                                             *)
LEMMA NextRefines ==
    ASSUME IInv, IInv', [Next]_vars
    PROVE  [Abstract!Fetch]_<<obj, result, ReturnedConfs>>
<1> USE DEF IInv
<1> DEFINE AV == <<obj, result, ReturnedConfs>>
(* A step before the call returns changes nothing its caller sees.         *)
<1>1. ASSUME obj' = obj, result' = result, result = "none"
      PROVE  UNCHANGED AV
  BY <1>1 DEF ReturnedConfs
(* A step that returns an error.                                           *)
<1>2. ASSUME result = "none", confs = << >>, obj' = obj, result' = "error",
             confs' = << >>
      PROVE  Abstract!Fetch
  BY <1>2 DEF Abstract!Fetch, ReturnedConfs
<1>3. CASE ListNext \/ ListDone \/ Dispatch \/ DispatchDone \/ Collect
  <2>1. lpc # "done"
    BY <1>3 DEF ListNext, ListDone, Dispatch, DispatchDone, Collect
  <2>2. obj' = obj /\ result' = result
    BY <1>3 DEF ListNext, ListDone, Dispatch, DispatchDone, Collect
  <2>3. QED
    BY <1>1, <2>1, <2>2 DEF PhaseOK
<1>4. ASSUME NEW p \in 1..NObjs, Worker(p) \/ Release(p) PROVE UNCHANGED AV
  <2>1. p \in running
    BY <1>4 DEF Worker, Release, Tokens
  <2>2. lpc # "done"
    BY <2>1 DEF PhaseOK
  <2>3. obj' = obj /\ result' = result
    BY <1>4 DEF Worker, Release
  <2>4. QED
    BY <1>1, <2>2, <2>3 DEF PhaseOK
<1>5. CASE ListFail
  <2>1. result = "none" /\ confs = << >>
    BY <1>5 DEF ListFail, PhaseOK
  <2>2. QED
    BY <1>2, <1>5, <2>1 DEF ListFail
<1>6. CASE Wait
  <2>1. result = "none" /\ confs = << >>
    BY <1>6 DEF Wait, PhaseOK
  <2>2. CASE firstErr # 0 /\ lpc' = "done" /\ result' = "error"
    BY <1>2, <1>6, <2>1, <2>2 DEF Wait
  <2>3. CASE firstErr = 0 /\ lpc' = "collect" /\ UNCHANGED result
    BY <1>1, <1>6, <2>1, <2>3 DEF Wait
  <2>4. QED
    BY <1>6, <2>2, <2>3 DEF Wait
<1>7. CASE Return
  <2>1. result = "none" /\ confs \in Abstract!Configs
    BY <1>7, ConfigsAtReturn DEF Return, PhaseOK
  <2>2. ~Abstract!ReadFails
    <3>1. ~Abstract!ReadFails'
      BY <1>7 DEF Return, OkOnlyWithoutReadFailure
    <3>2. QED
      BY <1>7, <3>1 DEF Return, Abstract!ReadFails, Abstract!Objs
  <2>3. ReturnedConfs = << >> /\ ReturnedConfs' = confs
    BY <1>7, <2>1 DEF Return, ReturnedConfs
  <2>4. Abstract!Fetch
    BY <1>7, <2>1, <2>2, <2>3 DEF Return, Abstract!Fetch
  <2>5. QED
    BY <2>4
<1>8. CASE UNCHANGED vars
  BY <1>8 DEF vars, ReturnedConfs
<1>9. QED
  BY <1>3, <1>4, <1>5, <1>6, <1>7, <1>8 DEF Next

(* loadConfigs implements DescriptorFetch: whatever order its goroutines   *)
(* finish in, it returns an error, or, when no read failed, the valid      *)
(* descriptors' configs, each once, in listing order.  That it returns at  *)
(* all is the fairness part of FetchRefinement, which TLC checks.          *)
THEOREM FetchSafetyRefinement == Spec => Abstract!SafeSpec
<1>1. Init => Abstract!Init
  BY DEF Init, Abstract!Init, Abstract!Objs, Abstract!ObjKinds
<1>2. [][Next]_vars /\ []IInv => [][Abstract!Fetch]_<<obj, result, ReturnedConfs>>
  BY NextRefines, PTL
<1>3. QED
  BY <1>1, <1>2, IInvInvariant, PTL DEF Spec, Abstract!SafeSpec, Abstract!vars,
     ReturnedConfs

=============================================================================
