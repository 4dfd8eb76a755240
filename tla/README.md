# Formal models of goma-server's toolchain config loading

TLA+ models of the parts of this repository that keep state across concurrent
activity. The checked core is the **remoteexec_proxy toolchain config loader**
in `src/cmd/remoteexec_proxy/main.go`. It is modelled together with the
storage bucket it reads, which a toolchain publisher outside this repository
writes at the same time.

## The system's parts and how they interact

| Part | Source | State | Operations |
|---|---|---|---|
| ConfigMapSource (`ConfigMapBucket`) | main.go 798-956 | config-map file, `<runtime>/seq` objects, descriptor objects | `configMap`, `Seqs`, `Bucket`, `RuntimeConfigs` |
| ConfigStore | main.go 958-1156 | `lastConfigs[name] = {seq, configs}` | `List`, `Set`, `Seq`, `Delete`, `ConfigResp` |
| Reconciler (`ConfigMapLoader.Load`) | main.go 985-1046 | locals `seqs`, `deleted`, `updated`, `runtimeConfigs` | one call per watcher wake-up |
| DescriptorFetcher (`ConfigLoader.Load`, `loadConfigs`) | main.go 1069-1365 | worker pool, results by slot | list descriptors, fetch them in parallel, filter and merge |
| ChangeWatcher (`configMapBucketWatcher`, `configMapBucketPoller`) | main.go 678-910 | unbuffered channel, receive goroutine, poller timer | `Next`, `Close`, `run` |
| ACL checker | src/auth/acl/checker.go | config, service accounts, RWMutex | `Set`, `FindGroup`, `CheckToken` |
| AuthDB client | src/auth/authdb/client.go | none | `IsMember` with retry |
| nsjail config | src/remoteexec/nsjail.go | none | `pathFromToolchainSpec`, config generation (not modelled) |
| Memory admission | src/cache/redis/fake_redis.go (file_server and frontend `main` packages) | thresholds, the process's memory, health flag | `admissionController.AdmitPut`, `memoryCheck.Admit` (both modelled) |

The proxy's watcher loop calls `Load(ctx, false)` each time the
ChangeWatcher's `Next` returns. `Load` works as follows:

1. It reads the seq of every runtime listed in the config map.
2. It diffs those seqs against the ConfigStore.
3. It deletes the runtimes that have gone.
4. It reads the config map again for the runtime configs.
5. For each changed runtime, it has the DescriptorFetcher list and read that
   runtime's descriptors, then `Set`s the runtime in the store.
6. It builds a response from the whole store.

The publisher writes a generation's descriptors first and its seq object
second.

## Modules

### ConfigMapLoader (checked and proved)

This module covers ConfigMapSource, ConfigStore and the Reconciler. The
DescriptorFetcher appears only as one atomic fetch.

The state:

* `inMap`, `gen` and `seqObj` are the bucket and the config-map file.
  `gen[r]` is the newest generation of descriptors written; `seqObj[r]` is the
  seq text, or `NoSeq` when the object is absent.
* `store` is `ConfigStore.lastConfigs`. An entry records the seq it was set
  with and the descriptor generation it was loaded from.
* `pc`, `force`, `seqs`, `updated` and `rcs` are the locals of the Load in
  progress. `pc` marks the I/O call Load is at.
* `result` is the outcome of the last Load.
* `failures` and `edits` are bounded counters.
* `changed` and `synced` are history variables for the no-update property.

Load is split at each of its I/O calls, because the publisher can write
between any two of them:

* `LoadSeqsFail`, `LoadNoUpdate` and `LoadBegin` cover lines 985-1014.
  `LoadBegin` includes the deletions.
* `LoadRuntimeConfigs` and `LoadRuntimeConfigsFail` cover lines 1015-1023.
* Then there is one step per runtime of `updated`, in any order, because Go's
  map iteration is random. The step is `LoadNoRuntimeConfig`, `LoadNoAddr`,
  `LoadConfigsFail` or `LoadConfigs`.
* `LoadRespond` covers line 1043.

The publisher's actions are `WriteDescriptors`, `WriteSeq`, `DeleteSeq` and
`EditConfigMap`. They are modelled from the bucket layout the spec describes,
because the publisher is not in this repository.

Seq texts are abstracted to numbers, and the empty text is 0. That is exactly
what `ConfigStore.Seq` returns for a name it does not hold, so the model keeps
the code's confusion of the two.

### Runs

| Run | cfg | Expect | What it shows |
|---|---|---|---|
| loader_main | MCConfigMapLoader.cfg | pass | `TypeOK`; `ContentCoversSeq` (a stored seq never claims newer descriptors than were loaded); `LoadMatchesSeqs` (a successful or no-update Load leaves the store equal to the seqs it read); `Convergence` (`<>[]InSync` under weak fairness of the loader); `SecondLoadNoUpdateAddressed` (while every runtime in the config map has an address, a `Load(false)` right after a successful Load, with nothing changed in between, returns ErrNoUpdate) |
| loader_noaddr | MCConfigMapLoaderNoAddr.cfg | violation | `SecondLoadNoUpdate`, the same without the address condition: a runtime without an address breaks it: its stale seq makes every Load reload again (spec §8) |
| loader_emptyseq | MCConfigMapLoaderEmptySeq.cfg | violation | A new runtime with an empty seq object is never loaded, because `Seq` returns `""` for absent names (spec §4.2 step 3) |

**Bounds.** The runs use two runtimes, one of them without an address where
that matters. They allow 2 generations, 2 injected failures and 2 edits.

These bounds are enough for the publisher to write a new generation between
`Seqs` and the descriptor listing, and for a failure to strike after a
deletion or after a first `Set`. They also allow a runtime to leave the map
and come back, and two runtimes to be updated in either order. The loader_main
run reaches about 110k distinct states.

**Fairness.** The run assumes `WF_vars(Loader)`: a Load that stays enabled is
eventually taken. This rests on the callers' contract in spec §5: `load` is
not retried internally, and callers must retry it with `force=false` to
converge. The callers are outside this repository. Nothing in the watcher
provides it: the pub/sub watcher has no timer, so a Load that fails after
the last notification is retried only if the caller does so. The poll
watcher alone would wake again within 1.2 hours. The publisher is not
assumed fair.

### Proofs (ConfigMapLoaderProofs)

* `TypeCorrect`: `Spec => []TypeOK`.
* `ContentCoversSeqInvariant`: `Spec => []ContentCoversSeq`.
  `ContentCoversSeq` is not inductive on its own. A `Set` stores the seq read
  earlier together with the generation listed now, so the proof also needs the
  facts below. They make up the inductive invariant
  `IInv = TypeOK /\ SeqObjBehindGen /\ SeqsBehindGen /\ ContentCoversSeq`.
  * `SeqObjBehindGen`: a seq object never names a generation newer than the
    descriptors written. This holds because the publisher writes descriptors
    first.
  * `SeqsBehindGen`: the seqs a Load has read are never ahead of `gen`. This
    holds because `gen` only grows.

  `IInv` holds in `Init`, and every action preserves it (one proof step per
  action). Both theorems hold for every value of the constants satisfying
  `ConstantsAssumption`.

* `LoadMatchesSeqsInvariant`: `Spec => []LoadMatchesSeqs` under the
  hypothesis `EmptySeqFile = FALSE`. The hypothesis is needed:
  loader_emptyseq shows the property fails when a seq object may be empty.
  The inductive invariant `MatchInv` describes a Load in progress:
  * `ResultPhase`: `result` is `"busy"` exactly while a Load is between its
    diff and its response, and a response leaves `updated` empty.
  * `StoreMatchesLoad`: during and after a Load, every addressed runtime
    that Seqs did not return is absent. Every one it returned and that is no
    longer in `updated` has `ConfigStore.Seq` equal to the seq read. The
    diff puts a runtime there when it found it unchanged, and `LoadConfigs`
    puts it there when it stores it.
  * `NoAddrAbsent`: a runtime without an address is never stored.
  * `FreshSeqs` and `SyncedInv`: while nothing has changed since the last
    Seqs call, `seqs` is what Seqs returns now; `synced` is only set by a
    response.

  A separate invariant, `SeqsNonZero`, says that no seq read is the empty
  text. With it, `ConfigStore.Seq` equal to the seq read means the entry
  exists with that seq.
* `SecondLoadNoUpdateAddressedHolds`: `Spec => SecondLoadNoUpdateAddressed`,
  the action property, for every value of the constants. The lemma
  `SyncedNoUpdate` derives from `MatchInv` that, right after a response with
  nothing changed and every listed runtime addressed, the diff is empty:
  `NoUpdate(Seqs, FALSE)`. A `LoadBegin` step is therefore impossible, and
  `LoadSeqsFail` changes `failures`.

Liveness (`Convergence`) and anything about `ENABLED` stay with TLC. TLAPS
checks safety only.

### ConfigMapWatcher (checked and proved)

This module covers the ChangeWatcher: `configMapBucketWatcher` (main.go
678-768), `configMapBucketPoller` (770-796) and the choice between them in
`Watcher` (839-853). `Init` chooses the variant (`push`). A pubsubWatcher that
fails to set up for any reason gives the poller.

The pub/sub variant runs three goroutines around one unbuffered channel:

* **run.** `Deliver`, `ReceiveFail`, `ReceiveCancelled` and `ReceiveReturn`.
  A Receive callback blocks in `w.ch <- msg`, and the model marks such a
  message `"cb"`. Because the channel is unbuffered, a message is either with
  a blocked callback or already taken and acked. Receive returns only when no
  callback is running. Then run either calls Receive again (a retried error
  while the context is live) or closes `w.ch` (`recv = "closed"`).
* **The caller's Next.** `NextRecv` (ack, then filter on seq events),
  `NextClosed`, `NextCancelled`, and the drain loop: `DrainRecv`, `DrainNil`
  (the unchecked receive on a closed channel) and `DrainDefault` (return
  nil). The caller's loop itself (`NextCall`) is not in this repository and is
  modelled from the spec.
* **Close's drain goroutine.** `DrainerRecv` and `DrainerEnd`.

The poller is modelled by `PollWake`, `PollClosed` and `Close`.

Notifications are model values. `Publish` gives each one a kind: `"seq"` for
an OBJECT_FINALIZE event on a `seq` object, `"other"` for anything else. The
history variable `pending` records a published seq event that no successful
Next has yet followed.

| Run | cfg | Expect | What it shows |
|---|---|---|---|
| watcher_main | MCConfigMapWatcher.cfg | pass | `NoSendOnClosedChannel` (run closes `w.ch` only when no Receive callback is blocked sending on it; otherwise the callback would panic with a send on a closed channel); `WakeAfterSeqChange` (every published seq change is followed by a successful Next unless the caller's loop has ended); `CloseReleasesReceiver` (after Close, run closes `w.ch` with no callback left blocked, even if nobody calls Next); `CloseEndsNext` (after Close the caller's loop of Next ends) |
| watcher_nilderef | MCConfigMapWatcherNilDeref.cfg | violation | `NoNilDeref`: a Receive error that is not retried lets run close `w.ch` while Next drains. The drain loop's receive then yields `nil`, and `msg.ID` panics (main.go 743) |

**Bounds.** The runs use 3 messages and 1 Receive error. That is enough for a
seq event to be coalesced behind another one and for a callback to be
blocked when Close or an error strikes. Each choice between Next and the
drain goroutine also happens.

**Fairness.** Weak fairness is assumed separately for each of:

* run's progress (the pub/sub client keeps pulling and returns once it is
  cancelled);
* the caller (it calls Next again after each Load, and the poller's timer
  fires within 1.2 hours);
* the drain goroutine.

Publications, Receive errors, caller cancellation and Close are not assumed
to happen.

**Deadlock.** Deadlock checking is off for watcher_main. The real process may
stop for good once its loop has ended and Close has run. Whether it stops in
the right state is what `CloseReleasesReceiver` and `CloseEndsNext` check.

**Proofs (ConfigMapWatcherProofs).** `NoSendOnClosedChannelInvariant` holds
for every set of messages and every retry bound. The lemma
`WatcherTypeCorrect` gives the types it needs. `TypeOK` is not checked by a
run: the only way to break it is to lift the model's own bound on Receive
errors, and no bug in the code corresponds to that. `NoSendOnClosedChannel` is inductive together with `TypeOK`.
`ReceiveReturn` closes the channel only when there are no senders. `Deliver`
needs `recv = "recv"`, so nothing becomes a sender once the channel is
closed. The other actions never reopen it. The lemma `NextCases` lists the
disjuncts of `Next` once for both proofs. The three liveness properties rest
on fairness and stay with TLC.

### DescriptorFetch and DescriptorFetcher (checked and proved)

`DescriptorFetch` is the abstract specification of `loadConfigs` (main.go
1254-1365). It is one atomic `Fetch` that returns one of two things:

* an error, or
* the configs of the valid descriptors, in listing order.

It returns the configs only when no descriptor read failed.

An object is abstracted to what `loadConfigs` decides for it:

* `filtered`: `checkPrebuilt` rejects it, or it is not under `descriptors/`;
* `unreadable`: `loadDescriptor` fails (`storageReadAll` or
  `proto.Unmarshal` returns an error), which `LoadDescriptorFails` names;
* `invalid`: `checkSelector` rejects it, or it has no setup, or its path type
  is unknown;
* `desc`: it yields one config.

`DescriptorFetcher` is the code step by step:

* `ListNext`, `ListFail` and `ListDone` are the iterator loop with its two
  filters. `ListFail` also covers the errors before the loop: a bad
  `splitGCSPath`, a nil bucket.
* `Dispatch` is `sema <- struct{}{}` followed by `eg.Go`.
* `Worker(p)` is the body of one goroutine. It reads and checks the
  descriptor and fills slot `p`.
* `Release(p)` is the goroutine's return: its deferred `<-sema` gives the
  token back, then the errgroup keeps its error if it is the first. `sema`
  counts the tokens in the channel, so `Dispatch` blocks while it holds
  `Concurrency`.
* `Wait` is `eg.Wait` once no goroutine runs. It returns the group's
  first error, or goes on to the loop over `confList`.
* `Collect` is one turn of that loop (main.go 1354-1362). It appends slot
  `ci` when it is not empty.
* `Return` is the return after the loop.

The loop is modelled turn by turn, as the code does it, and not as one
filter of the slots. That keeps the model faithful, and it lets the provers
reason about `confs` one `Append` at a time.

| Run | cfg | Expect | What it shows |
|---|---|---|---|
| fetcher_main | MCDescriptorFetcher.cfg | pass | Four listed objects of every kind and a semaphore of 2. `BoundedWorkers` (never more than `Concurrency` goroutines are reading: a token comes back only after its goroutine's read, so a token given back early or twice breaks it); `OkOnlyWithoutReadFailure`; `FetchRefinement`, which is `Abstract!Spec` for `Abstract == INSTANCE DescriptorFetch WITH ...`, a mapping of the shared variables to themselves, so the output is in listing order whatever order the goroutines finish in, and `loadConfigs` always returns |
| fetcher_abort | MCDescriptorFetcherAbort.cfg | violation | `AbortOnFirstError` (spec 4.3 step 4). After a read fails, the dispatch loop still starts readers for the remaining objects. `errgroup.Group` is used without a context (main.go 1306) |

With four objects, two readers can finish out of order while a third waits
on the semaphore, and a failure can come before or after a valid descriptor.
Fairness is weak fairness of the loop and of each goroutine's two steps:
nothing blocks them except the semaphore. Deadlock checking stays on, and the only terminal
state is the return.

In `DescriptorFetch`, `Configs` is the set of sequences over the valid
objects that are strictly increasing (`InListingOrder`) and hold every
valid object. Exactly one sequence is in it: the valid objects in listing
order.

`DescriptorFetcherProofs` proves four theorems for every `NObjs` and every
`Concurrency`:

* `FetcherTypeCorrect`: `Spec => []TypeOK`, `confs` included;
* `BoundedWorkersInvariant`;
* `OkOnlyWithoutReadFailureInvariant`;
* `FetchSafetyRefinement`: `Spec => Abstract!SafeSpec`. Every step maps to
  a `Fetch` or to a stutter under the refinement mapping, so the call returns
  an error, or exactly the valid descriptors in listing order.

All four rest on one inductive invariant `IInv`. Its parts are:

* `ListedExactly`: `attrsList` holds exactly the unfiltered objects the
  listing has passed, in increasing order.
* `ErrRecorded`: running goroutines were started; any started goroutine that
  has returned after a failed read left an error in the group.
* `SlotsFilled`: a non-empty slot belongs to a goroutine that has finished
  its body, and holds its own object, which is valid. Every such goroutine
  of a valid object has filled its slot.
* `Tokens`: a goroutine still reading has not returned, and the channel holds
  one token for each goroutine that has not returned. `BoundedWorkers` is not
  itself inductive; it follows from `Tokens` and the channel's capacity
  (lemma `TokensBoundReads`).
* `PhaseOK`: the loop variables agree with the phase, and `collect` is only
  reached with no error and no goroutine running.
* `Collected`: during the loop, `confs` holds exactly the non-empty slots
  before `ci`, in increasing order.

`SlotsFilled` and `Collected` are needed for the refinement. At `Return`
(`ci = Len(attrsList) + 1`) they give `confs \in Abstract!Configs`
(lemma `ConfigsAtReturn`). Cardinality steps use `FS_AddElement`, `FS_Subset`
and `FS_RemoveElement`.

`FetchRefinement`'s fairness part, that `loadConfigs` returns, stays with
TLC (fetcher_main).

### AclChecker (checked and proved)

`AclChecker` models `acl.Checker` (src/auth/acl/checker.go). Its state is
the installed `config` (a function from group index to a service account or
`NoSA`, for groups that use end-user credentials), the `accounts` map and the
RWMutex, which `Set` holds for writing through all its steps:

* `SetBegin(cfg)` takes the lock (a bound `MaxSets` caps the calls).
* `SetAdd(g)` creates the account of the next group of the new config, in
  group order, or fails (`Pool.New` returns an error), which returns from
  `Set` with the lock released and the old config kept.
* `SetAddDone`, `SetDelete(sa)` and `SetEnd` are the delete loop and the
  final installation of the config.

A `CheckToken` caller is split where the code releases the lock:
`Find(r)` is `FindGroup` under the read lock, with each group's
`checkGroup` outcome (match, no match, AuthDB error) chosen
nondeterministically, and the reject and end-user branches; `ReadAccount(r)`
is the read of `c.accounts` at line 149, after `RUnlock`.

| Run | cfg | Expect | What it shows |
|---|---|---|---|
| acl_main | MCAclChecker.cfg | pass | Two groups (one rejecting), two service accounts, two callers, three `Set`s. `AccountsCoverConfig`: whenever `Set` does not hold the lock, every service account the installed config names has an account, even after a `Set` that failed half way. `AccountsMatchConfig`: after a successful `Set`, the accounts are exactly the config's. `NotFoundOnlyAfterConcurrentSet`: "service account not found" is only returned to a caller overtaken by a later `Set` |
| acl_race | MCAclCheckerRace.cfg | violation | `NoUnlockedAccountsRead`: `CheckToken` reads `c.accounts` while `Set` holds the write lock, a data race on a Go map (checker.go 149) |

`AclCheckerProofs` proves `AccountsCoverConfigInvariant`,
`AccountsMatchConfigInvariant` and
`NotFoundOnlyAfterConcurrentSetInvariant` for every number of groups,
accounts, callers and `Set` calls. None of them is inductive alone: a
step of `Set` in the middle of its loops and a caller between its two steps
need more. The inductive invariant adds:

* `SetProgress`: the accounts `Set` has created are still there and are
  ones the new config names (so after the deletion loop the accounts are
  exactly the new config's, which gives `AccountsMatchConfig`); once the
  creation loop is over they cover the new config; while it creates nothing
  is deleted, so the installed config stays covered.
* `FoundOK`: a caller that found a group with a service account, and that no
  `Set` has overtaken since, found one the installed config names.

`AclTypeCorrect` (the type invariant of acl_main) follows from the same
inductive invariant.

### DescriptorFilter (checked and proved)

`DescriptorFilter` models the checks `loadConfigs` and its reader goroutines
apply to each object, and the platform merge:

* **Prebuilt filter** (main.go 1205-1231 and 1285-1295). An object name is a
  sequence of path components; a component is a model value and
  `strings.HasPrefix` is a relation between components and prefixes.
  `checkPrebuilt` takes the prebuilt name from the first component after the
  first one that starts with "descriptors"
  (`strings.Index(objName, "/descriptors")`), then checks it against the deny
  prefixes and, when there are any, the allow prefixes; the listing loop also
  requires the parent directory to be `descriptors`. `SpecListed` is the
  independent reference of spec.md 4.3 step 1: the prebuilt item is the
  directory two levels above the object.
* **Descriptor checks** (main.go 1233-1252 and 1313-1331). A selector is a
  record of its four fields (name, version, target, binary hash), each empty
  or not. `checkSelector` rejects a missing selector and a selector that one
  of the deny entries matches, where an entry matches when any of its
  non-empty fields equals the selector's. The reader goroutine also drops a
  descriptor without a known setup. `SpecDescriptorKept` is written with sets
  instead of the loop.
* **`mergePlatformProperties`** (main.go 1050-1067). It appends the source
  properties whose names the target lacks, and does nothing on a nil source.
  `SpecMerge` is the same filter written with `SelectSeq`.

The filter has no state of its own. The module's initial states are calls,
one per operation, with every argument in bounds, and nothing changes after
them. The bounds are names of up to `MaxLen` components, every deny and
allow list, selector fields over {empty, one value}, up to two deny entries,
and property lists of up to two over two names and two values. These cover an
empty field next to a matching one, duplicate names within a list, and a nil
source next to an empty one.

| Run | cfg | Expect | What it shows |
|---|---|---|---|
| filter_main | MCDescriptorFilter.cfg | pass | `FilterMatchesSpec`: for names laid out as the publisher writes them, the code keeps exactly the objects the reference keeps, for every deny and allow list. `DescriptorCheckMatchesSpec`: `checkSelector` with the setup check keeps exactly the descriptors the set form keeps, so an empty field of a deny entry matches nothing. `MergeMatchesSpec`: the merge keeps the target and appends the missing source properties in order |
| filter_allnames | MCDescriptorFilterAllNames.cfg | violation | `FilterMatchesSpecAllNames`, over names of at least three components (a runtime, a prebuilt, the descriptors directory). With empty lists the code and the spec agree on those, so a counterexample must check the wrong directory. TLC's is `rt/descriptors/descriptors/<hash>` with `AllowedPrebuilts = ["descriptors"]`. The prebuilt directory is itself named "descriptors", so the first "/descriptors" makes `checkPrebuilt` check `rt` against the allow list, and it drops an object the spec keeps |

`DescriptorFilterProofs` proves two of the three properties for every value
of the constants: names of any length, any components and prefixes, any
deny list. `FilterAssumption` states that "descriptors" is a prefix of
itself, which `strings.HasPrefix` guarantees. `SelectorAssumption` states
that a nil selector is not a selector record.

* `FilterAgrees` says that for a conforming name, `Listed` and `SpecListed`
  agree. `ConformingDescAt` shows that the only position `strings.Index` can
  find is the parent directory. That directory may only start with
  "descriptors", and then `ParentIsDescriptors` rejects the name.
  `ConformingPrebuiltName` then reads the prebuilt two levels up.
  `FilterMatchesSpecInvariant` lifts this to the run's invariant.
* `DescriptorCheckAgrees` says that `checkSelector`'s loop over the deny
  list, with the setup check, equals the set statement.
  `DescriptorCheckMatchesSpecInvariant` lifts this to the run's invariant.

`MergeMatchesSpec` stays with TLC. `mergePlatformProperties` is a fold and
`SpecMerge` a `SelectSeq`, and showing that they agree on every input is an
induction over the list, which no installed prover can instantiate.

spec.md says a selector is disallowed on "exact field equality". The code
rejects a selector that shares any one non-empty field with a deny entry,
not one that equals it on every field. The model follows the code; the
spec's wording allows both readings, so this is not recorded as a finding.

### MemoryAdmission (checked and proved)

`MemoryAdmission` models the admission checks of both binaries that carry
`fake_redis.go`'s `main` package code. The constant `Binary` selects which
one runs. Memory is counted in units: the resident size is the base memory,
the messages running requests hold, and the garbage finished requests left.

* **frontend.** `memoryCheck.Admit` uses the thresholds its `main` derives:
  hard = limit - margin and soft = limit - 2*margin, both zero when the
  margin flag is empty or the limit unknown. `Admit(r)` reads the memory,
  runs `server.GC` (which may collect any part of the garbage) when it is
  over the soft threshold, and then admits. Otherwise it refuses with
  `Unavailable` or `ResourceExhausted` and marks the server unhealthy.
  `Receive` is the request handler outside `src/`, which reads a message of
  at most `MaxMsg` after admission.
* **file_server.** `admissionController.AdmitPut` runs after the request is
  received (`PutReceive`). Its limit is `PutLimit`, the memory limit less
  twice the maximum message size, and 0 (disabled) when the limit is
  unknown. It admits when the resident size plus twice the request size fits.
  Otherwise it runs `server.GC` and checks again, and a refusal marks the
  server unhealthy.

`Finish` frees a request's message. `RuntimeGC` is the Go runtime's own
collection, which keeps garbage under `MaxGarbage`.

| Run | cfg | Expect | What it shows |
|---|---|---|---|
| admission_largemargin | MCMemoryAdmissionLargeMargin.cfg | violation | With a margin of half the limit, the soft threshold is 0, which `Admit` reads as "disabled": every request is admitted |

`MemoryAdmissionProofs` proves the other side of that finding,
`MarginRespectedBelowHalf`: for every limit, base size, message size and
number of requests, a positive margin of less than half the limit makes
`AdmitOnlyWithMargin` hold. A request is admitted only when more than the
margin is left under the limit at the time `Admit` reads the memory. The
argument uses only the integer types of the state (`IntTypes`, proved
invariant by `IntTypesInvariant`) and the lemma `OnlyAdmitAdmits`, which
says that only `Admit` moves a slot from idle to admitted. The soft
threshold is then positive, so the admitting branch checked the memory
against it. In the step proof the new garbage is named by an unprimed
witness (`PICK g0`) because the SMT backend of tlapm 1.4.5 fails on integer
facts stated of a primed variable.

Two more theorems cover the file_server binary and the edge of both checks:

* `PutAdmittedWithinLimit`: for every memory limit above twice the largest
  message, `AdmitPut` lets a put through only when the resident size it read
  (after `server.GC` when it ran) plus twice the put fits under its limit
  (`PutOnlyWithinLimit`). The lemma `OnlyAdmitPutStarts` says that only
  `AdmitPut` moves a slot from received to running.
* `DisabledCheckNeverRefuses`: when the frontend's soft threshold or
  file_server's limit is at or below zero, no request is ever refused and
  `healthz.SetUnhealthy` is never called (`NeverRefused`), however much
  memory is in use. This is the large-margin finding, and the file_server
  edge (a memory limit at or below twice the message size), for every
  limit. `NeverRefused` is inductive as it stands.

Both were model-checked on small instances (limits 10 and 4, and the large
margin) before they were proved. The file_server binary has no run of its
own in the project: its properties are the theorems.

Requests admitted concurrently at the soft threshold each add a message
afterwards, so enough of them overshoot the limit. The code makes no promise
about that, and it is listed as a hazard without a property.

## Plan for the rest of the project

1. **Watcher + loader composition.** This shows that no seq change is lost by
   the coalescing in `Next`.
2. The fake redis server used by the cache tests (`FakeServer.readRequest`
   against the RESP encoding, `s.last` shared by connection goroutines).

What stays with TLC, and why:

* The liveness properties (`Convergence`, `WakeAfterSeqChange`,
  `CloseReleasesReceiver`, `CloseEndsNext`) rest on fairness and `ENABLED`.
* That `loadConfigs` returns (the fairness half of `FetchRefinement`). It
  rests on weak fairness.
* `MergeMatchesSpec` compares the fold of `mergePlatformProperties` with a
  `SelectSeq`. tlapm treats `SelectSeq` as opaque, and relating the two is an
  induction over a sequence. No installed prover can instantiate the
  library's induction theorems.

## Not modelled

* The AuthDB client is a single retried RPC and has no state.
* The generated protobuf code, the shell wrappers and the process bootstrap
  (flag parsing, server wiring) hold no concurrent state.
* Test helpers are read only for what they expect of the code.
* `pathFromToolchainSpec` (nsjail.go) is a pure function of one request:
  it collects the spec's directories, skips "" and ".", sorts and joins
  them. `sort.Strings` follows the map range directly, so Go's map order
  cannot reach the result.
