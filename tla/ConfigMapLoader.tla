-------------------------- MODULE ConfigMapLoader --------------------------
(***************************************************************************)
(* ConfigMapLoader.Load of the toolchain config map (package command,      *)
(* src/cmd/remoteexec_proxy/main.go lines 551-1365), with the ConfigStore *)
(* it mutates and the storage bucket / config-map file it reads.           *)
(*                                                                         *)
(* Load is one caller's sequential procedure, but it reads the bucket at   *)
(* several points while a publisher keeps writing to it, and it can fail   *)
(* after it has already mutated the store.  It is therefore split at each  *)
(* I/O call into steps (pc), and the bucket's writers are actions of       *)
(* their own that interleave with those steps.                             *)
(*                                                                         *)
(* Data abstraction.  A seq object holds the text of a sequence number;   *)
(* the publisher writes generation g's descriptors first and then the seq  *)
(* object with text g.  Text g is the number g, and the empty text "" is  *)
(* 0, which is also what ConfigStore.Seq returns for an absent name.  The  *)
(* []*cmdpb.Config a runtime's descriptors load to is abstracted to the   *)
(* generation of the descriptors that were listed ("gen" of an entry).    *)
(***************************************************************************)
EXTENDS Naturals, FiniteSets

CONSTANTS
    Runtimes,      \* toolchain runtime names listed in the config map
    NoAddr,        \* runtimes whose ServiceAddr is "" even after the
                   \* RemoteexecAddr default (RuntimeConfigs)
    MaxGen,        \* bound: descriptor generations published per runtime
    MaxFailures,   \* bound: storage / config-map read failures injected
    MaxEdits,      \* bound: edits of the config map and seq deletions
    EmptySeqFile,  \* may a runtime start with an existing, empty seq object
    NoSeq,         \* the <runtime>/seq object does not exist
    Absent         \* no entry for the name in ConfigStore.lastConfigs

Gen == 0..MaxGen

\* An entry of ConfigStore.lastConfigs: configs{seq, configs}.
Entry == [seq : Gen, gen : Gen]

ASSUME ConstantsAssumption ==
    /\ NoAddr \subseteq Runtimes
    /\ MaxGen \in Nat
    /\ MaxFailures \in Nat
    /\ MaxEdits \in Nat
    /\ EmptySeqFile \in BOOLEAN
    /\ NoSeq \notin Gen
    /\ Absent \notin Entry

VARIABLES
    inMap,     \* runtimes listed in the config map file (cm.Runtimes)
    gen,       \* gen[r]: newest descriptor generation in <bucket>/<r>/
    seqObj,    \* seqObj[r]: text of <bucket>/<r>/seq, or NoSeq
    store,     \* ConfigStore.lastConfigs, Absent where no entry
    pc,        \* where the current Load is: "Idle", "Meta" or "Update"
    force,     \* the force argument of the current or last Load
    seqs,      \* Load's local seqs: the result of ConfigMap.Seqs
    updated,   \* Load's local updated: names still to reload
    rcs,       \* Load's local runtimeConfigs: names that have a config
    result,    \* outcome of the last Load: "none", "busy", "ok",
               \* "noupdate" or "error"
    failures,  \* injected failures so far
    edits,     \* config-map edits and seq deletions so far
    changed,   \* history: the bucket or config map changed since the
               \* last Seqs call
    synced     \* history: the last Load returned a response and the
               \* bucket and config map have not changed since its Seqs

source == <<inMap, gen, seqObj>>
load == <<pc, force, seqs, updated, rcs, result>>
vars == <<inMap, gen, seqObj, store, pc, force, seqs, updated, rcs,
          result, failures, edits, changed, synced>>

TypeOK ==
    /\ inMap \subseteq Runtimes
    /\ gen \in [Runtimes -> Gen]
    /\ seqObj \in [Runtimes -> Gen \cup {NoSeq}]
    /\ store \in [Runtimes -> Entry \cup {Absent}]
    /\ pc \in {"Idle", "Meta", "Update"}
    /\ force \in BOOLEAN
    /\ DOMAIN seqs \subseteq Runtimes
    /\ seqs \in [DOMAIN seqs -> Gen]
    /\ updated \subseteq DOMAIN seqs
    /\ rcs \subseteq Runtimes
    /\ result \in {"none", "busy", "ok", "noupdate", "error"}
    /\ failures \in 0..MaxFailures
    /\ edits \in 0..MaxEdits
    /\ changed \in BOOLEAN
    /\ synced \in BOOLEAN

-----------------------------------------------------------------------------
(* ConfigStore and ConfigMapBucket helpers.                               *)

\* ConfigStore.Seq: the zero value "" for a name without an entry.
Seq(r) == IF store[r] = Absent THEN 0 ELSE store[r].seq

\* ConfigStore.List: the names that have an entry.
List == {r \in Runtimes : store[r] # Absent}

\* Mutant of Seqs: a missing seq object is recorded instead of skipped.
SeqsKeepMissing == [r \in inMap |-> seqObj[r]]

\* ConfigMapBucket.Seqs: the seq text of every runtime in the config map
\* whose seq object exists; a missing object is skipped, not an error.
Seqs == [r \in {x \in inMap : seqObj[x] # NoSeq} |-> seqObj[r]]

\* Mutant of Updated: only names not yet stored are reloaded.
UpdatedNewOnly(m) == {r \in DOMAIN m : store[r] = Absent}

\* Load's first loop: the names whose fetched seq differs from the stored
\* one.
Updated(m) == {r \in DOMAIN m : m[r] # Seq(r)}

\* Mutant of Deleted: vanished names are never deleted.
DeletedNone(m) == {}

\* Load's deleted map: stored names that Seqs no longer returned.
Deleted(m) == List \ DOMAIN m

\* Load returns ErrNoUpdate when nothing changed and force is false.
NoUpdate(m, f) == Updated(m) = {} /\ Deleted(m) = {} /\ ~f

\* ConfigStore.Delete of every name in del.
DeleteAll(del) == [r \in Runtimes |-> IF r \in del THEN Absent ELSE store[r]]

\* Mutant of SetEntry: the configs already cached are kept under the new
\* seq instead of the freshly loaded ones.
SetEntryKeepConfigs(r) ==
    [store EXCEPT ![r] = [seq |-> seqs[r],
                          gen |-> IF store[r] = Absent THEN 0 ELSE store[r].gen]]

\* Mutant of SetEntry: the seq is not recorded with the configs.
SetEntryNoSeq(r) == [store EXCEPT ![r] = [seq |-> 0, gen |-> gen[r]]]

\* ConfigStore.Set(name, seq, confs), confs loaded from the bucket now.
SetEntry(r) == [store EXCEPT ![r] = [seq |-> seqs[r], gen |-> gen[r]]]

-----------------------------------------------------------------------------
Init ==
    /\ inMap = Runtimes
    /\ gen = [r \in Runtimes |-> 0]
    /\ seqObj \in [Runtimes -> {NoSeq} \cup (IF EmptySeqFile THEN {0} ELSE {})]
    /\ store = [r \in Runtimes |-> Absent]
    /\ pc = "Idle"
    /\ force = FALSE
    /\ seqs = [r \in {} |-> 0]
    /\ updated = {}
    /\ rcs = {}
    /\ result = "none"
    /\ failures = 0
    /\ edits = 0
    /\ changed = FALSE
    /\ synced = FALSE

(* The bucket's writers (the toolchain publisher, not in this repository): *)
(* they write a generation's descriptors before its seq object.           *)

WriteDescriptors(r) ==
    /\ gen[r] < MaxGen
    /\ gen' = [gen EXCEPT ![r] = @ + 1]
    /\ changed' = TRUE
    /\ synced' = FALSE
    /\ UNCHANGED <<inMap, seqObj, store, load, failures, edits>>

WriteSeq(r) ==
    /\ gen[r] > 0
    /\ seqObj[r] # gen[r]
    /\ seqObj' = [seqObj EXCEPT ![r] = gen[r]]
    /\ changed' = TRUE
    /\ synced' = FALSE
    /\ UNCHANGED <<inMap, gen, store, load, failures, edits>>

DeleteSeq(r) ==
    /\ seqObj[r] # NoSeq
    /\ edits < MaxEdits
    /\ seqObj' = [seqObj EXCEPT ![r] = NoSeq]
    /\ edits' = edits + 1
    /\ changed' = TRUE
    /\ synced' = FALSE
    /\ UNCHANGED <<inMap, gen, store, load, failures>>

\* The config map file is re-read by every Seqs and RuntimeConfigs call.
EditConfigMap(r) ==
    /\ edits < MaxEdits
    /\ inMap' = IF r \in inMap THEN inMap \ {r} ELSE inMap \cup {r}
    /\ edits' = edits + 1
    /\ changed' = TRUE
    /\ synced' = FALSE
    /\ UNCHANGED <<gen, seqObj, store, load, failures>>

-----------------------------------------------------------------------------
(* ConfigMapLoader.Load(ctx, force).                                       *)

\* Seqs fails (config map file or a seq object unreadable): return err.
LoadSeqsFail(f) ==
    /\ pc = "Idle"
    /\ failures < MaxFailures
    /\ failures' = failures + 1
    /\ force' = f
    /\ result' = "error"
    /\ synced' = FALSE
    /\ UNCHANGED <<source, store, pc, seqs, updated, rcs, edits, changed>>

\* Nothing changed and force is false: return ErrNoUpdate.
LoadNoUpdate(f) ==
    /\ pc = "Idle"
    /\ NoUpdate(Seqs, f)
    /\ seqs' = Seqs
    /\ force' = f
    /\ updated' = {}
    /\ result' = "noupdate"
    /\ changed' = FALSE
    /\ UNCHANGED <<source, store, pc, rcs, failures, edits, synced>>

\* Diff against the store and delete the vanished names.
LoadBegin(f) ==
    /\ pc = "Idle"
    /\ ~NoUpdate(Seqs, f)
    /\ seqs' = Seqs
    /\ updated' = Updated(Seqs)
    /\ store' = DeleteAll(Deleted(Seqs))
    /\ force' = f
    /\ pc' = "Meta"
    /\ result' = "busy"
    /\ changed' = FALSE
    /\ synced' = FALSE
    /\ UNCHANGED <<source, rcs, failures, edits>>

\* Bucket and RuntimeConfigs: the config map file is read again.
LoadRuntimeConfigs ==
    /\ pc = "Meta"
    /\ rcs' = inMap
    /\ pc' = "Update"
    /\ UNCHANGED <<source, store, force, seqs, updated, result, failures,
                   edits, changed, synced>>

LoadRuntimeConfigsFail ==
    /\ pc = "Meta"
    /\ failures < MaxFailures
    /\ failures' = failures + 1
    /\ pc' = "Idle"
    /\ result' = "error"
    /\ UNCHANGED <<source, store, force, seqs, updated, rcs, edits, changed,
                   synced>>

\* "runtime config %s not found": the whole Load fails.
LoadNoRuntimeConfig(r) ==
    /\ pc = "Update"
    /\ r \in updated
    /\ r \notin rcs
    /\ pc' = "Idle"
    /\ result' = "error"
    /\ UNCHANGED <<source, store, force, seqs, updated, rcs, failures,
                   edits, changed, synced>>

\* "no addr for %s. ignoring": the entry keeps its old seq.
LoadNoAddr(r) ==
    /\ pc = "Update"
    /\ r \in updated \cap rcs \cap NoAddr
    /\ updated' = updated \ {r}
    /\ UNCHANGED <<source, store, pc, force, seqs, rcs, result, failures,
                   edits, changed, synced>>

\* ConfigLoader.Load fails (listing or a descriptor unreadable).
LoadConfigsFail(r) ==
    /\ pc = "Update"
    /\ r \in (updated \cap rcs) \ NoAddr
    /\ failures < MaxFailures
    /\ failures' = failures + 1
    /\ pc' = "Idle"
    /\ result' = "error"
    /\ UNCHANGED <<source, store, force, seqs, updated, rcs, edits, changed,
                   synced>>

\* ConfigLoader.Load succeeds and ConfigStore.Set records it with the seq
\* that Seqs returned at the start of this Load.
LoadConfigs(r) ==
    /\ pc = "Update"
    /\ r \in (updated \cap rcs) \ NoAddr
    /\ store' = SetEntry(r)
    /\ updated' = updated \ {r}
    /\ UNCHANGED <<source, pc, force, seqs, rcs, result, failures, edits,
                   changed, synced>>

\* ConfigStore.ConfigResp: the response is built from the whole store.
LoadRespond ==
    /\ pc = "Update"
    /\ updated = {}
    /\ pc' = "Idle"
    /\ result' = "ok"
    /\ synced' = ~changed
    /\ UNCHANGED <<source, store, force, seqs, updated, rcs, failures, edits,
                   changed>>

-----------------------------------------------------------------------------
Publisher ==
    \E r \in Runtimes :
        \/ WriteDescriptors(r)
        \/ WriteSeq(r)
        \/ DeleteSeq(r)
        \/ EditConfigMap(r)

Loader ==
    \/ \E f \in BOOLEAN :
        \/ LoadSeqsFail(f)
        \/ LoadNoUpdate(f)
        \/ LoadBegin(f)
    \/ LoadRuntimeConfigs
    \/ LoadRuntimeConfigsFail
    \/ \E r \in Runtimes :
        \/ LoadNoRuntimeConfig(r)
        \/ LoadNoAddr(r)
        \/ LoadConfigsFail(r)
        \/ LoadConfigs(r)
    \/ LoadRespond

Next == Publisher \/ Loader

\* The watcher loop calls Load again after every wake-up, and the poll
\* watcher wakes at least every 1.2 hours: the loader never stops for good.
Spec == Init /\ [][Next]_vars /\ WF_vars(Loader)

-----------------------------------------------------------------------------
(* Properties.                                                             *)

\* Every stored entry's configs come from descriptors at least as new as
\* the seq recorded with them.  Were the seq newer, the next Load would see
\* an equal seq and never replace the stale configs.  It rests on the
\* publisher writing descriptors before seq and on Load reading the seqs
\* before it lists the descriptors.
ContentCoversSeq ==
    \A r \in Runtimes : store[r] # Absent => store[r].seq <= store[r].gen

\* When Load returns a response or ErrNoUpdate, the store holds exactly
\* the runtimes that Seqs returned (those with a service address), each
\* with the seq Seqs returned for it.
LoadMatchesSeqs ==
    result \in {"ok", "noupdate"} =>
        \A r \in Runtimes \ NoAddr :
            /\ (r \in DOMAIN seqs) = (store[r] # Absent)
            /\ r \in DOMAIN seqs => store[r].seq = seqs[r]

\* The store agrees with the bucket: every listed runtime that has a seq
\* object and an address is stored with that seq, and nothing else is.
InSync ==
    \A r \in Runtimes \ NoAddr :
        IF r \in inMap /\ seqObj[r] # NoSeq
        THEN store[r] # Absent /\ store[r].seq = seqObj[r]
        ELSE store[r] = Absent

\* Once the bucket and config map stop changing and failures stop, the
\* repeated Loads bring the store in sync with them and keep it there.
Convergence == <>[]InSync

\* Spec section 8: a Load(force=false) right after a Load that returned a
\* response, with no change in between and no read failure, returns
\* ErrNoUpdate without starting a reload.
SecondLoadNoUpdate ==
    [][synced /\ pc = "Idle" /\ ~force' /\ failures' = failures
        => pc' = "Idle"]_vars

\* Spec section 8 for config maps whose runtimes all have an address: the
\* second Load(force=false) with nothing changed and no read failure
\* returns ErrNoUpdate without starting a reload.
SecondLoadNoUpdateAddressed ==
    [][synced /\ pc = "Idle" /\ inMap \cap NoAddr = {} /\ ~force' /\ failures' = failures
        => pc' = "Idle"]_vars
=============================================================================
