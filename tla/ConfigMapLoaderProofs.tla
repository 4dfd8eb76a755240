---------------------- MODULE ConfigMapLoaderProofs ----------------------
(***************************************************************************)
(* Proofs about ConfigMapLoader for every value of its constants.          *)
(***************************************************************************)
EXTENDS ConfigMapLoader, TLAPS

(* The strengthening of ContentCoversSeq.  Besides the stored entries, the *)
(* seq objects in the bucket and the seqs a running Load has read never    *)
(* name a generation newer than the descriptors the bucket holds: the     *)
(* publisher writes descriptors first, and Load reads its seqs before it  *)
(* lists descriptors, whose generation only grows.                        *)
SeqObjBehindGen ==
    \A r \in Runtimes : seqObj[r] # NoSeq => seqObj[r] <= gen[r]

SeqsBehindGen ==
    \A r \in DOMAIN seqs : seqs[r] <= gen[r]

IInv ==
    /\ TypeOK
    /\ SeqObjBehindGen
    /\ SeqsBehindGen
    /\ ContentCoversSeq

USE ConstantsAssumption DEF Gen, Entry

-----------------------------------------------------------------------------
(* Seqs is a function from the listed runtimes that have a seq object.    *)
LEMMA SeqsType ==
    ASSUME TypeOK
    PROVE  /\ DOMAIN Seqs = {x \in inMap : seqObj[x] # NoSeq}
           /\ DOMAIN Seqs \subseteq Runtimes
           /\ Seqs \in [DOMAIN Seqs -> Gen]
BY DEF TypeOK, Seqs

(* What the Load helpers return, for the type proof.                      *)
LEMMA HelpersType ==
    ASSUME TypeOK
    PROVE  /\ Updated(Seqs) \subseteq DOMAIN Seqs
           /\ DeleteAll(Deleted(Seqs)) \in [Runtimes -> Entry \cup {Absent}]
BY SeqsType DEF TypeOK, Updated, Deleted, DeleteAll, List

-----------------------------------------------------------------------------
(* TypeOK split into the Boolean flags, which Zenon handles, and the rest, *)
(* which needs SMT's arithmetic.                                          *)
FlagsOK == force \in BOOLEAN /\ changed \in BOOLEAN /\ synced \in BOOLEAN

DataOK ==
    /\ inMap \subseteq Runtimes
    /\ gen \in [Runtimes -> Gen]
    /\ seqObj \in [Runtimes -> Gen \cup {NoSeq}]
    /\ store \in [Runtimes -> Entry \cup {Absent}]
    /\ pc \in {"Idle", "Meta", "Update"}
    /\ DOMAIN seqs \subseteq Runtimes
    /\ seqs \in [DOMAIN seqs -> Gen]
    /\ updated \subseteq DOMAIN seqs
    /\ rcs \subseteq Runtimes
    /\ result \in {"none", "busy", "ok", "noupdate", "error"}
    /\ failures \in 0..MaxFailures
    /\ edits \in 0..MaxEdits

LEMMA TypeOKSplit == TypeOK <=> DataOK /\ FlagsOK
BY Zenon DEF TypeOK, DataOK, FlagsOK

(* Every step sets the flags to Booleans.                                 *)
LEMMA FlagsStep == FlagsOK /\ [Next]_vars => FlagsOK'
BY Zenon DEF FlagsOK, Next, Publisher, Loader, vars, WriteDescriptors,
   WriteSeq, DeleteSeq, EditConfigMap, LoadSeqsFail, LoadNoUpdate, LoadBegin,
   LoadRuntimeConfigs, LoadRuntimeConfigsFail, LoadNoRuntimeConfig,
   LoadNoAddr, LoadConfigsFail, LoadConfigs, LoadRespond, load, source

(* Every step keeps the other variables in their types.                   *)
LEMMA DataStep == TypeOK /\ [Next]_vars => DataOK'
<1> SUFFICES ASSUME TypeOK, [Next]_vars PROVE DataOK'
  OBVIOUS
<1> USE DEF TypeOK, DataOK
<1>1. ASSUME NEW r \in Runtimes, WriteDescriptors(r) PROVE DataOK'
  BY <1>1 DEF WriteDescriptors, load
<1>2. ASSUME NEW r \in Runtimes, WriteSeq(r) PROVE DataOK'
  BY <1>2 DEF WriteSeq, load
<1>3. ASSUME NEW r \in Runtimes, DeleteSeq(r) PROVE DataOK'
  BY <1>3 DEF DeleteSeq, load
<1>4. ASSUME NEW r \in Runtimes, EditConfigMap(r) PROVE DataOK'
  BY <1>4 DEF EditConfigMap, load
<1>5. ASSUME NEW f \in BOOLEAN, LoadSeqsFail(f) PROVE DataOK'
  BY <1>5 DEF LoadSeqsFail, source
<1>6. ASSUME NEW f \in BOOLEAN, LoadNoUpdate(f) PROVE DataOK'
  BY <1>6, SeqsType DEF LoadNoUpdate, source
<1>7. ASSUME NEW f \in BOOLEAN, LoadBegin(f) PROVE DataOK'
  BY <1>7, SeqsType, HelpersType DEF LoadBegin, source
<1>8. CASE LoadRuntimeConfigs
  BY <1>8 DEF LoadRuntimeConfigs, source
<1>9. CASE LoadRuntimeConfigsFail
  BY <1>9 DEF LoadRuntimeConfigsFail, source
<1>10. ASSUME NEW r \in Runtimes, LoadNoRuntimeConfig(r) PROVE DataOK'
  BY <1>10 DEF LoadNoRuntimeConfig, source
<1>11. ASSUME NEW r \in Runtimes, LoadNoAddr(r) PROVE DataOK'
  BY <1>11 DEF LoadNoAddr, source
<1>12. ASSUME NEW r \in Runtimes, LoadConfigsFail(r) PROVE DataOK'
  BY <1>12 DEF LoadConfigsFail, source
<1>13. ASSUME NEW r \in Runtimes, LoadConfigs(r) PROVE DataOK'
  BY <1>13 DEF LoadConfigs, SetEntry, source
<1>14. CASE LoadRespond
  BY <1>14 DEF LoadRespond, source
<1>15. CASE UNCHANGED vars
  BY <1>15 DEF vars
<1>16. QED
  BY <1>1, <1>2, <1>3, <1>4, <1>5, <1>6, <1>7, <1>8, <1>9, <1>10,
     <1>11, <1>12, <1>13, <1>14, <1>15
  DEF Next, Publisher, Loader

LEMMA TypeOKStep == TypeOK /\ [Next]_vars => TypeOK'
<1> SUFFICES ASSUME TypeOK, [Next]_vars PROVE TypeOK'
  OBVIOUS
<1>1. DataOK'
  BY DataStep
<1>2. FlagsOK'
  BY FlagsStep, TypeOKSplit
<1>3. QED
  BY <1>1, <1>2, Zenon DEF TypeOK, DataOK, FlagsOK

LEMMA InitTypeOK == Init => TypeOK
<1> SUFFICES ASSUME Init PROVE TypeOK
  OBVIOUS
<1>1. FlagsOK
  BY Zenon DEF Init, FlagsOK
<1>2. DataOK
  BY DEF Init, DataOK
<1>3. QED
  BY <1>1, <1>2, TypeOKSplit

(* The variables keep their types in every reachable state.               *)
THEOREM TypeCorrect == Spec => []TypeOK
BY InitTypeOK, TypeOKStep, PTL DEF Spec

-----------------------------------------------------------------------------
(* The stored configs are never older than the seq stored with them.       *)
THEOREM ContentCoversSeqInvariant == Spec => []ContentCoversSeq
<1>1. Init => IInv
  BY InitTypeOK DEF Init, IInv, SeqObjBehindGen, SeqsBehindGen,
     ContentCoversSeq
<1>2. IInv /\ [Next]_vars => IInv'
  <2> SUFFICES ASSUME IInv, [Next]_vars PROVE IInv'
    OBVIOUS
  <2>0. TypeOK'
    BY TypeOKStep DEF IInv
  <2> USE DEF IInv
  <2>1. ASSUME NEW r \in Runtimes, WriteDescriptors(r) PROVE IInv'
    BY <2>0, <2>1 DEF WriteDescriptors, TypeOK, load, SeqObjBehindGen,
       SeqsBehindGen, ContentCoversSeq
  <2>2. ASSUME NEW r \in Runtimes, WriteSeq(r) PROVE IInv'
    BY <2>0, <2>2 DEF WriteSeq, TypeOK, load, SeqObjBehindGen,
       SeqsBehindGen, ContentCoversSeq
  <2>3. ASSUME NEW r \in Runtimes, DeleteSeq(r) PROVE IInv'
    BY <2>0, <2>3 DEF DeleteSeq, TypeOK, load, SeqObjBehindGen,
       SeqsBehindGen, ContentCoversSeq
  <2>4. ASSUME NEW r \in Runtimes, EditConfigMap(r) PROVE IInv'
    BY <2>0, <2>4 DEF EditConfigMap, load, SeqObjBehindGen,
       SeqsBehindGen, ContentCoversSeq
  <2>5. ASSUME NEW f \in BOOLEAN, LoadSeqsFail(f) PROVE IInv'
    BY <2>0, <2>5 DEF LoadSeqsFail, source, SeqObjBehindGen,
       SeqsBehindGen, ContentCoversSeq
  <2>6. ASSUME NEW f \in BOOLEAN, LoadNoUpdate(f) PROVE IInv'
    BY <2>0, <2>6 DEF LoadNoUpdate, source, Seqs, TypeOK,
       SeqObjBehindGen, SeqsBehindGen, ContentCoversSeq
  <2>7. ASSUME NEW f \in BOOLEAN, LoadBegin(f) PROVE IInv'
    BY <2>0, <2>7 DEF LoadBegin, source, Seqs, DeleteAll, TypeOK,
       SeqObjBehindGen, SeqsBehindGen, ContentCoversSeq
  <2>8. CASE LoadRuntimeConfigs
    BY <2>0, <2>8 DEF LoadRuntimeConfigs, source, SeqObjBehindGen,
       SeqsBehindGen, ContentCoversSeq
  <2>9. CASE LoadRuntimeConfigsFail
    BY <2>0, <2>9 DEF LoadRuntimeConfigsFail, source, SeqObjBehindGen,
       SeqsBehindGen, ContentCoversSeq
  <2>10. ASSUME NEW r \in Runtimes, LoadNoRuntimeConfig(r) PROVE IInv'
    BY <2>0, <2>10 DEF LoadNoRuntimeConfig, source, SeqObjBehindGen,
       SeqsBehindGen, ContentCoversSeq
  <2>11. ASSUME NEW r \in Runtimes, LoadNoAddr(r) PROVE IInv'
    BY <2>0, <2>11 DEF LoadNoAddr, source, SeqObjBehindGen,
       SeqsBehindGen, ContentCoversSeq
  <2>12. ASSUME NEW r \in Runtimes, LoadConfigsFail(r) PROVE IInv'
    BY <2>0, <2>12 DEF LoadConfigsFail, source, SeqObjBehindGen,
       SeqsBehindGen, ContentCoversSeq
  <2>13. ASSUME NEW r \in Runtimes, LoadConfigs(r) PROVE IInv'
    BY <2>0, <2>13 DEF LoadConfigs, SetEntry, source, TypeOK,
       SeqObjBehindGen, SeqsBehindGen, ContentCoversSeq
  <2>14. CASE LoadRespond
    BY <2>0, <2>14 DEF LoadRespond, source, SeqObjBehindGen,
       SeqsBehindGen, ContentCoversSeq
  <2>15. CASE UNCHANGED vars
    BY <2>0, <2>15 DEF vars, SeqObjBehindGen, SeqsBehindGen,
       ContentCoversSeq
  <2>16. QED
    BY <2>1, <2>2, <2>3, <2>4, <2>5, <2>6, <2>7, <2>8, <2>9, <2>10,
       <2>11, <2>12, <2>13, <2>14, <2>15
    DEF Next, Publisher, Loader
<1>3. IInv => ContentCoversSeq
  BY DEF IInv
<1>4. QED
  BY <1>1, <1>2, <1>3, PTL DEF Spec
-----------------------------------------------------------------------------
(* The strengthening of LoadMatchesSeqs and SecondLoadNoUpdateAddressed.  *)
(* A Load that got past its diff has, for every addressed runtime, either *)
(* deleted it (Seqs did not return it), left it with the seq Seqs returned *)
(* (the diff found it unchanged), or still has it in updated; LoadConfigs *)
(* moves a name from the last group to the second.                        *)

\* result is "busy" exactly while a Load is between its diff and its
\* response, and a response or ErrNoUpdate leaves nothing to reload.
ResultPhase ==
    /\ (result = "busy") = (pc # "Idle")
    /\ result \in {"ok", "noupdate"} => updated = {}

\* What the diff and the reloads so far have done to the store.
StoreMatchesLoad ==
    result \in {"busy", "ok", "noupdate"} =>
        \A r \in Runtimes \ NoAddr :
            /\ r \notin DOMAIN seqs => store[r] = Absent
            /\ r \in DOMAIN seqs \ updated => Seq(r) = seqs[r]

\* A runtime without an address is never stored.
NoAddrAbsent == \A r \in NoAddr : store[r] = Absent

\* Nothing changed since the last Seqs call: seqs is what Seqs returns now.
FreshSeqs == (~changed /\ (pc # "Idle" \/ synced)) => seqs = Seqs

\* synced is only set by a response, and cleared by any change.
SyncedInv == synced => pc = "Idle" /\ ~changed /\ result \in {"ok", "noupdate"}

MatchInv ==
    /\ TypeOK
    /\ ResultPhase
    /\ StoreMatchesLoad
    /\ NoAddrAbsent
    /\ FreshSeqs
    /\ SyncedInv

LEMMA MatchInit == Init => MatchInv
<1> SUFFICES ASSUME Init PROVE MatchInv
  OBVIOUS
<1>1. TypeOK
  BY InitTypeOK
<1>2. FlagsOK
  BY Zenon DEF Init, FlagsOK
<1>3. ResultPhase /\ StoreMatchesLoad /\ NoAddrAbsent
  BY DEF Init, ResultPhase, StoreMatchesLoad, NoAddrAbsent
<1>4. FreshSeqs /\ SyncedInv
  BY <1>2, Zenon DEF Init, FreshSeqs, SyncedInv, FlagsOK
<1>5. QED
  BY <1>1, <1>3, <1>4 DEF MatchInv

(* The step of MatchInv, one case per action.                              *)
LEMMA MatchStep == MatchInv /\ [Next]_vars => MatchInv'
<1> SUFFICES ASSUME MatchInv, [Next]_vars PROVE MatchInv'
  OBVIOUS
<1>0. TypeOK'
  BY TypeOKStep DEF MatchInv
<1> USE DEF MatchInv, ResultPhase, StoreMatchesLoad, NoAddrAbsent, FreshSeqs,
            SyncedInv, Seq
<1>1. ASSUME NEW r \in Runtimes, WriteDescriptors(r) PROVE MatchInv'
  BY <1>0, <1>1 DEF WriteDescriptors, load
<1>2. ASSUME NEW r \in Runtimes, WriteSeq(r) PROVE MatchInv'
  BY <1>0, <1>2 DEF WriteSeq, load
<1>3. ASSUME NEW r \in Runtimes, DeleteSeq(r) PROVE MatchInv'
  BY <1>0, <1>3 DEF DeleteSeq, load
<1>4. ASSUME NEW r \in Runtimes, EditConfigMap(r) PROVE MatchInv'
  BY <1>0, <1>4 DEF EditConfigMap, load
<1>5. ASSUME NEW f \in BOOLEAN, LoadSeqsFail(f) PROVE MatchInv'
  BY <1>0, <1>5 DEF LoadSeqsFail, source
<1>6. ASSUME NEW f \in BOOLEAN, LoadNoUpdate(f) PROVE MatchInv'
  <2>1. Updated(Seqs) = {} /\ Deleted(Seqs) = {}
    BY <1>6 DEF LoadNoUpdate, NoUpdate
  <2>2. StoreMatchesLoad'
    BY <1>6, <2>1, SeqsType DEF LoadNoUpdate, source, Updated, Deleted,
       List, TypeOK
  <2>3. Seqs' = Seqs
    BY <1>6 DEF LoadNoUpdate, source, Seqs
  <2>4. QED
    BY <1>0, <1>6, <2>2, <2>3 DEF LoadNoUpdate, source
<1>7. ASSUME NEW f \in BOOLEAN, LoadBegin(f) PROVE MatchInv'
  <2>1. StoreMatchesLoad'
    BY <1>7, SeqsType DEF LoadBegin, source, Updated, Deleted, DeleteAll,
       List, TypeOK
  <2>2. NoAddrAbsent'
    BY <1>7 DEF LoadBegin, DeleteAll, TypeOK
  <2>3. Seqs' = Seqs
    BY <1>7 DEF LoadBegin, source, Seqs
  <2>4. QED
    BY <1>0, <1>7, <2>1, <2>2, <2>3 DEF LoadBegin, source
<1>8. CASE LoadRuntimeConfigs
  BY <1>0, <1>8 DEF LoadRuntimeConfigs, source, Seqs
<1>9. CASE LoadRuntimeConfigsFail
  BY <1>0, <1>9 DEF LoadRuntimeConfigsFail, source
<1>10. ASSUME NEW r \in Runtimes, LoadNoRuntimeConfig(r) PROVE MatchInv'
  BY <1>0, <1>10 DEF LoadNoRuntimeConfig, source
<1>11. ASSUME NEW r \in Runtimes, LoadNoAddr(r) PROVE MatchInv'
  BY <1>0, <1>11 DEF LoadNoAddr, source, Seqs
<1>12. ASSUME NEW r \in Runtimes, LoadConfigsFail(r) PROVE MatchInv'
  BY <1>0, <1>12 DEF LoadConfigsFail, source
<1>13. ASSUME NEW r \in Runtimes, LoadConfigs(r) PROVE MatchInv'
  BY <1>0, <1>13 DEF LoadConfigs, SetEntry, source, Seqs, TypeOK
<1>14. CASE LoadRespond
  <2>1. Seqs' = Seqs /\ pc = "Update"
    BY <1>14 DEF LoadRespond, source, Seqs
  <2>2. (FreshSeqs /\ SyncedInv)'
    BY <1>14, <2>1, Zenon DEF LoadRespond
  <2>3. (ResultPhase /\ StoreMatchesLoad /\ NoAddrAbsent)'
    BY <1>14 DEF LoadRespond
  <2>4. QED
    BY <1>0, <2>2, <2>3
<1>15. CASE UNCHANGED vars
  BY <1>0, <1>15 DEF vars, Seqs
<1>16. QED
  BY <1>1, <1>2, <1>3, <1>4, <1>5, <1>6, <1>7, <1>8, <1>9, <1>10,
     <1>11, <1>12, <1>13, <1>14, <1>15
  DEF Next, Publisher, Loader

LEMMA MatchInvariant == Spec => []MatchInv
BY MatchInit, MatchStep, PTL DEF Spec
-----------------------------------------------------------------------------
(* Without an empty seq object, no seq Load reads is the text "" (0).      *)
SeqsNonZero ==
    /\ \A r \in Runtimes : seqObj[r] # 0
    /\ \A r \in DOMAIN seqs : seqs[r] # 0

LEMMA SeqsNonZeroInvariant ==
    ASSUME EmptySeqFile = FALSE
    PROVE  Spec => [](TypeOK /\ SeqsNonZero)
<1>1. Init => TypeOK /\ SeqsNonZero
  BY InitTypeOK DEF Init, SeqsNonZero
<1>2. TypeOK /\ SeqsNonZero /\ [Next]_vars => (TypeOK /\ SeqsNonZero)'
  <2> SUFFICES ASSUME TypeOK, SeqsNonZero, [Next]_vars
               PROVE  (TypeOK /\ SeqsNonZero)'
    OBVIOUS
  <2>0. TypeOK'
    BY TypeOKStep
  <2> USE DEF SeqsNonZero
  <2>1. ASSUME NEW r \in Runtimes, WriteSeq(r) PROVE SeqsNonZero'
    BY <2>1 DEF WriteSeq, load, TypeOK
  <2>2. \A r \in DOMAIN Seqs : Seqs[r] # 0
    BY DEF Seqs, TypeOK
  <2>3. ASSUME NEW f \in BOOLEAN, LoadNoUpdate(f) \/ LoadBegin(f)
        PROVE SeqsNonZero'
    <3>1. seqObj' = seqObj /\ seqs' = Seqs
      BY <2>3 DEF LoadNoUpdate, LoadBegin, source
    <3>2. QED
      BY <2>2, <3>1, Zenon
  <2>4. ASSUME NEW r \in Runtimes,
               WriteDescriptors(r) \/ DeleteSeq(r) \/ EditConfigMap(r)
        PROVE SeqsNonZero'
    BY <2>4 DEF WriteDescriptors, DeleteSeq, EditConfigMap, load, TypeOK
  <2>5. ASSUME NEW f \in BOOLEAN, LoadSeqsFail(f) PROVE SeqsNonZero'
    BY <2>5 DEF LoadSeqsFail, source
  <2>6. ASSUME LoadRuntimeConfigs \/ LoadRuntimeConfigsFail \/ LoadRespond
        PROVE  SeqsNonZero'
    <3>1. seqObj' = seqObj /\ seqs' = seqs
      BY <2>6 DEF LoadRuntimeConfigs, LoadRuntimeConfigsFail, LoadRespond,
         source
    <3>2. QED
      BY <3>1, Zenon
  <2>7. ASSUME NEW r \in Runtimes,
               LoadNoRuntimeConfig(r) \/ LoadNoAddr(r) \/ LoadConfigsFail(r)
                   \/ LoadConfigs(r)
        PROVE SeqsNonZero'
    BY <2>7 DEF LoadNoRuntimeConfig, LoadNoAddr, LoadConfigsFail, LoadConfigs,
       source
  <2>8. ASSUME UNCHANGED vars PROVE SeqsNonZero'
    <3>1. seqObj' = seqObj /\ seqs' = seqs
      BY <2>8 DEF vars
    <3>2. QED
      BY <3>1, Zenon
  <2>9. QED
    BY <2>0, <2>1, <2>3, <2>4, <2>5, <2>6, <2>7, <2>8
    DEF Next, Publisher, Loader
<1>3. QED
  BY <1>1, <1>2, PTL DEF Spec

(* When Load returns a response or ErrNoUpdate, the store holds exactly    *)
(* the addressed runtimes Seqs returned, each with the seq Seqs returned,  *)
(* however the publisher's writes and the failed Loads before it           *)
(* interleaved.  It needs the seq objects never to be empty: an empty seq  *)
(* equals ConfigStore.Seq's "" for an absent name (loader_emptyseq).       *)
THEOREM LoadMatchesSeqsInvariant ==
    ASSUME EmptySeqFile = FALSE
    PROVE  Spec => []LoadMatchesSeqs
<1>1. MatchInv /\ SeqsNonZero => LoadMatchesSeqs
  BY DEF MatchInv, SeqsNonZero, LoadMatchesSeqs, ResultPhase,
     StoreMatchesLoad, Seq, TypeOK
<1>2. QED
  BY <1>1, MatchInvariant, SeqsNonZeroInvariant, PTL

(* With every listed runtime addressed, right after a response and with no *)
(* change since, Load(force=false) whose Seqs call does not fail finds     *)
(* nothing to reload: Updated and Deleted are both empty.                  *)
LEMMA SyncedNoUpdate ==
    ASSUME MatchInv, synced, inMap \cap NoAddr = {}
    PROVE  NoUpdate(Seqs, FALSE)
<1>1. seqs = Seqs /\ updated = {} /\ result \in {"ok", "noupdate"}
  BY DEF MatchInv, SyncedInv, FreshSeqs, ResultPhase
<1>2. DOMAIN Seqs \cap NoAddr = {}
  BY SeqsType DEF MatchInv
<1>3. Updated(Seqs) = {}
  BY <1>1, <1>2, SeqsType DEF MatchInv, StoreMatchesLoad, Updated, TypeOK
<1>4. Deleted(Seqs) = {}
  BY <1>1, <1>2 DEF MatchInv, StoreMatchesLoad, NoAddrAbsent, Deleted, List
<1>5. QED
  BY <1>3, <1>4 DEF NoUpdate

(* Spec section 8 for config maps whose runtimes all have an address: the *)
(* second Load(force=false), with nothing changed in the bucket or config  *)
(* map and no read failure, returns ErrNoUpdate without starting a reload. *)
THEOREM SecondLoadNoUpdateAddressedHolds == Spec => SecondLoadNoUpdateAddressed
<1>1. MatchInv /\ [Next]_vars =>
        (synced /\ pc = "Idle" /\ inMap \cap NoAddr = {} /\ ~force'
            /\ failures' = failures => pc' = "Idle")
  <2> SUFFICES ASSUME MatchInv, [Next]_vars, synced, pc = "Idle",
                      inMap \cap NoAddr = {}, ~force', failures' = failures
               PROVE  pc' = "Idle"
    OBVIOUS
  <2>1. NoUpdate(Seqs, FALSE)
    BY SyncedNoUpdate
  <2>2. ASSUME NEW f \in BOOLEAN PROVE ~LoadBegin(f)
    <3> SUFFICES ASSUME LoadBegin(f) PROVE FALSE
      OBVIOUS
    <3>1. f
      BY <2>1, Zenon DEF LoadBegin, NoUpdate
    <3>2. force' = f
      BY DEF LoadBegin
    <3>3. QED
      BY <3>1, <3>2
  <2>3. ASSUME NEW f \in BOOLEAN PROVE ~LoadSeqsFail(f)
    BY DEF LoadSeqsFail, MatchInv, TypeOK
  <2>4. QED
    BY <2>2, <2>3 DEF Next, Publisher, Loader, vars, load, WriteDescriptors,
       WriteSeq, DeleteSeq, EditConfigMap, LoadNoUpdate, LoadRuntimeConfigs,
       LoadRuntimeConfigsFail, LoadNoRuntimeConfig, LoadNoAddr,
       LoadConfigsFail, LoadConfigs, LoadRespond
<1>2. QED
  BY <1>1, MatchInit, MatchStep, PTL DEF Spec, SecondLoadNoUpdateAddressed
=============================================================================
