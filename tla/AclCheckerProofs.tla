------------------------- MODULE AclCheckerProofs -------------------------
(***************************************************************************)
(* Proofs about acl.Checker for every number of groups, service accounts,  *)
(* callers and Set calls: the installed config's service accounts always   *)
(* have accounts when Set does not hold the lock, and "service account     *)
(* not found" needs a Set that started after FindGroup.                    *)
(***************************************************************************)
EXTENDS AclChecker, TLAPS

(* What Set has done so far while it holds the lock: the accounts it has   *)
(* created are still there, they are the ones pend names, and once the     *)
(* creation loop is over they are all of them.  While it creates, nothing  *)
(* is deleted, so the installed config stays covered.                      *)
SetProgress ==
    /\ spc # "idle" => seen \subseteq accounts
    /\ spc # "idle" => seen \subseteq SAsOf(pend)
    /\ spc = "delete" => SAsOf(pend) \subseteq seen
    /\ spc \in {"idle", "add"} => SAsOf(config) \subseteq accounts

(* A caller between FindGroup and its read of c.accounts found a group     *)
(* with a service account; if no Set has started since, the lock is free  *)
(* and that account is one the installed config names.                     *)
FoundOK ==
    \A r \in Reqs :
        /\ rset[r] <= sets
        /\ (rpc[r] = "found" /\ rset[r] = sets)
              => spc = "idle" /\ rsa[r] \in SAsOf(config)

IInv ==
    /\ TypeOK
    /\ SetProgress
    /\ FoundOK
    /\ NotFoundOnlyAfterConcurrentSet
    /\ AccountsMatchConfig

USE CheckerAssumption DEF Gids

-----------------------------------------------------------------------------
(* What a member of Configs is.                                            *)
LEMMA ConfigFacts ==
    ASSUME NEW cfg \in Configs
    PROVE  /\ DOMAIN cfg \subseteq Gids
           /\ \A g \in DOMAIN cfg : cfg[g] \in SAs \cup {NoSA}
           /\ \A g \in DOMAIN cfg : cfg[g] # NoSA => cfg[g] \in SAsOf(cfg)
BY DEF Configs, SAsOf

LEMMA InitIInv == Init => IInv
<1> SUFFICES ASSUME Init PROVE IInv
  OBVIOUS
<1>1. config \in Configs
  <2>1. config \in [{} -> SAs \cup {NoSA}]
    BY DEF Init
  <2>2. QED
    BY <2>1 DEF Configs
<1>2. SAsOf(config) = {}
  BY DEF Init, SAsOf
<1>3. TypeOK
  BY <1>1 DEF Init, TypeOK, Results
<1>4. SetProgress /\ FoundOK /\ NotFoundOnlyAfterConcurrentSet
  BY <1>2 DEF Init, SetProgress, FoundOK, NotFoundOnlyAfterConcurrentSet
<1>6. AccountsMatchConfig
  BY <1>2 DEF Init, AccountsMatchConfig
<1>5. QED
  BY <1>3, <1>4, <1>6 DEF IInv

-----------------------------------------------------------------------------
LEMMA NextIInv == IInv /\ [Next]_vars => IInv'
<1> SUFFICES ASSUME IInv, [Next]_vars PROVE IInv'
  OBVIOUS
<1> USE DEF IInv
<1>1. ASSUME NEW cfg \in Configs, SetBegin(cfg) PROVE IInv'
  BY <1>1 DEF SetBegin, TypeOK, SetProgress, FoundOK,
     NotFoundOnlyAfterConcurrentSet, AccountsMatchConfig
<1>2. ASSUME NEW g \in Gids, SetAdd(g) PROVE IInv'
  <2>1. g \in DOMAIN pend /\ pend[g] \in SAs
    BY <1>2, ConfigFacts DEF SetAdd, ToCreate, TypeOK
  <2>2. spc = "add"
    BY <1>2 DEF SetAdd
  <2>3. pend[g] \in SAsOf(pend)
    BY <2>1, ConfigFacts DEF TypeOK
  <2>4. QED
    BY <1>2, <2>1, <2>2, <2>3 DEF SetAdd, TypeOK, SetProgress, FoundOK,
       NotFoundOnlyAfterConcurrentSet, AccountsMatchConfig
<1>3. CASE SetAddDone
  <2>1. SAsOf(pend) \subseteq seen
    BY <1>3 DEF SetAddDone, ToCreate, SAsOf
  <2>2. QED
    BY <1>3, <2>1 DEF SetAddDone, TypeOK, SetProgress, FoundOK,
       NotFoundOnlyAfterConcurrentSet, AccountsMatchConfig
<1>4. ASSUME NEW sa \in SAs, SetDelete(sa) PROVE IInv'
  BY <1>4 DEF SetDelete, TypeOK, SetProgress, FoundOK,
     NotFoundOnlyAfterConcurrentSet, AccountsMatchConfig
<1>5. CASE SetEnd
  <2>1. accounts = seen /\ SAsOf(pend) \subseteq seen
    BY <1>5 DEF SetEnd, SetProgress
  <2>2. SAsOf(config') \subseteq accounts'
    BY <1>5, <2>1 DEF SetEnd, SetProgress
  <2>3. FoundOK'
    BY <1>5 DEF SetEnd, FoundOK
  <2>4. accounts' = SAsOf(config')
    BY <1>5, <2>1 DEF SetEnd, SetProgress
  <2>5. QED
    BY <1>5, <2>2, <2>3, <2>4 DEF SetEnd, TypeOK, SetProgress,
       NotFoundOnlyAfterConcurrentSet, AccountsMatchConfig
<1>6. ASSUME NEW r \in Reqs, Find(r) PROVE IInv'
  <2>1. spc = "idle" /\ UNCHANGED <<config, accounts, spc, pend, seen, sets, ret>>
    BY <1>6 DEF Find
  <2>2. \/ /\ UNCHANGED <<rpc, rsa, rset>>
           /\ \E x \in {"denied", "error", "euc"} : rres' = [rres EXCEPT ![r] = x]
        \/ \E g \in DOMAIN config :
              /\ config[g] # NoSA
              /\ rpc' = [rpc EXCEPT ![r] = "found"]
              /\ rsa' = [rsa EXCEPT ![r] = config[g]]
              /\ rset' = [rset EXCEPT ![r] = sets]
              /\ rres' = [rres EXCEPT ![r] = "none"]
    <3>1. PICK o \in [DOMAIN config -> CheckGroup] :
            \/ /\ FirstDecided(o) = {}
               /\ rres' \in {[rres EXCEPT ![r] = x] : x \in {"denied", "error"}}
               /\ UNCHANGED <<rpc, rsa, rset>>
            \/ \E g \in FirstDecided(o) :
                  \/ /\ o[g] = "error"
                     /\ rres' = [rres EXCEPT ![r] = "error"]
                     /\ UNCHANGED <<rpc, rsa, rset>>
                  \/ /\ o[g] = "match"
                     /\ g \in Rejects
                     /\ rres' = [rres EXCEPT ![r] = "denied"]
                     /\ UNCHANGED <<rpc, rsa, rset>>
                  \/ /\ o[g] = "match"
                     /\ g \notin Rejects
                     /\ config[g] = NoSA
                     /\ rres' = [rres EXCEPT ![r] = "euc"]
                     /\ UNCHANGED <<rpc, rsa, rset>>
                  \/ /\ o[g] = "match"
                     /\ g \notin Rejects
                     /\ config[g] # NoSA
                     /\ rpc' = [rpc EXCEPT ![r] = "found"]
                     /\ rsa' = [rsa EXCEPT ![r] = config[g]]
                     /\ rset' = [rset EXCEPT ![r] = sets]
                     /\ rres' = [rres EXCEPT ![r] = "none"]
      BY <1>6 DEF Find
    <3>2. FirstDecided(o) \subseteq DOMAIN config
      BY DEF FirstDecided
    <3>3. QED
      BY <3>1, <3>2
  <2>3. TypeOK'
    BY <2>1, <2>2, ConfigFacts DEF TypeOK, Results
  <2>4. FoundOK'
    BY <2>1, <2>2, ConfigFacts DEF TypeOK, FoundOK
  <2>5. NotFoundOnlyAfterConcurrentSet'
    BY <2>1, <2>2 DEF TypeOK, NotFoundOnlyAfterConcurrentSet
  <2>6. QED
    BY <2>1, <2>3, <2>4, <2>5 DEF SetProgress, AccountsMatchConfig
<1>7. ASSUME NEW r \in Reqs, ReadAccount(r) PROVE IInv'
  <2>1. rres'[r] = "notfound" => sets > rset[r]
    BY <1>7 DEF ReadAccount, TypeOK, SetProgress, FoundOK
  <2>2. NotFoundOnlyAfterConcurrentSet'
    BY <1>7, <2>1 DEF ReadAccount, TypeOK, NotFoundOnlyAfterConcurrentSet
  <2>3. QED
    BY <1>7, <2>2 DEF ReadAccount, TypeOK, Results, SetProgress, FoundOK,
       AccountsMatchConfig
<1>8. CASE UNCHANGED vars
  BY <1>8 DEF vars, TypeOK, SetProgress, FoundOK,
     NotFoundOnlyAfterConcurrentSet, AccountsMatchConfig, SAsOf
<1>9. QED
  BY <1>1, <1>2, <1>3, <1>4, <1>5, <1>6, <1>7, <1>8 DEF Next, Setter

-----------------------------------------------------------------------------
(* Whatever the configs, the failures of Pool.New and the interleaving of  *)
(* Set with CheckToken, the service accounts of the installed config have  *)
(* accounts whenever Set does not hold the lock.                           *)
THEOREM AccountsCoverConfigInvariant == Spec => []AccountsCoverConfig
<1>1. IInv => AccountsCoverConfig
  BY DEF IInv, SetProgress, AccountsCoverConfig
<1>2. QED
  BY InitIInv, NextIInv, <1>1, PTL DEF Spec

(* CheckToken's "service account not found" is only ever returned to a     *)
(* caller whose group lookup was overtaken by a later Set.                *)
THEOREM NotFoundOnlyAfterConcurrentSetInvariant ==
    Spec => []NotFoundOnlyAfterConcurrentSet
<1>1. IInv => NotFoundOnlyAfterConcurrentSet
  BY DEF IInv
<1>2. QED
  BY InitIInv, NextIInv, <1>1, PTL DEF Spec

(* After a Set that returned nil, with the lock released, c.accounts holds *)
(* exactly the service accounts of the installed config: Set's deletion    *)
(* loop removed every account the new config does not name, whatever the  *)
(* Set calls before it left behind.                                        *)
THEOREM AccountsMatchConfigInvariant == Spec => []AccountsMatchConfig
<1>1. IInv => AccountsMatchConfig
  BY DEF IInv
<1>2. QED
  BY InitIInv, NextIInv, <1>1, PTL DEF Spec
(* The checker's state keeps its types: the config, the accounts map, the  *)
(* lock holder's progress and the callers' steps, for every number of      *)
(* groups, service accounts, callers and Set calls.                        *)
THEOREM AclTypeCorrect == Spec => []TypeOK
<1>1. IInv => TypeOK
  BY DEF IInv
<1>2. QED
  BY InitIInv, NextIInv, <1>1, PTL DEF Spec
=============================================================================
