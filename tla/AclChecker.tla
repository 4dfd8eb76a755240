---------------------------- MODULE AclChecker ----------------------------
(***************************************************************************)
(* acl.Checker (src/auth/acl/checker.go): Set installs an ACL config and   *)
(* the service accounts its groups name; CheckToken finds the caller's     *)
(* group and hands out that group's service account token.                 *)
(*                                                                         *)
(* Set runs under the write lock and is split at every write to the        *)
(* accounts map: one step per service account it creates (Pool.New may    *)
(* fail and return early, leaving the map half updated and the config     *)
(* unchanged), one step per stale account it deletes, and the step that   *)
(* installs the config.  FindGroup runs under the read lock and is one     *)
(* step.  CheckToken then reads c.accounts[g.ServiceAccount] after the     *)
(* read lock is released: a step of its own, which may fall between Set's  *)
(* writes.                                                                 *)
(*                                                                         *)
(* A config is a function from the groups it lists to their service        *)
(* account (NoSA for a group that uses the caller's own token).  Groups    *)
(* are numbered in the order config.Groups lists them.  The values in the  *)
(* accounts map are abstracted to the keys present: Set stores a key in   *)
(* both of its branches (updated or "no change").  Which group matches a   *)
(* token (audience, emails, domains, AuthDB membership) is a choice made   *)
(* per group, and FindGroup takes the first group that matches or fails.  *)
(***************************************************************************)
EXTENDS Naturals, FiniteSets

CONSTANTS
    NGroups,   \* groups a config may list, numbered 1..NGroups
    SAs,       \* service account names
    NoSA,      \* the empty ServiceAccount: use the caller's token
    Rejects,   \* the groups with Reject set
    Reqs,      \* concurrent CheckToken callers
    MaxSets    \* bound on the calls of Set

ASSUME CheckerAssumption ==
    /\ NGroups \in Nat
    /\ NoSA \notin SAs
    /\ Rejects \subseteq 1..NGroups
    /\ MaxSets \in Nat

Gids == 1..NGroups

\* Every config Set may be given.
Configs == UNION {[G -> SAs \cup {NoSA}] : G \in SUBSET Gids}

\* The service accounts a config names.
SAsOf(cfg) == {cfg[g] : g \in DOMAIN cfg} \ {NoSA}

Results == {"none", "denied", "error", "euc", "sa", "notfound"}

VARIABLES
    config,    \* c.config: the installed config (empty before any Set)
    accounts,  \* the keys of c.accounts
    spc,       \* Set: "idle" (lock free), "add" (creating), "delete"
    pend,      \* the config argument of the running Set
    seen,      \* Set's seen map
    sets,      \* calls of Set started so far
    ret,       \* what the last Set returned: "none", "ok" or "error"
    rpc,       \* rpc[r]: "idle", or "found" between FindGroup and the read
    rsa,       \* rsa[r]: the service account of the group found
    rset,      \* rset[r]: the value of sets when the group was found
    rres       \* rres[r]: what the last CheckToken of r returned, "none"
               \* while one is in progress

vars == <<config, accounts, spc, pend, seen, sets, ret, rpc, rsa, rset, rres>>

TypeOK ==
    /\ config \in Configs
    /\ accounts \subseteq SAs
    /\ spc \in {"idle", "add", "delete"}
    /\ pend \in Configs
    /\ seen \subseteq SAs
    /\ sets \in 0..MaxSets
    /\ ret \in {"none", "ok", "error"}
    /\ rpc \in [Reqs -> {"idle", "found"}]
    /\ rsa \in [Reqs -> SAs \cup {NoSA}]
    /\ rset \in [Reqs -> 0..MaxSets]
    /\ rres \in [Reqs -> Results]

Init ==
    /\ config = [g \in {} |-> NoSA]
    /\ accounts = {}
    /\ spc = "idle"
    /\ pend = config
    /\ seen = {}
    /\ sets = 0
    /\ ret = "none"
    /\ rpc = [r \in Reqs |-> "idle"]
    /\ rsa = [r \in Reqs |-> NoSA]
    /\ rset = [r \in Reqs |-> 0]
    /\ rres = [r \in Reqs |-> "none"]

-----------------------------------------------------------------------------
(* Set                                                                     *)

\* Mutant: the config is installed before the accounts are created.
SetBeginInstallsConfig(cfg) ==
    /\ spc = "idle"
    /\ sets < MaxSets
    /\ spc' = "add"
    /\ pend' = cfg
    /\ config' = cfg
    /\ seen' = {}
    /\ sets' = sets + 1
    /\ UNCHANGED <<accounts, ret, rpc, rsa, rset, rres>>

\* Set takes the write lock: no FindGroup holds the read lock, as FindGroup
\* is one step.
SetBegin(cfg) ==
    /\ spc = "idle"
    /\ sets < MaxSets
    /\ spc' = "add"
    /\ pend' = cfg
    /\ seen' = {}
    /\ sets' = sets + 1
    /\ UNCHANGED <<config, accounts, ret, rpc, rsa, rset, rres>>

\* Mutant: the loop does not skip groups without a service account.
ToCreateKeepEmpty == {g \in DOMAIN pend : pend[g] \notin seen}

\* The groups of the loop still to create an account for: those with a
\* service account not yet seen.
ToCreate == {g \in DOMAIN pend : pend[g] # NoSA /\ pend[g] \notin seen}

\* The loop reaches group g, the first left: Pool.New either fails, and Set
\* returns the error with the accounts created so far kept and the config
\* unchanged, or the account is stored.
SetAdd(g) ==
    /\ spc = "add"
    /\ g \in ToCreate
    /\ \A h \in ToCreate : g <= h
    /\ \/ /\ spc' = "idle"
          /\ ret' = "error"
          /\ UNCHANGED <<accounts, seen>>
       \/ /\ accounts' = accounts \cup {pend[g]}
          /\ seen' = seen \cup {pend[g]}
          /\ UNCHANGED <<spc, ret>>
    /\ UNCHANGED <<config, pend, sets, rpc, rsa, rset, rres>>

\* The creation loop ends.
SetAddDone ==
    /\ spc = "add"
    /\ ToCreate = {}
    /\ spc' = "delete"
    /\ UNCHANGED <<config, accounts, pend, seen, sets, ret, rpc, rsa, rset, rres>>

\* The range over c.accounts deletes an account not seen.
SetDelete(sa) ==
    /\ spc = "delete"
    /\ sa \in accounts \ seen
    /\ accounts' = accounts \ {sa}
    /\ UNCHANGED <<config, spc, pend, seen, sets, ret, rpc, rsa, rset, rres>>

\* Mutant: the config is installed without the deletion loop.
SetEndNoDelete ==
    /\ spc = "delete"
    /\ config' = pend
    /\ spc' = "idle"
    /\ ret' = "ok"
    /\ UNCHANGED <<accounts, pend, seen, sets, rpc, rsa, rset, rres>>

\* The range is over and the config is installed; the lock is released.
SetEnd ==
    /\ spc = "delete"
    /\ accounts \subseteq seen
    /\ config' = pend
    /\ spc' = "idle"
    /\ ret' = "ok"
    /\ UNCHANGED <<accounts, pend, seen, sets, rpc, rsa, rset, rres>>

-----------------------------------------------------------------------------
(* CheckToken                                                              *)

\* Mutant: FindGroup without the read lock.
FindNoLock(r) ==
    /\ rpc[r] = "idle"
    /\ \/ /\ rres' = [rres EXCEPT ![r] = "denied"]
          /\ UNCHANGED <<rpc, rsa, rset>>
       \/ \E g \in DOMAIN config :
             /\ g \notin Rejects
             /\ config[g] # NoSA
             /\ rpc' = [rpc EXCEPT ![r] = "found"]
             /\ rsa' = [rsa EXCEPT ![r] = config[g]]
             /\ rset' = [rset EXCEPT ![r] = sets]
             /\ rres' = [rres EXCEPT ![r] = "none"]
    /\ UNCHANGED <<config, accounts, spc, pend, seen, sets, ret>>

\* What checkGroup says of a group: the token's audience and email (emails,
\* domains, or AuthDB membership when the group lists neither) match or do
\* not, or the AuthDB lookup fails.
CheckGroup == {"match", "nomatch", "error"}

\* FindGroup's loop, given checkGroup's outcome o[g] for each group: the
\* first group whose check did not say "nomatch" ends it (empty if none).
FirstDecided(o) ==
    {g \in DOMAIN o : /\ o[g] # "nomatch"
                      /\ \A h \in DOMAIN o : h < g => o[h] = "nomatch"}

\* FindGroup under the read lock, and what CheckToken does with its result
\* without touching the checker: no matching group (PermissionDenied, or
\* the context's error if it has ended meanwhile), an AuthDB error, a rejected group, a group using the caller's
\* token, or a group with a service account, which the next step looks up.
Find(r) ==
    /\ rpc[r] = "idle"
    /\ spc = "idle"
    /\ \E o \in [DOMAIN config -> CheckGroup] :
          \/ /\ FirstDecided(o) = {}
             /\ rres' \in {[rres EXCEPT ![r] = x] : x \in {"denied", "error"}}
             /\ UNCHANGED <<rpc, rsa, rset>>
          \/ \E g \in FirstDecided(o) :
                \/ /\ o[g] = "error"
                   /\ rres' = [rres EXCEPT ![r] = "error"]
                   /\ UNCHANGED <<rpc, rsa, rset>>
                \/ /\ o[g] = "match"
                   /\ g \in Rejects
                   /\ rres' = [rres EXCEPT ![r] = "denied"]
                   /\ UNCHANGED <<rpc, rsa, rset>>
                \/ /\ o[g] = "match"
                   /\ g \notin Rejects
                   /\ config[g] = NoSA
                   /\ rres' = [rres EXCEPT ![r] = "euc"]
                   /\ UNCHANGED <<rpc, rsa, rset>>
                \/ /\ o[g] = "match"
                   /\ g \notin Rejects
                   /\ config[g] # NoSA
                   /\ rpc' = [rpc EXCEPT ![r] = "found"]
                   /\ rsa' = [rsa EXCEPT ![r] = config[g]]
                   /\ rset' = [rset EXCEPT ![r] = sets]
                   /\ rres' = [rres EXCEPT ![r] = "none"]
    /\ UNCHANGED <<config, accounts, spc, pend, seen, sets, ret>>

\* sa := c.accounts[g.ServiceAccount], outside any lock; then sa.Token.
ReadAccount(r) ==
    /\ rpc[r] = "found"
    /\ rpc' = [rpc EXCEPT ![r] = "idle"]
    /\ \/ /\ rsa[r] \notin accounts
          /\ rres' = [rres EXCEPT ![r] = "notfound"]
       \/ /\ rsa[r] \in accounts
          /\ rres' \in {[rres EXCEPT ![r] = x] : x \in {"sa", "error"}}
    /\ UNCHANGED <<config, accounts, spc, pend, seen, sets, ret, rsa, rset>>

-----------------------------------------------------------------------------
Setter ==
    \/ \E cfg \in Configs : SetBegin(cfg)
    \/ \E g \in Gids : SetAdd(g)
    \/ SetAddDone
    \/ \E sa \in SAs : SetDelete(sa)
    \/ SetEnd

Next ==
    \/ Setter
    \/ \E r \in Reqs : Find(r) \/ ReadAccount(r)

Spec == Init /\ [][Next]_vars

-----------------------------------------------------------------------------
(* Properties                                                              *)

(* Whenever Set does not hold the lock, every service account the          *)
(* installed config names has an account: a Set whose Pool.New fails      *)
(* part way keeps the old config and leaves its accounts in place.        *)
AccountsCoverConfig ==
    spc = "idle" => SAsOf(config) \subseteq accounts

(* After a Set that returned nil, the accounts are exactly those the      *)
(* config names: the deletion loop leaves no account of an older config. *)
AccountsMatchConfig ==
    (spc = "idle" /\ ret = "ok")
        => accounts = SAsOf(config)

(* CheckToken answers "service account not found" only when a Set has     *)
(* started since FindGroup found the group: with no concurrent Set the    *)
(* group's account is always there.                                       *)
NotFoundOnlyAfterConcurrentSet ==
    \A r \in Reqs : rres[r] = "notfound" => sets > rset[r]

(* The read of c.accounts in CheckToken never overlaps a write of Set.    *)
(* Go maps are not safe for a read concurrent with a write.               *)
NoUnlockedAccountsRead ==
    [][\A r \in Reqs : rpc[r] = "found" /\ rpc'[r] = "idle" => spc = "idle"]_vars
=============================================================================
