-------------------------- MODULE DescriptorFilter --------------------------
(***************************************************************************)
(* The filter loadConfigs applies to every listed object name              *)
(* (src/cmd/remoteexec_proxy/main.go): checkPrebuilt, which finds the     *)
(* prebuilt item's name from the first "/descriptors" in the name and      *)
(* checks it against the runtime's deny and allow prefixes, and the check  *)
(* that the object's parent directory is "descriptors".                    *)
(*                                                                         *)
(* An object name is a sequence of path components; a component is a     *)
(* model value and strings.HasPrefix is a relation between components and *)
(* prefixes.  strings.Index(name, "/descriptors") finds the first          *)
(* component after the first one that starts with "descriptors".  Names   *)
(* have no empty components and do not start with "/".                     *)
(*                                                                         *)
(* The module also holds the other pure checks of the DescriptorFetcher:   *)
(* the checks a reader goroutine makes on the descriptor it has read      *)
(* (checkSelector against rc.DisallowedCommands, a setup, a known path    *)
(* type) and the platform property merge (mergePlatformProperties).       *)
(* A selector field is a model value or Empty (the empty string); a       *)
(* platform property is a name and a value.                               *)
(***************************************************************************)
EXTENDS Naturals, Sequences
SX == INSTANCE SequencesExt

CONSTANTS
    Comps,      \* path components
    Desc,       \* the component "descriptors"
    Prefixes,   \* the prefixes deny and allow lists may hold
    PrefixOf,   \* <<c, p>> \in PrefixOf iff strings.HasPrefix(c, p)
    MaxLen,     \* the longest object name considered
    Empty,      \* the empty string
    SelVals,    \* the values of a selector field, Empty among them
    NoSelector, \* d.Selector == nil
    MaxCmds,    \* the longest rc.DisallowedCommands considered
    PropNames,  \* platform property names
    PropVals,   \* platform property values
    MaxProps,   \* the longest property list considered
    NoPlatform  \* rc.Platform == nil

ASSUME FilterAssumption ==
    /\ Desc \in Comps
    /\ Desc \in Prefixes
    /\ PrefixOf \subseteq Comps \X Prefixes
    /\ <<Desc, Desc>> \in PrefixOf   \* strings.HasPrefix(s, s) holds
    /\ MaxLen \in Nat
    /\ Empty \in SelVals
    /\ MaxCmds \in Nat
    /\ MaxProps \in Nat

HasPrefix(comp, pfx) == <<comp, pfx>> \in PrefixOf

\* The object names: <runtime>/.../<hash>.
Names == UNION {[1..n -> Comps] : n \in 1..MaxLen}

\* Sequences of at most n elements of S.
SeqsUpTo(S, n) == UNION {[1..k -> S] : k \in 0..n}

\* cmdpb.Selector, and the deny entries of rc.DisallowedCommands, which
\* have the same fields.
SelFields == {"name", "version", "target", "binaryHash"}
Selectors == [SelFields -> SelVals]

\* d.Selector == nil is no selector.
ASSUME SelectorAssumption == NoSelector \notin Selectors

\* A descriptor as the reader goroutine sees it: its selector and whether
\* d.Setup is nil ("none") or its PathType is UNKNOWN_PATH_TYPE.
Descriptors == [selector : Selectors \cup {NoSelector},
                setup : {"none", "unknown", "known"}]

Props == [name : PropNames, value : PropVals]

VARIABLES
    call,       \* the check this state is a call of: "prebuilt", "descriptor", "merge"
    name,       \* the listed object's name
    deny,       \* rc.DisallowedPrebuilts
    allow,      \* rc.AllowedPrebuilts
    descriptor, \* the descriptor a reader goroutine has read
    cmds,       \* rc.DisallowedCommands
    target,     \* rbePlatform.Properties
    source      \* platform.Properties, or NoPlatform

vars == <<call, name, deny, allow, descriptor, cmds, target, source>>

TypeOK ==
    /\ call \in {"prebuilt", "descriptor", "merge"}
    /\ name \in Names
    /\ deny \subseteq Prefixes
    /\ allow \subseteq Prefixes
    /\ descriptor \in Descriptors
    /\ cmds \in SeqsUpTo(Selectors, MaxCmds)
    /\ target \in SeqsUpTo(Props, MaxProps)
    /\ source \in SeqsUpTo(Props, MaxProps) \cup {NoPlatform}

-----------------------------------------------------------------------------
(* The code                                                                *)

\* The positions where "/descriptors" occurs: a component, not the first,
\* that starts with "descriptors".
DescAt(n) == {k \in 2..Len(n) : HasPrefix(n[k], Desc)}

\* prebuiltName := path.Base(objName[:i]), i the first "/descriptors".
PrebuiltName(n) == n[(CHOOSE k \in DescAt(n) : \A j \in DescAt(n) : k <= j) - 1]

\* Mutant: the len(rc.AllowedPrebuilts) == 0 early return is dropped.
PrebuiltAllowedNoEmptyCheck(item, d, a) ==
    /\ \A p \in d : ~HasPrefix(item, p)
    /\ \E p \in a : HasPrefix(item, p)

\* The prebuilt name passes the deny prefixes, then the allow prefixes
\* when there are any.
PrebuiltAllowed(item, d, a) ==
    /\ \A p \in d : ~HasPrefix(item, p)
    /\ a # {} => \E p \in a : HasPrefix(item, p)

\* checkPrebuilt returns nil.
CheckPrebuilt(n, d, a) ==
    /\ DescAt(n) # {}
    /\ PrebuiltAllowed(PrebuiltName(n), d, a)

\* path.Base(path.Dir(name)) = "descriptors".
ParentIsDescriptors(n) == Len(n) >= 2 /\ n[Len(n) - 1] = Desc

\* The listing loop keeps the object (appends it to attrsList).
Listed(n, d, a) == CheckPrebuilt(n, d, a) /\ ParentIsDescriptors(n)

\* Mutant: the s.Name != "" guards are dropped, so an unset field of a
\* deny entry matches an unset field of the selector.
DisallowedByNoEmptyCheck(s, sel) == \E f \in SelFields : s[f] = sel[f]

\* checkSelector's loop body: the deny entry s rejects the selector when a
\* field set in s equals the selector's.
DisallowedBy(s, sel) == \E f \in SelFields : s[f] # Empty /\ s[f] = sel[f]

\* checkSelector returns nil.
CheckSelector(cs, sel) ==
    /\ sel # NoSelector
    /\ \A i \in 1..Len(cs) : ~DisallowedBy(cs[i], sel)

\* The reader goroutine fills its slot of confList: checkSelector returns
\* nil, d.Setup is set and its PathType is known.
DescriptorKept(d, cs) == CheckSelector(cs, d.selector) /\ d.setup = "known"

\* Mutant: the m[p.Name] check is dropped and every property is appended.
MergeNoCheck(t, s) == IF s = NoPlatform THEN t ELSE t \o s

\* mergePlatformProperties: m holds the names rbePlatform has on entry; a
\* property of platform whose name is not in m is appended.
MergePlatformProperties(t, s) ==
    IF s = NoPlatform THEN t
    ELSE LET m == {t[i].name : i \in DOMAIN t}
         IN  SX!FoldLeft(LAMBDA acc, p : IF p.name \in m THEN acc ELSE Append(acc, p),
                      t, s)

-----------------------------------------------------------------------------
(* The specification (section 4.3 step 1): keep an object whose parent     *)
(* directory is "descriptors" and whose prebuilt item, the directory two   *)
(* levels above it, passes the deny and allow prefixes.                     *)
SpecListed(n, d, a) ==
    /\ Len(n) >= 3
    /\ n[Len(n) - 1] = Desc
    /\ LET item == n[Len(n) - 2]
       IN  /\ ~\E p \in d : HasPrefix(item, p)
           /\ ~(a # {} /\ \A p \in a : ~HasPrefix(item, p))

\* A name laid out as the publisher writes it: no component but the
\* descriptors directory starts with "descriptors".
Conforming(n) == \A k \in 1..Len(n) : k # Len(n) - 1 => ~HasPrefix(n[k], Desc)

(* Section 4.3 step 3: a read descriptor is dropped when its selector     *)
(* matches a deny-list entry (exact equality on a field the entry sets),  *)
(* when it lacks setup information or when its path-resolution mode is    *)
(* unknown.  A descriptor carries a selector (section 3).                  *)
SpecDescriptorKept(d, cs) ==
    /\ d.selector \in Selectors
    /\ d.setup = "known"
    /\ \A e \in SX!ToSet(cs) :
          {f \in SelFields : e[f] # Empty} \cap {f \in SelFields : e[f] = d.selector[f]} = {}

(* Section 4.3, the property-merge helper: a name already in the target   *)
(* is left alone (target wins); only properties whose name is absent from *)
(* the target are appended, in the source's order.                         *)
SpecMerge(t, s) ==
    IF s = NoPlatform THEN t
    ELSE t \o SelectSeq(s, LAMBDA p : \A i \in DOMAIN t : t[i].name # p.name)

-----------------------------------------------------------------------------
\* Each check is a function of its arguments: a state is one call of one of
\* them, with any arguments, and nothing changes after it.  The arguments
\* of the other checks keep fixed values.
NoDesc == [selector |-> NoSelector, setup |-> "none"]

PrebuiltCall ==
    /\ call = "prebuilt"
    /\ name \in Names
    /\ deny \in SUBSET Prefixes
    /\ allow \in SUBSET Prefixes
    /\ descriptor = NoDesc /\ cmds = << >> /\ target = << >> /\ source = NoPlatform

DescriptorCall ==
    /\ call = "descriptor"
    /\ descriptor \in Descriptors
    /\ cmds \in SeqsUpTo(Selectors, MaxCmds)
    /\ name = <<Desc>> /\ deny = {} /\ allow = {} /\ target = << >> /\ source = NoPlatform

MergeCall ==
    /\ call = "merge"
    /\ target \in SeqsUpTo(Props, MaxProps)
    /\ source \in SeqsUpTo(Props, MaxProps) \cup {NoPlatform}
    /\ name = <<Desc>> /\ deny = {} /\ allow = {} /\ descriptor = NoDesc /\ cmds = << >>

Init == PrebuiltCall \/ DescriptorCall \/ MergeCall

Next == UNCHANGED vars

Spec == Init /\ [][Next]_vars

-----------------------------------------------------------------------------
(* For names laid out as <runtime>/.../<prebuilt>/descriptors/<hash>, the   *)
(* listing loop keeps exactly the objects the specification keeps, for    *)
(* every deny and allow list.                                               *)
FilterMatchesSpec ==
    (call = "prebuilt" /\ Conforming(name)) =>
        (Listed(name, deny, allow) <=> SpecListed(name, deny, allow))

(* For every object name with at least a runtime, a prebuilt item and a  *)
(* descriptors directory, however its directories are named, the listing  *)
(* loop keeps exactly the objects the specification keeps: checkPrebuilt  *)
(* checks the directory above the object's own descriptors directory      *)
(* against the deny and allow prefixes.                                    *)
FilterMatchesSpecAllNames ==
    (call = "prebuilt" /\ Len(name) >= 3) =>
        (Listed(name, deny, allow) <=> SpecListed(name, deny, allow))

(* A reader goroutine keeps exactly the descriptors the specification     *)
(* keeps, for every selector, setup and rc.DisallowedCommands: checkSelector*)
(* with its unset-field guards and the setup checks drop the right ones.  *)
DescriptorCheckMatchesSpec ==
    call = "descriptor" =>
        (DescriptorKept(descriptor, cmds) <=> SpecDescriptorKept(descriptor, cmds))

(* mergePlatformProperties overlays the source properties on the target   *)
(* as the specification says, for every pair of property lists, repeated   *)
(* names and a nil platform included.                                      *)
MergeMatchesSpec ==
    call = "merge" => MergePlatformProperties(target, source) = SpecMerge(target, source)
=============================================================================
