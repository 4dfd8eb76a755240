--------------------- MODULE DescriptorFilterProofs ---------------------
(***************************************************************************)
(* Proofs that the listing filter and the reader goroutine's checks agree  *)
(* with the specification's statement of them for every object name,      *)
(* every deny and allow list, every selector and every                    *)
(* rc.DisallowedCommands: no bound on the name's length, the number of    *)
(* components or prefixes, or the length of the deny list.  The property  *)
(* merge is left to TLC: it is a fold, and what a fold computes for every *)
(* input is an induction the provers cannot do.                           *)
(***************************************************************************)
EXTENDS DescriptorFilter, TLAPS

USE FilterAssumption, SelectorAssumption

-----------------------------------------------------------------------------
(* In a conforming name the only component that may start with           *)
(* "descriptors" is the parent directory, so strings.Index finds that one, *)
(* when the name has a component before it.                                *)
LEMMA ConformingDescAt ==
    ASSUME NEW n \in Names, Conforming(n)
    PROVE  DescAt(n) = IF Len(n) >= 3 /\ HasPrefix(n[Len(n) - 1], Desc)
                       THEN {Len(n) - 1} ELSE {}
<1>1. n \in Seq(Comps) /\ Len(n) \in Nat
  BY DEF Names
<1>2. ASSUME NEW k \in DescAt(n) PROVE k = Len(n) - 1
  BY <1>1 DEF DescAt, Conforming
<1>3. Len(n) >= 3 /\ HasPrefix(n[Len(n) - 1], Desc) => Len(n) - 1 \in DescAt(n)
  BY <1>1 DEF DescAt
<1>4. Len(n) - 1 \in DescAt(n) => Len(n) >= 3 /\ HasPrefix(n[Len(n) - 1], Desc)
  BY <1>1 DEF DescAt
<1>5. QED
  BY <1>2, <1>3, <1>4

(* checkPrebuilt then reads the prebuilt name two levels above the object. *)
LEMMA ConformingPrebuiltName ==
    ASSUME NEW n \in Names, Conforming(n), Len(n) >= 3,
           HasPrefix(n[Len(n) - 1], Desc)
    PROVE  PrebuiltName(n) = n[Len(n) - 2]
<1>1. Len(n) \in Nat
  BY DEF Names
<1>2. DescAt(n) = {Len(n) - 1}
  BY ConformingDescAt
<1>3. (CHOOSE k \in DescAt(n) : \A j \in DescAt(n) : k <= j) = Len(n) - 1
  <2>1. \E k \in DescAt(n) : \A j \in DescAt(n) : k <= j
    BY <1>1, <1>2
  <2>2. \A k \in DescAt(n) : k = Len(n) - 1
    BY <1>2
  <2>3. QED
    BY <2>1, <2>2, Zenon
<1>4. PrebuiltName(n) = n[(CHOOSE k \in DescAt(n) : \A j \in DescAt(n) : k <= j) - 1]
  BY DEF PrebuiltName
<1>5. (Len(n) - 1) - 1 = Len(n) - 2
  BY <1>1
<1>6. QED
  BY <1>3, <1>4, <1>5, Zenon

(* For names laid out as the publisher writes them, the listing loop keeps  *)
(* exactly the objects spec 4.3 step 1 keeps, for every deny and allow     *)
(* list: checkPrebuilt's first "/descriptors" is the parent directory.     *)
THEOREM FilterAgrees ==
    ASSUME NEW n \in Names, NEW d \in SUBSET Prefixes, NEW a \in SUBSET Prefixes,
           Conforming(n)
    PROVE  Listed(n, d, a) <=> SpecListed(n, d, a)
<1>1. n \in Seq(Comps) /\ Len(n) \in Nat
  BY DEF Names
<1>2. CASE Len(n) >= 3 /\ n[Len(n) - 1] = Desc
  <2>0. HasPrefix(n[Len(n) - 1], Desc)
    BY <1>2 DEF HasPrefix
  <2>1. DescAt(n) # {}
    BY <1>2, <2>0, ConformingDescAt
  <2>2. PrebuiltName(n) = n[Len(n) - 2]
    BY <1>2, <2>0, ConformingPrebuiltName
  <2>3. QED
    BY <1>2, <2>1, <2>2 DEF Listed, CheckPrebuilt, PrebuiltAllowed,
       ParentIsDescriptors, SpecListed
<1>3. CASE ~(Len(n) >= 3 /\ n[Len(n) - 1] = Desc)
  <2>1. ~Listed(n, d, a)
    BY <1>1, <1>3, ConformingDescAt DEF Listed, CheckPrebuilt,
       ParentIsDescriptors
  <2>2. ~SpecListed(n, d, a)
    BY <1>3 DEF SpecListed
  <2>3. QED
    BY <2>1, <2>2
<1>4. QED
  BY <1>2, <1>3

(* A reader goroutine keeps exactly the descriptors spec 4.3 step 3 keeps,  *)
(* for every selector, setup and deny list of any length: checkSelector's  *)
(* loop over rc.DisallowedCommands with its s.X != "" guards is the set    *)
(* statement.                                                              *)
THEOREM DescriptorCheckAgrees ==
    ASSUME NEW dsc \in Descriptors, NEW cs \in Seq(Selectors)
    PROVE  DescriptorKept(dsc, cs) <=> SpecDescriptorKept(dsc, cs)
<1>1. SX!ToSet(cs) = {cs[i] : i \in 1..Len(cs)}
  BY DEF SX!ToSet, SX!Range
<1>2. CASE dsc.selector = NoSelector
  BY <1>2 DEF DescriptorKept, CheckSelector, SpecDescriptorKept
<1>3. CASE dsc.selector \in Selectors
  BY <1>1, <1>3 DEF DescriptorKept, CheckSelector, DisallowedBy,
     SpecDescriptorKept, Selectors
<1>4. QED
  BY <1>2, <1>3 DEF Descriptors
-----------------------------------------------------------------------------
(* A sequence of at most n elements of S is a sequence of S.               *)
LEMMA SeqsUpToSeq ==
    ASSUME NEW S, NEW n \in Nat, NEW s \in SeqsUpTo(S, n)
    PROVE  s \in Seq(S)
BY DEF SeqsUpTo

(* The listing loop keeps exactly the objects spec 4.3 step 1 keeps, for   *)
(* every conforming name and every deny and allow list (filter_main).      *)
(* Each state is one call and nothing changes after it, so what holds of   *)
(* every call holds always.                                                *)
THEOREM FilterMatchesSpecInvariant == Spec => []FilterMatchesSpec
<1>1. Init => FilterMatchesSpec
  <2> SUFFICES ASSUME Init, call = "prebuilt", Conforming(name)
               PROVE  Listed(name, deny, allow) <=> SpecListed(name, deny, allow)
    BY DEF FilterMatchesSpec
  <2>1. PrebuiltCall
    BY DEF Init, DescriptorCall, MergeCall
  <2>2. QED
    BY <2>1, FilterAgrees DEF PrebuiltCall
<1>2. FilterMatchesSpec /\ [Next]_vars => FilterMatchesSpec'
  BY DEF Next, vars, FilterMatchesSpec
<1>3. QED
  BY <1>1, <1>2, PTL DEF Spec

(* A reader goroutine keeps exactly the descriptors spec 4.3 step 3 keeps,  *)
(* for every descriptor and rc.DisallowedCommands (filter_main).           *)
THEOREM DescriptorCheckMatchesSpecInvariant == Spec => []DescriptorCheckMatchesSpec
<1>1. Init => DescriptorCheckMatchesSpec
  <2> SUFFICES ASSUME Init, call = "descriptor"
               PROVE  DescriptorKept(descriptor, cmds)
                          <=> SpecDescriptorKept(descriptor, cmds)
    BY DEF DescriptorCheckMatchesSpec
  <2>1. DescriptorCall
    BY DEF Init, PrebuiltCall, MergeCall
  <2>2. cmds \in Seq(Selectors)
    BY <2>1, SeqsUpToSeq DEF DescriptorCall
  <2>3. QED
    BY <2>1, <2>2, DescriptorCheckAgrees DEF DescriptorCall
<1>2. DescriptorCheckMatchesSpec /\ [Next]_vars => DescriptorCheckMatchesSpec'
  BY DEF Next, vars, DescriptorCheckMatchesSpec
<1>3. QED
  BY <1>1, <1>2, PTL DEF Spec
=============================================================================
