-------------------------- MODULE DescriptorFetch --------------------------
(***************************************************************************)
(* What loadConfigs (src/cmd/remoteexec_proxy/main.go lines 1254-1365)     *)
(* promises, as one atomic step: given the objects listed under a         *)
(* runtime's prefix, it returns either an error or the configs of the     *)
(* valid descriptors in listing order.  It never returns configs when a   *)
(* descriptor it had to read could not be read.                           *)
(*                                                                         *)
(* An object is abstracted to what loadConfigs does with it:              *)
(*   "filtered"   checkPrebuilt rejects it or it is not under descriptors/ *)
(*   "unreadable" loadDescriptor fails (read or parse error)              *)
(*   "invalid"    checkSelector rejects it, no setup, unknown path type   *)
(*   "desc"       a valid descriptor, which yields one config             *)
(* A config is named by the index of its object in the listing.            *)
(***************************************************************************)
EXTENDS Naturals, Sequences

CONSTANT NObjs     \* objects listed under the runtime's prefix

Objs == 1..NObjs

ObjKinds == {"filtered", "unreadable", "invalid", "desc"}

VARIABLES
    obj,     \* obj[i]: the kind of the i-th listed object
    result,  \* "none" before the call returns, then "error" or "ok"
    confs    \* the configs returned with "ok" 

\* A descriptor that has to be read cannot be.
ReadFails == \E i \in Objs : obj[i] = "unreadable"

\* The valid descriptors, each of which yields a config.
Valid == {i \in Objs : obj[i] = "desc"}

\* s follows the listing: a config comes after those listed before it.
InListingOrder(s) == \A k, m \in DOMAIN s : k < m => s[k] < s[m]

\* The configs of the valid descriptors, each once, in listing order: the
\* one sequence over Valid that is increasing and leaves none out.
Configs ==
    {s \in UNION {[1..n -> Valid] : n \in 0..NObjs} :
        InListingOrder(s) /\ {s[k] : k \in DOMAIN s} = Valid}

Init ==
    /\ obj \in [Objs -> ObjKinds]
    /\ result = "none"
    /\ confs = << >>

\* The call returns.  Listing itself may fail at any point, so an error is
\* always a possible outcome; the configs are returned only when no read
\* failed.
Fetch ==
    /\ result = "none"
    /\ confs = << >>
    /\ \/ result' = "error" /\ confs' = << >>
       \/ ~ReadFails /\ result' = "ok" /\ confs' \in Configs
    /\ UNCHANGED obj

vars == <<obj, result, confs>>

\* What the call may return.
SafeSpec == Init /\ [][Fetch]_vars

\* And it returns.
Spec == SafeSpec /\ WF_vars(Fetch)
=============================================================================
