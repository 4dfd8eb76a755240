--------------------------- MODULE MCAclChecker ---------------------------
(* AclChecker on two groups, the second rejected, two service accounts   *)
(* and two concurrent callers of CheckToken.                              *)
EXTENDS AclChecker

CONSTANTS a1, a2, q1, q2

MCSAs == {a1, a2}

MCReqs == {q1, q2}
=============================================================================
