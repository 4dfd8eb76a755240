------------------------- MODULE MCConfigMapLoader -------------------------
(* Model-checking instance of ConfigMapLoader: two runtimes, one of them  *)
(* without a service address, two publisher generations, two failures    *)
(* and two config-map edits, so that a Load can fail after it deleted or *)
(* set entries and the publisher can write between Seqs and the listing. *)
EXTENDS ConfigMapLoader

CONSTANTS r1, r2

MCRuntimes == {r1, r2}
=============================================================================
