------------------------ MODULE MCConfigMapWatcher ------------------------
(* ConfigMapWatcher with three notification messages.                     *)
EXTENDS ConfigMapWatcher

CONSTANTS m1, m2, m3

MCMsgs == {m1, m2, m3}
=============================================================================
