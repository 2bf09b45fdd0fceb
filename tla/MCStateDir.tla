----------------------------- MODULE MCStateDir -----------------------------
(***************************************************************************)
(* One installed service and one watcher that somebody runs by hand.       *)
(***************************************************************************)
EXTENDS StateDir

CONSTANTS s, m
=============================================================================
