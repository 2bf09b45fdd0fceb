----------------------------- MODULE MCDelivery -----------------------------
(***************************************************************************)
(* Instances of Delivery. MCLine: transcript 1 holds a usage record and an *)
(* edit, transcript 2 a copy of the same usage record (a resumed session), *)
(* so that one key reaches the server from two places, and one of its own. *)
(* MCMixedLine: one transcript with a record of each kind.                 *)
(***************************************************************************)
EXTENDS Delivery, TLC

CONSTANTS u1, u2, e1, e2

MCLine == <<1, 1>> :> u1 @@ <<1, 2>> :> e1 @@ <<2, 1>> :> u1 @@ <<2, 2>> :> u2
MCMixedLine == <<1, 1>> :> u1 @@ <<1, 2>> :> e1
=============================================================================
