--------------------------- MODULE MCDeliveryLive ---------------------------
(***************************************************************************)
(* What ends well, in one of two scenarios: the pipeline of one watcher,   *)
(* or ("keys") two watchers of two users that share a transcript, while    *)
(* their keys are minted, revoked and exchanged. In each the other one     *)
(* rests where it begins, and what is asked of it holds.                   *)
(***************************************************************************)
EXTENDS MCDelivery, Access

CONSTANTS k1, k2, x, y, w1, w2, p1, p2, r, e

MCPrefixOf  == k1 :> x @@ k2 :> y
MCMintedFor == k1 :> p1 @@ k2 :> p2
MCFirstKey  == w1 :> k1 @@ w2 :> k2
MCBatches   == {{r}, {r, e}}

VARIABLE scenario

LiveInit ==
  /\ scenario \in {"pipeline", "keys"}
  /\ Init
  /\ AccessInit

LiveNext ==
  /\ UNCHANGED scenario
  /\ \/ scenario = "pipeline" /\ Next /\ UNCHANGED accessVars
     \/ scenario = "keys" /\ AccessNext /\ UNCHANGED vars

(* Fairness of Delivery and of Access, each where it is called for.        *)
LiveSpec ==
  /\ LiveInit /\ [][LiveNext]_<<scenario, vars, accessVars>>
  /\ WF_vars(scenario = "pipeline" /\ Pass)
  /\ WF_vars(scenario = "pipeline" /\ Start)
  /\ WF_vars(scenario = "pipeline" /\ Tick)
  /\ SF_vars(scenario = "pipeline" /\ Exit)
  /\ \A s \in Slots :
       WF_vars(scenario = "pipeline" /\ Handle(s) /\ UNCHANGED watcherVars)
  /\ WF_vars(scenario = "pipeline" /\ Repair /\ UNCHANGED watcherVars)
  /\ \A w \in Client : WF_accessVars(scenario = "keys" /\ Handled(w))
=============================================================================
