---------------------------- MODULE MCAccounting ----------------------------
(***************************************************************************)
(* What is counted of a session of Codex and what it costs: token counts   *)
(* and edits are in different lines of the rollout file and in different   *)
(* parts of codexScanState, and the prices are in a table of the server    *)
(* that neither touches, so a behaviour is about one of the three.         *)
(***************************************************************************)
EXTENDS CodexTokens, MCCodex, MCPrices

VARIABLE subject   \* what the behaviour is about

AccountingInit ==
  /\ subject \in {"tokens", "edits", "prices"}
  /\ TokenInit
  /\ PatchInit
  /\ Init

AccountingNext ==
  /\ UNCHANGED subject
  /\ \/ subject = "tokens" /\ TokenNext /\ UNCHANGED <<patchVars, vars>>
     \/ subject = "edits" /\ MCPatchNext /\ UNCHANGED <<tokenVars, vars>>
     \/ subject = "prices" /\ Next /\ UNCHANGED <<tokenVars, patchVars>>

AccountingSpec ==
  AccountingInit /\ [][AccountingNext]_<<subject, tokenVars, patchVars, vars>>
=============================================================================
