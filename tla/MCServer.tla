------------------------------ MODULE MCServer ------------------------------
(***************************************************************************)
(* What happens on the server, and on the page that shows it, in one of    *)
(* three scenarios:                                                        *)
(*   "overlap"  two handlers and both loops at once, on two days, while    *)
(*              nothing else goes wrong than what they do to each other;   *)
(*   "faults"   one handler and the deep loop, with lost connections,      *)
(*              edits by hand and repairs, from the first day on;          *)
(*   "page"     the dashboard.                                             *)
(***************************************************************************)
EXTENDS MCRollup, Dashboard

CONSTANTS u1, u2, d1, d2, clock

(* u2 has no rows in the shorter range.                                    *)
MCHasUsage == {<<u1, d1>>, <<u1, d2>>, <<u2, d2>>}

VARIABLE scenario

ServerInit ==
  /\ scenario \in {"overlap", "faults", "page"}
  /\ Init
  /\ PageInit

FairStatement(t) == Statement(t) \/ (Victim(t) /\ Abort(t))

Overlap ==
  \/ Midnight
  \/ /\ today = NumDays
     /\ \/ \E t \in Ingester, R \in SUBSET Record : Insert(t, R)
        \/ \E t \in Loops : Delete(t)
        \/ \E t \in Tx : FairStatement(t)

Faulty ==
  /\ Next
  /\ \A t \in {"today", i2} : st'[t] = "idle"

ServerNext ==
  /\ UNCHANGED scenario
  /\ \/ scenario = "overlap" /\ Overlap /\ UNCHANGED pageVars
     \/ scenario = "faults" /\ Faulty /\ UNCHANGED pageVars
     \/ scenario = "page" /\ PageNext /\ UNCHANGED vars

ServerSpec == ServerInit /\ [][ServerNext]_<<scenario, vars, pageVars>>

(* Fairness of Rollup and PageFairness, each only where it is called for.  *)
ServerFairSpec ==
  /\ ServerSpec
  /\ \A t \in {i1, "deep"} : WF_vars(scenario = "faults" /\ FairStatement(t))
  /\ WF_vars(scenario = "faults" /\ Delete("deep"))
  /\ \A i \in Load : WF_pageVars(scenario = "page" /\ Answered(i))
  /\ WF_pageVars(scenario = "page" /\ Refresh)

(* Settles, on the page.                                                   *)
PageSettles == scenario = "page" => Settles
=============================================================================
