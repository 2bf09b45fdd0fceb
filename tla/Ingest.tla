------------------------------- MODULE Ingest -------------------------------
(***************************************************************************)
(* The server's POST /ingest: one goroutine per request, one atomic SQL    *)
(* statement per table.                                                    *)
(*                                                                         *)
(* A slot of http is one exchange. Its state is                            *)
(*   "free"      no request                                                *)
(*   "received"  the handler has it and the watcher is waiting             *)
(*   "orphaned"  the handler has it; the watcher timed out or died         *)
(*   "ok" / "retry" / "refuse"   the answer is on its way back             *)
(* where "ok" is a 2xx, "refuse" one of the statuses isHTTPRejection calls *)
(* permanent (400/404/410/413/422), and "retry" everything else that post  *)
(* returns as an error (5xx, 401, 403, 408, 429, transport).               *)
(***************************************************************************)
EXTENDS Transcripts

CONSTANTS
  NumSlots,   \* bound on the exchanges open at once
  MaxFaults   \* bound on everything that goes wrong in one behaviour

ASSUME NumSlotsAssumption == NumSlots \in Nat \ {0}
ASSUME MaxFaultsAssumption == MaxFaults \in Nat

VARIABLES
  http,     \* the exchanges
  detail,   \* keys in usage_detail and edit_detail
  counted,  \* how many times each key was added to usage_daily / edit_daily
  mode,     \* what the deployment answers to each kind of request
  faults    \* how many things have gone wrong so far

ingestVars == <<http, detail, counted, mode, faults>>

Slots   == 1..NumSlots
Answer  == {"ok", "retry", "refuse"}
Verdict == {"accept", "retry", "refuse"}

NoRequest == [kind |-> "usage", keys |-> {}]
FreeSlot  == [st |-> "free", req |-> NoRequest]
Exchange  == [st : {"free", "received", "orphaned"} \cup Answer, req : Request]

(* One more thing goes wrong.                                              *)
Fault == faults < MaxFaults /\ faults' = faults + 1

IngestInit ==
  /\ http = [s \in Slots |-> FreeSlot]
  /\ detail = {}
  /\ counted = [k \in Key |-> 0]
  /\ mode = [k \in Kind |-> "accept"]
  /\ faults = 0

-----------------------------------------------------------------------------
(* Variants of the definitions below, each with a plausible slip.          *)
AcceptedWithoutConflictClause(r) == r.keys
-----------------------------------------------------------------------------
(* The rows the ins CTE returns: INSERT ... ON CONFLICT DO NOTHING.        *)
Accepted(r) == r.keys \ detail

(* The agg and roll CTEs add exactly the rows of ins to the daily table.   *)
RollUp(r) ==
  counted' = [k \in Key |-> counted[k] + IF k \in Accepted(r) THEN 1 ELSE 0]

(* Insert / InsertEdits: detail and daily move in one statement. A batch   *)
(* of the other kind is empty there and returns without touching the store.*)
Store(r) == detail' = detail \cup r.keys /\ RollUp(r)

(* The handler ends: the answer goes back, or to nobody if the watcher has *)
(* stopped waiting.                                                        *)
Respond(s, a) ==
  http' = [http EXCEPT ![s] =
             IF @.st = "received" THEN [st |-> a, req |-> @.req] ELSE FreeSlot]

Handling(s) == http[s].st \in {"received", "orphaned"}

(* handleIngest, the request reaches the store and the statement commits;  *)
(* the connection to the database may still die after the commit (500).    *)
HandleAccept(s) ==
  /\ Handling(s)
  /\ mode[http[s].req.kind] = "accept"
  /\ Store(http[s].req)
  /\ \/ Respond(s, "ok") /\ UNCHANGED faults
     \/ Respond(s, "retry") /\ Fault
  /\ UNCHANGED mode

(* handleIngest, 401, 500 from the key lookup or the statement, a proxy's  *)
(* 5xx, or a connection that never reached the server: nothing is stored.  *)
HandleRetry(s) ==
  /\ Handling(s)
  /\ mode[http[s].req.kind] = "retry"
  /\ Respond(s, "retry")
  /\ UNCHANGED <<detail, counted, mode, faults>>

(* handleIngest, 400: the strict decoder refuses the body (a build that    *)
(* does not know the edits field), or the endpoint is wrong (404).         *)
HandleRefuse(s) ==
  /\ Handling(s)
  /\ mode[http[s].req.kind] = "refuse"
  /\ Respond(s, "refuse")
  /\ UNCHANGED <<detail, counted, mode, faults>>

(* The deployment changes: the database goes down, the key is revoked, the *)
(* server is replaced by one that refuses edits, ...                       *)
Degrade ==
  /\ Fault
  /\ mode' \in [Kind -> Verdict] \ {mode}
  /\ UNCHANGED <<http, detail, counted>>

(* ... and is repaired.                                                    *)
Repair ==
  /\ \E k \in Kind : mode[k] # "accept"
  /\ mode' = [k \in Kind |-> "accept"]
  /\ UNCHANGED <<http, detail, counted, faults>>

Handle(s) == HandleAccept(s) \/ HandleRetry(s) \/ HandleRefuse(s)
=============================================================================
