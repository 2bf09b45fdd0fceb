------------------------------ MODULE Delivery ------------------------------
(***************************************************************************)
(* The watcher and the server together: every record a tool writes reaches *)
(* the daily totals exactly once, through crashes, lost and late requests, *)
(* failed writes and a deployment that comes and goes.                     *)
(***************************************************************************)
EXTENDS Watcher

vars == <<watcherVars, ingestVars>>

Init == WatcherInit /\ IngestInit

(* The watcher's own steps when nothing goes wrong.                        *)
Pass ==
  \/ FlushDone \/ FlushPost \/ FlushCancelled
  \/ Scan \/ ScanNothing
  \/ SendPost \/ SendCancelled \/ SpoolBatch \/ SpoolFails
  \/ NextKind \/ Checkpoint
  \/ \E s \in Slots, a \in Answer : FlushReturn(s, a) \/ SendReturn(s, a)

Server == \E s \in Slots : Handle(s) /\ UNCHANGED watcherVars

Next ==
  \/ \E f \in Files : Write(f)
  \/ Start \/ Tick \/ Exit \/ Stop \/ Crash
  \/ Pass
  \/ FlushSkip
  \/ \E s \in Slots, a \in Answer : FlushReturnUnremoved(s, a)
  \/ Server
  \/ (Degrade \/ Repair) /\ UNCHANGED watcherVars

(* The process runs and is started again after it ended (the service       *)
(* manager, or cron for --once); handlers finish; the deployment is        *)
(* repaired. Only Exit needs strong fairness: a select with both cases     *)
(* ready picks either, so a cancelled context may lose to the ticker, but  *)
(* not for ever.                                                           *)
Fairness ==
  /\ WF_vars(Pass)
  /\ WF_vars(Start)
  /\ WF_vars(Tick)
  /\ SF_vars(Exit)
  /\ \A s \in Slots : WF_vars(Handle(s) /\ UNCHANGED watcherVars)
  /\ WF_vars(Repair /\ UNCHANGED watcherVars)

Spec == Init /\ [][Next]_vars
FairSpec == Spec /\ Fairness

-----------------------------------------------------------------------------
(* Type invariant: the state is that of a watcher at some line of runOnce. *)
TypeOK ==
  /\ http \in [Slots -> Exchange]
  /\ detail \subseteq Key
  /\ counted \in [Key -> Nat]
  /\ mode \in [Kind -> Verdict]
  /\ faults \in 0..MaxFaults
  /\ size \in [Files -> 0..MaxLines]
  /\ disk \in [Files -> 0..MaxLines]
  /\ mem \in [Files -> 0..MaxLines]
  /\ pending \in [Files -> 0..MaxLines]
  /\ spool \in Seq(Request)
  /\ pc \in {"down", "flush", "flushWait", "scan", "send", "sendWait", "spool",
             "idle"}
  /\ fpos \in 1..(Len(spool) + 1)
  /\ scan \in [Kind -> Seq(Position)]
  /\ kind \in Kind
  /\ start \in Nat
  /\ stopping \in BOOLEAN
  /\ refused \subseteq Key

Spooled == UNION {spool[i].keys : i \in DOMAIN spool}

(* Somebody other than the transcript answers for these keys.              *)
Custody == detail \cup Spooled \cup refused

Accounted(p) == Line[p] \in Custody \cup {NoRecord}

(* The checkpoint file only stands past lines whose records are on the     *)
(* server, in the spool, or refused for good: runOnce advances it when     *)
(* every batch of both kinds is durable, and a crash anywhere, a failed    *)
(* Save or spool write, or a request whose outcome is unknown changes      *)
(* nothing of that.                                                        *)
CheckpointCovered == \A p \in Position : p[2] <= disk[p[1]] => Accounted(p)

(* Replays never count twice: spool replays, re-scans after a crash, late  *)
(* handlers of requests the watcher gave up on and copies of a message in  *)
(* several transcripts add a record to the daily totals once, when it      *)
(* enters the detail table (insertSQL's ON CONFLICT clause and ins CTE).   *)
CountedOnce == \A k \in Key : counted[k] = IF k \in detail THEN 1 ELSE 0

(* The pipeline implements the ledger: custody and releases are never      *)
(* taken back, and nothing is released that is not in custody.             *)
L == INSTANCE Ledger WITH
       custody  <- Custody,
       released <- {p \in Position : p[2] <= disk[p[1]]}
LedgerHolds == L!LedgerSpec

(* Once things stop going wrong, every record written is stored, unless    *)
(* the server refused it for good: the spool drains, abandoned passes are  *)
(* repeated, and a restart picks up from the checkpoint file.              *)
Delivered ==
  \A p \in Position :
    p[2] <= size[p[1]] ~> Line[p] \in detail \cup refused \cup {NoRecord}

(* The backlog is temporary: BufferDir empties again (Flush runs at the    *)
(* head of every pass).                                                    *)
SpoolDrains == spool # <<>> ~> spool = <<>>

-----------------------------------------------------------------------------
(* uploader.go:41-44: a spooled batch is durable, "callers can safely      *)
(* advance the checkpoint": whatever the checkpoint has passed is stored   *)
(* or still waits in the spool. Flush drops a spooled batch the server     *)
(* refuses (400/404/410/413/422), after the checkpoint has moved over it.  *)
SpooledIsSafe ==
  \A p \in Position :
    p[2] <= disk[p[1]] => Line[p] \in detail \cup Spooled \cup {NoRecord}
=============================================================================
