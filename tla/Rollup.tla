------------------------------- MODULE Rollup -------------------------------
(***************************************************************************)
(* The store under concurrent transactions: Insert (a handler of /ingest), *)
(* RebuildDaily (the two loops of Worker) and RepairCodexUsage (the admin  *)
(* command), as PostgreSQL runs them at READ COMMITTED:                    *)
(*   - a statement sees what was committed when it began;                  *)
(*   - a row that an open transaction has inserted, updated or deleted is  *)
(*     locked until that transaction ends, and so is its key;              *)
(*   - whoever needs it waits, and then goes on with the row as committed. *)
(* detail, rows and total are the committed tables; got and held are the   *)
(* uncommitted work of the open transactions.                              *)
(*                                                                         *)
(* st follows the transaction:                                             *)
(*   "insert"   the ins CTE, row by row                                    *)
(*   "roll"     the roll CTE, row by row                                   *)
(*   "delete"   DELETE FROM usage_daily                                    *)
(*   "write"    INSERT INTO usage_daily SELECT ... FROM usage_detail       *)
(***************************************************************************)
EXTENDS Totals

CONSTANTS
  Ingester,   \* handlers of /ingest at work at once
  NumDays,    \* bound on the days that pass
  DayOf,      \* the UTC day of each bucket
  Loops,      \* the loops of Worker that are on
  DeepDays,   \* --rebuild-deep-days
  Codex,      \* the Codex records of one user and machine
  Miscounted, \* those whose replay gives other token counts
  MaxFaults   \* bound on lost connections and edits by hand

Day       == 1..NumDays
Rebuilder == {"today", "deep"}
Tx        == Ingester \cup Rebuilder

ASSUME DayAssumption == NumDays \in Nat \ {0} /\ DayOf \in [Bucket -> Day]
ASSUME RollupBounds == DeepDays \in Nat \ {0} /\ MaxFaults \in Nat
ASSUME IngesterAssumption == Ingester \cap Rebuilder = {}
ASSUME LoopsAssumption == Loops \subseteq Rebuilder
ASSUME CodexAssumption == Codex \subseteq Record /\ Miscounted \subseteq Codex

VARIABLES
  today,     \* the UTC day
  st,        \* where each transaction is
  batch,     \* ins: records of the batch still to insert
  got,       \* ins: records inserted, not committed
  todo,      \* daily rows the running statement still has to touch
  held,      \* daily rows written or deleted, not committed
  days,      \* RebuildDaily: from..to
  seen,      \* INSERT ... SELECT: the detail table when it began
  drifted,   \* history: rows edited by hand and not rebuilt since
  faults     \* how many things have gone wrong so far

txVars == <<st, batch, got, todo, held, days, seen>>
vars   == <<totalsVars, txVars, today, drifted, faults>>

NothingSeen == [r \in Record |-> Absent]

Init ==
  /\ TotalsInit
  /\ today = 1
  /\ st = [t \in Tx |-> "idle"]
  /\ batch = [t \in Tx |-> {}]
  /\ got = [t \in Tx |-> {}]
  /\ todo = [t \in Tx |-> {}]
  /\ held = [t \in Tx |-> {}]
  /\ days = [t \in Tx |-> {}]
  /\ seen = [t \in Tx |-> NothingSeen]
  /\ drifted = {}
  /\ faults = 0

Fault == faults < MaxFaults /\ faults' = faults + 1

(* Another open transaction holds the daily row of b.                      *)
Locked(t, b) == \E u \in Tx \ {t} : b \in held[u]

(* Commit or rollback: t has no uncommitted work left. Rows that a commit  *)
(* deleted are gone for every DELETE that was waiting for them: it does    *)
(* not see the rows inserted in their place.                               *)
End(t, deleted) ==
  /\ st' = [st EXCEPT ![t] = "idle"]
  /\ batch' = [batch EXCEPT ![t] = {}]
  /\ got' = [got EXCEPT ![t] = {}]
  /\ todo' = [u \in Tx |-> IF u = t THEN {}
                           ELSE IF st[u] = "delete" THEN todo[u] \ deleted
                           ELSE todo[u]]
  /\ held' = [held EXCEPT ![t] = {}]
  /\ days' = [days EXCEPT ![t] = {}]
  /\ seen' = [seen EXCEPT ![t] = NothingSeen]

-----------------------------------------------------------------------------
(* Variants of the definitions below, each with a plausible slip.          *)
EveryRow(r) == TRUE
RangeFromYesterday(t) == {today - 1, today}
UpsertInsteadOfInsert(t, b) == TRUE
DeepRangeWithoutYesterday == {today}
FirstChangedDay(C) ==
  {d \in Day : /\ \E r \in C : DayOf[BucketOf[r]] = d
               /\ \A r \in C : d <= DayOf[BucketOf[r]]}
-----------------------------------------------------------------------------
(* Insert: one statement over a batch of records.                          *)

Insert(t, R) ==
  /\ st[t] = "idle"
  /\ R # {}
  /\ st' = [st EXCEPT ![t] = "insert"]
  /\ batch' = [batch EXCEPT ![t] = R]
  /\ UNCHANGED <<totalsVars, got, todo, held, days, seen, today, drifted, faults>>

NewRow(r) == detail[r] = Absent

(* ins: ON CONFLICT DO NOTHING waits for another insert of the same key.   *)
InsertRow(t, r) ==
  /\ st[t] = "insert"
  /\ r \in batch[t]
  /\ \A u \in Tx \ {t} : r \notin got[u]
  /\ batch' = [batch EXCEPT ![t] = @ \ {r}]
  /\ got' = IF NewRow(r) THEN [got EXCEPT ![t] = @ \cup {r}] ELSE got
  /\ UNCHANGED <<totalsVars, st, todo, held, days, seen, today, drifted, faults>>

(* agg: the rows of ins by bucket.                                         *)
Aggregate(t) ==
  /\ st[t] = "insert"
  /\ batch[t] = {}
  /\ st' = [st EXCEPT ![t] = "roll"]
  /\ todo' = [todo EXCEPT ![t] = BucketsOf(got[t])]
  /\ UNCHANGED <<totalsVars, batch, got, held, days, seen, today, drifted, faults>>

(* roll: the upsert takes the row of b as committed, or inserts it.        *)
RollRow(t, b) ==
  /\ st[t] = "roll"
  /\ b \in todo[t]
  /\ ~Locked(t, b)
  /\ todo' = [todo EXCEPT ![t] = @ \ {b}]
  /\ held' = [held EXCEPT ![t] = @ \cup {b}]
  /\ UNCHANGED <<totalsVars, st, batch, got, days, seen, today, drifted, faults>>

CommitInsert(t) ==
  /\ st[t] = "roll"
  /\ todo[t] = {}
  /\ Add(got[t])
  /\ End(t, {})
  /\ UNCHANGED <<today, drifted, faults>>

-----------------------------------------------------------------------------
(* RebuildDaily, from rebuildToday and rebuildDeep.                        *)

DeepRange == {d \in Day : d > today - DeepDays /\ d <= today}
Range(t) == IF t = "today" THEN {today} ELSE DeepRange

(* The rows to delete are those the statement sees when it begins.         *)
Delete(t) ==
  /\ st[t] = "idle"
  /\ st' = [st EXCEPT ![t] = "delete"]
  /\ days' = [days EXCEPT ![t] = Range(t)]
  /\ todo' = [todo EXCEPT ![t] = {b \in rows : DayOf[b] \in Range(t)}]
  /\ UNCHANGED <<totalsVars, batch, got, held, seen, today, drifted, faults>>

DeleteRow(t, b) ==
  /\ st[t] = "delete"
  /\ b \in todo[t]
  /\ ~Locked(t, b)
  /\ todo' = [todo EXCEPT ![t] = @ \ {b}]
  /\ held' = [held EXCEPT ![t] = @ \cup {b}]
  /\ UNCHANGED <<totalsVars, st, batch, got, days, seen, today, drifted, faults>>

(* The buckets of the days D in the detail table.                          *)
InDetail(D) ==
  {b \in BucketsOf({r \in Record : detail[r] # Absent}) : DayOf[b] \in D}

(* INSERT ... SELECT begins.                                               *)
Select(t) ==
  /\ st[t] = "delete"
  /\ todo[t] = {}
  /\ st' = [st EXCEPT ![t] = "write"]
  /\ seen' = [seen EXCEPT ![t] = detail]
  /\ todo' = [todo EXCEPT ![t] = InDetail(days[t])]
  /\ UNCHANGED <<totalsVars, batch, got, held, days, today, drifted, faults>>

(* The primary key of usage_daily: t may insert b if it has deleted the    *)
(* row or there is none.                                                   *)
KeyFree(t, b) == b \in held[t] \/ b \notin rows

WriteRow(t, b) ==
  /\ st[t] = "write"
  /\ b \in todo[t]
  /\ ~Locked(t, b)
  /\ KeyFree(t, b)
  /\ todo' = [todo EXCEPT ![t] = @ \ {b}]
  /\ held' = [held EXCEPT ![t] = @ \cup {b}]
  /\ UNCHANGED <<totalsVars, st, batch, got, days, seen, today, drifted, faults>>

(* A row inserted since the DELETE is in the way: RebuildDaily rolls back. *)
UniqueViolation(t) ==
  /\ st[t] = "write"
  /\ \E b \in todo[t] : ~Locked(t, b) /\ ~KeyFree(t, b)
  /\ End(t, {})
  /\ UNCHANGED <<totalsVars, today, drifted, faults>>

CommitRebuild(t) ==
  /\ st[t] = "write"
  /\ todo[t] = {}
  /\ Recount(held[t], seen[t])
  /\ drifted' = drifted \ held[t]
  /\ End(t, held[t])
  /\ UNCHANGED <<detail, today, faults>>

-----------------------------------------------------------------------------
(* RepairCodexUsage with apply, from a replay that yields the records S.   *)

Scoped == {r \in Codex : detail[r] # Absent}

(* The days RepairCodexUsage rebuilds: MIN(ts) to MAX(ts) of the changed.  *)
RepairDays(C) ==
  {d \in Day : \E q, r \in C : DayOf[BucketOf[q]] <= d /\ d <= DayOf[BucketOf[r]]}

(* LOCK TABLE ... SHARE ROW EXCLUSIVE: no other transaction is writing     *)
(* from there to the commit. A replay that misses a stored record, and one *)
(* that changes nothing, change nothing.                                   *)
Repair(S) ==
  LET C == {r \in Scoped : r \in Miscounted /\ detail[r] = "reported"}
      B == {b \in Bucket : DayOf[b] \in RepairDays(C)}
  IN /\ \A t \in Tx : st[t] = "idle"
     /\ Scoped \subseteq S
     /\ C # {}
     /\ detail' = [r \in Record |-> IF r \in C THEN "fixed" ELSE detail[r]]
     /\ Recount(B, detail')
     /\ drifted' = drifted \ B
     /\ UNCHANGED <<txVars, today, faults>>

-----------------------------------------------------------------------------
(* What else happens.                                                      *)

(* t can do nothing before somebody of S ends.                             *)
WaitsFor(t, S) ==
  \/ /\ batch[t] # {}
     /\ \A r \in batch[t] : \E u \in S \ {t} : r \in got[u]
  \/ /\ todo[t] # {}
     /\ \A b \in todo[t] : \E u \in S \ {t} : b \in held[u]

(* The deadlock detector picks t.                                          *)
Victim(t) == \E S \in SUBSET Tx : t \in S /\ \A u \in S : WaitsFor(u, S)

(* The transaction fails: its handler answers 500, its loop logs it.       *)
Abort(t) ==
  /\ st[t] # "idle"
  /\ IF Victim(t) THEN UNCHANGED faults ELSE Fault
  /\ End(t, {})
  /\ UNCHANGED <<totalsVars, today, drifted>>

(* Somebody edits a daily row while no rebuild is open.                    *)
EditByHand(b) ==
  /\ Fault
  /\ \A t \in Rebuilder : st[t] = "idle"
  /\ \A t \in Tx : b \notin held[t]
  /\ \/ /\ rows' = rows \ {b}
        /\ total' = [c \in Record \X Version |->
                        IF BucketOf[c[1]] = b THEN 0 ELSE total[c]]
     \/ /\ \E c \in Record \X Version :
             BucketOf[c[1]] = b /\ total' = [total EXCEPT ![c] = @ + 1]
        /\ UNCHANGED rows
  /\ b \in rows
  /\ drifted' = drifted \cup {b}
  /\ UNCHANGED <<detail, txVars, today>>

Midnight ==
  /\ today < NumDays
  /\ today' = today + 1
  /\ UNCHANGED <<totalsVars, txVars, drifted, faults>>

Statement(t) ==
  \/ \E r \in Record : InsertRow(t, r)
  \/ Aggregate(t)
  \/ \E b \in Bucket : RollRow(t, b)
  \/ CommitInsert(t)
  \/ \E b \in Bucket : DeleteRow(t, b) \/ WriteRow(t, b)
  \/ Select(t)
  \/ UniqueViolation(t)
  \/ CommitRebuild(t)

Next ==
  \/ \E t \in Ingester, R \in SUBSET Record : Insert(t, R)
  \/ \E t \in Loops : Delete(t)
  \/ \E t \in Tx : Statement(t) \/ Abort(t)
  \/ \E S \in SUBSET Codex : Repair(S)
  \/ \E b \in Bucket : EditByHand(b)
  \/ Midnight

(* Statements run, the deadlock detector breaks cycles, and the loops of   *)
(* Worker come round again (todayLoop by its ticker, deepLoop by its hour).*)
Fairness ==
  /\ \A t \in Tx : WF_vars(Statement(t) \/ (Victim(t) /\ Abort(t)))
  /\ \A t \in Loops : WF_vars(Delete(t))

Spec == Init /\ [][Next]_vars
FairSpec == Spec /\ Fairness

-----------------------------------------------------------------------------
TypeOK ==
  /\ detail \in [Record -> Version \cup {Absent}]
  /\ rows \subseteq Bucket
  /\ total \in [Record \X Version -> Nat]
  /\ today \in Day
  /\ st \in [Tx -> {"idle", "insert", "roll", "delete", "write"}]
  /\ batch \in [Tx -> SUBSET Record]
  /\ got \in [Tx -> SUBSET Record]
  /\ todo \in [Tx -> SUBSET Bucket]
  /\ held \in [Tx -> SUBSET Bucket]
  /\ days \in [Tx -> SUBSET Day]
  /\ seen \in [Tx -> [Record -> Version \cup {Absent}]]
  /\ drifted \subseteq Bucket
  /\ faults \in 0..MaxFaults

(* No double counting and no lost update (store.go:558-562): except for    *)
(* rows edited by hand since their last rebuild, usage_daily is what       *)
(* usage_detail adds up to, in every committed state and whatever ingests, *)
(* rebuilds and repairs overlap.                                           *)
DailyIsDetail == \A b \in Bucket \ drifted : Exact(b, detail)

(* The transactions are serializable: each takes effect at its commit, as  *)
(* one step of Totals. A rebuild that read the detail table earlier still  *)
(* writes what the detail table says when it commits.                      *)
T == INSTANCE Totals
TotalsHold == T!TotalsSpec

(* The deep loop corrects a row that has drifted, as long as its day is    *)
(* one of the last --rebuild-deep-days: the ingests that make it roll back *)
(* bring new records, and run out of them.                                 *)
Corrected ==
  \A b \in Bucket :
    b \in drifted ~> \/ Exact(b, detail)
                     \/ DayOf[b] <= today - DeepDays
                     \/ DayOf[b] > today

-----------------------------------------------------------------------------
(* worker.go:10-12: RebuildDaily replaces its days "atomically - so even   *)
(* if /ingest's inline upsert ever drifts ..., the next pass corrects it". *)
(* A pass that meets a row inserted since its DELETE rolls back and        *)
(* corrects nothing; the deep loop comes round again a day later.          *)
NextPassCorrects ==
  [][\A t \in Rebuilder :
       /\ st[t] = "write" /\ st'[t] = "idle" /\ faults' = faults
       => \A b \in drifted' : DayOf[b] \notin days[t]]_vars
=============================================================================
