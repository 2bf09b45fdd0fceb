------------------------------- MODULE Totals -------------------------------
(***************************************************************************)
(* What the store promises of usage_detail and usage_daily, as if each     *)
(* transaction happened at once:                                           *)
(*   - a record is in the detail table once, and a batch adds exactly its  *)
(*     new records to the daily rows;                                      *)
(*   - a rebuild leaves the rows it replaces equal to the detail;          *)
(*   - a repair corrects records and their rows together.                  *)
(*                                                                         *)
(* A daily row is the bag of the contributions added up in it: total[r, v] *)
(* says how many times version v of record r is in the row of its bucket   *)
(* (its day, user, machine, tool and model). The counters of the table are *)
(* sums over that bag.                                                     *)
(***************************************************************************)
EXTENDS Naturals, FiniteSets

CONSTANTS
  Record,     \* usage records, by (message_id, request_id)
  Bucket,     \* primary keys of usage_daily
  BucketOf,   \* the bucket of each record
  Absent      \* the record is not in the detail table

(* A record as its watcher reported it, and as codex-repair corrects it.   *)
Version == {"reported", "fixed"}

ASSUME BucketAssumption == BucketOf \in [Record -> Bucket]
ASSUME AbsentAssumption == Absent \notin Version

VARIABLES
  detail,   \* usage_detail
  rows,     \* the buckets that have a row in usage_daily
  total     \* what those rows add up

totalsVars == <<detail, rows, total>>

BucketsOf(R) == {BucketOf[r] : r \in R}

(* The row of bucket b is what the detail table d says it should be.       *)
Exact(b, d) ==
  /\ b \in rows <=> \E r \in Record : BucketOf[r] = b /\ d[r] # Absent
  /\ \A r \in Record, v \in Version :
       BucketOf[r] = b => total[<<r, v>>] = IF d[r] = v THEN 1 ELSE 0

TotalsInit ==
  /\ detail = [r \in Record |-> Absent]
  /\ rows = {}
  /\ total = [c \in Record \X Version |-> 0]

(* INSERT of the new records R, each added once to the row of its bucket.  *)
Add(R) ==
  /\ detail' = [r \in Record |-> IF r \in R THEN "reported" ELSE detail[r]]
  /\ rows' = rows \cup BucketsOf(R)
  /\ total' = [c \in Record \X Version |->
                 IF c[1] \in R /\ c[2] = "reported" THEN total[c] + 1 ELSE total[c]]

(* The rows of the buckets B as the detail table d aggregates them.        *)
Recount(B, d) ==
  /\ rows' = (rows \ B) \cup (B \cap BucketsOf({r \in Record : d[r] # Absent}))
  /\ total' = [c \in Record \X Version |->
                 IF BucketOf[c[1]] \in B
                   THEN IF d[c[1]] = c[2] THEN 1 ELSE 0
                   ELSE total[c]]

Accept(R) == (\A r \in R : detail[r] = Absent) /\ Add(R)

Rebuild(B) == Recount(B, detail) /\ UNCHANGED detail

Correct(R, B) ==
  /\ \A r \in R : detail[r] # Absent
  /\ BucketsOf(R) \subseteq B
  /\ detail' = [r \in Record |-> IF r \in R THEN "fixed" ELSE detail[r]]
  /\ Recount(B, detail')

(* Somebody edits a daily row by hand.                                     *)
Edit(b) ==
  /\ b \in rows
  /\ rows' \in {rows, rows \ {b}}
  /\ total' \in [Record \X Version -> Nat]
  /\ \A c \in Record \X Version : BucketOf[c[1]] # b => total'[c] = total[c]
  /\ UNCHANGED detail

TotalsNext ==
  \/ \E R \in SUBSET Record : Accept(R)
  \/ \E B \in SUBSET Bucket : Rebuild(B)
  \/ \E R \in SUBSET Record, B \in SUBSET Bucket : Correct(R, B)
  \/ \E b \in Bucket : Edit(b)

TotalsSpec == TotalsInit /\ [][TotalsNext]_totalsVars
=============================================================================
