---------------------------- MODULE ServerProofs ----------------------------
(***************************************************************************)
(* Proofs about Rollup, for every number of records, daily rows, days,     *)
(* handlers of /ingest and faults, any DeepDays, and any of the loops on:  *)
(* usage_daily is what usage_detail adds up to, and each transaction takes *)
(* effect at its commit as one step of Totals. At the end, proofs about    *)
(* Dashboard, the page that shows it, for any users, ranges and cards and  *)
(* any number of loads at once.                                            *)
(*                                                                         *)
(* DailyIsDetail is not inductive: what a commit adds or replaces was      *)
(* decided earlier. The strengthening says what the locks keep true until  *)
(* then: of rows that were inserted (Uncommitted), of those a statement    *)
(* has still to touch (Phase), and of what a rebuild has read (Snapshot).  *)
(***************************************************************************)
EXTENDS Rollup, Dashboard, TLAPS

(* What transaction t has of locks and of work at each place.              *)
Phase(t) ==
  /\ st[t] \in {"idle", "delete", "write"} => batch[t] = {} /\ got[t] = {}
  /\ st[t] \in {"idle", "insert"} => todo[t] = {} /\ held[t] = {}
  /\ st[t] = "roll" => batch[t] = {} /\ todo[t] \cup held[t] = BucketsOf(got[t])
  /\ st[t] \in {"delete", "write"} => t \in Rebuilder

(* A daily row and a key of usage_detail have one writer at a time.        *)
Exclusive ==
  \A t, u \in Tx :
    t # u => held[t] \cap held[u] = {} /\ got[t] \cap got[u] = {}

(* Nobody else has inserted what t has.                                    *)
Uncommitted(t) == \A r \in got[t] : detail[r] = Absent

(* Of bucket b, t has read what is still there.                            *)
UpToDate(t, b) == \A r \in Record : BucketOf[r] = b => seen[t][r] = detail[r]

(* INSERT ... SELECT: nobody has changed the records of a row that t holds,*)
(* and where somebody has, of a row that t has still to write, there is a  *)
(* row in the way.                                                         *)
Snapshot(t) ==
  st[t] = "write" =>
    /\ \A b \in held[t] : UpToDate(t, b)
    /\ \A b \in todo[t] :
         /\ b \in rows \/ UpToDate(t, b)
         /\ \E r \in Record : BucketOf[r] = b /\ detail[r] # Absent

IInv ==
  /\ TypeOK
  /\ DailyIsDetail
  /\ Exclusive
  /\ \A t \in Tx : Phase(t) /\ Uncommitted(t) /\ Snapshot(t)

-----------------------------------------------------------------------------
(* Types.                                                                  *)

TxTypeOK ==
  /\ st \in [Tx -> {"idle", "insert", "roll", "delete", "write"}]
  /\ batch \in [Tx -> SUBSET Record]
  /\ got \in [Tx -> SUBSET Record]
  /\ todo \in [Tx -> SUBSET Bucket]
  /\ held \in [Tx -> SUBSET Bucket]
  /\ days \in [Tx -> SUBSET Day]
  /\ seen \in [Tx -> [Record -> Version \cup {Absent}]]

TablesTypeOK ==
  /\ detail \in [Record -> Version \cup {Absent}]
  /\ rows \subseteq Bucket
  /\ total \in [Record \X Version -> Nat]

(* TypeOK, in two parts that different steps disturb.                      *)
LEMMA TypeParts ==
  TypeOK <=> /\ TxTypeOK /\ TablesTypeOK
             /\ today \in Day /\ drifted \subseteq Bucket /\ faults \in 0..MaxFaults
  BY DEF TypeOK, TxTypeOK, TablesTypeOK

(* The buckets of records are buckets.                                     *)
LEMMA BucketsType ==
  ASSUME NEW R \in SUBSET Record
  PROVE  BucketsOf(R) \subseteq Bucket
  BY BucketAssumption DEF BucketsOf

(* A fault more, within the bound.                                         *)
LEMMA FaultBound ==
  ASSUME faults \in 0..MaxFaults, Fault
  PROVE  faults' \in 0..MaxFaults
  BY RollupBounds DEF Fault

-----------------------------------------------------------------------------
(* The operators of Totals.                                                *)

(* A row that is counted anew is what the table says that it is counted    *)
(* from, and any other is as exact as before.                              *)
LEMMA RecountExact ==
  ASSUME TablesTypeOK, NEW B \in SUBSET Bucket,
         NEW d \in [Record -> Version \cup {Absent}], Recount(B, d)
  PROVE  /\ rows' \subseteq Bucket /\ total' \in [Record \X Version -> Nat]
         /\ \A b \in B :
              /\ b \in rows' <=> \E r \in Record : BucketOf[r] = b /\ d[r] # Absent
              /\ \A r \in Record, v \in Version :
                   BucketOf[r] = b => total'[<<r, v>>] = IF d[r] = v THEN 1 ELSE 0
         /\ \A b \in Bucket \ B :
              /\ b \in rows' <=> b \in rows
              /\ \A r \in Record, v \in Version :
                   BucketOf[r] = b => total'[<<r, v>>] = total[<<r, v>>]
<1>1. rows' = (rows \ B) \cup (B \cap BucketsOf({r \in Record : d[r] # Absent}))
  BY DEF Recount
<1>2. total' = [c \in Record \X Version |->
                  IF BucketOf[c[1]] \in B
                    THEN IF d[c[1]] = c[2] THEN 1 ELSE 0
                    ELSE total[c]]
  BY DEF Recount
<1>3. ASSUME NEW r \in Record, NEW v \in Version
      PROVE  total'[<<r, v>>] = IF BucketOf[r] \in B
                              THEN IF d[r] = v THEN 1 ELSE 0
                              ELSE total[<<r, v>>]
  BY <1>2
<1>4. total' \in [Record \X Version -> Nat]
  BY <1>2 DEF TablesTypeOK
<1>. QED
  BY <1>1, <1>3, <1>4 DEF TablesTypeOK, BucketsOf

(* Adding records that are not there keeps exact rows exact.               *)
LEMMA AddExact ==
  ASSUME TablesTypeOK, NEW R \in SUBSET Record,
         \A r \in R : detail[r] = Absent, Add(R)
  PROVE  /\ TablesTypeOK'
         /\ \A b \in Bucket : Exact(b, detail) => Exact(b, detail)'
<1>1. \A r \in Record : detail'[r] = IF r \in R THEN "reported" ELSE detail[r]
  BY DEF Add
<1>2. rows' = rows \cup BucketsOf(R)
  BY DEF Add
<1>3. ASSUME NEW r \in Record, NEW v \in Version
      PROVE  total'[<<r, v>>] = IF r \in R /\ v = "reported" THEN total[<<r, v>>] + 1
                                                        ELSE total[<<r, v>>]
  BY DEF Add
<1>4. TablesTypeOK'
  <2>1. detail' \in [Record -> Version \cup {Absent}]
    BY DEF Add, TablesTypeOK, Version
  <2>2. rows' \subseteq Bucket
    BY <1>2, BucketsType DEF TablesTypeOK
  <2>3. total' \in [Record \X Version -> Nat]
    BY DEF Add, TablesTypeOK
  <2>. QED BY <2>1, <2>2, <2>3 DEF TablesTypeOK
<1>5. ASSUME NEW b \in Bucket, Exact(b, detail)
      PROVE  Exact(b, detail)'
  <2>1. b \in rows' <=> \E r \in Record : BucketOf[r] = b /\ detail'[r] # Absent
    BY <1>1, <1>2, <1>5, AbsentAssumption DEF Exact, BucketsOf, Version
  <2>2. ASSUME NEW r \in Record, NEW v \in Version, BucketOf[r] = b
        PROVE  total'[<<r, v>>] = IF detail'[r] = v THEN 1 ELSE 0
    <3>1. total[<<r, v>>] = IF detail[r] = v THEN 1 ELSE 0
      BY <1>5, <2>2 DEF Exact
    <3>2. CASE r \in R
      <4>1. total[<<r, v>>] = 0
        BY <3>1, <3>2, AbsentAssumption
      <4>. QED BY <1>1, <1>3, <3>2, <4>1
    <3>3. CASE r \notin R
      BY <1>1, <1>3, <3>1, <3>3
    <3>. QED BY <3>2, <3>3
  <2>. QED BY <2>1, <2>2 DEF Exact
<1>. QED BY <1>4, <1>5

-----------------------------------------------------------------------------
(* Steps of one transaction.                                               *)

(* What a step of t leaves of the others; a DELETE may be spared rows.     *)
Others(t) ==
  \A u \in Tx \ {t} :
    /\ st'[u] = st[u] /\ batch'[u] = batch[u] /\ got'[u] = got[u]
    /\ held'[u] = held[u] /\ seen'[u] = seen[u]
    /\ todo'[u] = todo[u] \/ st[u] = "delete"

(* t, and not the tables: IInv is about t then.                            *)
LEMMA LocalStep ==
  ASSUME IInv, TypeOK', UNCHANGED totalsVars, drifted' = drifted,
         NEW t \in Tx, Others(t),
         Phase(t)', Uncommitted(t)', Snapshot(t)',
         \A u \in Tx \ {t} : held'[t] \cap held[u] = {} /\ got'[t] \cap got[u] = {}
  PROVE  IInv'
<1>1. DailyIsDetail'
  BY DEF IInv, DailyIsDetail, Exact, totalsVars
<1>2. Exclusive'
  BY DEF IInv, Exclusive, Others
<1>3. ASSUME NEW u \in Tx PROVE Phase(u)' /\ Uncommitted(u)' /\ Snapshot(u)'
  <2>1. CASE u = t
    BY <2>1
  <2>2. CASE u # t
    <3>1. Phase(u) /\ Uncommitted(u) /\ Snapshot(u)
      BY DEF IInv
    <3>2. /\ st'[u] = st[u] /\ batch'[u] = batch[u] /\ got'[u] = got[u]
          /\ held'[u] = held[u] /\ seen'[u] = seen[u]
          /\ todo'[u] = todo[u] \/ st[u] = "delete"
      BY <2>2 DEF Others
    <3>3. Phase(u)'
      BY <3>1, <3>2 DEF Phase
    <3>4. Uncommitted(u)'
      BY <3>1, <3>2 DEF Uncommitted, totalsVars
    <3>5. Snapshot(u)'
      BY <3>1, <3>2 DEF Snapshot, UpToDate, totalsVars
    <3>. QED BY <3>3, <3>4, <3>5
  <2>. QED BY <2>1, <2>2
<1>. QED BY <1>1, <1>2, <1>3 DEF IInv

(* A transaction that has ended has nothing.                               *)
LEMMA EndFacts ==
  ASSUME TxTypeOK, NEW t \in Tx, NEW D, End(t, D)
  PROVE  /\ TxTypeOK'
         /\ Others(t)
         /\ st'[t] = "idle" /\ batch'[t] = {} /\ got'[t] = {}
         /\ todo'[t] = {} /\ held'[t] = {}
         /\ Phase(t)' /\ Uncommitted(t)' /\ Snapshot(t)'
<1>1. /\ st'[t] = "idle" /\ batch'[t] = {} /\ got'[t] = {}
      /\ todo'[t] = {} /\ held'[t] = {}
  BY DEF End, TxTypeOK
<1>2. Others(t)
  BY DEF End, TxTypeOK, Others
<1>3. TxTypeOK'
  <2>1. NothingSeen \in [Record -> Version \cup {Absent}]
    BY DEF NothingSeen
  <2>. HIDE DEF NothingSeen
  <2>2. todo' \in [Tx -> SUBSET Bucket]
    BY DEF End, TxTypeOK
  <2>. QED BY <2>1, <2>2 DEF End, TxTypeOK
<1>4. Phase(t)' /\ Uncommitted(t)' /\ Snapshot(t)'
  BY <1>1 DEF Phase, Uncommitted, Snapshot
<1>. QED BY <1>1, <1>2, <1>3, <1>4

(* Rolling back leaves the tables as they are.                             *)
LEMMA RollbackStep ==
  ASSUME IInv, NEW t \in Tx, End(t, {}), UNCHANGED <<totalsVars, today, drifted>>,
         faults' \in 0..MaxFaults
  PROVE  IInv'
<1>1. TxTypeOK
  BY TypeParts DEF IInv
<1>2. TypeOK'
  BY <1>1, EndFacts DEF IInv, TypeOK, TxTypeOK, totalsVars
<1>. QED BY <1>1, <1>2, EndFacts, LocalStep

-----------------------------------------------------------------------------
(* Insert.                                                                 *)

(* The steps of an ingest before its commit touch none of the tables: what *)
(* it has inserted is its own until then.                                  *)
LEMMA InsertSteps ==
  ASSUME IInv, NEW t \in Tx,
         \/ \E R \in SUBSET Record : Insert(t, R)
         \/ \E r \in Record : InsertRow(t, r)
         \/ Aggregate(t)
         \/ \E b \in Bucket : RollRow(t, b)
  PROVE  IInv'
<1>. TxTypeOK /\ TablesTypeOK /\ TypeOK
  BY TypeParts DEF IInv
<1>. Phase(t) /\ Uncommitted(t) /\ Exclusive
  BY DEF IInv
<1>1. ASSUME NEW R \in SUBSET Record, Insert(t, R) PROVE IInv'
  <2>1. TypeOK'
    BY <1>1 DEF Insert, TypeOK, totalsVars
  <2>2. Phase(t)' /\ Uncommitted(t)' /\ Snapshot(t)'
    BY <1>1 DEF Insert, Phase, Uncommitted, Snapshot, TxTypeOK
  <2>3. Others(t) /\ held'[t] = held[t] /\ got'[t] = got[t]
    BY <1>1 DEF Insert, Others, TxTypeOK
  <2>. QED BY <1>1, <2>1, <2>2, <2>3, LocalStep DEF Insert, Exclusive
<1>2. ASSUME NEW r \in Record, InsertRow(t, r) PROVE IInv'
  <2>1. TypeOK'
    BY <1>2 DEF InsertRow, TypeOK, totalsVars
  <2>2. /\ st' = st /\ todo' = todo /\ held' = held
        /\ got'[t] \subseteq got[t] \cup {r}
        /\ got'[t] # got[t] => detail[r] = Absent
        /\ Others(t)
    BY <1>2 DEF InsertRow, NewRow, TxTypeOK, Others
  <2>3. Phase(t)' /\ Uncommitted(t)' /\ Snapshot(t)'
    BY <1>2, <2>2 DEF InsertRow, Phase, Uncommitted, Snapshot, totalsVars
  <2>4. \A u \in Tx \ {t} : got'[t] \cap got[u] = {}
    BY <1>2, <2>2 DEF InsertRow, Exclusive
  <2>. QED BY <1>2, <2>1, <2>2, <2>3, <2>4, LocalStep DEF InsertRow, Exclusive
<1>3. ASSUME Aggregate(t) PROVE IInv'
  <2>1. BucketsOf(got[t]) \in SUBSET Bucket
    BY BucketsType DEF TxTypeOK
  <2>2. TypeOK'
    BY <1>3, <2>1 DEF Aggregate, TypeOK, totalsVars
  <2>3. /\ Others(t) /\ st'[t] = "roll" /\ todo'[t] = BucketsOf(got[t])
        /\ held' = held /\ got' = got /\ batch' = batch /\ UNCHANGED detail
    BY <1>3 DEF Aggregate, Others, TxTypeOK, totalsVars
  <2>4. Phase(t)' /\ Uncommitted(t)' /\ Snapshot(t)'
    BY <1>3, <2>3 DEF Aggregate, Phase, Uncommitted, Snapshot, BucketsOf
  <2>. QED BY <1>3, <2>2, <2>3, <2>4, LocalStep DEF Aggregate, Exclusive
<1>4. ASSUME NEW b \in Bucket, RollRow(t, b) PROVE IInv'
  <2>1. TypeOK'
    BY <1>4 DEF RollRow, TypeOK, totalsVars
  <2>2. /\ Others(t) /\ st' = st /\ got' = got /\ batch' = batch /\ UNCHANGED detail
        /\ todo'[t] = todo[t] \ {b} /\ held'[t] = held[t] \cup {b}
    BY <1>4 DEF RollRow, Others, TxTypeOK, totalsVars
  <2>3. Phase(t)' /\ Uncommitted(t)' /\ Snapshot(t)'
    BY <1>4, <2>2 DEF RollRow, Phase, Uncommitted, Snapshot, BucketsOf
  <2>4. \A u \in Tx \ {t} : held'[t] \cap held[u] = {}
    BY <1>4, <2>2 DEF RollRow, Locked, Exclusive
  <2>. QED BY <1>4, <2>1, <2>2, <2>3, <2>4, LocalStep DEF RollRow, Exclusive
<1>. QED BY <1>1, <1>2, <1>3, <1>4

(* What the others have of locks keeps a commit out of what they have read.*)
LEMMA CommitInsertStep ==
  ASSUME IInv, NEW t \in Tx, CommitInsert(t)
  PROVE  IInv' /\ T!Accept(got[t])
<1>. /\ TxTypeOK /\ TablesTypeOK /\ TypeOK
     /\ Phase(t) /\ Uncommitted(t) /\ Exclusive /\ DailyIsDetail
  BY TypeParts DEF IInv
<1>1. /\ TxTypeOK' /\ Others(t) /\ held'[t] = {} /\ got'[t] = {}
      /\ Phase(t)' /\ Uncommitted(t)' /\ Snapshot(t)'
  BY EndFacts DEF CommitInsert
<1>2. /\ TablesTypeOK'
      /\ \A b \in Bucket : Exact(b, detail) => Exact(b, detail)'
  BY AddExact DEF CommitInsert, Uncommitted, TxTypeOK
<1>3. TypeOK'
  BY <1>1, <1>2 DEF CommitInsert, TypeOK, TxTypeOK, TablesTypeOK
<1>4. DailyIsDetail'
  BY <1>2 DEF CommitInsert, DailyIsDetail
<1>5. Exclusive'
  BY <1>1 DEF Exclusive, Others
<1>6. /\ held[t] = BucketsOf(got[t])
      /\ \A r \in Record : detail'[r] = IF r \in got[t] THEN "reported" ELSE detail[r]
      /\ rows' = rows \cup held[t]
  BY DEF CommitInsert, Phase, Add
<1>7. ASSUME NEW u \in Tx PROVE Phase(u)' /\ Uncommitted(u)' /\ Snapshot(u)'
  <2>1. CASE u = t
    BY <1>1, <2>1
  <2>2. CASE u # t
    <3>1. Phase(u) /\ Uncommitted(u) /\ Snapshot(u)
      BY DEF IInv
    <3>2. /\ st'[u] = st[u] /\ batch'[u] = batch[u] /\ got'[u] = got[u]
          /\ held'[u] = held[u] /\ seen'[u] = seen[u]
          /\ todo'[u] = todo[u] \/ st[u] = "delete"
      BY <1>1, <2>2 DEF Others
    <3>3. /\ \A r \in got[u] : r \in Record /\ r \notin got[t]
          /\ \A b \in held[u] : b \notin held[t]
      BY <2>2 DEF Exclusive, TxTypeOK
    <3>4. Phase(u)'
      BY <3>1, <3>2 DEF Phase
    <3>5. Uncommitted(u)'
      BY <1>6, <3>1, <3>2, <3>3 DEF Uncommitted
    <3>6. ASSUME NEW b \in Bucket \ held[t], UpToDate(u, b)
          PROVE  UpToDate(u, b)'
      BY <1>6, <3>2, <3>6 DEF UpToDate, BucketsOf
    <3>7. ASSUME st[u] = "write" PROVE Snapshot(u)'
      <4>1. \A b \in held'[u] : UpToDate(u, b)'
        BY <3>1, <3>2, <3>3, <3>6, <3>7 DEF Snapshot, TxTypeOK
      <4>2. ASSUME NEW b \in todo'[u]
            PROVE  /\ b \in rows' \/ UpToDate(u, b)'
                   /\ \E r \in Record : BucketOf[r] = b /\ detail'[r] # Absent
        <5>1. b \in Bucket /\ b \in todo[u]
          BY <3>2, <3>7 DEF TxTypeOK
        <5>2. /\ b \in rows \/ UpToDate(u, b)
              /\ \E r \in Record : BucketOf[r] = b /\ detail[r] # Absent
          BY <3>1, <3>7, <5>1 DEF Snapshot
        <5>3. \E r \in Record : BucketOf[r] = b /\ detail'[r] # Absent
          BY <1>6, <5>2, AbsentAssumption DEF Version
        <5>. QED BY <1>6, <3>6, <5>1, <5>2, <5>3
      <4>. QED BY <4>1, <4>2 DEF Snapshot
    <3>8. Snapshot(u)'
      BY <3>2, <3>7 DEF Snapshot
    <3>. QED BY <3>4, <3>5, <3>8
  <2>. QED BY <2>1, <2>2
<1>8. T!Accept(got[t])
  BY DEF CommitInsert, Uncommitted, T!Accept, T!Add, Add, T!BucketsOf, BucketsOf,
         T!Version, Version
<1>. QED BY <1>3, <1>4, <1>5, <1>7, <1>8 DEF IInv

-----------------------------------------------------------------------------
(* RebuildDaily.                                                           *)

(* The steps of a rebuild before its commit, the same. What it has counted *)
(* stays what is there, as it holds the rows that count.                   *)
LEMMA RebuildSteps ==
  ASSUME IInv, NEW t \in Tx,
         \/ t \in Loops /\ Delete(t)
         \/ \E b \in Bucket : DeleteRow(t, b) \/ WriteRow(t, b)
         \/ Select(t)
  PROVE  IInv'
<1>. /\ TxTypeOK /\ TablesTypeOK /\ TypeOK
     /\ Phase(t) /\ Uncommitted(t) /\ Snapshot(t) /\ Exclusive
  BY TypeParts DEF IInv
<1>1. ASSUME t \in Loops, Delete(t) PROVE IInv'
  <2>1. {b \in rows : DayOf[b] \in Range(t)} \in SUBSET Bucket /\ Range(t) \subseteq Day
    BY DEF TablesTypeOK, Range, DeepRange, TypeOK
  <2>2. TypeOK'
    BY <1>1, <2>1 DEF Delete, TypeOK, totalsVars
  <2>3. /\ Others(t) /\ st'[t] = "delete" /\ t \in Rebuilder
        /\ held' = held /\ got' = got /\ batch' = batch /\ UNCHANGED detail
    BY <1>1, LoopsAssumption DEF Delete, Others, TxTypeOK, totalsVars
  <2>4. Phase(t)' /\ Uncommitted(t)' /\ Snapshot(t)'
    BY <1>1, <2>3 DEF Delete, Phase, Uncommitted, Snapshot
  <2>. QED BY <1>1, <2>2, <2>3, <2>4, LocalStep DEF Delete, Exclusive
<1>2. ASSUME NEW b \in Bucket, DeleteRow(t, b) PROVE IInv'
  <2>1. TypeOK'
    BY <1>2 DEF DeleteRow, TypeOK, totalsVars
  <2>2. /\ Others(t) /\ st' = st /\ got' = got /\ batch' = batch /\ UNCHANGED detail
        /\ held'[t] = held[t] \cup {b}
    BY <1>2 DEF DeleteRow, Others, TxTypeOK, totalsVars
  <2>3. Phase(t)' /\ Uncommitted(t)' /\ Snapshot(t)'
    BY <1>2, <2>2 DEF DeleteRow, Phase, Uncommitted, Snapshot
  <2>4. \A u \in Tx \ {t} : held'[t] \cap held[u] = {}
    BY <1>2, <2>2 DEF DeleteRow, Locked, Exclusive
  <2>. QED BY <1>2, <2>1, <2>2, <2>3, <2>4, LocalStep DEF DeleteRow, Exclusive
<1>3. ASSUME NEW b \in Bucket, WriteRow(t, b) PROVE IInv'
  <2>1. TypeOK'
    BY <1>3 DEF WriteRow, TypeOK, totalsVars
  <2>2. /\ Others(t) /\ st' = st /\ got' = got /\ batch' = batch /\ seen' = seen
        /\ UNCHANGED <<detail, rows>>
        /\ held'[t] = held[t] \cup {b} /\ todo'[t] = todo[t] \ {b}
    BY <1>3 DEF WriteRow, Others, TxTypeOK, totalsVars
  <2>3. UpToDate(t, b)
    BY <1>3 DEF WriteRow, KeyFree, Snapshot
  <2>4. Phase(t)' /\ Uncommitted(t)'
    BY <1>3, <2>2 DEF WriteRow, Phase, Uncommitted
  <2>5. Snapshot(t)'
    BY <2>2, <2>3 DEF Snapshot, UpToDate
  <2>6. \A u \in Tx \ {t} : held'[t] \cap held[u] = {}
    BY <1>3, <2>2 DEF WriteRow, Locked, Exclusive
  <2>. QED BY <1>3, <2>1, <2>2, <2>4, <2>5, <2>6, LocalStep DEF WriteRow, Exclusive
<1>4. ASSUME Select(t) PROVE IInv'
  <2>1. InDetail(days[t]) \in SUBSET Bucket
    BY BucketAssumption DEF InDetail, BucketsOf
  <2>2. TypeOK'
    BY <1>4, <2>1 DEF Select, TypeOK, totalsVars
  <2>3. /\ Others(t) /\ st'[t] = "write" /\ got' = got /\ batch' = batch
        /\ held' = held /\ UNCHANGED detail
        /\ seen'[t] = detail /\ todo'[t] = InDetail(days[t])
    BY <1>4 DEF Select, Others, TxTypeOK, totalsVars
  <2>4. Phase(t)' /\ Uncommitted(t)'
    BY <1>4, <2>3 DEF Select, Phase, Uncommitted
  <2>5. Snapshot(t)'
    BY <2>3 DEF Snapshot, UpToDate, InDetail, BucketsOf
  <2>. QED BY <1>4, <2>2, <2>3, <2>4, <2>5, LocalStep DEF Select, Exclusive
<1>. QED BY <1>1, <1>2, <1>3, <1>4

(* What a rebuild read before others committed is still what it should     *)
(* write: nobody could have changed it.                                    *)
LEMMA CommitRebuildStep ==
  ASSUME IInv, NEW t \in Tx, CommitRebuild(t)
  PROVE  IInv' /\ T!Rebuild(held[t])
<1>. /\ TxTypeOK /\ TablesTypeOK /\ TypeOK
     /\ Snapshot(t) /\ Exclusive /\ DailyIsDetail
  BY TypeParts DEF IInv
<1>1. /\ TxTypeOK' /\ Others(t) /\ held'[t] = {} /\ got'[t] = {}
      /\ Phase(t)' /\ Uncommitted(t)' /\ Snapshot(t)'
  BY EndFacts DEF CommitRebuild
<1>2. /\ held[t] \in SUBSET Bucket /\ seen[t] \in [Record -> Version \cup {Absent}]
      /\ Recount(held[t], seen[t]) /\ detail' = detail /\ drifted' = drifted \ held[t]
  BY DEF CommitRebuild, TxTypeOK
<1>3. \A b \in held[t] : UpToDate(t, b)
  BY DEF CommitRebuild, Snapshot
<1>4. /\ rows' \subseteq Bucket /\ total' \in [Record \X Version -> Nat]
      /\ \A b \in held[t] :
           /\ b \in rows' <=> \E r \in Record : BucketOf[r] = b /\ seen[t][r] # Absent
           /\ \A r \in Record, v \in Version :
                BucketOf[r] = b => total'[<<r, v>>] = IF seen[t][r] = v THEN 1 ELSE 0
      /\ \A b \in Bucket \ held[t] :
           /\ b \in rows' <=> b \in rows
           /\ \A r \in Record, v \in Version :
                BucketOf[r] = b => total'[<<r, v>>] = total[<<r, v>>]
  BY <1>2, RecountExact
<1>5. TypeOK'
  BY <1>1, <1>2, <1>4 DEF CommitRebuild, TypeOK, TxTypeOK
<1>6. DailyIsDetail'
  <2>1. ASSUME NEW b \in held[t] PROVE Exact(b, detail)'
    BY <1>2, <1>3, <1>4 DEF Exact, UpToDate
  <2>2. ASSUME NEW b \in Bucket \ held[t], Exact(b, detail) PROVE Exact(b, detail)'
    BY <1>2, <1>4, <2>2 DEF Exact
  <2>. QED BY <1>2, <2>1, <2>2 DEF DailyIsDetail
<1>7. Exclusive'
  BY <1>1 DEF Exclusive, Others
<1>8. ASSUME NEW u \in Tx PROVE Phase(u)' /\ Uncommitted(u)' /\ Snapshot(u)'
  <2>1. CASE u = t
    BY <1>1, <2>1
  <2>2. CASE u # t
    <3>1. Phase(u) /\ Uncommitted(u) /\ Snapshot(u)
      BY DEF IInv
    <3>2. /\ st'[u] = st[u] /\ batch'[u] = batch[u] /\ got'[u] = got[u]
          /\ held'[u] = held[u] /\ seen'[u] = seen[u]
          /\ todo'[u] = todo[u] \/ st[u] = "delete"
      BY <1>1, <2>2 DEF Others
    <3>3. Phase(u)'
      BY <3>1, <3>2 DEF Phase
    <3>4. Uncommitted(u)'
      BY <1>2, <3>1, <3>2 DEF Uncommitted
    <3>5. ASSUME NEW b \in rows, \E r \in Record : BucketOf[r] = b /\ detail[r] # Absent
          PROVE  b \in rows'
      <4>1. CASE b \in held[t]
        BY <1>3, <1>4, <3>5, <4>1 DEF UpToDate
      <4>2. CASE b \notin held[t]
        BY <1>4, <4>2 DEF TablesTypeOK
      <4>. QED BY <4>1, <4>2
    <3>6. Snapshot(u)'
      BY <1>2, <3>1, <3>2, <3>5 DEF Snapshot, UpToDate
    <3>. QED BY <3>3, <3>4, <3>6
  <2>. QED BY <2>1, <2>2
<1>9. T!Rebuild(held[t])
  <2> DEFINE old == BucketsOf({r \in Record : seen[t][r] # Absent})
             new == BucketsOf({r \in Record : detail[r] # Absent})
  <2>1. held[t] \cap old = held[t] \cap new
    BY <1>3 DEF UpToDate, BucketsOf
  <2>2. rows' = (rows \ held[t]) \cup (held[t] \cap new)
    BY <1>2, <2>1 DEF Recount
  <2>3. total' = [c \in Record \X Version |->
                    IF BucketOf[c[1]] \in held[t]
                      THEN IF detail[c[1]] = c[2] THEN 1 ELSE 0
                      ELSE total[c]]
    <3>1. \A c \in Record \X Version :
            BucketOf[c[1]] \in held[t] => seen[t][c[1]] = detail[c[1]]
      BY <1>3 DEF UpToDate
    <3>. QED BY <1>2, <3>1 DEF Recount
  <2>. QED BY <1>2, <2>2, <2>3
           DEF T!Rebuild, T!Recount, T!BucketsOf, BucketsOf, T!Version, Version
<1>. QED BY <1>5, <1>6, <1>7, <1>8, <1>9 DEF IInv

-----------------------------------------------------------------------------
(* What else happens to the tables.                                        *)

(* While nobody is at work, IInv is about the tables alone.                *)
LEMMA AllIdleStep ==
  ASSUME IInv, \A t \in Tx : st[t] = "idle", UNCHANGED txVars, TypeOK', DailyIsDetail'
  PROVE  IInv'
<1>1. Exclusive'
  BY DEF IInv, Exclusive, txVars
<1>2. \A t \in Tx : Phase(t)' /\ Uncommitted(t)' /\ Snapshot(t)'
  BY DEF IInv, Phase, Uncommitted, Snapshot, txVars
<1>. QED BY <1>1, <1>2 DEF IInv

(* The repair of Codex records runs while no transaction does, and         *)
(* rebuilds every day it has changed.                                      *)
LEMMA RepairStep ==
  ASSUME IInv, NEW S \in SUBSET Codex, Repair(S)
  PROVE  /\ IInv'
         /\ \E R \in SUBSET Record, B \in SUBSET Bucket : T!Correct(R, B)
<1>. /\ TxTypeOK /\ TablesTypeOK /\ TypeOK /\ DailyIsDetail
  BY TypeParts DEF IInv
<1> DEFINE C == {r \in Scoped : r \in Miscounted /\ detail[r] = "reported"}
           B == {b \in Bucket : DayOf[b] \in RepairDays(C)}
<1>1. /\ \A t \in Tx : st[t] = "idle"
      /\ detail' = [r \in Record |-> IF r \in C THEN "fixed" ELSE detail[r]]
      /\ Recount(B, detail')
      /\ drifted' = drifted \ B
      /\ UNCHANGED <<txVars, today, faults>>
  BY DEF Repair
<1>2. C \in SUBSET Record /\ \A r \in C : detail[r] = "reported"
  BY CodexAssumption DEF Scoped
<1>3. \A r \in C : BucketOf[r] \in B
  BY <1>2, BucketAssumption, DayAssumption DEF RepairDays, Day
<1>. HIDE DEF C, B
<1>4. B \in SUBSET Bucket
  BY DEF B
<1>5. detail' \in [Record -> Version \cup {Absent}]
  BY <1>1 DEF TablesTypeOK, Version
<1>6. /\ rows' \subseteq Bucket /\ total' \in [Record \X Version -> Nat]
      /\ \A b \in B :
           /\ b \in rows' <=> \E r \in Record : BucketOf[r] = b /\ detail'[r] # Absent
           /\ \A r \in Record, v \in Version :
                BucketOf[r] = b => total'[<<r, v>>] = IF detail'[r] = v THEN 1 ELSE 0
      /\ \A b \in Bucket \ B :
           /\ b \in rows' <=> b \in rows
           /\ \A r \in Record, v \in Version :
                BucketOf[r] = b => total'[<<r, v>>] = total[<<r, v>>]
  <2>1. PICK d \in [Record -> Version \cup {Absent}] : d = detail'
    BY <1>5
  <2>2. Recount(B, d)
    BY <1>1, <2>1
  <2>. QED BY <1>4, <2>1, <2>2, RecountExact
<1>7. TypeOK'
  BY <1>1, <1>5, <1>6 DEF TypeOK, txVars
<1>8. DailyIsDetail'
  <2>1. ASSUME NEW b \in B PROVE Exact(b, detail)'
    BY <1>6 DEF Exact
  <2>2. ASSUME NEW b \in Bucket \ B, Exact(b, detail) PROVE Exact(b, detail)'
    <3>1. \A r \in Record : BucketOf[r] = b => detail'[r] = detail[r]
      BY <1>1, <1>3
    <3>. QED BY <1>6, <2>2, <3>1 DEF Exact
  <2>. QED BY <1>1, <2>1, <2>2 DEF DailyIsDetail
<1>9. IInv'
  BY <1>1, <1>7, <1>8, AllIdleStep
<1>10. T!Correct(C, B)
  BY <1>1, <1>2, <1>3, AbsentAssumption
  DEF T!Correct, T!Recount, Recount, T!BucketsOf, BucketsOf, T!Version, Version
<1>. QED BY <1>2, <1>4, <1>9, <1>10

(* Only a rebuild has read what an edit changes, and none is open.         *)
LEMMA EditStep ==
  ASSUME IInv, NEW b \in Bucket, EditByHand(b)
  PROVE  IInv' /\ T!Edit(b)
<1>. /\ TxTypeOK /\ TablesTypeOK /\ TypeOK /\ DailyIsDetail
  BY TypeParts DEF IInv
<1>1. /\ b \in rows /\ drifted' = drifted \cup {b} /\ UNCHANGED <<detail, txVars, today>>
      /\ \A t \in Rebuilder : st[t] = "idle"
      /\ faults' \in 0..MaxFaults
  BY FaultBound DEF EditByHand, TypeOK
<1>2. /\ rows' \in {rows, rows \ {b}}
      /\ total' \in [Record \X Version -> Nat]
      /\ \A c \in Record \X Version : BucketOf[c[1]] # b => total'[c] = total[c]
  <2>1. CASE /\ rows' = rows \ {b}
             /\ total' = [c \in Record \X Version |->
                            IF BucketOf[c[1]] = b THEN 0 ELSE total[c]]
    BY <2>1 DEF TablesTypeOK
  <2>2. CASE /\ rows' = rows
             /\ \E c \in Record \X Version :
                  BucketOf[c[1]] = b /\ total' = [total EXCEPT ![c] = @ + 1]
    <3>1. PICK c \in Record \X Version :
                 BucketOf[c[1]] = b /\ total' = [total EXCEPT ![c] = @ + 1]
      BY <2>2
    <3>2. total[c] \in Nat
      BY DEF TablesTypeOK
    <3>. QED BY <2>2, <3>1, <3>2 DEF TablesTypeOK
  <2>. QED BY <2>1, <2>2 DEF EditByHand
<1>3. TypeOK'
  BY <1>1, <1>2 DEF TypeOK, txVars
<1>4. DailyIsDetail'
  <2>1. ASSUME NEW a \in Bucket \ {b}, Exact(a, detail) PROVE Exact(a, detail)'
    <3>1. ASSUME NEW r \in Record, NEW v \in Version, BucketOf[r] = a
          PROVE  total'[<<r, v>>] = total[<<r, v>>]
      BY <1>2, <3>1
    <3>. QED BY <1>1, <1>2, <2>1, <3>1 DEF Exact
  <2>. QED BY <1>1, <2>1 DEF DailyIsDetail
<1>5. Exclusive'
  BY <1>1 DEF IInv, Exclusive, txVars
<1>6. ASSUME NEW t \in Tx PROVE Phase(t)' /\ Uncommitted(t)' /\ Snapshot(t)'
  <2>1. Phase(t) /\ Uncommitted(t) /\ st[t] # "write"
    BY <1>1 DEF IInv, Phase
  <2>. QED BY <1>1, <2>1 DEF Phase, Uncommitted, Snapshot, txVars
<1>7. T!Edit(b)
  BY <1>1, <1>2 DEF T!Edit, T!Version, Version
<1>. QED BY <1>3, <1>4, <1>5, <1>6, <1>7 DEF IInv

(* Steps that end a transaction without a commit, or touch none.           *)
LEMMA QuietSteps ==
  ASSUME IInv,
         \/ \E t \in Tx : UniqueViolation(t) \/ Abort(t)
         \/ Midnight
         \/ UNCHANGED vars
  PROVE  IInv' /\ UNCHANGED totalsVars
<1>. TypeOK
  BY DEF IInv
<1>1. ASSUME NEW t \in Tx, UniqueViolation(t) PROVE IInv'
  BY <1>1, RollbackStep DEF UniqueViolation, TypeOK
<1>2. ASSUME NEW t \in Tx, Abort(t) PROVE IInv'
  <2>1. faults' \in 0..MaxFaults
    BY <1>2, FaultBound DEF Abort, TypeOK
  <2>. QED BY <1>2, <2>1, RollbackStep DEF Abort
<1>3. ASSUME UNCHANGED <<totalsVars, txVars, drifted>>, TypeOK' PROVE IInv'
  <2>1. DailyIsDetail' /\ Exclusive'
    BY <1>3 DEF IInv, DailyIsDetail, Exact, Exclusive, totalsVars, txVars
  <2>2. ASSUME NEW t \in Tx PROVE Phase(t)' /\ Uncommitted(t)' /\ Snapshot(t)'
    BY <1>3 DEF IInv, Phase, Uncommitted, Snapshot, UpToDate, totalsVars, txVars
  <2>. QED BY <1>3, <2>1, <2>2 DEF IInv
<1>4. CASE Midnight
  <2>1. today' \in Day
    BY <1>4, DayAssumption DEF Midnight, TypeOK, Day
  <2>2. TypeOK'
    BY <1>4, <2>1 DEF Midnight, TypeOK, totalsVars, txVars
  <2>. QED BY <1>3, <1>4, <2>2 DEF Midnight
<1>5. CASE UNCHANGED vars
  <2>1. TypeOK'
    BY <1>5 DEF TypeOK, vars, totalsVars, txVars
  <2>. QED BY <1>3, <1>5, <2>1 DEF vars
<1>6. UNCHANGED totalsVars
  BY DEF UniqueViolation, Abort, Midnight, vars
<1>. QED BY <1>1, <1>2, <1>4, <1>5, <1>6

-----------------------------------------------------------------------------
(* Empty tables, and no transaction under way.                             *)
LEMMA InitInvariant == Init => IInv
<1>. SUFFICES ASSUME Init PROVE IInv
  OBVIOUS
<1>1. TypeOK
  BY DayAssumption, RollupBounds
  DEF Init, TotalsInit, TypeOK, NothingSeen, Day
<1>2. DailyIsDetail
  BY AbsentAssumption DEF Init, TotalsInit, DailyIsDetail, Exact
<1>3. Exclusive
  BY DEF Init, Exclusive
<1>4. \A t \in Tx : Phase(t) /\ Uncommitted(t) /\ Snapshot(t)
  BY DEF Init, Phase, Uncommitted, Snapshot
<1>. QED BY <1>1, <1>2, <1>3, <1>4 DEF IInv

(* Every step keeps the invariant, and is one of Totals or changes nothing *)
(* of the tables.                                                          *)
LEMMA EveryStep ==
  ASSUME IInv, [Next]_vars
  PROVE  IInv' /\ (T!TotalsNext \/ UNCHANGED totalsVars)
<1>. TxTypeOK
  BY TypeParts DEF IInv
<1>1. ASSUME NEW t \in Tx, CommitInsert(t)
      PROVE  IInv' /\ T!TotalsNext
  BY <1>1, CommitInsertStep DEF T!TotalsNext, TxTypeOK
<1>2. ASSUME NEW t \in Tx, CommitRebuild(t)
      PROVE  IInv' /\ T!TotalsNext
  BY <1>2, CommitRebuildStep DEF T!TotalsNext, TxTypeOK
<1>3. ASSUME NEW S \in SUBSET Codex, Repair(S)
      PROVE  IInv' /\ T!TotalsNext
  BY <1>3, RepairStep DEF T!TotalsNext
<1>4. ASSUME NEW b \in Bucket, EditByHand(b)
      PROVE  IInv' /\ T!TotalsNext
  BY <1>4, EditStep DEF T!TotalsNext
<1>5. ASSUME NEW t \in Tx,
             \/ \E R \in SUBSET Record : Insert(t, R)
             \/ \E r \in Record : InsertRow(t, r)
             \/ Aggregate(t)
             \/ \E b \in Bucket : RollRow(t, b)
      PROVE  IInv' /\ UNCHANGED totalsVars
  BY <1>5, InsertSteps DEF Insert, InsertRow, Aggregate, RollRow
<1>6. ASSUME NEW t \in Tx,
             \/ t \in Loops /\ Delete(t)
             \/ \E b \in Bucket : DeleteRow(t, b) \/ WriteRow(t, b)
             \/ Select(t)
      PROVE  IInv' /\ UNCHANGED totalsVars
  BY <1>6, RebuildSteps DEF Delete, DeleteRow, WriteRow, Select
<1>7. ASSUME NEW t \in Tx, Statement(t) \/ Abort(t)
      PROVE  IInv' /\ (T!TotalsNext \/ UNCHANGED totalsVars)
  BY <1>1, <1>2, <1>5, <1>6, <1>7, QuietSteps DEF Statement
<1>8. /\ Loops \subseteq Tx /\ Ingester \subseteq Tx
  BY LoopsAssumption DEF Tx
<1>. QED BY <1>3, <1>4, <1>5, <1>6, <1>7, <1>8, QuietSteps DEF Next

(* The invariant holds in every reachable state.                           *)
LEMMA InvariantHolds == Spec => []IInv
<1>1. IInv /\ [Next]_vars => IInv'
  BY EveryStep
<1>. QED BY <1>1, InitInvariant, PTL DEF Spec

-----------------------------------------------------------------------------
(* Every reachable state is that of tables, and of transactions that hold  *)
(* rows of them.                                                           *)
THEOREM RollupTypeCorrect == Spec => []TypeOK
<1>1. IInv => TypeOK
  BY DEF IInv
<1>. QED BY <1>1, InvariantHolds, PTL

(* usage_daily is what usage_detail adds up to, but for rows edited by     *)
(* hand: no double counting and no lost update, however many ingests and   *)
(* rebuilds overlap, roll back, wait for each other or deadlock            *)
(* (store.go:558-562).                                                     *)
THEOREM DailyIsAlwaysDetail == Spec => []DailyIsDetail
<1>1. IInv => DailyIsDetail
  BY DEF IInv
<1>. QED BY <1>1, InvariantHolds, PTL

(* The transactions are serializable: Rollup implements Totals, where each *)
(* happens at once.                                                        *)
THEOREM RollupImplementsTotals == Spec => TotalsHold
<1>1. Init => T!TotalsInit
  BY DEF Init, TotalsInit, T!TotalsInit, Version, T!Version
<1>2. IInv /\ [Next]_vars => [T!TotalsNext]_(T!totalsVars)
  BY EveryStep DEF totalsVars, T!totalsVars
<1>. QED
  BY <1>1, <1>2, InvariantHolds, PTL DEF Spec, TotalsHold, T!TotalsSpec
-----------------------------------------------------------------------------
(* The page.                                                               *)

(* Whatever is chosen and offered, the dropdown names a filter.            *)
LEMMA BoxType ==
  ASSUME box \in Filter, NEW s, NEW K, RenderUserOptions(s, K)
  PROVE  box' \in Filter
BY DEF RenderUserOptions, Filter

(* A load of the page that begins asks for what is selected then.          *)
LEMMA BeginLoadType ==
  ASSUME PageTypeOK, sel' \in Selection, NEW i \in Load, BeginLoad(i)
  PROVE  /\ loads' \in [Load -> [sel : Selection \cup {Nothing},
                                act : Filter \cup {Nothing}, open : SUBSET Request]]
         /\ \A j \in Load : "rows" \in loads'[j].open => loads'[j].open = {"rows"}
<1>. DEFINE new == [sel |-> sel', act |-> Nothing, open |-> {"rows"}]
<1>1. new \in [sel : Selection \cup {Nothing}, act : Filter \cup {Nothing},
              open : SUBSET Request]
  BY DEF Request
<1>2. loads' = [loads EXCEPT ![i] = new] /\ new.open = {"rows"}
  BY DEF BeginLoad
<1>. HIDE DEF new
<1>. QED BY <1>1, <1>2 DEF PageTypeOK

(* An answer takes one request off those that are open.                    *)
LEMMA AnswersType ==
  ASSUME PageTypeOK, NEW i \in Load, NEW r \in Request, Answers(i, r)
  PROVE  /\ loads' \in [Load -> [sel : Selection \cup {Nothing},
                                act : Filter \cup {Nothing}, open : SUBSET Request]]
         /\ \A j \in Load : "rows" \in loads'[j].open => loads'[j].open = {"rows"}
         /\ loads[i].sel \in Selection \cup {Nothing}
         /\ loads[i].act \in Filter \cup {Nothing}
<1>. DEFINE LoadType == [sel : Selection \cup {Nothing}, act : Filter \cup {Nothing},
                         open : SUBSET Request]
            new == IF loads[i].open = {r}
                     THEN NoLoad
                     ELSE [loads[i] EXCEPT !.open = @ \ {r}]
<1>1. loads[i] \in LoadType /\ ("rows" \in loads[i].open => loads[i].open = {"rows"})
  BY DEF PageTypeOK
<1>2. new \in LoadType /\ new.open \subseteq loads[i].open
  BY <1>1 DEF NoLoad
<1>3. "rows" \in new.open => new.open = {"rows"}
  BY <1>1, <1>2
<1>4. loads' = [loads EXCEPT ![i] = new]
  BY DEF Answers
<1>5. loads[i].sel \in Selection \cup {Nothing} /\ loads[i].act \in Filter \cup {Nothing}
  BY <1>1
<1>. HIDE DEF new
<1>. QED BY <1>2, <1>3, <1>4, <1>5 DEF PageTypeOK

(* Every load that is open waits for /summary alone or for other answers   *)
(* alone, and what is shown is an answer to some selection                 *)
(* (app.js:202-253).                                                       *)
THEOREM PageTypeCorrect == PageSpec => []PageTypeOK
<1>1. PageInit => PageTypeOK
  BY DashboardAssumption, DashboardBounds
  DEF PageInit, PageTypeOK, Selection, Filter, NoLoad
<1>2. PageTypeOK /\ [PageNext]_pageVars => PageTypeOK'
  <2>. SUFFICES ASSUME PageTypeOK, [PageNext]_pageVars PROVE PageTypeOK'
    OBVIOUS
  <2>1. CASE UNCHANGED pageVars
    BY <2>1 DEF pageVars, PageTypeOK
  <2>2. ASSUME NEW i \in Load, SummaryAnswered(i) PROVE PageTypeOK'
    <3>. DEFINE new == [loads[i] EXCEPT !.act = sel.user, !.open = Request \ {"rows"}]
    <3>1. /\ loads[i] \in [sel : Selection \cup {Nothing}, act : Filter \cup {Nothing},
                           open : SUBSET Request]
          /\ sel.user \in Filter
      BY DEF PageTypeOK, Selection
    <3>2. /\ new \in [sel : Selection \cup {Nothing}, act : Filter \cup {Nothing},
                      open : SUBSET Request]
          /\ "rows" \notin new.open
      BY <3>1
    <3>3. loads' = [loads EXCEPT ![i] = new]
      BY <2>2, <3>1 DEF SummaryAnswered, FollowUps, Background, PageTypeOK
    <3>4. box' \in Filter
      BY <2>2, BoxType DEF SummaryAnswered, PageTypeOK
    <3>5. shown' \in [{"rows"} \cup Cards -> Selection \cup {Nothing}]
      BY <2>2, <3>1 DEF SummaryAnswered, PageTypeOK
    <3>6. UNCHANGED <<sel, heat, known, clicks, misses>>
      BY <2>2 DEF SummaryAnswered
    <3>. HIDE DEF new
    <3>. QED BY <3>2, <3>3, <3>4, <3>5, <3>6 DEF PageTypeOK
  <2>3. ASSUME NEW i \in Load, NEW c \in Cards, CardAnswered(i, c) PROVE PageTypeOK'
    <3>1. c \in Request /\ Answers(i, c)
      BY <2>3 DEF CardAnswered, Request
    <3>. QED BY <2>3, <3>1, AnswersType DEF CardAnswered, PageTypeOK
  <2>4. ASSUME NEW i \in Load, ActivityAnswered(i) PROVE PageTypeOK'
    <3>1. "activity" \in Request /\ Answers(i, "activity")
      BY <2>4 DEF ActivityAnswered, Request
    <3>. QED BY <2>4, <3>1, AnswersType DEF ActivityAnswered, PageTypeOK
  <2>5. ASSUME NEW i \in Load, UsersAnswered(i) PROVE PageTypeOK'
    <3>1. "users" \in Request /\ Answers(i, "users")
      BY <2>5 DEF UsersAnswered, Request
    <3>2. box' \in Filter
      BY <2>5, BoxType DEF UsersAnswered, PageTypeOK
    <3>. QED BY <2>5, <3>1, <3>2, AnswersType DEF UsersAnswered, PageTypeOK
  <2>6. ASSUME NEW i \in Load, Lost(i) PROVE PageTypeOK'
    <3>1. PICK r \in Request : /\ Answers(i, r) /\ Miss
                              /\ \/ SummaryFails(i) \/ NoAnswer(i, r)
                                 \/ HttpError(i, r)
      BY <2>6 DEF Lost, SummaryFails, HttpError, NoAnswer, Request
    <3>2. misses' \in 0..MaxMisses
      BY <3>1, DashboardBounds DEF Miss, PageTypeOK
    <3>3. CASE SummaryFails(i) \/ NoAnswer(i, r)
      <4>1. UNCHANGED <<sel, box, shown, heat, known, clicks>>
        BY <3>3 DEF SummaryFails, NoAnswer
      <4>. QED BY <3>1, <3>2, <4>1, AnswersType DEF PageTypeOK
    <3>4. CASE HttpError(i, r)
      <4>1. box' \in Filter
        BY <3>4, BoxType DEF HttpError, PageTypeOK
      <4>2. /\ UNCHANGED <<sel, clicks>> /\ known' \subseteq User
            /\ heat' \in Filter \cup {Nothing}
        BY <3>4 DEF HttpError, PageTypeOK
      <4>3. shown' \in [{"rows"} \cup Cards -> Selection \cup {Nothing}]
        BY <3>4 DEF HttpError, PageTypeOK
      <4>. QED BY <3>1, <3>2, <4>1, <4>2, <4>3, AnswersType DEF PageTypeOK
    <3>. QED BY <3>1, <3>3, <3>4
  <2>7. ASSUME NEW u \in Filter, PickUser(u) PROVE PageTypeOK'
    <3>1. sel' \in Selection /\ clicks' \in 0..MaxClicks
      BY <2>7, DashboardBounds DEF PickUser, Click, PageTypeOK, Selection
    <3>. QED BY <2>7, <3>1, BeginLoadType DEF PickUser, PageTypeOK
  <2>8. ASSUME NEW d \in RangeOption, PickRange(d) PROVE PageTypeOK'
    <3>1. sel' \in Selection /\ clicks' \in 0..MaxClicks
      BY <2>8, DashboardBounds DEF PickRange, Click, PageTypeOK, Selection
    <3>. QED BY <2>8, <3>1, BeginLoadType DEF PickRange, PageTypeOK
  <2>9. CASE Refresh
    <3>1. sel' \in Selection
      BY <2>9 DEF Refresh, PageTypeOK
    <3>. QED BY <2>9, <3>1, BeginLoadType DEF Refresh, PageTypeOK
  <2>. QED
    BY <2>1, <2>2, <2>3, <2>4, <2>5, <2>6, <2>7, <2>8, <2>9 DEF PageNext, Answered
<1>. QED BY <1>1, <1>2, PTL DEF PageSpec

(* A choice that is offered stays chosen.                                  *)
LEMMA BoxStays ==
  ASSUME NEW s, NEW K, box \in Filter, User \subseteq K, RenderUserOptions(s, K)
  PROVE  box' = box
BY DEF RenderUserOptions, Offered, Filter

(* As long as /users is known, the dropdown goes on naming the filter, in  *)
(* whatever order the answers of overlapping loads arrive and whichever of *)
(* them fail (app.js:336-350).                                             *)
THEOREM BoxKeepsNamingFilter == PageSpec => BoxIsFilter
<1>1. PageTypeOK /\ [PageNext]_pageVars =>
        [(box = sel.user /\ known' = User) => box' = sel'.user]_pageVars
  <2>. SUFFICES ASSUME PageTypeOK, PageNext, box = sel.user, known' = User
                PROVE  box' = sel'.user
    OBVIOUS
  <2>. box \in Filter /\ sel \in Selection
    BY DEF PageTypeOK
  <2>1. ASSUME NEW i \in Load, SummaryAnswered(i) PROVE box' = sel'.user
    <3>1. UNCHANGED <<sel, known>> /\ RenderUserOptions(loads[i].sel, known)
      BY <2>1 DEF SummaryAnswered
    <3>. QED BY <3>1, BoxStays
  <2>2. ASSUME NEW i \in Load, UsersAnswered(i) PROVE box' = sel'.user
    <3>1. UNCHANGED sel /\ RenderUserOptions(shown["rows"], User)
      BY <2>2 DEF UsersAnswered
    <3>. QED BY <3>1, BoxStays
  <2>3. ASSUME NEW i \in Load, NEW r \in Request, HttpError(i, r)
        PROVE  box' = sel'.user
    <3>1. CASE r = "users"
      <4>1. UNCHANGED sel /\ known' = {} /\ RenderUserOptions(shown["rows"], {})
        BY <2>3, <3>1 DEF HttpError
      <4>. QED BY <4>1, BoxStays
    <3>2. CASE r # "users"
      BY <2>3, <3>2 DEF HttpError
    <3>. QED BY <3>1, <3>2
  <2>4. ASSUME NEW u \in Filter, PickUser(u) PROVE box' = sel'.user
    BY <2>4 DEF PickUser, Selection
  <2>5. ASSUME NEW d \in RangeOption, PickRange(d) PROVE box' = sel'.user
    BY <2>5 DEF PickRange, Selection
  <2>6. ASSUME UNCHANGED <<sel, box>> PROVE box' = sel'.user
    BY <2>6
  <2>7. \/ UNCHANGED <<sel, box>>
        \/ \E i \in Load : SummaryAnswered(i) \/ UsersAnswered(i)
        \/ \E i \in Load, r \in Request : HttpError(i, r)
        \/ \E u \in Filter : PickUser(u)
        \/ \E d \in RangeOption : PickRange(d)
    BY DEF PageNext, Answered, Lost, CardAnswered, ActivityAnswered, SummaryFails,
           NoAnswer, Refresh
  <2>. QED BY <2>1, <2>2, <2>3, <2>4, <2>5, <2>6, <2>7
<1>. QED BY <1>1, PageTypeCorrect, PTL DEF PageSpec, BoxIsFilter

=============================================================================
