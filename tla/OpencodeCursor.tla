--------------------------- MODULE OpencodeCursor ---------------------------
(***************************************************************************)
(* How the watcher reads opencode's database: two queries, first the       *)
(* messages, then the parts, for rows whose time_updated is beyond the     *)
(* watermark of the last scan, and one new watermark for both tables.      *)
(* opencode goes on writing between the queries. Each query sees what was  *)
(* committed when it ran.                                                  *)
(*                                                                         *)
(* A row is first written "open" (a turn without tokens yet, a tool call   *)
(* that has not completed) and yields a record once it is "final".         *)
(*                                                                         *)
(* pc: "idle" between passes, "messages" and "parts" before the two        *)
(* queries, "done" from the return of Scan to the end of the pass.         *)
(***************************************************************************)
EXTENDS Naturals

CONSTANTS
  Message,     \* rows of the message table
  Part,        \* rows of the part table
  Ties,        \* two writes may happen within one millisecond
  MaxTime,     \* bound on the clock of opencode, in ms
  MaxRebuilds, \* bound on how often the database is created anew
  MaxFaults    \* bound on queries and passes that fail

Row == Message \cup Part

ASSUME RowAssumption == Message \cap Part = {}
ASSUME TiesAssumption == Ties \in BOOLEAN
ASSUME CursorBounds ==
  MaxTime \in Nat /\ MaxRebuilds \in Nat /\ MaxFaults \in Nat

Db      == 1..(MaxRebuilds + 1)
Time    == 0..MaxTime
Absent  == [status |-> "absent", time |-> 0]

VARIABLES
  dbs,       \* the rows of each database
  current,   \* the database that has the name; also its inode
  clock,     \* the last time_updated
  state,     \* FileState in the checkpoint
  pc,        \* where the scan is
  stat,      \* the inode as of os.Stat
  opened,    \* the database the queries run on
  maxSeen,   \* highest time_updated read by this scan
  got,       \* final rows read by this scan
  emitted,   \* history: rows whose record became durable
  late,      \* history: rows written too late for a query
  faults     \* how many things have gone wrong so far

dbVars   == <<dbs, current, clock>>
scanVars == <<stat, opened, maxSeen, got>>
vars     == <<dbVars, scanVars, state, pc, emitted, late, faults>>

NoState == [inode |-> 0, offset |-> 0]

Init ==
  /\ dbs = [d \in Db |-> [r \in Row |-> Absent]]
  /\ current = 1
  /\ clock = 0
  /\ state = NoState
  /\ pc = "idle"
  /\ stat = 0
  /\ opened = 1
  /\ maxSeen = 0
  /\ got = {}
  /\ emitted = {}
  /\ late = {}
  /\ faults = 0

Fault == faults < MaxFaults /\ faults' = faults + 1

-----------------------------------------------------------------------------
(* Variants of the definitions below, each with a plausible slip.          *)
SameWatermarkAnyDatabase  == state.offset
FromWhereTheMessagesEnded == maxSeen
OneTooMany(d, T, t)       == {r \in T : dbs[d][r].time > t + 1}
WatermarkFromTheClock     == [inode |-> stat, offset |-> clock + 1]
-----------------------------------------------------------------------------
(* opencode.                                                               *)

(* A row stamped t that no query will see although the watermark passes    *)
(* it: a message written between the two queries, or a row stamped in a    *)
(* millisecond that has been read already.                                 *)
TooLate(r, t) ==
  \/ opened = current /\ pc = "parts" /\ r \in Message
  \/ opened = current /\ pc \in {"parts", "done"} /\ t <= maxSeen
  \/ state.inode = current /\ t <= state.offset

(* Insert or update, stamped with the time.                                *)
Write(r, status, t) ==
  /\ dbs[current][r].status # "final"
  /\ t = clock + 1 \/ (Ties /\ clock > 0 /\ t = clock)
  /\ t <= MaxTime
  /\ clock' = t
  /\ dbs' = [dbs EXCEPT ![current][r] = [status |-> status, time |-> t]]
  /\ late' = IF TooLate(r, t) THEN late \cup {<<current, r>>} ELSE late
  /\ UNCHANGED <<current, scanVars, state, pc, emitted, faults>>

(* The database is created anew and filled again.                          *)
Rebuild ==
  /\ current <= MaxRebuilds
  /\ current' = current + 1
  /\ UNCHANGED <<dbs, clock, scanVars, state, pc, emitted, late, faults>>

-----------------------------------------------------------------------------
(* opencodeParser.Scan.                                                    *)

(* The watermark of another database is forgotten.                         *)
Cursor == IF state.inode # stat THEN 0 ELSE state.offset

Stat ==
  /\ pc = "idle"
  /\ stat' = current
  /\ pc' = "messages"
  /\ UNCHANGED <<dbVars, opened, maxSeen, got, state, emitted, late, faults>>

(* The rows of table T stamped later than t.                               *)
Select(d, T, t) == {r \in T : dbs[d][r].time > t}

(* The later of s and the stamps of the rows R, and the final ones of R.   *)
Collect(d, R, s) ==
  /\ maxSeen' \in {dbs[d][r].time : r \in R} \cup {s}
  /\ \A t \in {dbs[d][r].time : r \in R} \cup {s} : t <= maxSeen'
  /\ got' = got \cup {<<d, r>> : r \in {q \in R : dbs[d][q].status = "final"}}

(* The database is opened by the first query.                              *)
QueryMessages ==
  /\ pc = "messages"
  /\ opened' = current
  /\ Collect(current, Select(current, Message, Cursor), Cursor)
  /\ pc' = "parts"
  /\ UNCHANGED <<dbVars, stat, state, emitted, late, faults>>

PartsCursor == Cursor

QueryParts ==
  /\ pc = "parts"
  /\ Collect(opened, Select(opened, Part, PartsCursor), maxSeen)
  /\ pc' = "done"
  /\ UNCHANGED <<dbVars, stat, opened, state, emitted, late, faults>>

ScanOver ==
  /\ pc' = "idle"
  /\ stat' = 0
  /\ opened' = 1
  /\ maxSeen' = 0
  /\ got' = {}

(* A query fails (the database stays locked), or the process dies.         *)
ScanFails ==
  /\ pc \in {"messages", "parts"}
  /\ Fault
  /\ ScanOver
  /\ UNCHANGED <<dbVars, state, emitted, late>>

(* The FileState that the scan returns.                                    *)
NextState == [inode |-> stat, offset |-> maxSeen]

(* The pass succeeds: Checkpoint.Set.                                      *)
Durable ==
  /\ pc = "done"
  /\ emitted' = emitted \cup got
  /\ state' = NextState
  /\ ScanOver
  /\ UNCHANGED <<dbVars, late, faults>>

(* The pass fails after some of the rows became durable.                   *)
NotDurable ==
  /\ pc = "done"
  /\ Fault
  /\ \E G \in SUBSET got : emitted' = emitted \cup G
  /\ ScanOver
  /\ UNCHANGED <<dbVars, state, late>>

Step == Stat \/ QueryMessages \/ QueryParts \/ Durable

Next ==
  \/ \E r \in Row, status \in {"open", "final"}, t \in Time : Write(r, status, t)
  \/ Rebuild
  \/ Step
  \/ ScanFails
  \/ NotDurable

Spec     == Init /\ [][Next]_vars
FairSpec == Spec /\ WF_vars(Step)

-----------------------------------------------------------------------------
TypeOK ==
  /\ dbs \in [Db -> [Row -> [status : {"absent", "open", "final"}, time : Time]]]
  /\ current \in Db
  /\ clock \in Time
  /\ state \in [inode : Db \cup {0}, offset : Time]
  /\ pc \in {"idle", "messages", "parts", "done"}
  /\ stat \in Db \cup {0}
  /\ opened \in Db
  /\ maxSeen \in Time
  /\ got \subseteq Db \X Row
  /\ emitted \subseteq Db \X Row
  /\ late \subseteq Db \X Row
  /\ faults \in 0..MaxFaults

(* The final rows that no scan will read any more.                         *)
PassedOver ==
  {<<current, r>> : r \in {q \in Row :
     /\ dbs[current][q].status = "final"
     /\ state.inode = current
     /\ dbs[current][q].time <= state.offset}} \ emitted

(* A row is passed over only if it was written too late: between the two   *)
(* queries of a scan, and only as a message, or within a millisecond that  *)
(* had been read. Nothing else (a failed query or pass, a database created *)
(* anew in mid-scan, the order in which the tables are written) loses one. *)
OnlyLateRows == PassedOver \subseteq late

(* Every other row becomes durable in the end.                             *)
EverythingRead ==
  \A r \in Row, d \in Db :
    (current = d /\ dbs[d][r].status = "final")
      ~> (<<d, r>> \in emitted \cup late \/ current # d)

-----------------------------------------------------------------------------
(* opencode.go:69-72: the two tables are stamped by one process, "so one   *)
(* watermark is coherent for the pair": no row below it is unread. A       *)
(* message that is finished between the two queries stays below the stamp  *)
(* of a part which the second one reads.                                   *)
CoherentWatermark == PassedOver = {}
=============================================================================
