------------------------ MODULE OpencodeCursorProofs ------------------------
(***************************************************************************)
(* Proofs about OpencodeCursor, for any rows, with and without ties, and   *)
(* any number of milliseconds, rebuilds and faults.                        *)
(*                                                                         *)
(* One watermark stands for two queries, so OnlyLateRows has to be carried *)
(* through them: after the first one it is about all the messages that are *)
(* there, also those beyond what has been read so far, since the second    *)
(* query may move the watermark past them; after the second one about all  *)
(* rows up to the new watermark.                                           *)
(***************************************************************************)
EXTENDS OpencodeCursor, TLAPS

Final(d, r) == dbs[d][r].status = "final"

(* The scan looks at the database whose inode it has noted, or a later     *)
(* one; so does the checkpoint.                                            *)
Inodes ==
  /\ state.inode <= current
  /\ stat <= current
  /\ pc = "idle" <=> stat = 0
  /\ pc \in {"parts", "done"} => stat <= opened /\ opened <= current

Stamped == \A d \in Db, r \in Row : Final(d, r) => dbs[d][r].time > 0

Read == emitted \cup late

StateSound ==
  state.inode = current =>
    \A r \in Row : Final(current, r) /\ dbs[current][r].time <= state.offset
                     => <<current, r>> \in Read

ScanSound ==
  stat = current =>
    /\ pc = "parts" => \A r \in Message :
         Final(current, r) => <<current, r>> \in got \cup Read
    /\ pc = "done" => \A r \in Row :
         Final(current, r) /\ dbs[current][r].time <= maxSeen
           => <<current, r>> \in got \cup Read

IInv == TypeOK /\ Inodes /\ Stamped /\ StateSound /\ ScanSound
-----------------------------------------------------------------------------
(* Numbers and databases.                                                  *)
LEMMA Typed ==
  ASSUME TypeOK
  PROVE  /\ current \in Nat /\ current \in Db /\ opened \in Nat /\ stat \in Nat
         /\ state.inode \in Nat /\ state.offset \in Nat /\ state.offset \in Time
         /\ maxSeen \in Nat /\ clock \in Nat /\ MaxTime \in Nat /\ MaxRebuilds \in Nat
         /\ 0 \in Time /\ 1 \in Db /\ 0 \notin Db
         /\ \A d \in Db, r \in Row : dbs[d][r].time \in Nat
  BY CursorBounds DEF TypeOK, Db, Time

(* Outside a scan there is nothing for ScanSound to say.                   *)
LEMMA ScanOverStep ==
  ASSUME IInv, ScanOver, current' = current
  PROVE  ScanSound' /\ (state' = state => Inodes')
<1>1. current # 0 /\ 0 <= current
  BY Typed DEF IInv
<1>2. ScanSound'
  BY <1>1 DEF ScanOver, ScanSound
<1>3. state' = state => Inodes'
  BY <1>1 DEF IInv, ScanOver, Inodes
<1>. QED BY <1>2, <1>3

-----------------------------------------------------------------------------
(* What opencode does.                                                     *)

(* A row that becomes final below the watermark, or as a message after the *)
(* messages were read, is one of those that are written too late.          *)
LEMMA WriteStep ==
  ASSUME IInv, NEW r \in Row, NEW status \in {"open", "final"}, NEW t \in Time,
         Write(r, status, t)
  PROVE  IInv'
<1>. TypeOK /\ Inodes /\ Stamped /\ StateSound /\ ScanSound
  BY DEF IInv
<1>. DEFINE row == [status |-> status, time |-> t]
<1>1. /\ UNCHANGED <<current, stat, opened, maxSeen, got, state, pc, emitted, faults>>
      /\ late' \subseteq late \cup {<<current, r>>}
      /\ clock' = t
  BY DEF Write, scanVars
<1>2. late \subseteq late' /\ (TooLate(r, t) => <<current, r>> \in late')
  BY DEF Write
<1>3. t > 0
  BY Typed DEF Write, Time
<1>4. /\ dbs' = [dbs EXCEPT ![current] = [dbs[current] EXCEPT ![r] = row]]
      /\ dbs' \in [Db -> [Row -> [status : {"absent", "open", "final"}, time : Time]]]
  BY Typed DEF Write, TypeOK
<1>5. \A d \in Db, q \in Row :
        dbs'[d][q] = IF d = current /\ q = r THEN row ELSE dbs[d][q]
  BY <1>4, Typed DEF TypeOK
<1>6. TypeOK'
  BY <1>1, <1>4, Typed DEF TypeOK
<1>7. Inodes'
  BY <1>1 DEF Inodes
<1>8. Stamped'
  BY <1>3, <1>5 DEF Stamped, Final
<1>9. ASSUME NEW q \in Row
      PROVE  /\ q # r => dbs'[current][q] = dbs[current][q]
             /\ q = r => dbs'[current][q].time = t
  BY <1>5, Typed
<1>10. StateSound'
  <2>. SUFFICES ASSUME state.inode = current, NEW q \in Row,
                       dbs'[current][q].status = "final",
                       dbs'[current][q].time <= state.offset
                PROVE  <<current, q>> \in emitted \cup late'
    BY <1>1 DEF StateSound, Final, Read
  <2>1. CASE q = r
    <3>1. TooLate(r, t)
      BY <1>9, <2>1 DEF TooLate
    <3>. QED BY <1>2, <2>1, <3>1
  <2>2. CASE q # r
    <3>1. dbs'[current][q] = dbs[current][q]
      BY <1>9, <2>2
    <3>2. <<current, q>> \in Read
      BY <3>1 DEF StateSound, Final
    <3>. QED BY <1>2, <3>2 DEF Read
  <2>. QED BY <2>1, <2>2
<1>11. ScanSound'
  <2>. SUFFICES ASSUME stat = current, NEW q \in Row,
                       dbs'[current][q].status = "final",
                       \/ pc = "parts" /\ q \in Message
                       \/ pc = "done" /\ dbs'[current][q].time <= maxSeen
                PROVE  <<current, q>> \in got \cup emitted \cup late'
    BY <1>1 DEF ScanSound, Final, Read, Row
  <2>1. opened = current
    BY Typed DEF Inodes
  <2>2. CASE q = r
    <3>1. TooLate(r, t)
      BY <1>9, <2>1, <2>2 DEF TooLate
    <3>. QED BY <1>2, <2>2, <3>1
  <2>3. CASE q # r
    <3>1. dbs'[current][q] = dbs[current][q]
      BY <1>9, <2>3
    <3>2. <<current, q>> \in got \cup Read
      BY <3>1 DEF ScanSound, Final, Row
    <3>. QED BY <1>2, <3>2 DEF Read
  <2>. QED BY <2>2, <2>3
<1>. QED BY <1>6, <1>7, <1>8, <1>10, <1>11 DEF IInv

(* No watermark is of the new database.                                    *)
LEMMA RebuildStep ==
  ASSUME IInv, Rebuild
  PROVE  IInv'
<1>. TypeOK /\ Inodes /\ Stamped
  BY DEF IInv
<1>1. /\ UNCHANGED <<dbs, clock, stat, opened, maxSeen, got, state, pc, emitted,
                     late, faults>>
      /\ current' = current + 1 /\ current' \in Db
  BY Typed DEF Rebuild, scanVars, Db
<1>2. state.inode < current' /\ stat < current'
  BY <1>1, Typed DEF Inodes
<1>3. TypeOK'
  BY <1>1 DEF TypeOK
<1>4. Inodes'
  BY <1>1, <1>2, Typed DEF Inodes
<1>5. Stamped'
  BY <1>1 DEF Stamped, Final
<1>6. StateSound' /\ ScanSound'
  BY <1>1, <1>2, Typed DEF StateSound, ScanSound
<1>. QED BY <1>3, <1>4, <1>5, <1>6 DEF IInv

-----------------------------------------------------------------------------
(* The scan.                                                               *)

(* A query collects the final rows beyond its cursor, and no other number  *)
(* than a stamp of theirs becomes the watermark.                           *)
LEMMA Collected ==
  ASSUME TypeOK, NEW d \in Db, NEW T \in SUBSET Row, NEW c \in Time, NEW s \in Time,
         Collect(d, Select(d, T, c), s)
  PROVE  /\ maxSeen' \in Time
         /\ got' \subseteq Db \X Row
         /\ got \subseteq got'
         /\ \A r \in T : Final(d, r) /\ dbs[d][r].time > c => <<d, r>> \in got'
         /\ \A r \in T : dbs[d][r].time > c => dbs[d][r].time <= maxSeen'
  BY DEF Collect, Select, Final, TypeOK

(* The scan remembers which database it has stated.                        *)
LEMMA StatStep ==
  ASSUME IInv, Stat
  PROVE  IInv'
<1>. TypeOK /\ Inodes /\ Stamped /\ StateSound
  BY DEF IInv
<1>1. /\ UNCHANGED <<dbs, current, clock, opened, maxSeen, got, state, emitted,
                     late, faults>>
      /\ stat' = current /\ pc' = "messages"
  BY DEF Stat, dbVars
<1>2. TypeOK'
  BY <1>1 DEF TypeOK
<1>3. Inodes'
  BY <1>1, Typed DEF Inodes
<1>4. Stamped' /\ StateSound' /\ ScanSound'
  BY <1>1 DEF Stamped, StateSound, ScanSound, Final, Read
<1>. QED BY <1>2, <1>3, <1>4 DEF IInv

(* The watermark is that of the database which the scan found.             *)
LEMMA CursorSound ==
  ASSUME IInv, stat = current, NEW r \in Row, Final(current, r),
         dbs[current][r].time <= Cursor
  PROVE  <<current, r>> \in Read
<1>. TypeOK /\ Stamped /\ StateSound
  BY DEF IInv
<1>1. CASE state.inode = stat
  BY <1>1 DEF Cursor, StateSound
<1>2. CASE state.inode # stat
  <2>1. dbs[current][r].time > 0 /\ Cursor = 0
    BY <1>2, Typed DEF Stamped, Cursor
  <2>. QED BY <2>1, Typed
<1>. QED BY <1>1, <1>2

(* The first query: the rows of messages beyond the cursor.                *)
LEMMA QueryMessagesStep ==
  ASSUME IInv, QueryMessages
  PROVE  IInv'
<1>. TypeOK /\ Inodes /\ Stamped /\ StateSound
  BY DEF IInv
<1>1. /\ UNCHANGED <<dbs, current, clock, stat, state, emitted, late, faults>>
      /\ pc = "messages" /\ pc' = "parts" /\ opened' = current
  BY DEF QueryMessages, dbVars
<1>2. Cursor \in Time
  BY Typed DEF Cursor
<1>3. /\ maxSeen' \in Time /\ got' \subseteq Db \X Row
      /\ \A r \in Message : Final(current, r) /\ dbs[current][r].time > Cursor
                              => <<current, r>> \in got'
  BY <1>2, Collected, Typed DEF QueryMessages, Row
<1>4. TypeOK'
  BY <1>1, <1>3, Typed DEF TypeOK
<1>5. Inodes'
  BY <1>1, Typed DEF Inodes
<1>6. Stamped' /\ StateSound'
  BY <1>1 DEF Stamped, StateSound, Final, Read
<1>7. ScanSound'
  <2>. SUFFICES ASSUME stat = current, NEW r \in Message, Final(current, r)
                PROVE  <<current, r>> \in got' \cup Read
    BY <1>1 DEF ScanSound, Final, Read
  <2>1. r \in Row /\ dbs[current][r].time \in Nat /\ Cursor \in Nat
    BY <1>2, Typed DEF Row, Time
  <2>2. CASE dbs[current][r].time > Cursor
    BY <1>3, <2>2
  <2>3. CASE dbs[current][r].time <= Cursor
    BY <2>1, <2>3, CursorSound
  <2>. QED BY <2>1, <2>2, <2>3
<1>. QED BY <1>4, <1>5, <1>6, <1>7 DEF IInv

(* The second query, of the parts beyond the same cursor.                  *)
LEMMA QueryPartsStep ==
  ASSUME IInv, QueryParts
  PROVE  IInv'
<1>. TypeOK /\ Inodes /\ Stamped /\ StateSound /\ ScanSound
  BY DEF IInv
<1>1. /\ UNCHANGED <<dbs, current, clock, stat, opened, state, emitted, late, faults>>
      /\ pc = "parts" /\ pc' = "done"
  BY DEF QueryParts, dbVars
<1>2. Cursor \in Time /\ maxSeen \in Time /\ opened \in Db
  BY Typed DEF Cursor, TypeOK
<1>3. /\ maxSeen' \in Time /\ got' \subseteq Db \X Row /\ got \subseteq got'
      /\ \A r \in Part : Final(opened, r) /\ dbs[opened][r].time > Cursor
                           => <<opened, r>> \in got'
  BY <1>2, Collected DEF QueryParts, PartsCursor, Row
<1>4. TypeOK'
  BY <1>1, <1>3 DEF TypeOK
<1>5. Inodes'
  BY <1>1 DEF Inodes
<1>6. Stamped' /\ StateSound'
  BY <1>1 DEF Stamped, StateSound, Final, Read
<1>7. ScanSound'
  <2>. SUFFICES ASSUME stat = current, NEW r \in Row, Final(current, r)
                PROVE  <<current, r>> \in got' \cup Read
    BY <1>1 DEF ScanSound, Final, Read
  <2>1. /\ opened = current
        /\ dbs[current][r].time \in Nat /\ Cursor \in Nat
    BY <1>1, <1>2, Typed DEF Inodes, Time
  <2>2. CASE r \in Message
    BY <1>1, <1>3, <2>2 DEF ScanSound
  <2>3. CASE r \in Part /\ dbs[current][r].time > Cursor
    BY <1>3, <2>1, <2>3
  <2>4. CASE dbs[current][r].time <= Cursor
    BY <2>4, CursorSound
  <2>. QED BY <2>1, <2>2, <2>3, <2>4 DEF Row
<1>. QED BY <1>4, <1>5, <1>6, <1>7 DEF IInv

-----------------------------------------------------------------------------
(* How a pass ends.                                                        *)

(* A scan that comes to nothing leaves the watermark where it was.         *)
LEMMA FailureSteps ==
  ASSUME IInv, ScanFails \/ NotDurable
  PROVE  IInv'
<1>. TypeOK /\ Stamped /\ StateSound
  BY DEF IInv
<1>1. /\ UNCHANGED <<dbs, current, clock, state, late>>
      /\ ScanOver
  BY DEF ScanFails, NotDurable, dbVars
<1>2. /\ emitted \subseteq emitted' /\ emitted' \subseteq Db \X Row
      /\ faults' \in 0..MaxFaults
  BY CursorBounds DEF ScanFails, NotDurable, Fault, TypeOK
<1>3. TypeOK'
  BY <1>1, <1>2, Typed DEF ScanOver, TypeOK
<1>4. Stamped'
  BY <1>1 DEF Stamped, Final
<1>5. StateSound'
  BY <1>1, <1>2 DEF StateSound, Final, Read
<1>6. Inodes' /\ ScanSound'
  BY <1>1, ScanOverStep
<1>. QED BY <1>3, <1>4, <1>5, <1>6 DEF IInv

(* The new watermark covers what the scan has got and what it could not.   *)
LEMMA DurableStep ==
  ASSUME IInv, Durable
  PROVE  IInv'
<1>. TypeOK /\ Inodes /\ Stamped /\ ScanSound
  BY DEF IInv
<1>1. /\ UNCHANGED <<dbs, current, clock, late, faults>>
      /\ ScanOver /\ pc = "done" /\ state' = NextState
  BY DEF Durable, dbVars
<1>2. emitted' = emitted \cup got
  BY DEF Durable
<1>3. TypeOK'
  BY <1>1, <1>2, Typed DEF ScanOver, NextState, TypeOK
<1>4. Inodes'
  BY <1>1, Typed DEF Inodes, ScanOver, NextState
<1>5. Stamped'
  BY <1>1 DEF Stamped, Final
<1>6. StateSound'
  BY <1>1, <1>2 DEF StateSound, ScanSound, NextState, Final, Read
<1>7. ScanSound'
  BY <1>1, ScanOverStep
<1>. QED BY <1>3, <1>4, <1>5, <1>6, <1>7 DEF IInv

-----------------------------------------------------------------------------
(* An empty database that no scan has read.                                *)
LEMMA InitInvariant == Init => IInv
<1>. SUFFICES ASSUME Init PROVE IInv
  OBVIOUS
<1>1. 0 \in Time /\ 1 \in Db /\ 0 \in 0..MaxFaults
  BY CursorBounds DEF Time, Db
<1>2. TypeOK
  BY <1>1 DEF Init, TypeOK, NoState, Absent
<1>3. Inodes /\ Stamped /\ StateSound /\ ScanSound
  BY <1>1 DEF Init, Inodes, Stamped, StateSound, ScanSound, Final, NoState, Absent
<1>. QED BY <1>2, <1>3 DEF IInv

(* Each step keeps the invariant.                                          *)
LEMMA StepInvariant == IInv /\ [Next]_vars => IInv'
<1>. SUFFICES ASSUME IInv, [Next]_vars PROVE IInv'
  OBVIOUS
<1>1. CASE UNCHANGED vars
  <2>1. UNCHANGED <<dbs, current, clock, stat, opened, maxSeen, got, state, pc,
                    emitted, late, faults>>
    BY <1>1 DEF vars, dbVars, scanVars
  <2>. QED
    BY <2>1 DEF IInv, TypeOK, Inodes, Stamped, StateSound, ScanSound, Final, Read
<1>2. CASE \E r \in Row, status \in {"open", "final"}, t \in Time : Write(r, status, t)
  BY <1>2, WriteStep
<1>3. CASE Rebuild
  BY <1>3, RebuildStep
<1>4. CASE Step
  BY <1>4, StatStep, QueryMessagesStep, QueryPartsStep, DurableStep DEF Step
<1>5. CASE ScanFails \/ NotDurable
  BY <1>5, FailureSteps
<1>. QED BY <1>1, <1>2, <1>3, <1>4, <1>5 DEF Next

(* The invariant holds in every reachable state.                           *)
LEMMA InvariantHolds == Spec => []IInv
  BY InitInvariant, StepInvariant, PTL DEF Spec

-----------------------------------------------------------------------------
(* Every variable keeps its type: the watermark is the stamp of a row or   *)
(* the one before it, and of a database that existed (opencode.go:55-72).  *)
THEOREM CursorTypeCorrect == Spec => []TypeOK
<1>1. IInv => TypeOK
  BY DEF IInv
<1>. QED BY <1>1, InvariantHolds, PTL

(* Whatever opencode writes between and after the two queries, and however *)
(* passes fail: the one watermark of both tables goes beyond a final row   *)
(* that no scan has read only if the row was written as a message between  *)
(* the queries, or in a millisecond that had been read already             *)
(* (opencode.go:69-72).                                             *)
THEOREM OnlyLateRowsAreLost == Spec => []OnlyLateRows
<1>1. IInv => OnlyLateRows
  BY DEF IInv, StateSound, OnlyLateRows, PassedOver, Final, Read
<1>. QED BY <1>1, InvariantHolds, PTL

=============================================================================
