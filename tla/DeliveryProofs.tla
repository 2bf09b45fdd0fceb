--------------------------- MODULE DeliveryProofs ---------------------------
(***************************************************************************)
(* Proofs about Delivery, for every set of transcripts, batch size, number *)
(* of faults and exchanges: nothing behind the checkpoint is lost, nothing *)
(* is counted twice, and the pipeline implements Ledger.                   *)
(*                                                                         *)
(* CheckpointCovered is not inductive: whether the checkpoint may move is  *)
(* decided by what sendBatched has been told of the batches it posted. The *)
(* strengthening says, at each point of runOnce, which records may still   *)
(* be nobody's (ScanCovered), and what the answer on its way back is worth *)
(* (AnswersTrue, AwaitedIsMine).                                           *)
(***************************************************************************)
EXTENDS Delivery, FiniteSetTheorems, TLAPS

Sending == {"send", "sendWait", "spool"}

(* Outside sendBatched its variables are at rest.                          *)
AtRest == pc \notin Sending => kind = "usage" /\ start = 0

(* A scan holds records of the right kind only.                            *)
ScanTyped ==
  \A k \in Kind : \A i \in DOMAIN scan[k] : Line[scan[k][i]] \in KeysOf(k)

(* What the running process has checkpointed is accounted for.             *)
MemCovered == \A p \in Position : p[2] <= mem[p[1]] => Accounted(p)

(* Still to be sent in this pass.                                          *)
Remaining(k, i) == IF k = kind THEN i > start ELSE kind = "usage"

(* Up to where the pass will move the checkpoint, only what remains to be  *)
(* sent is not accounted for.                                              *)
ScanCovered ==
  pc \in Sending =>
    \A p \in Position :
      p[2] <= pending[p[1]] =>
        \/ Accounted(p)
        \/ \E k \in Kind : \E i \in DOMAIN scan[k] :
             scan[k][i] = p /\ Remaining(k, i)

(* A 2xx is only sent for what is stored.                                  *)
AnswersTrue == \A s \in Slots : http[s].st = "ok" => http[s].req.keys \subseteq detail

(* At most one exchange is awaited, and it carries what the pc says; there *)
(* is a batch to send or to spool where runOnce does either.               *)
AwaitedIsMine ==
  /\ \A s, t \in Slots : Awaited(s) /\ Awaited(t) => s = t
  /\ \A s \in Slots : Awaited(s) =>
       /\ pc \in Waiting
       /\ pc = "sendWait" => http[s].req = Batch
       /\ pc = "flushWait" => http[s].req = spool[fpos]
  /\ pc = "flushWait" => fpos <= Len(spool)
  /\ pc \in {"sendWait", "spool"} => start < Len(scan[kind])

(* The checkpoint file trails the running process's checkpoint, which      *)
(* trails where the pass will move it, which trails the transcript.        *)
Trails ==
  \A f \in Files :
    /\ disk[f] <= size[f]
    /\ mem[f] <= size[f]
    /\ pc # "down" => disk[f] <= mem[f]
    /\ pc \in Sending => mem[f] <= pending[f] /\ pending[f] <= size[f]

IndInv ==
  /\ TypeOK
  /\ AtRest
  /\ ScanTyped
  /\ MemCovered
  /\ CheckpointCovered
  /\ ScanCovered
  /\ AnswersTrue
  /\ AwaitedIsMine
  /\ CountedOnce
  /\ Trails

-----------------------------------------------------------------------------
(* Facts about the operators.                                              *)

(* There are finitely many places in a file.                               *)
LEMMA PositionFinite == IsFiniteSet(Position)
<1>1. IsFiniteSet(Files) /\ IsFiniteSet(1..MaxLines)
  BY FS_Interval, SizesAssumption DEF Files
<1>2. QED
  BY <1>1, FS_Product DEF Position

(* WalkOrders(P) lists P, as a sequence.                                   *)
LEMMA WalkOrdersList ==
  ASSUME NEW P \in SUBSET Position, NEW s \in WalkOrders(P)
  PROVE  /\ s \in Seq(Position)
         /\ \A i \in DOMAIN s : s[i] \in P
         /\ \A p \in P : \E i \in DOMAIN s : s[i] = p
<1>1. Cardinality(P) \in Nat
  BY PositionFinite, FS_Subset, FS_CardinalityType
<1>2. s \in [1..Cardinality(P) -> P]
  BY DEF WalkOrders
<1>3. s \in Seq(Position)
  BY <1>1, <1>2
<1>4. QED
  BY <1>2, <1>3 DEF WalkOrders

(* The next window is a request of the store's kind of keys.               *)
LEMMA BatchTyped ==
  ASSUME TypeOK, ScanTyped
  PROVE  Batch \in Request
<1>1. scan[kind] \in Seq(Position) /\ start \in Nat /\ kind \in Kind
  BY DEF TypeOK
<1>2. WindowEnd <= Len(scan[kind]) /\ WindowEnd \in Int
  BY <1>1, BatchSizeAssumption DEF WindowEnd
<1>3. \A i \in (start + 1)..WindowEnd : Line[scan[kind][i]] \in Key
  BY <1>1, <1>2 DEF ScanTyped, KeysOf, Key
<1>4. QED
  BY <1>1, <1>3 DEF Batch, Request

(* Removing the entry at fpos leaves a sequence of the others.             *)
LEMMA RemoveTyped ==
  ASSUME TypeOK, fpos <= Len(spool), Remove
  PROVE  /\ spool' \in Seq(Request)
         /\ Len(spool') = Len(spool) - 1
         /\ \A i \in DOMAIN spool : i # fpos =>
              \E j \in DOMAIN spool' : spool'[j] = spool[i]
<1>1. spool \in Seq(Request) /\ fpos \in 1..Len(spool)
  BY DEF TypeOK
<1>2. DEFINE n == Len(spool) - 1
<1>3. n \in Nat
  BY <1>1
<1>4. spool' = [i \in 1..n |-> IF i < fpos THEN spool[i] ELSE spool[i + 1]]
  BY DEF Remove
<1>5. \A i \in 1..n : (IF i < fpos THEN spool[i] ELSE spool[i + 1]) \in Request
  BY <1>1, <1>3
<1>6. spool' \in [1..n -> Request]
  BY <1>4, <1>5
<1>7. spool' \in Seq(Request) /\ Len(spool') = n /\ DOMAIN spool' = 1..n
  BY <1>3, <1>6
<1>8. ASSUME NEW i \in DOMAIN spool, i # fpos
      PROVE  \E j \in DOMAIN spool' : spool'[j] = spool[i]
  <2>1. CASE i < fpos
    BY <1>1, <1>4, <1>7, <2>1
  <2>2. CASE i > fpos
    <3>1. i - 1 \in 1..n /\ ~(i - 1 < fpos)
      BY <1>1, <2>2
    <3>2. spool'[i - 1] = spool[(i - 1) + 1]
      BY <1>4, <3>1
    <3>3. QED
      BY <1>1, <1>7, <3>1, <3>2
  <2>3. QED
    BY <1>1, <1>8, <2>1, <2>2
<1>9. QED
  BY <1>7, <1>8

(* Appending to the spool keeps what it holds and adds the batch.          *)
LEMMA AppendSpooled ==
  ASSUME TypeOK, NEW r \in Request, spool' = Append(spool, r)
  PROVE  /\ spool' \in Seq(Request)
         /\ Len(spool') = Len(spool) + 1
         /\ Spooled' = Spooled \cup r.keys
<1>1. spool \in Seq(Request)
  BY DEF TypeOK
<1>2. spool' \in Seq(Request) /\ Len(spool') = Len(spool) + 1
  BY <1>1
<1>3. \A i \in 1..Len(spool) : spool'[i] = spool[i]
  BY <1>1
<1>4. spool'[Len(spool) + 1] = r
  BY <1>1
<1>5. DOMAIN spool' = (DOMAIN spool) \cup {Len(spool) + 1}
  BY <1>1, <1>2
<1>6. QED
  BY <1>1, <1>2, <1>3, <1>4, <1>5 DEF Spooled

-----------------------------------------------------------------------------
(* Custody never shrinks.                                                  *)

Still == UNCHANGED <<detail, spool, refused>>

(* A step that touches nothing durable.                                    *)
LEMMA StillCustody == Still => Custody' = Custody
BY DEF Still, Custody, Spooled

(* A drained entry is stored or refused.                                   *)
LEMMA FlushReturnCustody ==
  ASSUME IndInv, NEW s \in Slots, NEW a \in Answer, FlushReturn(s, a)
  PROVE  Custody \subseteq Custody'
<1> USE DEF IndInv
<1>1. CASE ~(a = "ok" \/ IsHTTPRejection(a))
  <2>1. Still
    BY <1>1 DEF FlushReturn, Return, Still
  <2>2. QED
    BY <2>1, StillCustody
<1>2. CASE a = "ok" \/ IsHTTPRejection(a)
  <2>1. /\ Remove
        /\ refused' = IF a = "refuse" THEN refused \cup spool[fpos].keys ELSE refused
        /\ detail' = detail
    BY <1>2 DEF FlushReturn, Return
  <2>2. fpos <= Len(spool) /\ http[s].req = spool[fpos]
    BY DEF FlushReturn, Return, AwaitedIsMine
  <2>3. spool[fpos].keys \subseteq detail \cup refused'
    <3>1. CASE a = "ok"
      <4>1. http[s].st = "ok"
        BY <3>1 DEF FlushReturn, Return
      <4>2. QED
        BY <2>2, <4>1 DEF AnswersTrue
    <3>2. CASE a = "refuse"
      BY <2>1, <3>2
    <3>3. QED
      BY <1>2, <3>1, <3>2 DEF IsHTTPRejection
  <2>4. \A i \in DOMAIN spool : i # fpos =>
           \E j \in DOMAIN spool' : spool'[j] = spool[i]
    BY <2>1, <2>2, RemoveTyped
  <2>5. Spooled \subseteq Spooled' \cup spool[fpos].keys
    BY <2>4 DEF Spooled
  <2>6. refused \subseteq refused'
    BY <2>1
  <2>7. QED
    BY <2>1, <2>3, <2>5, <2>6 DEF Custody
<1>3. QED
  BY <1>1, <1>2

(* No step takes a line out of custody.                                    *)
LEMMA CustodyGrows ==
  ASSUME IndInv, [Next]_vars
  PROVE  Custody \subseteq Custody'
<1> USE DEF Still, ingestVars
<1>1. ASSUME NEW s \in Slots, Handle(s), UNCHANGED watcherVars
      PROVE  Custody \subseteq Custody'
  <2>1. detail \subseteq detail' /\ UNCHANGED <<spool, refused>>
    BY <1>1 DEF Handle, HandleAccept, HandleRetry, HandleRefuse, Store, watcherVars
  <2>2. QED
    BY <2>1 DEF Custody, Spooled
<1>2. ASSUME NEW s \in Slots, NEW a \in Answer, FlushReturn(s, a)
      PROVE  Custody \subseteq Custody'
  BY <1>2, FlushReturnCustody
<1>3. CASE SpoolBatch
  <2>1. Batch \in Request
    BY BatchTyped DEF IndInv
  <2>2. Spooled' = Spooled \cup Batch.keys
    BY <1>3, <2>1, AppendSpooled DEF IndInv, SpoolBatch
  <2>3. QED
    BY <1>3, <2>2 DEF Custody, SpoolBatch
<1>4. ASSUME \/ \E f \in Files : Write(f)
             \/ Start \/ Tick \/ Exit \/ Stop \/ Crash
             \/ FlushDone \/ FlushPost \/ FlushCancelled \/ FlushSkip
             \/ Scan
             \/ SendPost \/ SendCancelled \/ SpoolFails \/ ScanNothing
             \/ NextKind \/ Checkpoint
      PROVE  Still
  BY <1>4 DEF Write, Start, Tick, Exit, Stop, Crash, ProcessGone, FlushDone,
     FlushPost, FlushCancelled, FlushSkip, Scan, SendPost, SendCancelled,
     SpoolFails, ScanNothing, NextKind, Checkpoint, Open
<1>5. ASSUME NEW s \in Slots, NEW a \in Answer,
             SendReturn(s, a) \/ FlushReturnUnremoved(s, a)
      PROVE  Still
  BY <1>5 DEF SendReturn, FlushReturnUnremoved, Return
<1>6. CASE (Degrade \/ Repair) /\ UNCHANGED watcherVars
  BY <1>6, StillCustody DEF Degrade, Repair, watcherVars
<1>7. CASE UNCHANGED vars
  BY <1>7, StillCustody DEF vars, watcherVars
<1>8. QED
  BY <1>1, <1>2, <1>3, <1>4, <1>5, <1>6, <1>7, StillCustody
  DEF Next, Pass, Server

-----------------------------------------------------------------------------
(* Type correctness.                                                       *)

(* The invariant holds at the start.                                       *)
LEMMA InitInv == Init => IndInv
<1> SUFFICES ASSUME Init PROVE IndInv
  OBVIOUS
<1> USE DEF Init, WatcherInit, IngestInit, Nowhere, NoScan
<1>1. TypeOK
  <2>1. http \in [Slots -> Exchange]
    BY DEF Exchange, FreeSlot, NoRequest, Request, Kind
  <2>2. 0 \in 0..MaxFaults /\ 0 \in 0..MaxLines
    BY SizesAssumption, MaxFaultsAssumption
  <2>3. scan \in [Kind -> Seq(Position)] /\ spool \in Seq(Request)
    OBVIOUS
  <2>4. fpos \in 1..(Len(spool) + 1)
    OBVIOUS
  <2>5. QED
    BY <2>1, <2>2, <2>3, <2>4 DEF TypeOK, Verdict, Kind
<1>2. AtRest /\ ScanTyped /\ CountedOnce
  BY DEF AtRest, ScanTyped, CountedOnce
<1>3. MemCovered /\ CheckpointCovered
  BY DEF MemCovered, CheckpointCovered, Position
<1>4. ScanCovered /\ AnswersTrue /\ AwaitedIsMine /\ Trails
  BY DEF ScanCovered, AnswersTrue, AwaitedIsMine, FreeSlot, Awaited, Answer,
     Waiting, Sending, Trails
<1>5. QED
  BY <1>1, <1>2, <1>3, <1>4 DEF IndInv

(* The variables of a scan, as Scan leaves them.                           *)
LEMMA ScanResult ==
  ASSUME TypeOK, NEW S \in SUBSET Files, ScanFiles(S)
  PROVE  /\ pending' \in [Files -> 0..MaxLines]
         /\ scan' \in [Kind -> Seq(Position)]
         /\ \A k \in Kind : \A i \in DOMAIN scan'[k] : scan'[k][i] \in Found(k, S)
         /\ \A k \in Kind : \A p \in Found(k, S) : \E i \in DOMAIN scan'[k] : scan'[k][i] = p
<1>1. pending' \in [Files -> 0..MaxLines]
  BY DEF ScanFiles, TypeOK
<1>2. PICK u \in WalkOrders(Found("usage", S)), e \in WalkOrders(Found("edit", S)) :
        scan' = [k \in Kind |-> IF k = "usage" THEN u ELSE e]
  BY DEF ScanFiles
<1>3. \A k \in Kind : Found(k, S) \in SUBSET Position
  BY DEF Found
<1>4. /\ u \in Seq(Position) /\ e \in Seq(Position)
      /\ \A i \in DOMAIN u : u[i] \in Found("usage", S)
      /\ \A i \in DOMAIN e : e[i] \in Found("edit", S)
      /\ \A p \in Found("usage", S) : \E i \in DOMAIN u : u[i] = p
      /\ \A p \in Found("edit", S) : \E i \in DOMAIN e : e[i] = p
  BY <1>3, WalkOrdersList DEF Kind
<1>5. QED
  BY <1>1, <1>2, <1>4 DEF Kind

(* The exchanges keep their type when one of them changes.                 *)
LEMMA HttpTyped ==
  ASSUME TypeOK,
         \/ UNCHANGED http
         \/ \E s \in Slots : HangUp(s)
         \/ \E s \in Slots, a \in Answer : Return(s, a)
         \/ \E s \in Slots, a \in Answer : Respond(s, a)
         \/ \E s \in Slots : http' = [http EXCEPT ![s] = FreeSlot]
         \/ \E r \in Request : Open(r)
  PROVE  http' \in [Slots -> Exchange]
<1>1. FreeSlot \in Exchange
  BY DEF FreeSlot, NoRequest, Exchange, Request, Kind
<1>2. \A r \in Request : [st |-> "received", req |-> r] \in Exchange
  BY DEF Exchange
<1>3. \A s \in Slots : http[s].req \in Request
  BY DEF TypeOK, Exchange
<1>4. \A s \in Slots : [st |-> "orphaned", req |-> http[s].req] \in Exchange
  BY <1>3 DEF Exchange
<1>5. \A s \in Slots, a \in Answer : [st |-> a, req |-> http[s].req] \in Exchange
  BY <1>3 DEF Exchange
<1>6. QED
  BY <1>1, <1>2, <1>4, <1>5 DEF TypeOK, HangUp, Return, Respond, Open

(* What a process leaves when it ends has its type.                        *)
LEMMA ForgetTyped ==
  ASSUME TypeOK, ForgetPass, UNCHANGED spool
  PROVE  /\ Nowhere \in [Files -> 0..MaxLines]
         /\ pending' \in [Files -> 0..MaxLines]
         /\ scan' \in [Kind -> Seq(Position)]
         /\ fpos' \in 1..(Len(spool') + 1)
         /\ kind' \in Kind
         /\ start' \in Nat
<1>1. 0 \in 0..MaxLines
  BY SizesAssumption
<1>2. Nowhere \in [Files -> 0..MaxLines]
  BY <1>1 DEF Nowhere
<1>3. NoScan \in [Kind -> Seq(Position)]
  BY DEF NoScan
<1>4. 1 \in 1..(Len(spool) + 1)
  BY DEF TypeOK
<1>5. QED
  BY <1>2, <1>3, <1>4 DEF ForgetPass, Kind

(* Each step keeps the types.                                              *)
LEMMA TypeStep ==
  ASSUME IndInv, [Next]_vars
  PROVE  TypeOK'
<1> USE DEF IndInv, ingestVars
<1>a. TypeOK
  OBVIOUS
<1>1. ASSUME NEW f \in Files, Write(f)
      PROVE  TypeOK'
  <2>1. size' \in [Files -> 0..MaxLines]
    BY <1>1, SizesAssumption DEF Write, TypeOK
  <2>2. QED
    BY <1>1, <2>1 DEF Write, TypeOK
<1>2. CASE Start \/ Tick \/ FlushDone \/ FlushCancelled \/ SendCancelled \/ NextKind
  BY <1>2 DEF Start, Tick, FlushDone, FlushCancelled, SendCancelled, NextKind,
     Load, NextPass, TypeOK, Kind
<1>3. CASE Exit \/ Stop \/ Crash
  <2>1. http' \in [Slots -> Exchange]
    BY <1>3, HttpTyped DEF Exit, Stop, Crash
  <2>2. faults' \in 0..MaxFaults
    BY <1>3, MaxFaultsAssumption DEF Exit, Stop, Crash, Fault, TypeOK
  <2>3. CASE ProcessGone
    <3>1. ForgetPass /\ mem' = Nowhere /\ UNCHANGED <<size, disk, spool, refused>>
      BY <2>3 DEF ProcessGone
    <3>2. UNCHANGED <<detail, counted, mode>>
      BY <1>3 DEF Exit, Stop, Crash
    <3>3. QED
      BY <2>1, <2>2, <2>3, <3>1, <3>2, ForgetTyped DEF ProcessGone, TypeOK
  <2>4. CASE Stop
    BY <2>1, <2>2, <2>4 DEF Stop, TypeOK
  <2>5. QED
    BY <1>3, <2>3, <2>4 DEF Exit, Crash
<1>4. CASE FlushSkip
  BY <1>4, MaxFaultsAssumption DEF FlushSkip, Fault, FlushOver, TypeOK
<1>5. CASE FlushPost
  <2>1. spool[fpos] \in Request
    BY <1>5 DEF FlushPost, FlushOver, TypeOK
  <2>2. http' \in [Slots -> Exchange]
    BY <1>5, <2>1, HttpTyped DEF FlushPost
  <2>3. QED
    BY <1>5, <2>2 DEF FlushPost, Open, TypeOK
<1>6. ASSUME NEW s \in Slots, NEW a \in Answer, FlushReturn(s, a)
      PROVE  TypeOK'
  <2>1. http' \in [Slots -> Exchange]
    BY <1>6, HttpTyped DEF FlushReturn
  <2>2. faults' \in 0..MaxFaults
    BY <1>6, MaxFaultsAssumption DEF FlushReturn, Return, Fault, TypeOK
  <2>3. fpos <= Len(spool)
    BY <1>6 DEF FlushReturn, Return, AwaitedIsMine
  <2>4. /\ spool' \in Seq(Request)
        /\ fpos' \in 1..(Len(spool') + 1)
        /\ refused' \subseteq Key
    <3>1. CASE a = "ok" \/ IsHTTPRejection(a)
      <4>1. Remove /\ fpos' = fpos
        BY <1>6, <3>1 DEF FlushReturn, Remove
      <4>2. spool' \in Seq(Request) /\ Len(spool') = Len(spool) - 1
        BY <2>3, <4>1, RemoveTyped
      <4>3. spool[fpos].keys \subseteq Key
        <5>1. spool \in Seq(Request) /\ fpos \in 1..Len(spool)
          BY <2>3 DEF TypeOK
        <5>2. spool[fpos] \in Request
          BY <5>1
        <5>3. QED
          BY <5>2 DEF Request
      <4>4. refused' \subseteq Key
        BY <1>6, <3>1, <4>3 DEF FlushReturn, TypeOK
      <4>5. fpos \in 1..(Len(spool') + 1)
        <5>1. fpos \in Nat /\ fpos >= 1 /\ Len(spool) \in Nat
          BY DEF TypeOK
        <5>2. QED
          BY <2>3, <4>2, <5>1
      <4>6. QED
        BY <4>1, <4>2, <4>4, <4>5
    <3>2. CASE ~(a = "ok" \/ IsHTTPRejection(a))
      BY <1>6, <3>2 DEF FlushReturn, TypeOK
    <3>3. QED
      BY <3>1, <3>2
  <2>5. pc' \in {"flush", "scan"}
    BY <1>6 DEF FlushReturn
  <2>6. QED
    BY <1>6, <2>1, <2>2, <2>4, <2>5 DEF FlushReturn, Return, TypeOK
<1>7. ASSUME NEW s \in Slots, NEW a \in Answer, FlushReturnUnremoved(s, a)
      PROVE  TypeOK'
  <2>1. http' \in [Slots -> Exchange]
    BY <1>7, HttpTyped DEF FlushReturnUnremoved
  <2>2. faults' \in 0..MaxFaults
    BY <1>7, MaxFaultsAssumption DEF FlushReturnUnremoved, Fault, TypeOK
  <2>3. fpos' \in 1..(Len(spool) + 1)
    BY <1>7 DEF FlushReturnUnremoved, AwaitedIsMine, TypeOK
  <2>4. QED
    BY <1>7, <2>1, <2>2, <2>3 DEF FlushReturnUnremoved, TypeOK
<1>8. CASE Scan
  <2>1. PICK S \in SUBSET Files : ScanFiles(S)
    BY <1>8 DEF Scan
  <2>2. pending' \in [Files -> 0..MaxLines] /\ scan' \in [Kind -> Seq(Position)]
    BY <2>1, ScanResult
  <2>3. faults' \in 0..MaxFaults
    BY <1>8, MaxFaultsAssumption DEF Scan, Fault, TypeOK
  <2>4. QED
    BY <1>8, <2>2, <2>3 DEF Scan, TypeOK
<1>9. CASE SendPost
  <2>1. http' \in [Slots -> Exchange]
    BY <1>9, BatchTyped, HttpTyped DEF SendPost
  <2>2. QED
    BY <1>9, <2>1 DEF SendPost, Open, TypeOK
<1>10. ASSUME NEW s \in Slots, NEW a \in Answer, SendReturn(s, a)
       PROVE  TypeOK'
  <2>1. http' \in [Slots -> Exchange]
    BY <1>10, HttpTyped DEF SendReturn
  <2>2. faults' \in 0..MaxFaults
    BY <1>10, MaxFaultsAssumption DEF SendReturn, Return, Fault, TypeOK
  <2>3. start' \in Nat
    BY <1>10, BatchSizeAssumption DEF SendReturn, NextWindow, TypeOK
  <2>4. QED
    BY <1>10, <2>1, <2>2, <2>3 DEF SendReturn, NextWindow, Return, TypeOK
<1>11. CASE SpoolBatch
  <2>1. Batch \in Request
    BY BatchTyped
  <2>2. spool' \in Seq(Request) /\ Len(spool') = Len(spool) + 1
    BY <1>11, <2>1, AppendSpooled DEF SpoolBatch
  <2>3. QED
    BY <1>11, <2>2, BatchSizeAssumption DEF SpoolBatch, NextWindow, TypeOK
<1>12. CASE SpoolFails \/ ScanNothing \/ Checkpoint
  <2>1. faults' \in 0..MaxFaults
    BY <1>12, MaxFaultsAssumption DEF SpoolFails, ScanNothing, Checkpoint, Fault, TypeOK
  <2>2. PassOver /\ UNCHANGED <<size, spool, refused, http, detail, counted, mode>>
    BY <1>12 DEF SpoolFails, ScanNothing, Checkpoint, SpoolFailed
  <2>3. mem' \in [Files -> 0..MaxLines] /\ disk' \in [Files -> 0..MaxLines]
    BY <1>12 DEF SpoolFails, ScanNothing, Checkpoint, TypeOK
  <2>4. QED
    BY <2>1, <2>2, <2>3, ForgetTyped DEF PassOver, TypeOK
<1>13. ASSUME NEW s \in Slots, Handle(s), UNCHANGED watcherVars
       PROVE  TypeOK'
  <2>1. http' \in [Slots -> Exchange]
    BY <1>13, HttpTyped DEF Handle, HandleAccept, HandleRetry, HandleRefuse, Answer
  <2>2. http[s].req.keys \subseteq Key
    BY DEF TypeOK, Exchange, Request
  <2>3. detail' \subseteq Key /\ counted' \in [Key -> Nat]
    <3>1. CASE Store(http[s].req)
      BY <2>2, <3>1 DEF Store, RollUp, TypeOK
    <3>2. CASE UNCHANGED <<detail, counted>>
      BY <3>2 DEF TypeOK
    <3>3. QED
      BY <1>13, <3>1, <3>2 DEF Handle, HandleAccept, HandleRetry, HandleRefuse
  <2>4. faults' \in 0..MaxFaults /\ mode' = mode
    BY <1>13, MaxFaultsAssumption DEF Handle, HandleAccept, HandleRetry,
       HandleRefuse, Fault, TypeOK
  <2>5. QED
    BY <1>13, <2>1, <2>3, <2>4 DEF watcherVars, TypeOK
<1>14. CASE (Degrade \/ Repair) /\ UNCHANGED watcherVars
  <2>1. mode' \in [Kind -> Verdict] /\ faults' \in 0..MaxFaults
    BY <1>14, MaxFaultsAssumption DEF Degrade, Repair, Fault, TypeOK, Verdict
  <2>2. QED
    BY <1>14, <2>1 DEF Degrade, Repair, watcherVars, TypeOK
<1>15. CASE UNCHANGED vars
  BY <1>15 DEF vars, watcherVars, TypeOK
<1>16. QED
  BY <1>1, <1>2, <1>3, <1>4, <1>5, <1>6, <1>7, <1>8, <1>9, <1>10, <1>11,
     <1>12, <1>13, <1>14, <1>15 DEF Next, Pass, Server

-----------------------------------------------------------------------------
(* The other parts of the inductive invariant, one lemma each.             *)

(* Each step keeps AtRest.                                                 *)
LEMMA AtRestStep ==
  ASSUME IndInv, [Next]_vars
  PROVE  AtRest'
<1> USE DEF IndInv, AtRest, Sending, ingestVars
<1>1. CASE \/ \E f \in Files : Write(f)
           \/ Start \/ Tick \/ Exit \/ Stop \/ Crash
  BY <1>1 DEF Write, Start, Tick, Exit, Stop, Crash, ProcessGone, ForgetPass,
     NextPass
<1>2. CASE \/ FlushDone \/ FlushPost \/ FlushCancelled \/ FlushSkip
           \/ Scan
           \/ \E s \in Slots, a \in Answer :
                FlushReturn(s, a) \/ FlushReturnUnremoved(s, a)
  BY <1>2 DEF FlushDone, FlushPost, FlushCancelled, FlushSkip, Scan,
     FlushReturn, FlushReturnUnremoved
<1>3. CASE \/ SendPost \/ SendCancelled \/ SpoolBatch \/ SpoolFails \/ ScanNothing
           \/ NextKind \/ Checkpoint
           \/ \E s \in Slots, a \in Answer : SendReturn(s, a)
  BY <1>3 DEF SendPost, SendCancelled, SpoolBatch, SpoolFails, ScanNothing, SpoolFailed,
     NextKind, Checkpoint, SendReturn, NextWindow, PassOver, ForgetPass
<1>4. CASE UNCHANGED watcherVars
  BY <1>4 DEF watcherVars
<1>5. QED
  BY <1>1, <1>2, <1>3, <1>4 DEF Next, Pass, Server, vars

(* scan changes only when a scan is made and when one is forgotten.        *)
LEMMA ScanChanges ==
  ASSUME IndInv, [Next]_vars
  PROVE  Scan \/ ForgetPass \/ UNCHANGED <<scan, pending>>
BY DEF Next, Pass, Server, vars, watcherVars, Write, Start, Tick, Exit, Stop,
   Crash, ProcessGone, FlushDone, FlushPost, FlushCancelled, FlushSkip,
   FlushReturn, FlushReturnUnremoved, SendPost, SendCancelled, SpoolBatch,
   SpoolFails, ScanNothing, SpoolFailed, NextKind, Checkpoint, SendReturn, NextWindow, PassOver

(* Each step keeps ScanTyped.                                              *)
LEMMA ScanTypedStep ==
  ASSUME IndInv, [Next]_vars
  PROVE  ScanTyped'
<1>1. CASE Scan
  <2>1. PICK S \in SUBSET Files : ScanFiles(S)
    BY <1>1 DEF Scan
  <2>2. \A k \in Kind : \A i \in DOMAIN scan'[k] : scan'[k][i] \in Found(k, S)
    BY <2>1, ScanResult DEF IndInv
  <2>3. QED
    BY <2>2 DEF Found, ScanTyped
<1>2. CASE ForgetPass
  BY <1>2 DEF ForgetPass, NoScan, ScanTyped
<1>3. CASE UNCHANGED <<scan, pending>>
  BY <1>3 DEF ScanTyped, IndInv
<1>4. QED
  BY <1>1, <1>2, <1>3, ScanChanges

(* What is accounted for stays accounted for.                              *)
LEMMA AccountedGrows ==
  ASSUME IndInv, [Next]_vars, NEW p \in Position, Accounted(p)
  PROVE  Accounted(p)'
BY CustodyGrows DEF Accounted

(* When the last batch is durable the whole scan is accounted for.         *)
LEMMA AllSent ==
  ASSUME IndInv, Checkpoint
  PROVE  \A p \in Position : p[2] <= pending[p[1]] => Accounted(p)
<1>1. pc \in Sending /\ kind = "edit" /\ ~(start < Len(scan["edit"]))
  BY DEF Checkpoint, Unsent, Sending
<1>2. scan["edit"] \in Seq(Position) /\ start \in Nat
  BY DEF IndInv, TypeOK, Kind
<1>3. \A k \in Kind : \A i \in DOMAIN scan[k] : ~Remaining(k, i)
  BY <1>1, <1>2 DEF Remaining
<1>4. QED
  BY <1>1, <1>3 DEF IndInv, ScanCovered

(* mem and disk move only where the code loads or saves the checkpoint.    *)
LEMMA CheckpointChanges ==
  ASSUME IndInv, [Next]_vars
  PROVE  /\ UNCHANGED disk \/ (Checkpoint /\ disk' = pending)
         /\ UNCHANGED mem \/ (Checkpoint /\ mem' = pending)
              \/ mem' = disk \/ mem' = Nowhere
BY DEF Next, Pass, Server, vars, watcherVars, Write, Start, Load, Tick, Exit,
   Stop, Crash, ProcessGone, FlushDone, FlushPost, FlushCancelled, FlushSkip,
   FlushReturn, FlushReturnUnremoved, Scan, SendPost, SendCancelled, SpoolBatch,
   SpoolFails, ScanNothing, SpoolFailed, NextKind, Checkpoint, SendReturn, NextWindow

(* Each step keeps CheckpointCovered.                                      *)
LEMMA CheckpointCoveredStep ==
  ASSUME IndInv, [Next]_vars
  PROVE  CheckpointCovered'
<1>1. CASE UNCHANGED disk
  BY <1>1, AccountedGrows DEF IndInv, CheckpointCovered
<1>2. CASE Checkpoint /\ disk' = pending
  BY <1>2, AllSent, AccountedGrows DEF CheckpointCovered
<1>3. QED
  BY <1>1, <1>2, CheckpointChanges

(* Each step keeps MemCovered.                                             *)
LEMMA MemCoveredStep ==
  ASSUME IndInv, [Next]_vars
  PROVE  MemCovered'
<1>1. CASE UNCHANGED mem
  BY <1>1, AccountedGrows DEF IndInv, MemCovered
<1>2. CASE Checkpoint /\ mem' = pending
  BY <1>2, AllSent, AccountedGrows DEF MemCovered
<1>3. CASE mem' = disk
  BY <1>3, AccountedGrows DEF IndInv, CheckpointCovered, MemCovered
<1>4. CASE mem' = Nowhere
  BY <1>4 DEF Nowhere, MemCovered, Position
<1>5. QED
  BY <1>1, <1>2, <1>3, <1>4, CheckpointChanges

(* A fresh scan: what is new is in its lists, the rest was checkpointed.   *)
LEMMA ScanCoveredByScan ==
  ASSUME IndInv, Scan
  PROVE  ScanCovered'
<1> USE DEF IndInv
<1>1. PICK S \in SUBSET Files : ScanFiles(S)
  BY DEF Scan
<1>2. /\ UNCHANGED <<kind, start, size, mem, detail, spool, refused>>
      /\ kind = "usage" /\ start = 0
  BY DEF Scan, AtRest, Sending
<1>3. \A p \in Position : Accounted(p)' <=> Accounted(p)
  BY <1>2 DEF Accounted, Custody, Spooled
<1>4. ASSUME NEW p \in Position, p[2] <= pending'[p[1]], ~Accounted(p)
      PROVE  \E k \in Kind : \E i \in DOMAIN scan'[k] :
               scan'[k][i] = p /\ Remaining(k, i)'
  <2>1. p[1] \in Files /\ p[2] \in 1..MaxLines
    BY DEF Position
  <2>2. ~(p[2] <= mem[p[1]])
    BY <1>4 DEF MemCovered
  <2>3. p[1] \in S /\ p[2] <= size[p[1]]
    BY <1>1, <1>4, <2>1, <2>2 DEF ScanFiles
  <2>4. size[p[1]] \in Nat /\ mem[p[1]] \in Nat
    BY <2>1, SizesAssumption DEF TypeOK
  <2>5. p[2] \in Unread(p[1])
    BY <2>1, <2>2, <2>3, <2>4 DEF Unread
  <2>6. Line[p] \in Key
    BY <1>4, LineAssumption DEF Accounted
  <2>7. PICK k \in Kind : p \in Found(k, S)
    BY <2>3, <2>5, <2>6 DEF Found, Key, KeysOf, Kind
  <2>8. PICK i \in DOMAIN scan'[k] : scan'[k][i] = p
    BY <1>1, <2>7, ScanResult
  <2>9. scan'[k] \in Seq(Position)
    BY <1>1, ScanResult
  <2>10. i > 0
    BY <2>8, <2>9
  <2>11. Remaining(k, i)'
    BY <1>2, <2>10 DEF Remaining
  <2>12. QED
    BY <2>8, <2>11
<1>5. QED
  BY <1>3, <1>4 DEF ScanCovered

(* One more window is durable.                                             *)
LEMMA ScanCoveredByWindow ==
  ASSUME IndInv, [Next]_vars, pc \in Sending, Unsent,
         NextWindow, Batch.keys \subseteq Custody'
  PROVE  ScanCovered'
<1> USE DEF IndInv
<1>1. UNCHANGED <<scan, pending, kind>> /\ start' = start + BatchSize
  BY DEF NextWindow
<1>2. kind \in Kind /\ scan[kind] \in Seq(Position) /\ start \in Nat
  BY DEF TypeOK
<1>3. ASSUME NEW p \in Position, p[2] <= pending'[p[1]], ~Accounted(p)'
      PROVE  \E k \in Kind : \E i \in DOMAIN scan'[k] :
               scan'[k][i] = p /\ Remaining(k, i)'
  <2>0. PICK k \in Kind : \E i \in DOMAIN scan[k] : scan[k][i] = p /\ Remaining(k, i)
    BY <1>1, <1>3, AccountedGrows DEF ScanCovered
  <2>1. PICK i \in DOMAIN scan[k] : scan[k][i] = p /\ Remaining(k, i)
    BY <2>0
  <2>2. CASE k # kind
    BY <1>1, <2>1, <2>2 DEF Remaining
  <2>3. CASE k = kind
    <3>1. i \in 1..Len(scan[kind]) /\ i > start
      BY <1>2, <2>1, <2>3 DEF Remaining
    <3>2. ASSUME i <= start + BatchSize PROVE FALSE
      <4>1. i \in (start + 1)..WindowEnd
        BY <1>2, <3>1, <3>2, BatchSizeAssumption DEF WindowEnd
      <4>2. Line[p] \in Batch.keys
        BY <2>1, <2>3, <4>1 DEF Batch
      <4>3. QED
        BY <1>3, <4>2 DEF Accounted
    <3>3. i > start'
      BY <1>1, <1>2, <3>1, <3>2, BatchSizeAssumption
    <3>4. QED
      BY <1>1, <2>1, <2>3, <3>3 DEF Remaining
  <2>4. QED
    BY <2>2, <2>3
<1>4. QED
  BY <1>3 DEF ScanCovered

(* Each step keeps ScanCovered.                                            *)
LEMMA ScanCoveredStep ==
  ASSUME IndInv, [Next]_vars
  PROVE  ScanCovered'
<1> USE DEF IndInv, Sending
<1>1. CASE Scan
  BY <1>1, ScanCoveredByScan
<1>2. CASE pc' \notin Sending
  BY <1>2 DEF ScanCovered
<1>3. CASE pc \in Sending /\ UNCHANGED <<scan, pending, kind, start>>
  BY <1>3, AccountedGrows DEF ScanCovered, Remaining
<1>4. ASSUME NEW s \in Slots, SendReturn(s, "ok")
      PROVE  ScanCovered'
  <2>1. pc = "sendWait" /\ Awaited(s) /\ http[s].st = "ok" /\ NextWindow
    BY <1>4 DEF SendReturn, Return
  <2>2. http[s].req = Batch /\ Unsent
    BY <2>1 DEF AwaitedIsMine, Unsent
  <2>3. Batch.keys \subseteq Custody'
    BY <2>1, <2>2, CustodyGrows DEF AnswersTrue, Custody
  <2>4. QED
    BY <2>1, <2>2, <2>3, ScanCoveredByWindow
<1>5. CASE SpoolBatch
  <2>1. pc = "spool" /\ NextWindow /\ spool' = Append(spool, Batch)
    BY <1>5 DEF SpoolBatch
  <2>2. Batch.keys \subseteq Custody'
    BY <2>1, BatchTyped, AppendSpooled DEF Custody
  <2>3. Unsent
    BY <2>1 DEF AwaitedIsMine, Unsent
  <2>4. QED
    BY <2>1, <2>2, <2>3, ScanCoveredByWindow
<1>6. CASE NextKind
  <2>1. /\ pc \in Sending /\ kind = "usage" /\ ~(start < Len(scan["usage"]))
        /\ kind' = "edit" /\ start' = 0 /\ UNCHANGED <<scan, pending>>
    BY <1>6 DEF NextKind, Unsent
  <2>2. start \in Nat /\ scan \in [Kind -> Seq(Position)]
    BY DEF TypeOK
  <2>3. ASSUME NEW k \in Kind, NEW i \in DOMAIN scan[k], Remaining(k, i)
        PROVE  Remaining(k, i)'
    <3>1. i \in 1..Len(scan[k])
      BY <2>2
    <3>2. QED
      BY <2>1, <2>2, <2>3, <3>1 DEF Remaining, Kind
  <2>4. QED
    BY <2>1, <2>3, AccountedGrows DEF ScanCovered
<1>7. QED
  <2>1. CASE UNCHANGED watcherVars
    BY <1>2, <1>3, <2>1 DEF watcherVars
  <2>2. CASE \/ \E f \in Files : Write(f)
             \/ Start \/ Tick \/ Exit \/ Stop \/ Crash
    BY <1>2, <1>3, <2>2 DEF Write, Start, Tick, Exit, Stop, Crash, ProcessGone,
       NextPass
  <2>3. CASE \/ FlushDone \/ FlushPost \/ FlushCancelled \/ FlushSkip
             \/ \E s \in Slots, a \in Answer :
                  FlushReturn(s, a) \/ FlushReturnUnremoved(s, a)
    BY <1>2, <2>3 DEF FlushDone, FlushPost, FlushCancelled, FlushSkip,
       FlushReturn, FlushReturnUnremoved
  <2>4. CASE SendPost \/ SendCancelled \/ SpoolFails \/ ScanNothing \/ Checkpoint
    BY <1>2, <1>3, <2>4 DEF SendPost, SendCancelled, SpoolFails, ScanNothing, SpoolFailed,
       Checkpoint, PassOver
  <2>5. ASSUME NEW s \in Slots, NEW a \in Answer, SendReturn(s, a)
        PROVE  ScanCovered'
    BY <1>3, <1>4, <2>5 DEF SendReturn
  <2>6. QED
    BY <1>1, <1>5, <1>6, <2>1, <2>2, <2>3, <2>4, <2>5 DEF Next, Pass, Server, vars

(* http changes only by opening, answering and ending exchanges.           *)
LEMMA HttpChanges ==
  ASSUME IndInv, [Next]_vars
  PROVE  \/ UNCHANGED http
         \/ \E s \in Slots : Handle(s) /\ UNCHANGED watcherVars
         \/ (FlushPost \/ SendPost)
         \/ /\ \E s \in Slots : Awaited(s) /\ HangUp(s)
            /\ pc' \notin Waiting
BY DEF Next, Pass, Server, vars, ingestVars, watcherVars, Write, Start, Tick,
   Exit, Stop, Crash, ProcessGone, FlushDone, FlushPost, FlushCancelled,
   FlushSkip, FlushReturn, FlushReturnUnremoved, Scan, SendPost, SendCancelled,
   SpoolBatch, SpoolFails, ScanNothing, NextKind, Checkpoint, SendReturn, NextWindow, Return,
   HangUp, Awaited, Degrade, Repair, Waiting

(* Only a request that is accepted changes what is stored.                 *)
LEMMA DetailGrows ==
  ASSUME IndInv, [Next]_vars
  PROVE  \/ UNCHANGED <<detail, counted>>
         \/ \E s \in Slots : HandleAccept(s) /\ UNCHANGED watcherVars
BY DEF Next, Pass, Server, vars, ingestVars, watcherVars, Write, Start, Tick,
   Exit, Stop, Crash, ProcessGone, FlushDone, FlushPost, FlushCancelled,
   FlushSkip, FlushReturn, FlushReturnUnremoved, Scan, SendPost, SendCancelled,
   SpoolBatch, SpoolFails, ScanNothing, NextKind, Checkpoint, SendReturn, NextWindow, Return,
   Open, Degrade, Repair, Handle, HandleRetry, HandleRefuse

(* Each step keeps CountedOnce.                                            *)
LEMMA CountedOnceStep ==
  ASSUME IndInv, [Next]_vars
  PROVE  CountedOnce'
<1> USE DEF IndInv
<1>1. CASE UNCHANGED <<detail, counted>>
  BY <1>1 DEF CountedOnce
<1>2. ASSUME NEW s \in Slots, HandleAccept(s)
      PROVE  CountedOnce'
  <2>1. Store(http[s].req)
    BY <1>2 DEF HandleAccept
  <2>2. http[s].req.keys \subseteq Key
    BY DEF TypeOK, Exchange, Request
  <2>3. QED
    BY <2>1, <2>2 DEF Store, RollUp, Accepted, CountedOnce
<1>3. QED
  BY <1>1, <1>2, DetailGrows

(* Each step keeps AnswersTrue.                                            *)
LEMMA AnswersTrueStep ==
  ASSUME IndInv, [Next]_vars
  PROVE  AnswersTrue'
<1> USE DEF IndInv
<1>1. detail \subseteq detail'
  BY DetailGrows DEF HandleAccept, Store
<1>2. CASE UNCHANGED http
  BY <1>1, <1>2 DEF AnswersTrue
(* One slot changes, and if it now says "ok" its keys are stored.          *)
<1>a. ASSUME NEW s \in Slots, NEW e,
             http' = [http EXCEPT ![s] = e],
             e.st = "ok" => e.req.keys \subseteq detail'
      PROVE  AnswersTrue'
  <2>1. \A t \in Slots : http'[t] = IF t = s THEN e ELSE http[t]
    BY <1>a DEF TypeOK
  <2>2. QED
    BY <1>1, <1>a, <2>1 DEF AnswersTrue
<1>b. FreeSlot.st # "ok"
  BY DEF FreeSlot
<1>3. ASSUME NEW s \in Slots, Handle(s)
      PROVE  AnswersTrue'
  <2>1. PICK a \in Answer :
          Respond(s, a) /\ (a = "ok" => http[s].req.keys \subseteq detail')
    BY <1>3 DEF Handle, HandleAccept, HandleRetry, HandleRefuse, Store, Answer
  <2>2. DEFINE e == [st |-> a, req |-> http[s].req]
  <2>3. e.st = a /\ e.req.keys = http[s].req.keys
    OBVIOUS
  <2>4. http' = [http EXCEPT ![s] = e] \/ http' = [http EXCEPT ![s] = FreeSlot]
    BY <2>1 DEF Respond, TypeOK
  <2> HIDE DEF e
  <2>5. CASE http' = [http EXCEPT ![s] = e]
    BY <1>a, <2>1, <2>3, <2>5
  <2>6. CASE http' = [http EXCEPT ![s] = FreeSlot]
    BY <1>a, <1>b, <2>6
  <2>7. QED
    BY <2>4, <2>5, <2>6
<1>4. CASE FlushPost \/ SendPost
  <2>1. PICK s \in Slots, r \in {spool[fpos], Batch} :
          http' = [http EXCEPT ![s] = [st |-> "received", req |-> r]]
    BY <1>4 DEF FlushPost, SendPost, Open
  <2>2. [st |-> "received", req |-> r].st # "ok"
    OBVIOUS
  <2>3. QED
    BY <1>a, <2>1, <2>2
<1>5. ASSUME NEW s \in Slots, HangUp(s)
      PROVE  AnswersTrue'
  <2>1. PICK e \in {FreeSlot, [st |-> "orphaned", req |-> http[s].req]} :
          http' = [http EXCEPT ![s] = e]
    BY <1>5 DEF HangUp, TypeOK
  <2>2. e.st # "ok"
    BY <1>b
  <2>3. QED
    BY <1>a, <2>1, <2>2
<1>6. QED
  BY <1>2, <1>3, <1>4, <1>5, HttpChanges

(* Only the watcher's own steps move what an awaited exchange is tied to.  *)
LEMMA WaitingStill ==
  ASSUME IndInv, [Next]_vars, pc' \in Waiting \cup {"spool"}
  PROVE  \/ UNCHANGED <<pc, fpos, spool, scan, kind, start>>
         \/ FlushPost \/ SendPost
         \/ /\ pc' = "spool" /\ start < Len(scan[kind])
            /\ UNCHANGED <<spool, scan, kind, start>>
BY DEF IndInv, AwaitedIsMine, Next, Pass, Server, vars, ingestVars, watcherVars,
   Write, Start, Tick, Exit, Stop, Crash, ProcessGone, FlushDone,
   FlushCancelled, FlushSkip, FlushReturn, FlushReturnUnremoved, Scan,
   SendCancelled, SpoolBatch, SpoolFails, ScanNothing, SpoolFailed, PassOver, NextKind,
   Checkpoint, SendReturn, NextWindow, NextPass, Unsent, Waiting

(* The watcher stops waiting by ending its exchange, or by dying after it. *)
LEMMA LeaveWaiting ==
  ASSUME IndInv, [Next]_vars, pc \in Waiting, pc' \notin Waiting, UNCHANGED http
  PROVE  Crash /\ ~\E s \in Slots : Awaited(s)
<1> USE DEF IndInv, Waiting
<1>1. ASSUME NEW s \in Slots, Awaited(s), http' = [http EXCEPT ![s] = FreeSlot]
      PROVE  FALSE
  BY <1>1 DEF Awaited, TypeOK, FreeSlot, Answer
<1>2. ASSUME NEW s \in Slots, Awaited(s), HangUp(s)
      PROVE  FALSE
  BY <1>2 DEF HangUp, Awaited, TypeOK, FreeSlot, Answer
<1>3. ASSUME NEW s \in Slots, NEW a \in Answer,
             FlushReturn(s, a) \/ SendReturn(s, a) \/ FlushReturnUnremoved(s, a)
      PROVE  FALSE
  BY <1>1, <1>2, <1>3 DEF FlushReturn, SendReturn, FlushReturnUnremoved, Return,
     Awaited
<1>4. Crash
  BY <1>3 DEF Next, Pass, Server, vars, watcherVars, Write, Start, Tick, Exit,
     Stop, FlushDone, FlushPost, FlushCancelled, FlushSkip, Scan, SendPost,
     SendCancelled, SpoolBatch, SpoolFails, ScanNothing, NextKind, Checkpoint
<1>5. QED
  BY <1>2, <1>4 DEF Crash

(* Each step keeps AwaitedIsMine.                                          *)
LEMMA AwaitedIsMineStep ==
  ASSUME IndInv, [Next]_vars
  PROVE  AwaitedIsMine'
<1> USE DEF IndInv
<1>1. CASE pc' \in Waiting /\ UNCHANGED <<pc, fpos, spool, scan, kind, start>>
  <2>1. Batch' = Batch /\ pc \in Waiting
    BY <1>1 DEF Batch, WindowEnd
  <2>2. CASE UNCHANGED http
    BY <1>1, <2>1, <2>2 DEF AwaitedIsMine, Awaited
  <2>3. ASSUME NEW s \in Slots, Handle(s)
        PROVE  AwaitedIsMine'
    <3>1. PICK a \in Answer : Respond(s, a)
      BY <2>3 DEF Handle, HandleAccept, HandleRetry, HandleRefuse, Answer
    <3>2. \A t \in Slots : Awaited(t)' => Awaited(t) /\ http'[t].req = http[t].req
      BY <3>1 DEF Respond, Awaited, TypeOK, FreeSlot, Answer
    <3>3. QED
      BY <1>1, <2>1, <3>2 DEF AwaitedIsMine
  <2>4. CASE FlushPost \/ SendPost
    BY <1>1, <2>4 DEF FlushPost, SendPost, Waiting
  <2>5. QED
    BY <1>1, <2>2, <2>3, <2>4, HttpChanges
<1>2. CASE FlushPost \/ SendPost
  <2>1. PICK s \in Slots, r \in Request :
          /\ http' = [http EXCEPT ![s] = [st |-> "received", req |-> r]]
          /\ r = IF pc = "flush" THEN spool[fpos] ELSE Batch
    <3>1. CASE FlushPost
      <4>1. spool[fpos] \in Request
        BY <3>1 DEF FlushPost, FlushOver, TypeOK
      <4>2. QED
        BY <3>1, <4>1 DEF FlushPost, Open
    <3>2. CASE SendPost
      BY <3>2, BatchTyped DEF SendPost, Open
    <3>3. QED
      BY <1>2, <3>1, <3>2
  <2>2. \A t \in Slots : ~Awaited(t)
    BY <1>2 DEF FlushPost, SendPost, AwaitedIsMine, Waiting
  <2>3. \A t \in Slots : Awaited(t)' => t = s
    BY <2>1, <2>2 DEF Awaited, TypeOK
  <2>4. http'[s].req = r
    BY <2>1 DEF TypeOK
  <2>5. Batch' = Batch /\ UNCHANGED <<spool, fpos>>
    BY <1>2 DEF FlushPost, SendPost, Batch, WindowEnd
  <2>6. CASE FlushPost
    <3>1. pc = "flush" /\ pc' = "flushWait" /\ fpos <= Len(spool)
      BY <2>6 DEF FlushPost, FlushOver, TypeOK
    <3>2. QED
      BY <2>1, <2>3, <2>4, <2>5, <3>1 DEF AwaitedIsMine, Waiting
  <2>7. CASE SendPost
    <3>1. pc = "send" /\ pc' = "sendWait" /\ start' < Len(scan'[kind'])
      BY <2>7 DEF SendPost, Unsent
    <3>2. QED
      BY <2>1, <2>3, <2>4, <2>5, <3>1 DEF AwaitedIsMine, Waiting
  <2>8. QED
    BY <1>2, <2>6, <2>7
<1>3. CASE pc' \notin Waiting
  <2>1. pc' = "spool" => start' < Len(scan'[kind'])
    BY <1>3, WaitingStill DEF AwaitedIsMine, FlushPost, SendPost
  <2>2. \A t \in Slots : ~Awaited(t)'
    <3>1. CASE UNCHANGED http
      <4>1. CASE pc \notin Waiting
        BY <3>1, <4>1 DEF AwaitedIsMine, Awaited
      <4>2. CASE pc \in Waiting
        <5>1. Crash /\ ~\E s \in Slots : Awaited(s)
          BY <1>3, <3>1, <4>2, LeaveWaiting
        <5>2. QED
          BY <3>1, <5>1 DEF Awaited
      <4>3. QED
        BY <4>1, <4>2
    <3>2. ASSUME NEW s \in Slots, Handle(s), UNCHANGED watcherVars
          PROVE  \A t \in Slots : ~Awaited(t)'
      <4>1. \A t \in Slots : ~Awaited(t)
        BY <1>3, <3>2 DEF AwaitedIsMine, watcherVars
      <4>2. PICK a \in Answer : Respond(s, a)
        BY <3>2 DEF Handle, HandleAccept, HandleRetry, HandleRefuse, Answer
      <4>3. QED
        BY <4>1, <4>2 DEF Respond, Awaited, TypeOK, FreeSlot, Answer
    <3>3. ASSUME NEW s \in Slots, Awaited(s), HangUp(s)
          PROVE  \A t \in Slots : ~Awaited(t)'
      <4>1. \A t \in Slots : t # s => ~Awaited(t)
        BY <3>3 DEF AwaitedIsMine
      <4>2. PICK e \in {FreeSlot, [st |-> "orphaned", req |-> http[s].req]} :
              http' = [http EXCEPT ![s] = e]
        BY <3>3 DEF HangUp, TypeOK
      <4>3. e.st \notin {"received"} \cup Answer
        BY DEF FreeSlot, Answer
      <4>4. \A t \in Slots : http'[t] = IF t = s THEN e ELSE http[t]
        BY <4>2 DEF TypeOK
      <4>5. QED
        BY <4>1, <4>3, <4>4 DEF Awaited
    <3>4. QED
      BY <1>3, <3>1, <3>2, <3>3, HttpChanges DEF FlushPost, SendPost, Waiting
  <2>3. QED
    BY <1>3, <2>1, <2>2 DEF AwaitedIsMine, Waiting
<1>4. QED
  BY <1>1, <1>2, <1>3, WaitingStill DEF Waiting

(* Each step keeps Trails.                                                 *)
LEMMA TrailsStep ==
  ASSUME IndInv, [Next]_vars
  PROVE  Trails'
<1> USE DEF IndInv, Trails, Sending
<1>1. /\ size \in [Files -> Int] /\ disk \in [Files -> Int]
      /\ mem \in [Files -> Int] /\ pending \in [Files -> Int]
  BY DEF TypeOK
<1>2. ASSUME NEW f \in Files, Write(f)
      PROVE  Trails'
  <2>1. \A g \in Files : size[g] <= size'[g]
    BY <1>1, <1>2 DEF Write
  <2>2. \A g \in Files : size'[g] \in Int
    BY <1>1, <1>2 DEF Write
  <2>3. UNCHANGED <<disk, mem, pending, pc>>
    BY <1>2 DEF Write
  <2>4. QED
    BY <1>1, <2>1, <2>2, <2>3
<1>3. CASE Start
  BY <1>1, <1>3 DEF Start, Load
<1>4. CASE ProcessGone
  BY <1>1, <1>4, SizesAssumption DEF ProcessGone, ForgetPass, Nowhere, TypeOK
<1>5. ASSUME NEW S \in SUBSET Files, ScanFiles(S), UNCHANGED <<size, disk, mem>>,
             pc = "scan", pc' = "send"
      PROVE  Trails'
  BY <1>1, <1>5 DEF ScanFiles
<1>6. CASE Scan
  BY <1>5, <1>6 DEF Scan
<1>7. CASE Checkpoint
  BY <1>1, <1>7 DEF Checkpoint, PassOver
<1>8. CASE /\ UNCHANGED <<size, disk, mem>>
           /\ pc # "down"
           /\ pc' \notin Sending \/ (pc \in Sending /\ UNCHANGED pending)
  BY <1>8
<1>9. CASE UNCHANGED <<size, disk, mem, pending, pc>>
  BY <1>9
<1>10. QED
  BY <1>2, <1>3, <1>4, <1>6, <1>7, <1>8, <1>9
  DEF Next, Pass, Server, vars, watcherVars, Tick, NextPass, Exit, Stop, Crash,
     FlushDone, FlushPost, FlushCancelled, FlushSkip, FlushReturn,
     FlushReturnUnremoved, SendPost, SendCancelled, SpoolBatch, SpoolFails, ScanNothing,
     SpoolFailed, PassOver, NextKind, SendReturn, NextWindow

-----------------------------------------------------------------------------
(* The theorems.                                                           *)

(* Each step keeps the invariant.                                          *)
LEMMA IndInvStep == IndInv /\ [Next]_vars => IndInv'
BY TypeStep, AtRestStep, ScanTypedStep, MemCoveredStep, CheckpointCoveredStep,
   ScanCoveredStep, AnswersTrueStep, AwaitedIsMineStep, CountedOnceStep,
   TrailsStep
DEF IndInv

(* The invariant holds in every reachable state.                           *)
LEMMA IndInvariant == Spec => []IndInv
BY InitInv, IndInvStep, PTL DEF Spec

(* Every reachable state is that of a watcher at some line of runOnce, a   *)
(* spool of whole requests, and exchanges carrying whole requests.         *)
THEOREM TypeCorrect == Spec => []TypeOK
BY IndInvariant, PTL DEF IndInv

(* Nothing behind the checkpoint file is lost: the promise of Send (safe   *)
(* to advance the checkpoint) and of runOnce (only when every batch of     *)
(* both kinds is durable), for every number of transcripts, batch size and *)
(* faults.                                                                 *)
THEOREM NothingLost == Spec => []CheckpointCovered
BY IndInvariant, PTL DEF IndInv

(* A record is added to the daily totals once, when it enters the detail   *)
(* table, however often and from wherever it is sent (insertSQL).          *)
THEOREM NothingCountedTwice == Spec => []CountedOnce
BY IndInvariant, PTL DEF IndInv

(* The ledger speaks of the same transcripts.                              *)
LEMMA SameVocabulary == L!Key = Key /\ L!Position = Position
BY DEF L!Key, Key, L!Position, Position, L!Files, Files

(* Every step of the pipeline is a step of the ledger, or none.            *)
LEMMA LedgerStep ==
  ASSUME IndInv, [Next]_vars
  PROVE  L!LedgerNext \/ UNCHANGED <<Custody, counted, {p \in Position : p[2] <= disk[p[1]]}>>
<1> DEFINE behind == {p \in Position : p[2] <= disk[p[1]]}
<1> USE DEF IndInv
<1>1. Custody \subseteq Custody'
  BY CustodyGrows
<1>2. ASSUME NEW s \in Slots, HandleAccept(s), UNCHANGED watcherVars
      PROVE  L!LedgerNext
  <2>1. http[s].req.keys \subseteq Key
    BY DEF TypeOK, Exchange, Request
  <2>2. /\ detail' = detail \cup http[s].req.keys
        /\ counted' = [k \in Key |-> counted[k] + IF k \in http[s].req.keys \ detail THEN 1 ELSE 0]
        /\ UNCHANGED <<spool, refused, disk>>
    BY <1>2 DEF HandleAccept, Store, RollUp, Accepted, watcherVars
  <2>3. Custody' = Custody \cup http[s].req.keys
    BY <2>2 DEF Custody, Spooled
  <2>4. counted' = [k \in Key |-> IF k \in http[s].req.keys THEN 1 ELSE counted[k]]
    BY <2>2 DEF CountedOnce
  <2>5. behind' = behind
    BY <2>2
  <2>6. L!Deliver(http[s].req.keys)
    BY <2>3, <2>4, <2>5, SameVocabulary DEF L!Deliver
  <2>7. QED
    BY <2>1, <2>6, SameVocabulary DEF L!LedgerNext
<1>3. CASE Checkpoint /\ disk' = pending
  <2> DEFINE P == {p \in Position : p[2] <= pending[p[1]]}
  <2>1. UNCHANGED <<detail, spool, refused, counted>>
    BY <1>3 DEF Checkpoint
  <2>2. Custody' = Custody
    BY <2>1 DEF Custody, Spooled
  <2>3. behind' = P
    BY <1>3
  <2>4. \A p \in P : Line[p] \in Custody \cup {NoRecord}
    BY <1>3, AllSent DEF Accounted
  <2>5. behind \subseteq P
    <3>1. \A f \in Files : disk[f] <= pending[f]
      BY <1>3 DEF Checkpoint, Trails, Sending, TypeOK
    <3>2. QED
      BY <3>1 DEF Position, TypeOK
  <2>6. behind' = behind \cup P
    BY <2>3, <2>5
  <2>7. PICK Q \in SUBSET Position : Q = P
    OBVIOUS
  <2>8. L!Release(Q)
    BY <2>1, <2>2, <2>4, <2>6, <2>7 DEF L!Release
  <2>9. QED
    BY <2>8, SameVocabulary DEF L!LedgerNext
<1>4. CASE UNCHANGED <<detail, counted>> /\ UNCHANGED disk
  <2>1. DEFINE K == Custody' \ Custody
  <2>2. Custody' \subseteq Key
    <3>1. TypeOK'
      BY TypeStep
    <3>2. Spooled' \subseteq Key
      <4>1. \A i \in DOMAIN spool' : spool'[i] \in Request
        BY <3>1 DEF TypeOK
      <4>2. QED
        BY <4>1 DEF Spooled, Request
    <3>3. QED
      BY <3>1, <3>2 DEF TypeOK, Custody
  <2>3. Custody' = Custody \cup K
    BY <1>1
  <2>4. L!Hold(K)
    BY <1>4, <2>3 DEF L!Hold
  <2>5. QED
    BY <2>2, <2>4, SameVocabulary DEF L!LedgerNext
<1>5. QED
  BY <1>2, <1>3, <1>4, DetailGrows, CheckpointChanges

(* The pipeline implements the ledger, step by step: whatever the watcher  *)
(* and the server do, custody only grows, the checkpoint file only moves   *)
(* forward and only over what is in custody (runOnce, Uploader, Save), and *)
(* a key is counted when it is first stored (insertSQL).                   *)
THEOREM PipelineImplementsLedger == Spec => LedgerHolds
<1>1. Init => L!LedgerInit
  <2>1. SUFFICES ASSUME Init PROVE L!LedgerInit
    OBVIOUS
  <2>2. Custody = {}
    BY <2>1 DEF Init, WatcherInit, IngestInit, Custody, Spooled
  <2>3. counted = [k \in Key |-> 0]
    BY <2>1 DEF Init, IngestInit
  <2>4. {p \in Position : p[2] <= disk[p[1]]} = {}
    BY <2>1, SizesAssumption DEF Init, WatcherInit, Nowhere, Position
  <2>5. QED
    BY <2>2, <2>3, <2>4, SameVocabulary DEF L!LedgerInit
<1>2. IndInv /\ [Next]_vars => [L!LedgerNext]_(L!ledgerVars)
  BY LedgerStep DEF L!ledgerVars
<1>3. QED
  BY <1>1, <1>2, IndInvariant, PTL DEF Spec, LedgerHolds, L!LedgerSpec
=============================================================================
