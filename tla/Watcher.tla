------------------------------ MODULE Watcher ------------------------------
(***************************************************************************)
(* The resident watcher of one machine: drain the spool, scan the          *)
(* transcripts, post the new records in batches (usage first, then edits), *)
(* spool what could not be posted, and only then advance the checkpoint.   *)
(*                                                                         *)
(* pc follows runOnce:                                                     *)
(*   "flush" "flushWait"   Uploader.Flush, and its POST in flight          *)
(*   "scan"                Scanner.Scan                                    *)
(*   "send" "sendWait"     sendBatched, and its POST in flight             *)
(*   "spool"               the POST failed: Uploader.spool                 *)
(*   "idle"                the select of DoRun                             *)
(*   "down"                no process                                      *)
(***************************************************************************)
EXTENDS Ingest

CONSTANTS
  BatchSize,  \* --batch
  HasBuffer,  \* BufferDir is configured
  Once        \* --once: exit after one pass (cron)

ASSUME BatchSizeAssumption == BatchSize \in Nat \ {0}
ASSUME FlagsAssumption == HasBuffer \in BOOLEAN /\ Once \in BOOLEAN

VARIABLES
  size,      \* complete lines in each transcript
  disk,      \* the checkpoint file
  mem,       \* Checkpoint.Files of the running process
  spool,     \* BufferDir, in name order: requests waiting to be re-sent
  pc,        \* where the process is
  fpos,      \* Flush: the next entry
  pending,   \* Scan: where each transcript will be once everything is durable
  scan,      \* Scan: the records found, by kind
  kind,      \* which kind sendBatched is sending
  start,     \* sendBatched: records of that kind already durable
  stopping,  \* the context is cancelled
  refused    \* history: keys the watcher gave up on because of a refusal

watcherVars == <<size, disk, mem, spool, pc, fpos, pending, scan, kind, start,
                 stopping, refused>>

Waiting   == {"flushWait", "sendWait"}
NoScan    == [k \in Kind |-> <<>>]
Nowhere   == [f \in Files |-> 0]

WatcherInit ==
  /\ size = Nowhere
  /\ disk = Nowhere
  /\ mem = Nowhere
  /\ spool = <<>>
  /\ pc = "down"
  /\ fpos = 1
  /\ pending = Nowhere
  /\ scan = NoScan
  /\ kind = "usage"
  /\ start = 0
  /\ stopping = FALSE
  /\ refused = {}

-----------------------------------------------------------------------------
(* Variants of the definitions below, each with a plausible slip.          *)
LoadNothing == mem' = Nowhere
RejectionOnAnyError(a) == a # "ok"
SkipFailedBatch == /\ start' = start + BatchSize /\ pc' = "send"
                   /\ UNCHANGED <<fpos, pending, scan, kind, stopping>>
NextPassWithoutFlush == pc' = "scan" /\ fpos' = 1
RemoveAndSkip == /\ spool' = [i \in 1..(Len(spool) - 1) |->
                                IF i < fpos THEN spool[i] ELSE spool[i + 1]]
                 /\ fpos' = fpos + 2
-----------------------------------------------------------------------------
(* A tool appends a line to its transcript.                                *)
Write(f) ==
  /\ size[f] < MaxLines
  /\ size' = [size EXCEPT ![f] = @ + 1]
  /\ UNCHANGED <<disk, mem, spool, pc, fpos, pending, scan, kind, start,
                 stopping, refused>>
  /\ UNCHANGED ingestVars

(* The process is gone, or the pass is over: its variables mean nothing    *)
(* any more and take their initial values.                                 *)
ForgetPass ==
  /\ fpos' = 1
  /\ pending' = Nowhere
  /\ scan' = NoScan
  /\ kind' = "usage"
  /\ start' = 0

(* Back to the select of DoRun, with nothing in hand.                      *)
PassOver == pc' = "idle" /\ ForgetPass /\ UNCHANGED stopping

Load == mem' = disk

(* DoRun: LoadCheckpoint, then the first runOnce.                          *)
Start ==
  /\ pc = "down"
  /\ Load
  /\ pc' = "flush"
  /\ UNCHANGED <<size, disk, spool, fpos, pending, scan, kind, start,
                 stopping, refused>>
  /\ UNCHANGED ingestVars

-----------------------------------------------------------------------------
(* A POST.                                                                 *)

Open(r) ==
  /\ \E s \in Slots :
       /\ http[s].st = "free"
       /\ http' = [http EXCEPT ![s] = [st |-> "received", req |-> r]]
  /\ UNCHANGED <<detail, counted, mode, faults>>

(* The exchange the watcher waits for.                                     *)
Awaited(s) == http[s].st \in {"received"} \cup Answer

(* Nobody waits for s any more: the request never arrived or its answer is *)
(* lost, or it lives on in the server.                                     *)
HangUp(s) ==
  \/ http' = [http EXCEPT ![s] = FreeSlot]
  \/ /\ http[s].st = "received"
     /\ http' = [http EXCEPT ![s] = [st |-> "orphaned", req |-> @.req]]

(* Client.Do returns and a is what post makes of it: the answer, or an     *)
(* error when the 30 s timeout, a broken connection or the cancelled       *)
(* context ends the wait.                                                  *)
Return(s, a) ==
  /\ Awaited(s)
  /\ \/ /\ http[s].st = a
        /\ http' = [http EXCEPT ![s] = FreeSlot]
        /\ UNCHANGED faults
     \/ /\ a = "retry"
        /\ IF stopping THEN UNCHANGED faults ELSE Fault
        /\ HangUp(s)
  /\ UNCHANGED <<detail, counted, mode>>

-----------------------------------------------------------------------------
(* Uploader.Flush.                                                         *)

FlushOver == ~HasBuffer \/ fpos > Len(spool)

FlushDone ==
  /\ pc = "flush"
  /\ FlushOver
  /\ pc' = "scan"
  /\ UNCHANGED <<size, disk, mem, spool, fpos, pending, scan, kind, start,
                 stopping, refused>>
  /\ UNCHANGED ingestVars

(* ReadFile fails: the entry is left for a later pass.                     *)
FlushSkip ==
  /\ pc = "flush"
  /\ ~FlushOver
  /\ Fault
  /\ fpos' = fpos + 1
  /\ UNCHANGED <<size, disk, mem, spool, pc, pending, scan, kind, start,
                 stopping, refused>>
  /\ UNCHANGED <<http, detail, counted, mode>>

FlushPost ==
  /\ pc = "flush"
  /\ ~FlushOver
  /\ ~stopping
  /\ Open(spool[fpos])
  /\ pc' = "flushWait"
  /\ UNCHANGED <<size, disk, mem, spool, fpos, pending, scan, kind, start,
                 stopping, refused>>

(* A cancelled context fails every POST before it is sent.                 *)
FlushCancelled ==
  /\ pc = "flush"
  /\ ~FlushOver
  /\ stopping
  /\ pc' = "scan"
  /\ UNCHANGED <<size, disk, mem, spool, fpos, pending, scan, kind, start,
                 stopping, refused>>
  /\ UNCHANGED ingestVars

(* isHTTPRejection.                                                        *)
IsHTTPRejection(a) == a = "refuse"

(* os.Remove of the entry; the next one takes its place.                   *)
Remove ==
  /\ spool' = [i \in 1..(Len(spool) - 1) |->
                 IF i < fpos THEN spool[i] ELSE spool[i + 1]]
  /\ UNCHANGED fpos

(* The answer to a re-sent batch: accepted or refused for good, the entry  *)
(* goes (an os.Remove that fails is ignored and leaves it for a later      *)
(* pass); on any other error the pass stops here.                          *)
FlushReturn(s, a) ==
  /\ pc = "flushWait"
  /\ Return(s, a)
  /\ IF a = "ok" \/ IsHTTPRejection(a)
       THEN /\ pc' = "flush"
            /\ refused' = IF a = "refuse" THEN refused \cup spool[fpos].keys
                                          ELSE refused
            /\ Remove
       ELSE /\ pc' = "scan"
            /\ UNCHANGED <<fpos, spool, refused>>
  /\ UNCHANGED <<size, disk, mem, pending, scan, kind, start, stopping>>

FlushReturnUnremoved(s, a) ==
  /\ pc = "flushWait"
  /\ http[s].st = a
  /\ a = "ok" \/ IsHTTPRejection(a)
  /\ http' = [http EXCEPT ![s] = FreeSlot]
  /\ Fault
  /\ pc' = "flush"
  /\ fpos' = fpos + 1
  /\ UNCHANGED <<detail, counted, mode>>
  /\ UNCHANGED <<size, disk, mem, spool, pending, scan, kind, start,
                 stopping, refused>>

-----------------------------------------------------------------------------
(* Scanner.Scan.                                                           *)

(* The first line a scan of transcript f reads again: none when the file   *)
(* has not changed; all of them for a parser that re-reads the file; else  *)
(* the line after the checkpointed one.                                    *)
Unread(f) ==
  IF mem[f] = size[f] THEN {}
  ELSE IF f \in Reparse THEN 1..size[f] ELSE (mem[f] + 1)..size[f]

Found(k, S) ==
  {p \in Position : p[1] \in S /\ p[2] \in Unread(p[1]) /\ Line[p] \in KeysOf(k)}

(* The transcripts of S are read; the others (unreadable, or their source  *)
(* is) yield no records and no FileState.                                  *)
ScanFiles(S) ==
  /\ pending' = [f \in Files |-> IF f \in S THEN size[f] ELSE mem[f]]
  /\ \E u \in WalkOrders(Found("usage", S)), e \in WalkOrders(Found("edit", S)) :
        scan' = [k \in Kind |-> IF k = "usage" THEN u ELSE e]

Scan ==
  /\ pc = "scan"
  /\ \/ ScanFiles(Files) /\ UNCHANGED faults
     \/ Fault /\ \E S \in (SUBSET Files) \ {{}, Files} : ScanFiles(S)
  /\ pc' = "send"
  /\ fpos' = 1
  /\ UNCHANGED <<size, disk, mem, spool, kind, start, stopping, refused>>
  /\ UNCHANGED <<http, detail, counted, mode>>

(* No transcript or no source could be read: there is nothing to set.      *)
ScanNothing ==
  /\ pc = "scan"
  /\ Fault
  /\ PassOver
  /\ UNCHANGED <<size, disk, mem, spool, refused>>
  /\ UNCHANGED <<http, detail, counted, mode>>

-----------------------------------------------------------------------------
(* runOnce: sendBatched over the usage records, then over the edits, then  *)
(* the checkpoint.                                                         *)

Unsent == start < Len(scan[kind])

(* recs[start:end] of the current kind as one request.                     *)
WindowEnd == IF start + BatchSize < Len(scan[kind]) THEN start + BatchSize
                                                    ELSE Len(scan[kind])
Batch == [kind |-> kind,
          keys |-> {Line[scan[kind][i]] : i \in (start + 1)..WindowEnd}]

SendPost ==
  /\ pc = "send"
  /\ Unsent
  /\ ~stopping
  /\ Open(Batch)
  /\ pc' = "sendWait"
  /\ UNCHANGED <<size, disk, mem, spool, fpos, pending, scan, kind, start,
                 stopping, refused>>

NextWindow ==
  /\ start' = start + BatchSize
  /\ pc' = "send"
  /\ UNCHANGED <<fpos, pending, scan, kind, stopping>>

(* Some batch is not durable: the pass ends, the checkpoint does not move. *)
SpoolFailed == PassOver

SendReturn(s, a) ==
  /\ pc = "sendWait"
  /\ Return(s, a)
  /\ IF a = "ok"
       THEN NextWindow
       ELSE /\ pc' = "spool"
            /\ UNCHANGED <<fpos, pending, scan, kind, start, stopping>>
  /\ UNCHANGED <<size, disk, mem, spool, refused>>

SendCancelled ==
  /\ pc = "send"
  /\ Unsent
  /\ stopping
  /\ pc' = "spool"
  /\ UNCHANGED <<size, disk, mem, spool, fpos, pending, scan, kind, start,
                 stopping, refused>>
  /\ UNCHANGED ingestVars

(* Uploader.spool after any failed POST: the body is durable under a name  *)
(* that sorts last.                                                        *)
SpoolBatch ==
  /\ pc = "spool"
  /\ HasBuffer
  /\ spool' = Append(spool, Batch)
  /\ NextWindow
  /\ UNCHANGED <<size, disk, mem, refused>>
  /\ UNCHANGED ingestVars

(* No BufferDir, or the write or the rename fails: sendRequest returns an  *)
(* error.                                                                  *)
SpoolFails ==
  /\ pc = "spool"
  /\ IF HasBuffer THEN Fault ELSE UNCHANGED faults
  /\ SpoolFailed
  /\ UNCHANGED <<size, disk, mem, spool, refused>>
  /\ UNCHANGED <<http, detail, counted, mode>>

(* Every usage batch is durable: now the edits.                            *)
NextKind ==
  /\ pc = "send"
  /\ ~Unsent
  /\ kind = "usage"
  /\ kind' = "edit"
  /\ start' = 0
  /\ UNCHANGED <<size, disk, mem, spool, pc, fpos, pending, scan, stopping,
                 refused>>
  /\ UNCHANGED ingestVars

(* Every batch of both kinds is durable: Checkpoint.Set for each scanned   *)
(* transcript, then Save, whose failure is only logged.                    *)
Checkpoint ==
  /\ pc = "send"
  /\ ~Unsent
  /\ kind = "edit"
  /\ mem' = pending
  /\ \/ disk' = pending /\ UNCHANGED faults
     \/ UNCHANGED disk /\ Fault
  /\ PassOver
  /\ UNCHANGED <<size, spool, refused>>
  /\ UNCHANGED <<http, detail, counted, mode>>

-----------------------------------------------------------------------------
(* DoRun and the process around it.                                        *)

NextPass == pc' = "flush" /\ fpos' = 1

Tick ==
  /\ pc = "idle"
  /\ ~Once
  /\ NextPass
  /\ UNCHANGED <<size, disk, mem, spool, pending, scan, kind, start, stopping,
                 refused>>
  /\ UNCHANGED ingestVars

ProcessGone ==
  /\ pc' = "down"
  /\ mem' = Nowhere
  /\ ForgetPass
  /\ stopping' = FALSE
  /\ UNCHANGED <<size, disk, spool, refused>>

(* The select sees the cancelled context, or --once is over.               *)
Exit ==
  /\ pc = "idle"
  /\ Once \/ stopping
  /\ ProcessGone
  /\ UNCHANGED ingestVars

(* SIGINT / SIGTERM, or the service manager's Stop.                        *)
Stop ==
  /\ pc # "down"
  /\ ~stopping
  /\ stopping' = TRUE
  /\ Fault
  /\ UNCHANGED <<size, disk, mem, spool, pc, fpos, pending, scan, kind, start,
                 refused>>
  /\ UNCHANGED <<http, detail, counted, mode>>

(* The process dies anywhere: a crash, a second signal, the 15 s of Stop.  *)
Crash ==
  /\ pc # "down"
  /\ Fault
  /\ ProcessGone
  /\ IF \E s \in Slots : Awaited(s)
       THEN \E s \in Slots : Awaited(s) /\ HangUp(s)
       ELSE UNCHANGED http
  /\ UNCHANGED <<detail, counted, mode>>
=============================================================================
