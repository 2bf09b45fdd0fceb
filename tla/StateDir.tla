------------------------------ MODULE StateDir ------------------------------
(***************************************************************************)
(* ~/.token-usage-watcher of one machine: the buffer and checkpoint.json,  *)
(* which every watcher process of the user reads and writes (the services  *)
(* of the installed backends, a `run` or `run --once` by hand or by cron,  *)
(* a process that outlived its unit), and the `cleanup` command deletes.   *)
(* Nothing locks the directory.                                            *)
(*                                                                         *)
(* What one process and the server make of a pass is Watcher; here a pass  *)
(* has one transcript and one batch, and Checkpoint.Save is the system     *)
(* calls it consists of. A spooled batch is told apart by its lines: one   *)
(* entry stands for all that hold the same.                                *)
(*                                                                         *)
(* pc: "flush" "scan" "send" as in Watcher; "save", "write" and "rename"   *)
(* before the open, the write and the rename of Save; "idle"; "down".      *)
(***************************************************************************)
EXTENDS Naturals

CONSTANTS
  Service,      \* watcher processes that a service manager runs
  Manual,       \* those that it does not
  MaxLines,     \* bound on the lines of the transcript
  MaxCleanups,  \* bound on runs of `cleanup`
  MaxFaults,    \* bound on everything that goes wrong
  Absent, Empty, Torn   \* a file that is not there, has no bytes, is no JSON

Proc    == Service \cup Manual
Lines   == 1..MaxLines
Place   == 0..MaxLines    \* a checkpoint: how far into the transcript
Content == Place \cup {Absent, Empty, Torn}

ASSUME ProcAssumption == Service \cap Manual = {}
ASSUME ContentAssumption == {Absent, Empty, Torn} \cap Nat = {}
ASSUME StateDirBounds ==
  MaxLines \in Nat /\ MaxCleanups \in Nat /\ MaxFaults \in Nat

VARIABLES
  size,      \* lines in the transcript
  stored,    \* lines whose records the server has
  spool,     \* the buffer: batches of lines
  final,     \* checkpoint.json
  tmp,       \* checkpoint.json.tmp
  pc,        \* where each process is
  mem,       \* Checkpoint.Files of each process
  pending,   \* what its scan will set
  names,     \* Flush: entries of its listing still to be re-sent
  fd,        \* the file it has open for writing, wherever that is now
  stopping,  \* its context is cancelled
  wanted,    \* the service manager is to keep it running
  op,        \* where the operator's command is
  todo,      \* what that step has still to go through
  with,      \* --with-checkpoint
  cleanups,  \* how many times `cleanup` was run
  given,     \* history: lines given up, by cleanup or refused by the server
  collided,  \* history: two processes were in Save at once
  faults     \* how many things have gone wrong so far

files    == <<final, tmp>>
procVars == <<pc, mem, pending, names, fd, stopping>>
opVars   == <<wanted, op, todo, with, cleanups>>
history  == <<given, collided>>
vars     == <<size, stored, spool, files, procVars, opVars, history, faults>>

Init ==
  /\ size = 0
  /\ stored = {}
  /\ spool = {}
  /\ final = Absent
  /\ tmp = Absent
  /\ pc = [p \in Proc |-> "down"]
  /\ mem = [p \in Proc |-> 0]
  /\ pending = [p \in Proc |-> 0]
  /\ names = [p \in Proc |-> {}]
  /\ fd = [p \in Proc |-> "none"]
  /\ stopping = [p \in Proc |-> FALSE]
  /\ wanted = [p \in Service |-> TRUE]
  /\ op = "none"
  /\ todo = {}
  /\ with = FALSE
  /\ cleanups = 0
  /\ given = {}
  /\ collided = FALSE
  /\ faults = 0

Fault == faults < MaxFaults /\ faults' = faults + 1

Readable == final \in Place \cup {Absent}
LoadedFrom(c) == IF c = Absent THEN 0 ELSE c

-----------------------------------------------------------------------------
(* Variants of the definitions below, each with a plausible slip.          *)
AsFarAsItIsNow(p) == size
WithoutTruncation == IF tmp = Absent THEN Empty ELSE tmp
NothingListed     == {}
OverWithFile(p, place) ==
  /\ pc' = [pc EXCEPT ![p] = place]
  /\ pending' = [pending EXCEPT ![p] = 0]
  /\ names' = [names EXCEPT ![p] = {}]
  /\ UNCHANGED fd
-----------------------------------------------------------------------------
(* The tool appends a line.                                                *)
Write ==
  /\ size < MaxLines
  /\ size' = size + 1
  /\ UNCHANGED <<stored, spool, files, procVars, opVars, history, faults>>

(* What os.ReadDir of the buffer gives to Flush.                           *)
Listing == spool

(* DoRun: LoadCheckpoint. A process that cannot read it exits; a service   *)
(* starts whenever it is wanted and down, anybody else at any time.        *)
Start(p) ==
  /\ pc[p] = "down"
  /\ p \in Service => wanted[p]
  /\ Readable
  /\ mem' = [mem EXCEPT ![p] = LoadedFrom(final)]
  /\ pc' = [pc EXCEPT ![p] = "flush"]
  /\ names' = [names EXCEPT ![p] = Listing]
  /\ UNCHANGED <<size, stored, spool, files, pending, fd, stopping, opVars,
                 history, faults>>

Go(p, place) == pc' = [pc EXCEPT ![p] = place]

(* The pass is over, or the process is gone.                               *)
PassOver(p, place) ==
  /\ Go(p, place)
  /\ pending' = [pending EXCEPT ![p] = 0]
  /\ names' = [names EXCEPT ![p] = {}]
  /\ fd' = [fd EXCEPT ![p] = "none"]

(* Any POST may fail, and each one that the cancellation meets does. The   *)
(* server may have stored the batch nevertheless.                          *)
PostFails(p, S) ==
  /\ IF stopping[p] THEN UNCHANGED faults ELSE Fault
  /\ stored' \in {stored, stored \cup S}

-----------------------------------------------------------------------------
(* Uploader.Flush, entry by entry of the listing.                          *)

Flushing(p, S) ==
  /\ pc[p] = "flush"
  /\ S \in names[p]
  /\ names' = [names EXCEPT ![p] = @ \ {S}]

(* Somebody else has removed it: ReadFile fails.                           *)
FlushGone(p, S) ==
  /\ Flushing(p, S)
  /\ S \notin spool
  /\ UNCHANGED <<size, stored, spool, files, pc, mem, pending, fd, stopping,
                 opVars, history, faults>>

FlushSent(p, S) ==
  /\ Flushing(p, S)
  /\ S \in spool
  /\ ~stopping[p]
  /\ stored' = stored \cup S
  /\ spool' = spool \ {S}
  /\ UNCHANGED <<size, files, pc, mem, pending, fd, stopping, opVars,
                 history, faults>>

(* Refused for good: the entry goes.                                       *)
FlushRefused(p, S) ==
  /\ Flushing(p, S)
  /\ S \in spool
  /\ ~stopping[p]
  /\ Fault
  /\ spool' = spool \ {S}
  /\ given' = given \cup S
  /\ UNCHANGED <<size, stored, files, pc, mem, pending, fd, stopping, opVars,
                 collided>>

(* Any other error ends the flush.                                         *)
FlushFails(p, S) ==
  /\ pc[p] = "flush"
  /\ S \in names[p] \cap spool
  /\ PostFails(p, S)
  /\ names' = [names EXCEPT ![p] = {}]
  /\ Go(p, "scan")
  /\ UNCHANGED <<size, spool, files, mem, pending, fd, stopping, opVars, history>>

FlushDone(p) ==
  /\ pc[p] = "flush"
  /\ names[p] = {}
  /\ Go(p, "scan")
  /\ UNCHANGED <<size, stored, spool, files, mem, pending, names, fd, stopping,
                 opVars, history, faults>>

-----------------------------------------------------------------------------
(* Scan, Send.                                                             *)

Scan(p) ==
  /\ pc[p] = "scan"
  /\ pending' = [pending EXCEPT ![p] = size]
  /\ Go(p, IF mem[p] < size THEN "send" ELSE "save")
  /\ UNCHANGED <<size, stored, spool, files, mem, names, fd, stopping, opVars,
                 history, faults>>

Batch(p) == (mem[p] + 1)..pending[p]

Sent(p) ==
  /\ pc[p] = "send"
  /\ ~stopping[p]
  /\ stored' = stored \cup Batch(p)
  /\ Go(p, "save")
  /\ UNCHANGED <<size, spool, files, mem, pending, names, fd, stopping, opVars,
                 history, faults>>

Spooled(p) ==
  /\ pc[p] = "send"
  /\ PostFails(p, Batch(p))
  /\ spool' = spool \cup {Batch(p)}
  /\ Go(p, "save")
  /\ UNCHANGED <<size, files, mem, pending, names, fd, stopping, opVars, history>>

(* Neither posted nor spooled: the checkpoint stays. cleanup may take away *)
(* the file of the batch before spool renames it.                          *)
NotDurable(p) ==
  /\ pc[p] = "send"
  /\ IF op = "clear" THEN PostFails(p, Batch(p))
                     ELSE Fault /\ stored' \in {stored, stored \cup Batch(p)}
  /\ PassOver(p, "idle")
  /\ UNCHANGED <<size, spool, files, mem, stopping, opVars, history>>

-----------------------------------------------------------------------------
(* Checkpoint.Set and Save: os.WriteFile of the one temporary name, which  *)
(* opens, truncates and writes it, and os.Rename.                          *)

Saving(p) == pc[p] \in {"write", "rename"}

SetTo(p) == pending[p]

(* What O_CREATE|O_TRUNC leaves under the temporary name.                  *)
Opened == Empty

SaveOpen(p) ==
  /\ pc[p] = "save"
  /\ mem' = [mem EXCEPT ![p] = SetTo(p)]
  /\ tmp' = Opened
  /\ fd' = [fd EXCEPT ![p] = "tmp"]
  /\ collided' = (collided \/ \E q \in Proc : Saving(q))
  /\ Go(p, "write")
  /\ UNCHANGED <<size, stored, spool, final, pending, names, stopping, opVars,
                 given, faults>>

(* What is in a file after p has written to it from the beginning: its     *)
(* bytes, and perhaps the end of longer ones that were there.              *)
Over(c, p) == {mem[p]} \cup (IF c \in {Empty, mem[p]} THEN {} ELSE {Torn})

(* The file that p has open now contains c.                                *)
PutIn(p, c) ==
  /\ final' = IF fd[p] = "final" THEN c ELSE final
  /\ tmp' = IF fd[p] = "tmp" THEN c ELSE tmp

Held(p) == IF fd[p] = "final" THEN final ELSE IF fd[p] = "tmp" THEN tmp ELSE Empty

SaveWrite(p) ==
  /\ pc[p] = "write"
  /\ \E c \in Over(Held(p), p) : PutIn(p, c)
  /\ Go(p, "rename")
  /\ UNCHANGED <<size, stored, spool, mem, pending, names, fd, stopping, opVars,
                 history, faults>>

(* The name has been taken away: Save returns the error, which is logged.  *)
RenameFails(p) ==
  /\ pc[p] = "rename"
  /\ tmp = Absent
  /\ PassOver(p, "idle")
  /\ UNCHANGED <<size, stored, spool, files, mem, stopping, opVars, history, faults>>

(* Whatever has the temporary name gets the final one; who has it open     *)
(* writes on into it.                                                      *)
Moved == [none |-> "none", tmp |-> "final", final |-> "gone", gone |-> "gone"]

SaveRename(p) ==
  /\ pc[p] = "rename"
  /\ tmp # Absent
  /\ final' = tmp
  /\ tmp' = Absent
  /\ Go(p, "idle")
  /\ pending' = [pending EXCEPT ![p] = 0]
  /\ names' = [names EXCEPT ![p] = {}]
  /\ fd' = [q \in Proc |-> IF q = p THEN "none" ELSE Moved[fd[q]]]
  /\ UNCHANGED <<size, stored, spool, mem, stopping, opVars, history, faults>>

(* The disk is full, or the process dies: any part of its bytes is there.  *)
Interrupted(p, place) ==
  /\ PassOver(p, place)
  /\ IF pc[p] = "write" THEN \E c \in {Held(p), Torn} : PutIn(p, c)
                        ELSE UNCHANGED files

SaveFails(p) ==
  /\ Fault
  /\ \/ pc[p] = "write" /\ UNCHANGED mem
     \/ pc[p] = "save" /\ mem' = [mem EXCEPT ![p] = SetTo(p)]
  /\ Interrupted(p, "idle")
  /\ UNCHANGED <<size, stored, spool, stopping, opVars, history>>

-----------------------------------------------------------------------------
(* The loop of DoRun, the signals and the end of a process.                *)

Tick(p) ==
  /\ pc[p] = "idle"
  /\ Go(p, "flush")
  /\ names' = [names EXCEPT ![p] = Listing]
  /\ UNCHANGED <<size, stored, spool, files, mem, pending, fd, stopping, opVars,
                 history, faults>>

(* Cancelled, or the end of --once.                                        *)
Exit(p) ==
  /\ pc[p] = "idle"
  /\ stopping[p] \/ p \in Manual
  /\ Go(p, "down")
  /\ mem' = [mem EXCEPT ![p] = 0]
  /\ stopping' = [stopping EXCEPT ![p] = FALSE]
  /\ UNCHANGED <<size, stored, spool, files, pending, names, fd, opVars,
                 history, faults>>

Crash(p) ==
  /\ pc[p] # "down"
  /\ Fault
  /\ Interrupted(p, "down")
  /\ mem' = [mem EXCEPT ![p] = 0]
  /\ stopping' = [stopping EXCEPT ![p] = FALSE]
  /\ UNCHANGED <<size, stored, spool, opVars, history>>

-----------------------------------------------------------------------------
(* The operator. stopOne, startOne, and what doCleanup does around them.   *)

CancelOne(s) ==
  /\ wanted' = [wanted EXCEPT ![s] = FALSE]
  /\ stopping' = [stopping EXCEPT ![s] = pc[s] # "down"]

(* `stop`, and later `start`.                                              *)
Stop(s) ==
  /\ op = "none"
  /\ wanted[s]
  /\ Fault
  /\ CancelOne(s)
  /\ UNCHANGED <<size, stored, spool, files, pc, mem, pending, names, fd, op,
                 todo, with, cleanups, history>>

StartService(s) ==
  /\ op = "none"
  /\ ~wanted[s]
  /\ wanted' = [wanted EXCEPT ![s] = TRUE]
  /\ UNCHANGED <<size, stored, spool, files, procVars, op, todo, with,
                 cleanups, history, faults>>

Cleanup(w) ==
  /\ op = "none"
  /\ cleanups < MaxCleanups
  /\ cleanups' = cleanups + 1
  /\ with' = w
  /\ op' = "stop"
  /\ todo' = Service
  /\ UNCHANGED <<size, stored, spool, files, procVars, wanted, history, faults>>

(* stopOne returns when the service manager has seen the process end.      *)
CleanupStop(s) ==
  /\ op = "stop"
  /\ s \in todo
  /\ wanted[s]
  /\ CancelOne(s)
  /\ UNCHANGED <<size, stored, spool, files, pc, mem, pending, names, fd, op,
                 todo, with, cleanups, history, faults>>

Stopped(s) ==
  /\ op = "stop"
  /\ s \in todo
  /\ ~wanted[s] /\ pc[s] = "down"
  /\ todo' = todo \ {s}
  /\ UNCHANGED <<size, stored, spool, files, procVars, wanted, op, with,
                 cleanups, history, faults>>

(* "failed: ... (continuing - cleanup still useful)": s goes on running.   *)
StopFails(s) ==
  /\ op = "stop"
  /\ s \in todo
  /\ wanted[s]
  /\ Fault
  /\ todo' = todo \ {s}
  /\ UNCHANGED <<size, stored, spool, files, procVars, wanted, op, with,
                 cleanups, history>>

(* cleanDirContents.                                                       *)
List ==
  /\ op = "stop"
  /\ todo = {}
  /\ op' = "clear"
  /\ todo' = spool
  /\ UNCHANGED <<size, stored, spool, files, procVars, wanted, with, cleanups,
                 history, faults>>

DeleteEntry(S) ==
  /\ op = "clear"
  /\ S \in todo
  /\ todo' = todo \ {S}
  /\ spool' = spool \ {S}
  /\ given' = IF S \in spool THEN given \cup S ELSE given
  /\ UNCHANGED <<size, stored, files, procVars, wanted, op, with, cleanups,
                 collided, faults>>

(* os.ReadDir fails, and nothing is deleted, or one of the files cannot be *)
(* removed and stays: the command goes on.                                 *)
ListFails ==
  /\ op = "stop"
  /\ todo = {}
  /\ Fault
  /\ op' = "clear"
  /\ UNCHANGED <<size, stored, spool, files, procVars, wanted, todo, with,
                 cleanups, history>>

EntryStays(S) ==
  /\ op = "clear"
  /\ S \in todo
  /\ Fault
  /\ todo' = todo \ {S}
  /\ UNCHANGED <<size, stored, spool, files, procVars, wanted, op, with,
                 cleanups, history>>

(* With --with-checkpoint, os.Remove. When no process runs, the next scan  *)
(* of any reads everything again: nothing is given up.                     *)
AllDown == \A p \in Proc : pc[p] = "down"

RemoveCheckpoint ==
  /\ final' = Absent
  /\ fd' = [p \in Proc |-> IF fd[p] = "final" THEN "gone" ELSE fd[p]]
  /\ given' = IF AllDown THEN {} ELSE given

Cleared ==
  /\ op = "clear"
  /\ todo = {}
  /\ IF with THEN RemoveCheckpoint ELSE UNCHANGED <<final, fd, given>>
  /\ op' = "start"
  /\ todo' = Service
  /\ UNCHANGED <<size, stored, spool, tmp, pc, mem, pending, names, stopping,
                 wanted, with, cleanups, collided, faults>>

(* ... which fails.                                                        *)
CheckpointStays ==
  /\ op = "clear"
  /\ todo = {}
  /\ with
  /\ Fault
  /\ op' = "start"
  /\ todo' = Service
  /\ UNCHANGED <<size, stored, spool, files, procVars, wanted, with, cleanups,
                 history>>

CleanupStart(s) ==
  /\ op = "start"
  /\ s \in todo
  /\ todo' = todo \ {s}
  /\ wanted' = [wanted EXCEPT ![s] = TRUE]
  /\ UNCHANGED <<size, stored, spool, files, procVars, op, with, cleanups,
                 history, faults>>

CleanupDone ==
  /\ op = "start"
  /\ todo = {}
  /\ op' = "none"
  /\ UNCHANGED <<size, stored, spool, files, procVars, wanted, todo, with,
                 cleanups, history, faults>>

(* The command is interrupted.                                             *)
CleanupDies ==
  /\ op # "none"
  /\ Fault
  /\ op' = "none"
  /\ todo' = {}
  /\ UNCHANGED <<size, stored, spool, files, procVars, wanted, with, cleanups,
                 history>>

-----------------------------------------------------------------------------
Entry == SUBSET Lines

Pass(p) ==
  \/ \E S \in Entry :
       FlushGone(p, S) \/ FlushSent(p, S) \/ (stopping[p] /\ FlushFails(p, S))
  \/ FlushDone(p) \/ Scan(p) \/ Sent(p) \/ (stopping[p] /\ Spooled(p))
  \/ SaveOpen(p) \/ SaveWrite(p) \/ RenameFails(p) \/ SaveRename(p)

Fails(p) ==
  \/ \E S \in Entry : FlushRefused(p, S) \/ FlushFails(p, S)
  \/ Spooled(p) \/ NotDurable(p) \/ SaveFails(p) \/ Crash(p)

Command ==
  \/ \E s \in Service : CleanupStop(s) \/ Stopped(s) \/ CleanupStart(s)
  \/ List \/ (\E S \in Entry : DeleteEntry(S)) \/ Cleared \/ CleanupDone

Next ==
  \/ Write
  \/ \E p \in Proc : Start(p) \/ Pass(p) \/ Fails(p) \/ Tick(p) \/ Exit(p)
  \/ \E s \in Service : Stop(s) \/ StartService(s) \/ StopFails(s)
  \/ \E w \in BOOLEAN : Cleanup(w)
  \/ Command
  \/ ListFails \/ (\E S \in Entry : EntryStays(S)) \/ CheckpointStays \/ CleanupDies

(* Passes go on, services are kept running and commands end. Nobody need   *)
(* run a watcher by hand, nor start one that was stopped. A cancelled      *)
(* context may lose to the ticker in the select of DoRun, not for ever.    *)
Fairness ==
  /\ \A p \in Proc : WF_vars(Pass(p))
  /\ \A s \in Service : WF_vars(Start(s)) /\ WF_vars(Tick(s)) /\ SF_vars(stopping[s] /\ Exit(s))
  /\ WF_vars(Command)

Spec     == Init /\ [][Next]_vars
FairSpec == Spec /\ Fairness

-----------------------------------------------------------------------------
TypeOK ==
  /\ size \in Place
  /\ stored \subseteq Lines
  /\ spool \subseteq Entry
  /\ final \in Content /\ tmp \in Content
  /\ pc \in [Proc -> {"down", "flush", "scan", "send", "save", "write", "rename", "idle"}]
  /\ mem \in [Proc -> Place] /\ pending \in [Proc -> Place]
  /\ names \in [Proc -> SUBSET Entry]
  /\ fd \in [Proc -> {"none", "tmp", "final", "gone"}]
  /\ \A p \in Proc : fd[p] = "none" <=> ~Saving(p)
  /\ stopping \in [Proc -> BOOLEAN]
  /\ wanted \in [Service -> BOOLEAN]
  /\ op \in {"none", "stop", "clear", "start"}
  /\ todo \subseteq Service \cup Entry
  /\ with \in BOOLEAN
  /\ cleanups \in 0..MaxCleanups
  /\ given \subseteq Lines
  /\ collided \in BOOLEAN
  /\ faults \in 0..MaxFaults

Custody == stored \cup (UNION spool) \cup given

(* However many processes save and load it, one over another's, and        *)
(* whatever cleanup deletes under them: a checkpoint that a watcher can    *)
(* start from stands past a line only if the line is stored, in the        *)
(* buffer, or was given up (run.go:213-216).                               *)
Covered ==
  \A l \in Lines : (Readable /\ l <= LoadedFrom(final)) => l \in Custody

(* The rename makes a Save atomic against crashes and failed writes, and   *)
(* against the reader, as long as no two processes save at once            *)
(* (checkpoint.go:55).                                                     *)
SaveIsAtomic == collided \/ Readable

(* In the end a service runs and can load the checkpoint.                  *)
Up == \E s \in Service : wanted[s] /\ Readable

(* Every line that is written is stored in the end, unless it was given    *)
(* up: a stale checkpoint saved over a newer one, a Save that another      *)
(* process took the file from, or a cleanup with --with-checkpoint in mid- *)
(* pass cost a repetition and no record.                                   *)
Recovered ==
  <>[]Up => \A l \in Lines : l <= size ~> l \in stored \cup given

=============================================================================
