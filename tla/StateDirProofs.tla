--------------------------- MODULE StateDirProofs ---------------------------
(***************************************************************************)
(* Proofs about StateDir, for any number of services and of watchers run   *)
(* by hand, transcripts of any length and any number of cleanups and       *)
(* faults.                                                                 *)
(*                                                                         *)
(* Covered is about the file a watcher can load. It holds because it holds *)
(* of every place on its way there: in the memory of a watcher, in what    *)
(* its scan will set, and under the temporary name while somebody saves.   *)
(* What a dead process left under that name need not be covered, and is    *)
(* truncated before it can be renamed.                                     *)
(***************************************************************************)
EXTENDS StateDir, TLAPS

(* A checkpoint of these contents stands past no line that is lost.        *)
Durable(c) == c \in Place => \A l \in Lines : l <= c => l \in Custody

AllDurable ==
  /\ Durable(final)
  /\ (\E p \in Proc : Saving(p)) => Durable(tmp)
  /\ \A p \in Proc : /\ pc[p] # "down" => Durable(mem[p])
                     /\ pc[p] = "save" => Durable(pending[p])

(* Until two processes have saved at once, the one that does has the       *)
(* temporary file for itself.                                              *)
Undisturbed ==
  ~collided =>
    /\ Readable
    /\ \A p, q \in Proc : Saving(p) /\ Saving(q) => p = q
    /\ \A p \in Proc :
         Saving(p) => /\ fd[p] = "tmp"
                      /\ tmp = IF pc[p] = "write" THEN Empty ELSE mem[p]

IInv == TypeOK /\ AllDurable /\ Undisturbed

(* The same of a place, after the step.                                    *)
Lasting(c) == c \in Place => \A l \in Lines : l <= c => l \in Custody'

-----------------------------------------------------------------------------
(* TypeOK in parts: the directory, the processes, the commands.            *)
DirOK ==
  /\ size \in Place
  /\ stored \subseteq Lines /\ given \subseteq Lines
  /\ spool \subseteq Entry
  /\ final \in Content /\ tmp \in Content
  /\ collided \in BOOLEAN
  /\ faults \in 0..MaxFaults

ProcsOK ==
  /\ pc \in [Proc -> {"down", "flush", "scan", "send", "save", "write", "rename", "idle"}]
  /\ mem \in [Proc -> Place] /\ pending \in [Proc -> Place]
  /\ names \in [Proc -> SUBSET Entry]
  /\ fd \in [Proc -> {"none", "tmp", "final", "gone"}]
  /\ \A p \in Proc : fd[p] = "none" <=> ~Saving(p)
  /\ stopping \in [Proc -> BOOLEAN]

CommandOK ==
  /\ wanted \in [Service -> BOOLEAN]
  /\ op \in {"none", "stop", "clear", "start"}
  /\ todo \subseteq Service \cup Entry
  /\ with \in BOOLEAN
  /\ cleanups \in 0..MaxCleanups

-----------------------------------------------------------------------------
(* Custody, and what a step has to show of it.                             *)

(* What is in custody before a step that gives up nothing is durable       *)
(* after it.                                                               *)
LEMMA DurableLasts ==
  ASSUME Custody \subseteq Custody'
  PROVE  \A c : Durable(c) => Lasting(c)
  BY DEF Durable, Lasting

(* The lines that an entry takes with it when it leaves the buffer.        *)
LEMMA TakenOut == \A S : UNION spool \subseteq (UNION (spool \ {S})) \cup S
  OBVIOUS

(* Nothing is durable at less than no line.                                *)
LEMMA NothingIsDurable == Lasting(0)
<1>1. \A l \in Lines : ~(l <= 0)
  BY StateDirBounds DEF Lines
<1>. QED BY <1>1 DEF Lasting

(* A step of p has to answer for the files and for what p remembers.       *)
LEMMA DurableByOne ==
  ASSUME NEW p \in Proc, AllDurable, Custody \subseteq Custody',
         Lasting(final'),
         (\E q \in Proc : pc'[q] \in {"write", "rename"}) => Lasting(tmp'),
         \A q \in Proc \ {p} :
           pc'[q] = pc[q] /\ mem'[q] = mem[q] /\ pending'[q] = pending[q],
         pc'[p] # "down" => Lasting(mem'[p]),
         pc'[p] = "save" => Lasting(pending'[p])
  PROVE  AllDurable'
<1>1. \A q \in Proc : /\ pc'[q] # "down" => Lasting(mem'[q])
                      /\ pc'[q] = "save" => Lasting(pending'[q])
  BY DurableLasts DEF AllDurable
<1>. QED BY <1>1 DEF AllDurable, Durable, Lasting, Saving

(* While p is not saving, nobody's hold on the temporary file changes.     *)
LEMMA UndisturbedByOne ==
  ASSUME NEW p \in Proc, Undisturbed, collided' = collided,
         ~collided => Readable',
         tmp' = tmp \/ Saving(p),
         pc'[p] \notin {"write", "rename"},
         \A q \in Proc \ {p} :
           pc'[q] = pc[q] /\ mem'[q] = mem[q] /\ (Saving(p) \/ fd'[q] = fd[q])
  PROVE  Undisturbed'
  BY DEF Undisturbed, Saving

-----------------------------------------------------------------------------
(* The steps of a pass that leave the checkpoint files alone.              *)

(* A place in the transcript, and the batch up to there.                   *)
LEMMA Places ==
  ASSUME TypeOK, NEW p \in Proc
  PROVE  /\ size \in Nat /\ mem[p] \in Nat /\ pending[p] \in Nat
         /\ Batch(p) \in Entry
         /\ \A l \in Lines : l \in Nat /\ l >= 1
         /\ \A l \in Lines : l <= pending[p] => l <= mem[p] \/ l \in Batch(p)
  BY StateDirBounds DEF TypeOK, Place, Lines, Batch, Entry

(* Such a step is of one process, which ends outside Save.                 *)
LEMMA OutsideSave ==
  ASSUME NEW p \in Proc, IInv, UNCHANGED files, collided' = collided,
         Custody \subseteq Custody', pc'[p] \notin {"write", "rename"},
         \A q \in Proc \ {p} : /\ pc'[q] = pc[q] /\ mem'[q] = mem[q]
                               /\ pending'[q] = pending[q] /\ fd'[q] = fd[q],
         pc'[p] # "down" => Lasting(mem'[p]),
         pc'[p] = "save" => Lasting(pending'[p])
  PROVE  AllDurable' /\ Undisturbed'
<1>1. final' = final /\ tmp' = tmp
  BY DEF files
<1>2. AllDurable'
  <2>1. Lasting(final')
    BY <1>1, DurableLasts DEF IInv, AllDurable
  <2>2. (\E q \in Proc : pc'[q] \in {"write", "rename"}) => Lasting(tmp')
    BY <1>1, DurableLasts DEF IInv, AllDurable, Saving
  <2>. QED BY <2>1, <2>2, DurableByOne DEF IInv
<1>3. Undisturbed'
  BY <1>1, UndisturbedByOne DEF IInv, Undisturbed, Readable
<1>. QED BY <1>2, <1>3

(* Start, Tick, Exit.                                                      *)
LEMMA LoopSteps ==
  ASSUME IInv, NEW p \in Proc, Start(p) \/ Tick(p) \/ Exit(p)
  PROVE  IInv'
<1>. TypeOK /\ AllDurable /\ Undisturbed
  BY DEF IInv
<1>1. TypeOK'
  <2>1. Listing \in SUBSET Entry /\ 0 \in Place
    BY StateDirBounds DEF TypeOK, Listing, Place
  <2>2. Readable => LoadedFrom(final) \in Place
    BY <2>1 DEF Readable, LoadedFrom
  <2>3. DirOK' /\ CommandOK'
    BY DEF TypeOK, DirOK, CommandOK, Start, Tick, Exit, files, opVars, history
  <2>4. CASE Start(p)
    BY <2>1, <2>2, <2>3, <2>4 DEF TypeOK, DirOK, CommandOK, Start, Go, Saving
  <2>5. CASE Tick(p)
    BY <2>1, <2>3, <2>5 DEF TypeOK, DirOK, CommandOK, Tick, Go, Saving
  <2>6. CASE Exit(p)
    BY <2>1, <2>3, <2>6 DEF TypeOK, DirOK, CommandOK, Exit, Go, Saving
  <2>. QED BY <2>4, <2>5, <2>6
<1>2. UNCHANGED files /\ collided' = collided /\ Custody \subseteq Custody'
  BY DEF Start, Tick, Exit, history, Custody
<1>3. \A c : Durable(c) => Lasting(c)
  BY <1>2, DurableLasts
<1>4. pc'[p] \in {"flush", "down"} /\ (pc'[p] # "down" => Lasting(mem'[p]))
  <2>1. CASE Start(p)
    <3>1. mem'[p] \in {0, final} /\ pc'[p] = "flush"
      BY <2>1 DEF Start, TypeOK, LoadedFrom
    <3>. QED BY <3>1, <1>3, NothingIsDurable DEF AllDurable
  <2>2. CASE Tick(p)
    BY <2>2, <1>3 DEF Tick, Go, TypeOK, AllDurable
  <2>3. CASE Exit(p)
    BY <2>3 DEF Exit, Go, TypeOK
  <2>. QED BY <2>1, <2>2, <2>3
<1>5. \A q \in Proc \ {p} : /\ pc'[q] = pc[q] /\ mem'[q] = mem[q]
                            /\ pending'[q] = pending[q] /\ fd'[q] = fd[q]
  BY DEF Start, Tick, Exit, Go, TypeOK
<1>. QED BY <1>1, <1>2, <1>4, <1>5, OutsideSave DEF IInv

(* Flush: an entry leaves the buffer only into stored or given.            *)
LEMMA FlushSteps ==
  ASSUME IInv, NEW p \in Proc,
         \/ FlushDone(p)
         \/ \E S \in Entry : \/ FlushGone(p, S) \/ FlushSent(p, S)
                             \/ FlushRefused(p, S) \/ FlushFails(p, S)
  PROVE  IInv'
<1>. TypeOK /\ AllDurable /\ Undisturbed
  BY DEF IInv
<1>1. TypeOK'
  <2>1. CommandOK'
    BY DEF TypeOK, CommandOK, opVars, FlushDone, FlushGone, FlushSent,
           FlushRefused, FlushFails
  <2>2. DirOK'
    BY StateDirBounds
    DEF TypeOK, DirOK, FlushDone, FlushGone, FlushSent, FlushRefused, FlushFails,
        PostFails, Fault, Entry, files, history
  <2>3. ProcsOK'
    <3>1. CASE FlushDone(p)
      BY <3>1 DEF TypeOK, ProcsOK, FlushDone, Go, Saving
    <3>2. ASSUME NEW S \in Entry,
                 FlushGone(p, S) \/ FlushSent(p, S) \/ FlushRefused(p, S)
          PROVE  ProcsOK'
      BY <3>2 DEF TypeOK, ProcsOK, FlushGone, FlushSent, FlushRefused, Flushing,
                  Saving
    <3>3. ASSUME NEW S \in Entry, FlushFails(p, S) PROVE ProcsOK'
      BY <3>3 DEF TypeOK, ProcsOK, FlushFails, Go, Saving
    <3>. QED BY <3>1, <3>2, <3>3
  <2>. QED BY <2>1, <2>2, <2>3 DEF TypeOK, DirOK, ProcsOK, CommandOK
<1>2. Custody \subseteq Custody'
  <2>1. ASSUME NEW S \in Entry, FlushSent(p, S) \/ FlushRefused(p, S)
        PROVE  Custody \subseteq Custody'
    BY <2>1, TakenOut DEF FlushSent, FlushRefused, Custody, history
  <2>2. ASSUME NEW S \in Entry, FlushGone(p, S) \/ FlushFails(p, S)
        PROVE  Custody \subseteq Custody'
    BY <2>2 DEF FlushGone, FlushFails, PostFails, Custody, history
  <2>3. ASSUME FlushDone(p) PROVE Custody \subseteq Custody'
    BY <2>3 DEF FlushDone, Custody, history
  <2>. QED BY <2>1, <2>2, <2>3
<1>3. UNCHANGED files /\ collided' = collided
  BY DEF FlushDone, FlushGone, FlushSent, FlushRefused, FlushFails, history
<1>4. /\ pc[p] = "flush" /\ pc'[p] \in {"flush", "scan"}
      /\ mem' = mem /\ pending' = pending /\ fd' = fd
      /\ \A q \in Proc \ {p} : pc'[q] = pc[q]
  BY DEF FlushDone, FlushGone, FlushSent, FlushRefused, FlushFails, Flushing,
         Go, TypeOK
<1>5. Lasting(mem'[p])
  BY <1>2, <1>4, DurableLasts DEF AllDurable
<1>. QED BY <1>1, <1>2, <1>3, <1>4, <1>5, OutsideSave DEF IInv

(* What Scan finds, and the batch on its way to the server or the buffer.  *)
LEMMA BatchSteps ==
  ASSUME IInv, NEW p \in Proc,
         Scan(p) \/ Sent(p) \/ Spooled(p) \/ NotDurable(p)
  PROVE  IInv'
<1>. TypeOK /\ AllDurable /\ Undisturbed
  BY DEF IInv
<1>. Batch(p) \subseteq Lines /\ Batch(p) \in Entry
  BY Places DEF Entry
<1>1. TypeOK'
  <2>1. CommandOK'
    BY DEF TypeOK, CommandOK, opVars, Scan, Sent, Spooled, NotDurable
  <2>2. DirOK'
    BY StateDirBounds
    DEF TypeOK, DirOK, Scan, Sent, Spooled, NotDurable, PostFails, Fault, files,
        history
  <2>3. ProcsOK'
    <3>1. 0 \in Place
      BY StateDirBounds DEF Place
    <3>2. CASE Scan(p)
      BY <3>2 DEF TypeOK, ProcsOK, Scan, Go, Saving
    <3>3. CASE Sent(p) \/ Spooled(p)
      BY <3>3 DEF TypeOK, ProcsOK, Sent, Spooled, Go, Saving
    <3>4. CASE NotDurable(p)
      BY <3>1, <3>4 DEF TypeOK, ProcsOK, NotDurable, PassOver, Go, Saving
    <3>. QED BY <3>2, <3>3, <3>4
  <2>. QED BY <2>1, <2>2, <2>3 DEF TypeOK, DirOK, ProcsOK, CommandOK
<1>2. Custody \subseteq Custody'
  BY DEF Scan, Sent, Spooled, NotDurable, PostFails, Custody, history
<1>3. UNCHANGED files /\ collided' = collided /\ mem' = mem
  BY DEF Scan, Sent, Spooled, NotDurable, history
<1>4. /\ pc[p] \in {"scan", "send"} /\ pc'[p] \in {"send", "save", "idle"}
      /\ \A q \in Proc \ {p} :
           pc'[q] = pc[q] /\ pending'[q] = pending[q] /\ fd'[q] = fd[q]
  BY DEF Scan, Sent, Spooled, NotDurable, PassOver, Go, TypeOK
<1>5. Lasting(mem'[p])
  BY <1>2, <1>3, <1>4, DurableLasts DEF AllDurable
<1>6. ASSUME pc'[p] = "save" PROVE Lasting(pending'[p])
  <2>1. CASE Scan(p)
    <3>1. pending'[p] = size /\ ~(mem[p] < size)
      BY <1>6, <2>1 DEF Scan, Go, TypeOK
    <3>2. \A l \in Lines : l <= pending'[p] => l <= mem[p]
      BY <3>1, Places
    <3>3. mem[p] \in Place
      BY DEF TypeOK
    <3>. QED BY <1>3, <1>5, <3>2, <3>3 DEF Lasting
  <2>2. CASE Sent(p) \/ Spooled(p)
    <3>1. pending'[p] = pending[p] /\ Batch(p) \subseteq Custody'
      BY <2>2 DEF Sent, Spooled, Custody
    <3>2. mem[p] \in Place
      BY DEF TypeOK
    <3>. QED BY <1>3, <1>5, <3>1, <3>2, Places DEF Lasting
  <2>3. CASE NotDurable(p)
    BY <1>6, <2>3 DEF NotDurable, PassOver, Go, TypeOK
  <2>. QED BY <2>1, <2>2, <2>3
<1>. QED BY <1>1, <1>2, <1>3, <1>4, <1>5, <1>6, OutsideSave DEF IInv

-----------------------------------------------------------------------------
(* Save.                                                                   *)

(* The temporary file is truncated: whatever stood there never becomes the *)
(* checkpoint. If somebody else is saving, that is a collision.            *)
LEMMA OpenStep ==
  ASSUME IInv, NEW p \in Proc, SaveOpen(p)
  PROVE  IInv'
<1>. TypeOK /\ AllDurable /\ Undisturbed
  BY DEF IInv
<1>1. TypeOK'
  <2>1. CommandOK' /\ DirOK'
    BY DEF TypeOK, CommandOK, DirOK, opVars, SaveOpen, Opened, Content
  <2>2. ProcsOK'
    BY DEF TypeOK, ProcsOK, SaveOpen, SetTo, Go, Saving
  <2>. QED BY <2>1, <2>2 DEF TypeOK, DirOK, ProcsOK, CommandOK
<1>2. /\ Custody' = Custody /\ final' = final /\ tmp' = Empty
      /\ pc[p] = "save" /\ pc'[p] = "write" /\ mem'[p] = pending[p] /\ fd'[p] = "tmp"
      /\ \A q \in Proc \ {p} : /\ pc'[q] = pc[q] /\ mem'[q] = mem[q]
                               /\ pending'[q] = pending[q] /\ fd'[q] = fd[q]
  BY DEF SaveOpen, SetTo, Opened, Go, Custody, TypeOK
<1>3. AllDurable'
  <2>1. Lasting(final') /\ Lasting(mem'[p])
    BY <1>2, DurableLasts DEF AllDurable
  <2>2. Lasting(tmp')
    BY <1>2, ContentAssumption, StateDirBounds DEF Lasting, Place
  <2>. QED BY <1>2, <2>1, <2>2, DurableByOne
<1>4. Undisturbed'
  <2>1. CASE \E q \in Proc : Saving(q)
    BY <2>1 DEF SaveOpen, Undisturbed
  <2>2. CASE ~ \E q \in Proc : Saving(q)
    <3>1. ~collided' => Readable'
      BY <1>2 DEF SaveOpen, Undisturbed, Readable
    <3>2. \A q \in Proc : pc'[q] \in {"write", "rename"} => q = p
      BY <1>2, <2>2 DEF Saving
    <3>. QED BY <1>2, <3>1, <3>2 DEF Undisturbed, Saving
  <2>. QED BY <2>1, <2>2
<1>. QED BY <1>1, <1>3, <1>4 DEF IInv

(* Its bytes replace those of the file it has open, or are mixed with the  *)
(* end of another's.                                                       *)
LEMMA WriteStep ==
  ASSUME IInv, NEW p \in Proc, SaveWrite(p)
  PROVE  IInv'
<1>. TypeOK /\ AllDurable /\ Undisturbed
  BY DEF IInv
<1>1. PICK c \in Over(Held(p), p) : PutIn(p, c)
  BY DEF SaveWrite
<1>2. /\ c \in {mem[p], Torn} /\ c \in Content
      /\ Held(p) = Empty => c = mem[p]
  BY DEF Over, TypeOK, Content
<1>3. /\ final' \in {c, final} /\ tmp' \in {c, tmp}
      /\ fd[p] = "tmp" => tmp' = c /\ final' = final
  BY <1>1 DEF PutIn
<1>4. /\ Custody' = Custody /\ collided' = collided
      /\ pc[p] = "write" /\ pc'[p] = "rename"
      /\ mem' = mem /\ pending' = pending /\ fd' = fd
      /\ \A q \in Proc \ {p} : pc'[q] = pc[q]
  BY DEF SaveWrite, Go, Custody, history, TypeOK
<1>5. TypeOK'
  <2>1. CommandOK' /\ DirOK'
    BY <1>2, <1>3 DEF TypeOK, CommandOK, DirOK, opVars, history, SaveWrite
  <2>2. ProcsOK'
    BY DEF TypeOK, ProcsOK, SaveWrite, Go, Saving
  <2>. QED BY <2>1, <2>2 DEF TypeOK, DirOK, ProcsOK, CommandOK
<1>6. AllDurable'
  <2>1. Lasting(mem[p]) /\ Lasting(final) /\ Lasting(tmp)
    BY <1>4, DurableLasts DEF AllDurable, Saving
  <2>2. Lasting(c)
    BY <1>2, <2>1, ContentAssumption, StateDirBounds DEF Lasting, Place
  <2>. QED BY <1>3, <1>4, <2>1, <2>2, DurableByOne
<1>7. Undisturbed'
  <2>1. ASSUME ~collided
        PROVE  /\ fd[p] = "tmp" /\ Held(p) = Empty /\ Readable
               /\ \A q \in Proc : Saving(q) => q = p
    BY <1>4, <2>1 DEF Undisturbed, Saving, Held
  <2>2. ~collided => Readable' /\ tmp' = mem[p]
    BY <1>2, <1>3, <2>1 DEF Readable
  <2>. QED BY <1>4, <2>1, <2>2 DEF Undisturbed, Saving
<1>. QED BY <1>5, <1>6, <1>7 DEF IInv

(* The rename puts a whole checkpoint in place, if nobody else had its     *)
(* file open; any file it puts there is durable.                           *)
LEMMA RenameSteps ==
  ASSUME IInv, NEW p \in Proc, SaveRename(p) \/ RenameFails(p)
  PROVE  IInv'
<1>. TypeOK /\ AllDurable /\ Undisturbed
  BY DEF IInv
<1>. 0 \in Place
  BY StateDirBounds DEF Place
<1>1. /\ Custody' = Custody /\ collided' = collided /\ mem' = mem
      /\ pc[p] = "rename" /\ pc'[p] = "idle"
      /\ \A q \in Proc \ {p} : pc'[q] = pc[q] /\ pending'[q] = pending[q]
  BY DEF SaveRename, RenameFails, PassOver, Go, Custody, history, TypeOK
<1>2. final' \in {final, tmp} /\ tmp' \in {tmp, Absent}
  BY DEF SaveRename, RenameFails, files
<1>3. TypeOK'
  <2>1. CommandOK' /\ DirOK'
    BY <1>2 DEF TypeOK, CommandOK, DirOK, opVars, history, Content, SaveRename,
                RenameFails
  <2>2. ProcsOK'
    <3>1. CASE SaveRename(p)
      <4>1. \A q \in Proc : fd'[q] = IF q = p THEN "none" ELSE
                                     IF fd[q] = "tmp" THEN "final" ELSE
                                     IF fd[q] = "final" THEN "gone" ELSE fd[q]
        BY <3>1 DEF SaveRename, Moved, TypeOK
      <4>2. fd' \in [Proc -> {"none", "tmp", "final", "gone"}]
        <5>1. \A q \in Proc : fd'[q] \in {"none", "tmp", "final", "gone"}
          BY <4>1 DEF TypeOK
        <5>2. fd' = [q \in Proc |-> fd'[q]]
          BY <3>1 DEF SaveRename
        <5>. QED BY <5>1, <5>2
      <4>3. \A q \in Proc : fd'[q] = "none" <=> ~(pc'[q] \in {"write", "rename"})
        BY <1>1, <4>1 DEF TypeOK, Saving
      <4>. QED
        BY <3>1, <4>2, <4>3 DEF TypeOK, ProcsOK, SaveRename, Go, Saving
    <3>2. CASE RenameFails(p)
      BY <3>2 DEF TypeOK, ProcsOK, RenameFails, PassOver, Go, Saving
    <3>. QED BY <3>1, <3>2
  <2>. QED BY <2>1, <2>2 DEF TypeOK, DirOK, ProcsOK, CommandOK
<1>4. AllDurable'
  <2>1. Lasting(mem[p]) /\ Lasting(final) /\ Lasting(tmp)
    BY <1>1, DurableLasts DEF AllDurable, Saving
  <2>2. Lasting(Absent)
    BY ContentAssumption, StateDirBounds DEF Lasting, Place
  <2>. QED BY <1>1, <1>2, <2>1, <2>2, DurableByOne
<1>5. Undisturbed'
  <2>1. ~collided => Readable /\ tmp = mem[p]
    BY <1>1 DEF Undisturbed, Saving
  <2>2. ~collided => Readable'
    BY <1>2, <2>1 DEF Readable, TypeOK
  <2>. QED BY <1>1, <2>2, UndisturbedByOne DEF Saving
<1>. QED BY <1>3, <1>4, <1>5 DEF IInv

(* A failure or a crash may leave a torn file, under the temporary name    *)
(* unless two were saving.                                                 *)
LEMMA InterruptedStep ==
  ASSUME TypeOK, AllDurable, Undisturbed, NEW p \in Proc, NEW place, Interrupted(p, place)
  PROVE  /\ final' \in {final, Torn} /\ tmp' \in {tmp, Torn}
         /\ final' \in Content /\ tmp' \in Content
         /\ ~collided => final' = final
         /\ tmp' = tmp \/ Saving(p)
<1>1. CASE pc[p] = "write"
  <2>1. PICK c \in {Held(p), Torn} : PutIn(p, c)
    BY <1>1 DEF Interrupted
  <2>2. ~collided => fd[p] = "tmp"
    BY <1>1 DEF Undisturbed, Saving
  <2>. QED BY <1>1, <2>1, <2>2 DEF PutIn, Held, Saving, TypeOK, Content
<1>2. CASE pc[p] # "write"
  BY <1>2 DEF Interrupted, files, TypeOK
<1>. QED BY <1>1, <1>2

(* A save that fails and a process that ends may leave a torn file behind: *)
(* the temporary one, and the checkpoint only after saves have collided.   *)
LEMMA FailureSteps ==
  ASSUME IInv, NEW p \in Proc, SaveFails(p) \/ Crash(p)
  PROVE  IInv'
<1>. TypeOK /\ AllDurable /\ Undisturbed
  BY DEF IInv
<1>. 0 \in Place
  BY StateDirBounds DEF Place
<1>1. /\ final' \in {final, Torn} /\ tmp' \in {tmp, Torn}
      /\ final' \in Content /\ tmp' \in Content
      /\ ~collided => final' = final
      /\ tmp' = tmp \/ Saving(p)
  BY InterruptedStep DEF SaveFails, Crash
<1>2. /\ Custody' = Custody /\ collided' = collided
      /\ pc'[p] \in {"idle", "down"}
      /\ \A q \in Proc \ {p} : /\ pc'[q] = pc[q] /\ mem'[q] = mem[q]
                               /\ pending'[q] = pending[q] /\ fd'[q] = fd[q]
  BY DEF SaveFails, Crash, Interrupted, PassOver, Go, SetTo, Custody, history, TypeOK
<1>3. TypeOK'
  <2>1. CommandOK' /\ DirOK'
    BY <1>1, StateDirBounds
    DEF TypeOK, CommandOK, DirOK, opVars, history, Fault, SaveFails, Crash
  <2>2. ProcsOK'
    <3>1. CASE SaveFails(p)
      BY <3>1 DEF TypeOK, ProcsOK, SaveFails, SetTo, Interrupted, PassOver, Go, Saving
    <3>2. CASE Crash(p)
      BY <3>2 DEF TypeOK, ProcsOK, Crash, Interrupted, PassOver, Go, Saving
    <3>. QED BY <3>1, <3>2
  <2>. QED BY <2>1, <2>2 DEF TypeOK, DirOK, ProcsOK, CommandOK
<1>4. AllDurable'
  <2>1. \A c : Durable(c) => Lasting(c)
    BY <1>2, DurableLasts
  <2>2. Lasting(Torn)
    BY ContentAssumption, StateDirBounds DEF Lasting, Place
  <2>3. Lasting(final')
    BY <1>1, <2>1, <2>2 DEF AllDurable
  <2>4. (\E q \in Proc : pc'[q] \in {"write", "rename"}) => Lasting(tmp')
    BY <1>1, <1>2, <2>1, <2>2 DEF AllDurable, Saving
  <2>5. pc'[p] # "down" => Lasting(mem'[p])
    BY <1>2, <2>1 DEF SaveFails, Crash, SetTo, Interrupted, PassOver, Go, TypeOK,
                      AllDurable
  <2>. QED BY <1>2, <2>3, <2>4, <2>5, DurableByOne
<1>5. Undisturbed'
  <2>1. ~collided => Readable'
    BY <1>1 DEF Undisturbed, Readable
  <2>. QED BY <1>1, <1>2, <2>1, UndisturbedByOne
<1>. QED BY <1>3, <1>4, <1>5 DEF IInv

-----------------------------------------------------------------------------
(* The tool and the operator.                                              *)

(* A step of nobody's pass that gives up nothing.                          *)
LEMMA NoPassStep ==
  ASSUME IInv, UNCHANGED <<files, pc, mem, pending, fd, collided>>,
         Custody \subseteq Custody'
  PROVE  AllDurable' /\ Undisturbed'
<1>1. \A c : Durable(c) => Lasting(c)
  BY DurableLasts
<1>2. AllDurable'
  BY <1>1 DEF IInv, AllDurable, Durable, Lasting, Saving, files
<1>3. Undisturbed'
  BY DEF IInv, Undisturbed, Saving, Readable, files
<1>. QED BY <1>2, <1>3

(* Lines are appended, services stopped and started, cleanup goes on.      *)
LEMMA QuietSteps ==
  ASSUME IInv,
         \/ Write \/ CleanupDies \/ CleanupDone \/ List \/ ListFails \/ CheckpointStays
         \/ \E S \in Entry : EntryStays(S)
         \/ \E w \in BOOLEAN : Cleanup(w)
         \/ \E s \in Service : \/ Stop(s) \/ StartService(s) \/ StopFails(s)
                               \/ CleanupStop(s) \/ Stopped(s) \/ CleanupStart(s)
  PROVE  IInv'
<1>. TypeOK
  BY DEF IInv
<1>1. /\ UNCHANGED <<files, pc, mem, pending, names, fd, history, stored, spool>>
      /\ Custody' = Custody
  BY DEF Write, CleanupDies, CleanupDone, List, ListFails, EntryStays,
         CheckpointStays, Cleanup, Stop, StartService,
         StopFails, CleanupStop, Stopped, CleanupStart, procVars, history, Custody
<1>2. DirOK'
  <2>1. size' \in Place
    BY StateDirBounds
    DEF Write, CleanupDies, CleanupDone, List, ListFails, EntryStays,
         CheckpointStays, Cleanup, Stop, StartService,
        StopFails, CleanupStop, Stopped, CleanupStart, TypeOK, Place
  <2>2. faults' \in 0..MaxFaults
    BY StateDirBounds
    DEF Write, CleanupDies, CleanupDone, List, ListFails, EntryStays,
         CheckpointStays, Cleanup, Stop, StartService,
        StopFails, CleanupStop, Stopped, CleanupStart, Fault, TypeOK
  <2>. QED BY <1>1, <2>1, <2>2 DEF DirOK, TypeOK, history, files
<1>3. stopping' \in [Proc -> BOOLEAN]
  BY DEF Write, CleanupDies, CleanupDone, List, ListFails, EntryStays,
         CheckpointStays, Cleanup, Stop, StartService,
         StopFails, CleanupStop, Stopped, CleanupStart, CancelOne, procVars, TypeOK,
         Proc
<1>4. ProcsOK'
  BY <1>1, <1>3 DEF ProcsOK, TypeOK, Saving
<1>5. CommandOK'
  <2>1. wanted' \in [Service -> BOOLEAN]
    BY DEF Write, CleanupDies, CleanupDone, List, ListFails, EntryStays,
         CheckpointStays, Cleanup, Stop, StartService,
           StopFails, CleanupStop, Stopped, CleanupStart, CancelOne, opVars, TypeOK
  <2>2. todo' \subseteq Service \cup Entry
    BY DEF Write, CleanupDies, CleanupDone, List, ListFails, EntryStays,
         CheckpointStays, Cleanup, Stop, StartService,
           StopFails, CleanupStop, Stopped, CleanupStart, opVars, TypeOK
  <2>3. /\ op' \in {"none", "stop", "clear", "start"} /\ with' \in BOOLEAN
        /\ cleanups' \in 0..MaxCleanups
    BY StateDirBounds
    DEF Write, CleanupDies, CleanupDone, List, ListFails, EntryStays,
         CheckpointStays, Cleanup, Stop, StartService,
        StopFails, CleanupStop, Stopped, CleanupStart, opVars, TypeOK
  <2>. QED BY <2>1, <2>2, <2>3 DEF CommandOK
<1>6. TypeOK'
  BY <1>2, <1>4, <1>5 DEF TypeOK, DirOK, ProcsOK, CommandOK
<1>. QED BY <1>1, <1>6, NoPassStep DEF IInv, history

(* What cleanup deletes is given up, and so in nobody's way.               *)
LEMMA DeleteStep ==
  ASSUME IInv, NEW S \in Entry, DeleteEntry(S)
  PROVE  IInv'
<1>. TypeOK
  BY DEF IInv
<1>1. TypeOK'
  <2>1. DirOK'
    BY DEF DeleteEntry, TypeOK, DirOK, Entry, files
  <2>2. ProcsOK'
    BY DEF DeleteEntry, TypeOK, ProcsOK, procVars, Saving
  <2>3. CommandOK'
    BY DEF DeleteEntry, TypeOK, CommandOK
  <2>. QED BY <2>1, <2>2, <2>3 DEF TypeOK, DirOK, ProcsOK, CommandOK
<1>2. Custody \subseteq Custody'
  BY TakenOut DEF DeleteEntry, Custody
<1>. QED BY <1>1, <1>2, NoPassStep DEF IInv, DeleteEntry, procVars

(* Without a checkpoint a watcher starts from the beginning. While one     *)
(* runs, what it has in memory keeps the lines given up.                   *)
LEMMA ClearedStep ==
  ASSUME IInv, Cleared
  PROVE  IInv'
<1>. TypeOK /\ AllDurable /\ Undisturbed
  BY DEF IInv
<1>1. /\ UNCHANGED <<size, stored, spool, tmp, pc, mem, pending, names, stopping,
                     wanted, with, cleanups, collided, faults>>
      /\ op' = "start" /\ todo' = Service
  BY DEF Cleared
<1>2. CASE ~with
  <2>1. UNCHANGED <<final, fd, given>>
    BY <1>2 DEF Cleared
  <2>2. TypeOK'
    BY <1>1, <2>1 DEF TypeOK, Saving
  <2>3. Custody \subseteq Custody'
    BY <1>1, <2>1 DEF Custody
  <2>. QED BY <1>1, <2>1, <2>2, <2>3, NoPassStep DEF IInv, files
<1>3. CASE with
  <2>1. RemoveCheckpoint
    BY <1>3 DEF Cleared
  <2>2. TypeOK'
    <3>1. DirOK' /\ CommandOK'
      BY <1>1, <2>1 DEF RemoveCheckpoint, TypeOK, DirOK, CommandOK, Content
    <3>2. ProcsOK'
      BY <1>1, <2>1 DEF RemoveCheckpoint, TypeOK, ProcsOK, Saving
    <3>. QED BY <3>1, <3>2 DEF TypeOK, DirOK, ProcsOK, CommandOK
  <2>3. AllDurable'
    <3>1. Lasting(Absent)
      BY ContentAssumption, StateDirBounds DEF Lasting, Place
    <3>2. CASE AllDown
      BY <1>1, <2>1, <3>1, <3>2
      DEF AllDown, RemoveCheckpoint, AllDurable, Durable, Lasting, Saving
    <3>3. CASE ~AllDown
      <4>1. \A c : Durable(c) => Lasting(c)
        BY <1>1, <2>1, <3>3, DurableLasts DEF RemoveCheckpoint, Custody
      <4>. QED BY <1>1, <2>1, <3>1, <4>1
           DEF RemoveCheckpoint, AllDurable, Durable, Lasting, Saving
    <3>. QED BY <3>2, <3>3
  <2>4. Undisturbed'
    BY <1>1, <2>1 DEF RemoveCheckpoint, Undisturbed, Saving, Readable, TypeOK
  <2>. QED BY <2>2, <2>3, <2>4 DEF IInv
<1>. QED BY <1>2, <1>3

-----------------------------------------------------------------------------
(* No files, and no process up.                                            *)
LEMMA InitInvariant == Init => IInv
<1>. SUFFICES ASSUME Init PROVE IInv
  OBVIOUS
<1>1. TypeOK
  <2>. 0 \in Place /\ 0 \in 0..MaxFaults /\ 0 \in 0..MaxCleanups
    BY StateDirBounds DEF Place
  <2>. collided \in BOOLEAN /\ with \in BOOLEAN
    BY Zenon DEF Init
  <2>1. DirOK
    BY DEF Init, DirOK, Content
  <2>2. ProcsOK
    BY DEF Init, ProcsOK, Saving
  <2>3. CommandOK
    BY DEF Init, CommandOK
  <2>. QED BY <2>1, <2>2, <2>3 DEF TypeOK, DirOK, ProcsOK, CommandOK
<1>2. AllDurable
  <2>1. \A l \in Lines : ~(l <= 0)
    BY StateDirBounds DEF Lines
  <2>. QED
    BY <2>1, ContentAssumption, StateDirBounds DEF Init, AllDurable, Durable,
       Saving, Place
<1>3. Undisturbed
  BY DEF Init, Undisturbed, Readable, Saving
<1>. QED BY <1>1, <1>2, <1>3 DEF IInv

(* Each step keeps the invariant.                                          *)
LEMMA StepInvariant == IInv /\ [Next]_vars => IInv'
<1>. SUFFICES ASSUME IInv, [Next]_vars PROVE IInv'
  OBVIOUS
<1>1. CASE UNCHANGED vars
  <2>1. TypeOK'
    BY <1>1 DEF IInv, vars, TypeOK, files, procVars, opVars, history, Saving
  <2>2. Custody \subseteq Custody'
    BY <1>1 DEF vars, Custody, history
  <2>. QED BY <1>1, <2>1, <2>2, NoPassStep DEF IInv, vars, procVars, history
<1>2. ASSUME NEW p \in Proc, Pass(p) \/ Fails(p) PROVE IInv'
  BY <1>2, FlushSteps, BatchSteps, OpenStep, WriteStep, RenameSteps, FailureSteps
  DEF Pass, Fails
<1>3. ASSUME NEW p \in Proc, Start(p) \/ Tick(p) \/ Exit(p) PROVE IInv'
  BY <1>3, LoopSteps
<1>4. CASE Command
  BY <1>4, QuietSteps, DeleteStep, ClearedStep DEF Command
<1>5. ASSUME NEW s \in Service, Stop(s) \/ StartService(s) \/ StopFails(s)
      PROVE  IInv'
  BY <1>5, QuietSteps
<1>6. CASE Write \/ CleanupDies \/ \E w \in BOOLEAN : Cleanup(w)
  BY <1>6, QuietSteps
<1>7. CASE ListFails \/ (\E S \in Entry : EntryStays(S)) \/ CheckpointStays
  BY <1>7, QuietSteps
<1>. QED BY <1>1, <1>2, <1>3, <1>4, <1>5, <1>6, <1>7 DEF Next

(* The invariant holds in every reachable state.                           *)
LEMMA InvariantHolds == Spec => []IInv
  BY InitInvariant, StepInvariant, PTL DEF Spec

-----------------------------------------------------------------------------
(* Every variable keeps its type, and a process has a file open exactly    *)
(* while it is between the open and the rename of Checkpoint.Save          *)
(* (checkpoint.go:55-71).                                                  *)
THEOREM StateDirTypeCorrect == Spec => []TypeOK
<1>1. IInv => TypeOK
  BY DEF IInv
<1>. QED BY <1>1, InvariantHolds, PTL

(* However many watchers save and load it, at any speed, and whatever      *)
(* cleanup deletes under them: a checkpoint that a watcher can start from  *)
(* stands past no line that is not stored, in the buffer, or given up      *)
(* (run.go:213-216, checkpoint.go:24-71, cleanup.go).                      *)
THEOREM CheckpointIsCovered == Spec => []Covered
<1>1. IInv => Covered
  <2>. SUFFICES ASSUME IInv, Readable, NEW l \in Lines, l <= LoadedFrom(final)
                PROVE  l \in Custody
    BY DEF Covered
  <2>1. l \in Nat /\ l > 0 /\ 0 \notin {Absent}
    BY StateDirBounds, ContentAssumption DEF Lines
  <2>2. final \in Place /\ LoadedFrom(final) = final
    BY <2>1 DEF Readable, LoadedFrom
  <2>. QED BY <2>2 DEF IInv, AllDurable, Durable
<1>. QED BY <1>1, InvariantHolds, PTL

(* A crash or a full disk in the middle of Save never leaves a checkpoint  *)
(* that cannot be read, unless two processes were in Save at once          *)
(* (checkpoint.go:55).                                                     *)
THEOREM SaveAloneIsAtomic == Spec => []SaveIsAtomic
<1>1. IInv => SaveIsAtomic
  BY DEF IInv, Undisturbed, SaveIsAtomic
<1>. QED BY <1>1, InvariantHolds, PTL

=============================================================================
