-------------------------------- MODULE Tail --------------------------------
(***************************************************************************)
(* How one transcript is read, pass after pass, while the tool that owns   *)
(* it appends to it, replaces it or truncates it. There are two kinds of   *)
(* parser:                                                                 *)
(*   - Tailing (claude-code, pi): the state is (inode, offset), and a scan *)
(*     reads the complete lines from the offset to the end;                *)
(*   - re-reading (codex, deepseek-harness): the state is (inode, size),   *)
(*     and a scan reads everything when either has changed.                *)
(*                                                                         *)
(* A scan is a stat, an open and reads, with the tool at work in between.  *)
(* A line is two bytes long, the second is its newline. Lines are told     *)
(* apart by the text they belong to: whatever replaces or truncates the    *)
(* transcript starts a new text.                                           *)
(*                                                                         *)
(* pc: "idle" between passes, "open", "read", and "done" from the return   *)
(* of the parser to the end of the pass.                                   *)
(***************************************************************************)
EXTENDS Naturals

CONSTANTS
  HasInodes,       \* inodeOf: unix builds have stable inodes, others 0
  MaxLines,        \* bound on the lines of a text
  MaxReplacements, \* bound on how often another file takes the name
  MaxTruncations,  \* bound on truncations in place
  MaxFaults        \* bound on unreadable files and passes that fail

ASSUME InodeAssumption == HasInodes \in BOOLEAN
ASSUME TailBounds ==
  /\ MaxLines \in Nat
  /\ MaxReplacements \in Nat
  /\ MaxTruncations \in Nat
  /\ MaxFaults \in Nat

Inode == 1..(MaxReplacements + 1)
Text  == 1..(MaxReplacements + MaxTruncations + 1)
Size  == 0..(2 * MaxLines)
Line  == Text \X (1..MaxLines)

VARIABLES
  tailing,  \* which kind of parser reads this transcript
  files,    \* what each inode holds
  path,     \* the inode the transcript's name leads to
  text,     \* the text in it
  state,    \* FileState in the checkpoint
  pc,       \* where the scan is
  stat,     \* inode and size as of os.Stat
  fd,       \* the inode that os.Open opened
  cur,      \* bytes read
  got,      \* lines read by this scan
  emitted,  \* history: lines that became durable
  faults    \* how many things have gone wrong so far

fileVars == <<tailing, files, path, text>>
scanVars == <<stat, fd, cur, got>>
vars     == <<fileVars, scanVars, state, pc, emitted, faults>>

NoState == [inode |-> 0, offset |-> 0]

Init ==
  /\ tailing \in BOOLEAN
  /\ files = [i \in Inode |-> [text |-> 1, size |-> 0]]
  /\ path = 1
  /\ text = 1
  /\ state = NoState
  /\ pc = "idle"
  /\ stat = NoState
  /\ fd = 1
  /\ cur = 0
  /\ got = {}
  /\ emitted = {}
  /\ faults = 0

Fault == faults < MaxFaults /\ faults' = faults + 1

InodeOf(i) == IF HasInodes THEN i ELSE 0

(* The complete lines among the first n bytes of text t.                   *)
Lines(t, n) == {l \in Line : l[1] = t /\ 2 * l[2] <= n}

-----------------------------------------------------------------------------
(* Variants of the definitions below, each with a plausible slip.          *)
StartIgnoringInode(prev, i, n) == IF n < prev.offset THEN 0 ELSE prev.offset
StartIgnoringSize(prev, i, n)  == IF prev.inode # i THEN 0 ELSE prev.offset
FromTheBeginning(prev, i, n)   == 0
OneByteTooFar    == [inode |-> stat.inode, offset |-> cur + 1]
SizeAfterReading == [inode |-> stat.inode, offset |-> files[fd].size]
-----------------------------------------------------------------------------
(* The tool.                                                               *)

Append ==
  /\ files[path].size < 2 * MaxLines
  /\ files' = [files EXCEPT ![path].size = @ + 1]
  /\ UNCHANGED <<tailing, path, text, scanVars, state, pc, emitted, faults>>

(* Another file takes the name, with lines in it already. A process that   *)
(* has the old one open goes on reading it.                                *)
Replace ==
  /\ path <= MaxReplacements
  /\ path' = path + 1
  /\ text' = text + 1
  /\ \E k \in 0..MaxLines :
       files' = [files EXCEPT ![path + 1] = [text |-> text + 1, size |-> 2 * k]]
  /\ UNCHANGED <<tailing, scanVars, state, pc, emitted, faults>>

(* Truncation in place, and a new file under the inode of a deleted one.   *)
Truncate ==
  /\ text - path < MaxTruncations
  /\ text' = text + 1
  /\ files' = [files EXCEPT ![path] = [text |-> text + 1, size |-> 0]]
  /\ UNCHANGED <<tailing, path, scanVars, state, pc, emitted, faults>>

-----------------------------------------------------------------------------
(* Parser.Scan.                                                            *)

(* Where a tailing parser starts in a file of inode i and size n.          *)
Start(prev, i, n) ==
  IF \/ prev.inode # 0 /\ i # 0 /\ prev.inode # i   \* rotated / replaced
     \/ n < prev.offset                             \* truncated
    THEN 0
    ELSE prev.offset

(* Nothing to read in a file of inode i and size n.                        *)
NothingNew(i, n) ==
  IF tailing THEN n = Start(state, i, n)
             ELSE state.inode = i /\ state.offset = n

Stat ==
  /\ pc = "idle"
  /\ stat' = [inode |-> InodeOf(path), offset |-> files[path].size]
  /\ pc' = IF NothingNew(stat'.inode, stat'.offset) THEN "done" ELSE "open"
  /\ cur' = stat'.offset
  /\ UNCHANGED <<fileVars, fd, got, state, emitted, faults>>

Open ==
  /\ pc = "open"
  /\ fd' = path
  /\ cur' = IF tailing THEN Start(state, stat.inode, stat.offset) ELSE 0
  /\ pc' = "read"
  /\ UNCHANGED <<fileVars, stat, got, state, emitted, faults>>

LineEnd == cur + 2

ReadLine ==
  /\ pc = "read"
  /\ LineEnd <= files[fd].size
  /\ cur' = LineEnd
  /\ got' = got \cup {<<files[fd].text, LineEnd \div 2>>}
  /\ UNCHANGED <<fileVars, stat, fd, state, pc, emitted, faults>>

(* A partial line at the end stays for the next scan.                      *)
ReadEnd ==
  /\ pc = "read"
  /\ LineEnd > files[fd].size
  /\ pc' = "done"
  /\ UNCHANGED <<fileVars, scanVars, state, emitted, faults>>

(* The FileState that the scan returns.                                    *)
NextState ==
  IF tailing THEN [inode |-> stat.inode, offset |-> cur] ELSE stat

ScanOver ==
  /\ pc' = "idle"
  /\ stat' = NoState
  /\ fd' = 1
  /\ cur' = 0
  /\ got' = {}

(* The file cannot be opened or read, or the process dies: nothing of the  *)
(* scan is used. A compressed log that ends in mid-frame cannot be read    *)
(* either, without anything being wrong.                                   *)
ScanFails ==
  /\ pc \in {"open", "read"}
  /\ \/ Fault
     \/ /\ ~tailing /\ pc = "read" /\ files[fd].size % 2 = 1
        /\ UNCHANGED faults
  /\ ScanOver
  /\ UNCHANGED <<fileVars, state, emitted>>

(* The pass succeeds: Checkpoint.Set.                                      *)
Durable ==
  /\ pc = "done"
  /\ emitted' = emitted \cup got
  /\ state' = NextState
  /\ ScanOver
  /\ UNCHANGED <<fileVars, faults>>

(* The pass fails after some of the lines became durable.                  *)
NotDurable ==
  /\ pc = "done"
  /\ Fault
  /\ \E G \in SUBSET got : emitted' = emitted \cup G
  /\ ScanOver
  /\ UNCHANGED <<fileVars, state>>

Tool == Append \/ Replace \/ Truncate
Step == Stat \/ Open \/ ReadLine \/ ReadEnd \/ Durable

Next == Tool \/ Step \/ ScanFails \/ NotDurable

(* The passes go on.                                                       *)
Spec     == Init /\ [][Next]_vars
FairSpec == Spec /\ WF_vars(Step)

-----------------------------------------------------------------------------
TypeOK ==
  /\ tailing \in BOOLEAN
  /\ files \in [Inode -> [text : Text, size : Size]]
  /\ path \in Inode
  /\ text \in Text
  /\ state \in [inode : Inode \cup {0}, offset : Size]
  /\ pc \in {"idle", "open", "read", "done"}
  /\ stat \in [inode : Inode \cup {0}, offset : Size]
  /\ fd \in Inode
  /\ cur \in Size
  /\ got \subseteq Line
  /\ emitted \subseteq Line
  /\ faults \in 0..MaxFaults

(* The lines that a scan which began now would not read.                   *)
Skipped ==
  LET i == InodeOf(path)
      n == files[path].size
  IN IF tailing
       THEN Lines(files[path].text, Start(state, i, n))
       ELSE IF NothingNew(i, n) THEN Lines(files[path].text, n) ELSE {}

(* No truncation, and no inode used again.                                *)
NeverTruncated == text = path

(* Whatever the tool does between the stat, the open and the reads of a    *)
(* scan, except truncate, a line is passed over only when it is durable    *)
(* (claudecode.go:32-40, 69).                                              *)
NothingSkipped == NeverTruncated => Skipped \subseteq emitted

(* A tailing parser ships "only the new tail" (README.md:123): as long as  *)
(* no pass fails and the file is not replaced, no line is read twice.      *)
OnlyNewTail == tailing /\ faults = 0 /\ text = 1 => got \cap emitted = {}

(* Every line of the transcript becomes durable once the tool is done. A   *)
(* re-reading parser may have to wait for the end of the last one: a       *)
(* compressed log that is cut off is not read at all                       *)
(* (deepseekharness.go:203-205).                                           *)
EverythingRead ==
  \A l \in Line :
    (NeverTruncated /\ l \in Lines(files[path].text, files[path].size))
      ~> (\/ l \in emitted
          \/ l[1] # files[path].text
          \/ ~tailing /\ files[path].size % 2 = 1)

(* A scan that finds the transcript shorter than the checkpoint reads it   *)
(* from the beginning, whatever is appended meanwhile, unless something    *)
(* goes wrong (claudecode.go:38-40).                                       *)
FoundShorter ==
  tailing /\ pc = "open" /\ stat.offset < state.offset /\ faults = MaxFaults

ShrunkIsRead ==
  \A l \in Line :
    (FoundShorter /\ l \in Lines(files[path].text, files[path].size))
      ~> (l \in emitted \/ l[1] # files[path].text)

=============================================================================
