----------------------------- MODULE TailProofs -----------------------------
(***************************************************************************)
(* Proofs about Tail, for transcripts of any length and any number of      *)
(* replacements, truncations and faults, and both kinds of parser.         *)
(*                                                                         *)
(* NothingSkipped is not inductive: the checkpoint of a scan is made of    *)
(* what its stat, its open and its reads have seen, one after the other.   *)
(* The strengthening says what they mean for the transcript as it is now,  *)
(* if it is still the one of the stat (ScanSound).                         *)
(***************************************************************************)
EXTENDS Tail, TLAPS

(* A FileState tells which transcript it is of: never truncated, and with  *)
(* an inode of its own unless it was never replaced.                       *)
Identified == NeverTruncated /\ (HasInodes \/ path = 1)

Bounds ==
  /\ path <= text /\ text <= path + MaxTruncations
  /\ fd <= path
  /\ IF HasInodes
       THEN /\ state.inode <= path /\ stat.inode <= path
            /\ state.inode = 0 => state.offset = 0
            /\ pc # "idle" => stat.inode # 0
       ELSE state.inode = 0 /\ stat.inode = 0
  /\ pc \in {"idle", "open"} => got = {}

(* The transcript has n bytes, and the lines up to there are in S.         *)
Passed(n, S) == n <= files[path].size /\ Lines(path, n) \subseteq S

StateSound == state.inode = InodeOf(path) => Passed(state.offset, emitted)

ScanSound ==
  (pc # "idle" /\ stat.inode = InodeOf(path)) =>
    /\ stat.offset <= files[path].size
    /\ pc = "read" => /\ fd = path
                      /\ Passed(cur, got \cup emitted)
                      /\ ~tailing => cur % 2 = 0
    /\ pc = "done" => Passed(NextState.offset, got \cup emitted)

(* Before the first fault and replacement a tailing parser is always       *)
(* beyond what was emitted.                                                *)
OnlyAhead ==
  (tailing /\ faults = 0 /\ text = 1) =>
    /\ state.offset <= files[path].size
    /\ \A l \in emitted : 2 * l[2] <= state.offset
    /\ pc = "open" => state.offset <= stat.offset
    /\ pc \in {"read", "done"} =>
         /\ state.offset <= cur /\ cur <= files[path].size
         /\ \A l \in got : state.offset < 2 * l[2] /\ 2 * l[2] <= cur

IInv ==
  /\ TypeOK
  /\ Bounds
  /\ Identified => files[path].text = path /\ StateSound /\ ScanSound
  /\ OnlyAhead

-----------------------------------------------------------------------------
(* Lines and places in files.                                              *)

(* A file that is longer by a line has at most that line more.             *)
LEMMA LineAtEnd ==
  ASSUME NEW t, NEW n \in Nat
  PROVE  Lines(t, n + 2) \subseteq Lines(t, n) \cup {<<t, (n + 2) \div 2>>}
<1>1. ASSUME NEW l \in Line, l[1] = t, 2 * l[2] <= n + 2, 2 * l[2] > n
      PROVE  l = <<t, (n + 2) \div 2>>
  <2>1. l[2] \in Nat
    BY TailBounds DEF Line
  <2>2. l[2] = (n + 2) \div 2
    BY <1>1, <2>1
  <2>. QED BY <1>1, <2>2 DEF Line
<1>2. \A l \in Line : l[2] \in Nat
  BY TailBounds DEF Line
<1>. QED BY <1>1, <1>2 DEF Lines

(* The number of that line.                                                *)
LEMMA LineNumber ==
  ASSUME NEW n \in Nat, n + 2 <= 2 * MaxLines
  PROVE  /\ (n + 2) \div 2 \in 1..MaxLines
         /\ n < 2 * ((n + 2) \div 2) /\ 2 * ((n + 2) \div 2) <= n + 2
  BY TailBounds

(* A file whose end is within the next line has no line beyond that one.   *)
LEMMA EvenEnd ==
  ASSUME NEW t, NEW n \in Nat, NEW m \in Nat, n % 2 = 0, m < n + 2
  PROVE  Lines(t, m) \subseteq Lines(t, n)
<1>1. \A l \in Line : l[2] \in Nat
  BY TailBounds DEF Line
<1>2. ASSUME NEW k \in Nat, 2 * k <= m PROVE 2 * k <= n
  BY <1>2
<1>. QED BY <1>1, <1>2 DEF Lines

(* An empty file has no lines.                                             *)
LEMMA NoLines == \A t : Lines(t, 0) = {}
  BY TailBounds DEF Lines, Line

(* What is a number.                                                       *)
LEMMA Sizes ==
  ASSUME TypeOK
  PROVE  /\ path \in Nat /\ text \in Nat /\ fd \in Nat /\ cur \in Nat
         /\ state.inode \in Nat /\ state.offset \in Nat
         /\ stat.inode \in Nat /\ stat.offset \in Nat
         /\ MaxReplacements \in Nat /\ MaxTruncations \in Nat /\ MaxLines \in Nat
         /\ \A i \in Inode : files[i].size \in Nat /\ files[i].text \in Nat
  BY TailBounds DEF TypeOK, Inode, Text, Size

(* A scan begins at the beginning of the file or at the saved offset, and  *)
(* never beyond the end the stat has found.                                *)
LEMMA StartRange ==
  ASSUME TypeOK, NEW i, NEW n \in Nat
  PROVE  /\ Start(state, i, n) \in {0, state.offset}
         /\ Start(state, i, n) <= n /\ Start(state, i, n) \in Size
  BY Sizes, TailBounds DEF Start, TypeOK, Size

(* What a tailing parser passes over in the transcript is durable.         *)
LEMMA StartPassed ==
  ASSUME TypeOK, Bounds, Identified, StateSound, NEW n \in Nat, n <= files[path].size
  PROVE  Passed(Start(state, InodeOf(path), n), emitted)
<1>1. CASE Start(state, InodeOf(path), n) = 0
  BY <1>1, NoLines, Sizes DEF Passed, TypeOK
<1>2. CASE Start(state, InodeOf(path), n) = state.offset /\ state.offset # 0
  <2>1. state.inode = InodeOf(path)
    BY <1>2, Sizes DEF Start, Bounds, InodeOf, TypeOK, Inode
  <2>. QED BY <1>2, <2>1 DEF StateSound
<1>. QED BY <1>1, <1>2, StartRange

-----------------------------------------------------------------------------
(* The tool.                                                               *)

(* Only its own file grows, or another takes the name.                     *)
LEMMA ToolSteps ==
  ASSUME IInv, Tool
  PROVE  IInv'
<1>. TypeOK /\ Bounds /\ OnlyAhead
  BY DEF IInv
<1>1. CASE Append
  <2>1. /\ UNCHANGED <<tailing, path, text, scanVars, state, pc, emitted, faults>>
        /\ files[path].size + 1 \in Size
        /\ files' = [files EXCEPT ![path] = [files[path] EXCEPT !.size = @ + 1]]
    BY <1>1, Sizes DEF Append, TypeOK, Size
  <2>2. files' \in [Inode -> [text : Text, size : Size]]
    BY <2>1 DEF TypeOK
  <2>3. TypeOK'
    BY <2>1, <2>2 DEF TypeOK, scanVars
  <2>4. /\ files'[path].size = files[path].size + 1
        /\ files'[path].text = files[path].text
    BY <2>1 DEF TypeOK
  <2>5. Bounds'
    BY <2>1 DEF Bounds, scanVars
  <2>6. ASSUME Identified'
        PROVE  files'[path].text = path /\ StateSound' /\ ScanSound'
    <3>1. Identified /\ files[path].text = path /\ StateSound /\ ScanSound
      BY <2>1, <2>6 DEF IInv, Identified, NeverTruncated
    <3>2. StateSound'
      BY <2>1, <2>4, <3>1, Sizes DEF StateSound, Passed, InodeOf, Lines, TypeOK
    <3>3. ScanSound'
      BY <2>1, <2>4, <3>1, Sizes, StartRange
      DEF ScanSound, Passed, InodeOf, Lines, TypeOK, scanVars, NextState
    <3>. QED BY <2>1, <2>4, <3>1, <3>2, <3>3
  <2>7. OnlyAhead'
    BY <2>1, <2>4, Sizes DEF OnlyAhead, TypeOK, scanVars
  <2>. QED BY <2>1, <2>3, <2>5, <2>6, <2>7 DEF IInv
<1>2. CASE Replace
  <2>1. PICK k \in 0..MaxLines :
          files' = [files EXCEPT ![path + 1] = [text |-> text + 1, size |-> 2 * k]]
    BY <1>2 DEF Replace
  <2>2. /\ path' = path + 1 /\ text' = text + 1
        /\ path + 1 \in Inode /\ text + 1 \in Text
        /\ UNCHANGED <<tailing, scanVars, state, pc, emitted, faults>>
    <3>1. /\ path <= MaxReplacements /\ path' = path + 1 /\ text' = text + 1
          /\ UNCHANGED <<tailing, scanVars, state, pc, emitted, faults>>
      BY <1>2 DEF Replace
    <3>2. path + 1 \in Inode /\ text + 1 \in Text
      BY <3>1, Sizes DEF Bounds, Inode, Text
    <3>. QED BY <3>1, <3>2
  <2>3. 2 * k \in Size
    BY Sizes DEF Size
  <2>4. files' \in [Inode -> [text : Text, size : Size]]
    BY <2>1, <2>2, <2>3 DEF TypeOK
  <2>5. TypeOK'
    BY <2>2, <2>4 DEF TypeOK, scanVars
  <2>6. Bounds'
    BY <2>2, Sizes DEF Bounds, scanVars
  <2>7. ASSUME Identified'
        PROVE  files'[path'].text = path' /\ StateSound' /\ ScanSound'
    <3>1. HasInodes /\ text = path
      BY <2>2, <2>7, Sizes DEF Identified, NeverTruncated, TypeOK, Inode
    <3>2. files'[path'].text = path'
      BY <2>1, <2>2, <3>1 DEF TypeOK
    <3>3. state'.inode # InodeOf(path)' /\ stat'.inode # InodeOf(path)'
      BY <2>2, <3>1, Sizes DEF Bounds, InodeOf, scanVars
    <3>. QED BY <3>2, <3>3 DEF StateSound, ScanSound
  <2>8. OnlyAhead'
    BY <2>2, Sizes DEF OnlyAhead, TypeOK, Text, Inode, Bounds
  <2>. QED BY <2>5, <2>6, <2>7, <2>8 DEF IInv
<1>3. CASE Truncate
  <2>1. /\ text' = text + 1 /\ text + 1 \in Text
        /\ files' = [files EXCEPT ![path] = [text |-> text + 1, size |-> 0]]
        /\ UNCHANGED <<tailing, path, scanVars, state, pc, emitted, faults>>
        /\ text + 1 <= path + MaxTruncations
    <3>1. /\ text - path < MaxTruncations /\ text' = text + 1
          /\ files' = [files EXCEPT ![path] = [text |-> text + 1, size |-> 0]]
          /\ UNCHANGED <<tailing, path, scanVars, state, pc, emitted, faults>>
      BY <1>3 DEF Truncate
    <3>2. path <= MaxReplacements + 1
      BY Sizes DEF TypeOK, Inode
    <3>3. text + 1 \in Text /\ text + 1 <= path + MaxTruncations
      BY <3>1, <3>2, Sizes DEF Bounds, Text
    <3>. QED BY <3>1, <3>3
  <2>2. 0 \in Size
    BY Sizes DEF Size
  <2>3. files' \in [Inode -> [text : Text, size : Size]]
    BY <2>1, <2>2 DEF TypeOK
  <2>4. TypeOK'
    BY <2>1, <2>3 DEF TypeOK, scanVars
  <2>5. Bounds'
    BY <2>1, Sizes DEF Bounds, scanVars
  <2>6. ~Identified'
    BY <2>1, Sizes DEF Identified, NeverTruncated, Bounds
  <2>7. OnlyAhead'
    BY <2>1, Sizes DEF OnlyAhead, TypeOK, Text, Inode, Bounds
  <2>. QED BY <2>4, <2>5, <2>6, <2>7 DEF IInv
<1>. QED BY <1>1, <1>2, <1>3 DEF Tool

-----------------------------------------------------------------------------
(* Parser.Scan.                                                            *)

(* A step of the scan leaves the transcript and the checkpoint alone: what *)
(* is left to show is what it says of itself.                              *)
LEMMA ScanStep ==
  ASSUME IInv, UNCHANGED <<fileVars, state>>, emitted \subseteq emitted',
         TypeOK', Bounds', Identified => ScanSound', OnlyAhead'
  PROVE  IInv'
<1>1. ASSUME Identified'
      PROVE  files'[path'].text = path' /\ StateSound' /\ ScanSound'
  <2>1. Identified
    BY <1>1 DEF Identified, NeverTruncated, fileVars
  <2>. QED BY <2>1 DEF IInv, StateSound, Passed, InodeOf, Lines, fileVars
<1>. QED BY <1>1 DEF IInv

(* A scan begins with the stat of the file that is there then.             *)
LEMMA StatStep ==
  ASSUME IInv, Stat
  PROVE  IInv'
<1>. TypeOK /\ Bounds /\ OnlyAhead
  BY DEF IInv
<1> DEFINE i == InodeOf(path)
           n == files[path].size
<1>1. /\ n \in Size /\ i \in Inode \cup {0} /\ n \in Nat
  BY Sizes DEF TypeOK, InodeOf
<1>2. /\ stat' = [inode |-> i, offset |-> n] /\ cur' = n
      /\ pc' = IF NothingNew(i, n) THEN "done" ELSE "open"
      /\ UNCHANGED <<fileVars, fd, got, state, emitted, faults>>
  BY DEF Stat
<1>3. got = {}
  BY DEF Stat, Bounds
<1>4. stat'.inode = i /\ stat'.offset = n
  BY <1>2
<1>5. TypeOK'
  BY <1>1, <1>2 DEF TypeOK, fileVars
<1>6. Bounds'
  <2>1. HasInodes => i = path /\ i # 0
    BY Sizes DEF InodeOf, TypeOK, Inode
  <2>. QED BY <1>2, <1>3, <1>4, <2>1, Sizes DEF Bounds, InodeOf, fileVars
<1>7. ASSUME Identified PROVE ScanSound'
  <2>1. StateSound
    BY <1>7 DEF IInv
  <2>2. pc' = "done" => Passed(n, emitted)
    <3>1. CASE tailing
      BY <1>1, <1>2, <1>7, <2>1, <3>1, StartPassed DEF NothingNew
    <3>2. CASE ~tailing
      BY <1>1, <1>2, <2>1, <3>2, Sizes DEF NothingNew, StateSound, Passed
    <3>. QED BY <3>1, <3>2
  <2>3. NextState'.offset = n
    BY <1>2, <1>4 DEF NextState
  <2>4. Passed(n, emitted)' <=> Passed(n, emitted)
    BY <1>2 DEF Passed, Lines, fileVars
  <2>. QED
    BY <1>1, <1>2, <1>3, <1>4, <2>2, <2>3 DEF ScanSound, Passed, Lines, fileVars
<1>8. OnlyAhead'
  <2>1. SUFFICES ASSUME tailing, faults = 0, text = 1 PROVE OnlyAhead'
    BY <1>2 DEF OnlyAhead, fileVars
  <2>2. path = 1 /\ state.offset <= n
    BY <2>1, Sizes DEF OnlyAhead, Bounds, TypeOK, Inode
  <2>3. Start(state, i, n) = state.offset
    BY <1>1, <2>2, Sizes DEF Start, Bounds, InodeOf
  <2>4. pc' = "done" => n = state.offset
    BY <1>2, <2>1, <2>3 DEF NothingNew
  <2>. QED BY <1>1, <1>2, <1>3, <1>4, <2>1, <2>2, <2>4, Sizes DEF OnlyAhead, fileVars
<1>. QED BY <1>2, <1>5, <1>6, <1>7, <1>8, ScanStep

(* The file that is opened may be another than the stated one.             *)
LEMMA OpenStep ==
  ASSUME IInv, Open
  PROVE  IInv'
<1>. TypeOK /\ Bounds /\ OnlyAhead
  BY DEF IInv
<1> DEFINE c == IF tailing THEN Start(state, stat.inode, stat.offset) ELSE 0
<1>1. /\ pc = "open" /\ pc' = "read" /\ fd' = path /\ cur' = c
      /\ UNCHANGED <<fileVars, stat, got, state, emitted, faults>>
  BY DEF Open
<1>2. got = {}
  BY <1>1 DEF Bounds
<1>3. c \in Size
  <2>1. 0 \in Size
    BY Sizes DEF Size
  <2>. QED BY <2>1, StartRange, Sizes
<1>4. TypeOK'
  BY <1>1, <1>3 DEF TypeOK, fileVars
<1>5. Bounds'
  BY <1>1, Sizes DEF Bounds, fileVars
<1>6. ASSUME Identified PROVE ScanSound'
  <2>1. SUFFICES ASSUME stat.inode = InodeOf(path) PROVE ScanSound'
    BY <1>1 DEF ScanSound, InodeOf, fileVars
  <2>2. StateSound /\ stat.offset <= files[path].size
    BY <1>1, <1>6, <2>1 DEF IInv, ScanSound
  <2>3. Passed(c, emitted)
    BY <1>6, <2>1, <2>2, StartPassed, NoLines, Sizes DEF Passed, TypeOK
  <2>4. ~tailing => c % 2 = 0
    OBVIOUS
  <2>. QED BY <1>1, <1>2, <2>2, <2>3, <2>4 DEF ScanSound, Passed, Lines, fileVars
<1>7. OnlyAhead'
  <2>1. SUFFICES ASSUME tailing, faults = 0, text = 1 PROVE OnlyAhead'
    BY <1>1 DEF OnlyAhead, fileVars
  <2>2. path = 1 /\ state.offset <= stat.offset
    BY <1>1, <2>1, Sizes DEF OnlyAhead, Bounds, TypeOK, Inode
  <2>3. c = state.offset
    BY <1>1, <2>1, <2>2, Sizes DEF Start, Bounds
  <2>. QED BY <1>1, <1>2, <2>1, <2>2, <2>3, Sizes DEF OnlyAhead, fileVars
<1>. QED BY <1>1, <1>4, <1>5, <1>6, <1>7, ScanStep

(* One more line of the open file is in hand.                              *)
LEMMA ReadLineStep ==
  ASSUME IInv, ReadLine
  PROVE  IInv'
<1>. TypeOK /\ Bounds /\ OnlyAhead
  BY DEF IInv
<1> DEFINE l == <<files[fd].text, (cur + 2) \div 2>>
<1>1. /\ pc = "read" /\ cur + 2 <= files[fd].size /\ cur' = cur + 2
      /\ got' = got \cup {l}
      /\ UNCHANGED <<fileVars, stat, fd, state, pc, emitted, faults>>
  BY DEF ReadLine, LineEnd
<1>2. /\ files[fd].size <= 2 * MaxLines /\ files[fd].text \in Text /\ cur + 2 \in Size
      /\ cur + 2 <= 2 * MaxLines
  BY <1>1, Sizes DEF TypeOK, Size
<1>3. l \in Line
  <2>1. (cur + 2) \div 2 \in 1..MaxLines
    BY <1>2, Sizes, LineNumber
  <2>. QED BY <1>2, <2>1 DEF Line
<1>4. TypeOK'
  BY <1>1, <1>2, <1>3 DEF TypeOK, fileVars
<1>5. Bounds'
  BY <1>1 DEF Bounds, fileVars
<1>6. ASSUME Identified PROVE ScanSound'
  <2>1. SUFFICES ASSUME stat.inode = InodeOf(path) PROVE ScanSound'
    BY <1>1 DEF ScanSound, InodeOf, fileVars
  <2>2. /\ fd = path /\ Passed(cur, got \cup emitted) /\ stat.offset <= files[path].size
        /\ ~tailing => cur % 2 = 0
        /\ files[path].text = path
    BY <1>1, <1>6, <2>1 DEF IInv, ScanSound
  <2>3. Lines(path, cur + 2) \subseteq got' \cup emitted
    BY <1>1, <2>2, LineAtEnd, Sizes DEF Passed
  <2>4. ~tailing => (cur + 2) % 2 = 0
    BY <2>2, Sizes
  <2>. QED BY <1>1, <2>2, <2>3, <2>4 DEF ScanSound, Passed, Lines, fileVars
<1>7. OnlyAhead'
  <2>1. SUFFICES ASSUME tailing, faults = 0, text = 1 PROVE OnlyAhead'
    BY <1>1 DEF OnlyAhead, fileVars
  <2>2. path = 1 /\ fd = 1 /\ state.offset <= cur
    BY <1>1, <2>1, Sizes DEF OnlyAhead, Bounds, TypeOK, Inode
  <2>3. state.offset < 2 * l[2] /\ 2 * l[2] <= cur + 2 /\ l[2] \in Nat
    BY <1>1, <1>2, <2>2, Sizes, LineNumber
  <2>4. \A k \in got : k[2] \in Nat
    BY TailBounds DEF TypeOK, Line
  <2>. HIDE DEF l
  <2>. QED BY <1>1, <2>1, <2>2, <2>3, <2>4, Sizes DEF OnlyAhead, fileVars
<1>. QED BY <1>1, <1>4, <1>5, <1>6, <1>7, ScanStep

(* The scan has come to the end of what is there, or to half a line, which *)
(* it leaves for the next one.                                             *)
LEMMA ReadEndStep ==
  ASSUME IInv, ReadEnd
  PROVE  IInv'
<1>. TypeOK /\ Bounds /\ OnlyAhead
  BY DEF IInv
<1>1. /\ pc = "read" /\ pc' = "done" /\ files[fd].size < cur + 2
      /\ UNCHANGED <<fileVars, scanVars, state, emitted, faults>>
  BY Sizes DEF ReadEnd, LineEnd, TypeOK
<1>2. TypeOK'
  BY <1>1 DEF TypeOK, fileVars, scanVars
<1>3. Bounds'
  BY <1>1 DEF Bounds, fileVars, scanVars
<1>4. ASSUME Identified PROVE ScanSound'
  <2>1. SUFFICES ASSUME stat.inode = InodeOf(path) PROVE ScanSound'
    BY <1>1 DEF ScanSound, InodeOf, fileVars, scanVars
  <2>2. /\ fd = path /\ Passed(cur, got \cup emitted) /\ stat.offset <= files[path].size
        /\ ~tailing => cur % 2 = 0
    BY <1>1, <1>4, <2>1 DEF IInv, ScanSound
  <2>3. Passed(NextState.offset, got \cup emitted)
    <3>1. CASE tailing
      BY <2>2, <3>1 DEF NextState
    <3>2. CASE ~tailing
      <4>1. stat.offset < cur + 2
        BY <1>1, <2>2, Sizes DEF TypeOK
      <4>2. Lines(path, stat.offset) \subseteq Lines(path, cur)
        BY <2>2, <3>2, <4>1, Sizes, EvenEnd
      <4>. QED BY <2>2, <3>2, <4>2 DEF NextState, Passed
    <3>. QED BY <3>1, <3>2
  <2>. QED BY <1>1, <2>2, <2>3 DEF ScanSound, Passed, Lines, NextState, fileVars, scanVars
<1>5. OnlyAhead'
  BY <1>1 DEF OnlyAhead, fileVars, scanVars
<1>. QED BY <1>1, <1>2, <1>3, <1>4, <1>5, ScanStep

(* Whatever ends a scan, the next begins with nothing in hand.             *)
LEMMA ScanOverStep ==
  ASSUME IInv, ScanOver, UNCHANGED fileVars,
         \/ /\ state' = state
            /\ faults' \in 0..MaxFaults /\ (faults' = faults \/ faults' # 0)
            /\ emitted \subseteq emitted' /\ emitted' \subseteq emitted \cup got
            /\ emitted' = emitted \/ faults' # 0
         \/ /\ pc = "done"
            /\ state' = NextState /\ emitted' = emitted \cup got /\ faults' = faults
  PROVE  IInv'
<1>. TypeOK /\ Bounds /\ OnlyAhead
  BY DEF IInv
<1>1. /\ pc' = "idle" /\ stat' = NoState /\ fd' = 1 /\ cur' = 0 /\ got' = {}
      /\ tailing' = tailing /\ files' = files /\ path' = path /\ text' = text
  BY DEF ScanOver, fileVars
<1>2. NextState \in [inode : Inode \cup {0}, offset : Size]
  BY DEF NextState, TypeOK
<1>3. /\ NextState.inode = stat.inode
      /\ tailing => NextState.offset = cur
  BY DEF NextState
<1>4. /\ NoState \in [inode : Inode \cup {0}, offset : Size] /\ 1 \in Inode /\ 0 \in Size
      /\ NoState.inode = 0 /\ NoState.offset = 0
  BY TailBounds DEF NoState, Inode, Size
<1>5. TypeOK'
  BY <1>1, <1>2, <1>4 DEF TypeOK
<1>6. Bounds'
  BY <1>1, <1>3, <1>4, Sizes DEF Bounds, TypeOK, Inode
<1>7. ASSUME Identified'
      PROVE  files'[path'].text = path' /\ StateSound' /\ ScanSound'
  <2>1. Identified /\ files[path].text = path /\ StateSound /\ ScanSound
    BY <1>1, <1>7 DEF IInv, Identified, NeverTruncated
  <2>2. ScanSound'
    BY <1>1 DEF ScanSound
  <2>3. StateSound'
    <3>1. CASE state' = state /\ emitted \subseteq emitted'
      BY <1>1, <2>1, <3>1 DEF StateSound, Passed, InodeOf, Lines
    <3>2. CASE pc = "done" /\ state' = NextState /\ emitted' = emitted \cup got
      BY <1>1, <1>3, <2>1, <3>2 DEF ScanSound, StateSound, Passed, InodeOf, Lines
    <3>. QED BY <3>1, <3>2
  <2>. QED BY <1>1, <2>1, <2>2, <2>3
<1>8. OnlyAhead'
  <2>1. SUFFICES ASSUME tailing, faults' = 0, text = 1 PROVE OnlyAhead'
    BY <1>1 DEF OnlyAhead
  <2>2. CASE state' = state /\ faults' = faults /\ emitted' = emitted
    BY <1>1, <2>1, <2>2 DEF OnlyAhead
  <2>3. CASE pc = "done" /\ state' = NextState /\ emitted' = emitted \cup got /\ faults' = faults
    <3>1. /\ state.offset <= cur /\ cur <= files[path].size
          /\ \A l \in emitted : 2 * l[2] <= state.offset
          /\ \A l \in got : 2 * l[2] <= cur
      BY <2>1, <2>3 DEF OnlyAhead
    <3>2. \A l \in emitted : l[2] \in Nat
      BY TailBounds DEF TypeOK, Line
    <3>3. state'.offset = cur
      BY <1>3, <2>1, <2>3
    <3>. QED BY <1>1, <2>1, <2>3, <3>1, <3>2, <3>3, Sizes DEF OnlyAhead
  <2>. QED BY <2>1, <2>2, <2>3
<1>. QED BY <1>5, <1>6, <1>7, <1>8 DEF IInv

-----------------------------------------------------------------------------
(* An empty file that no scan has read.                                    *)
LEMMA InitInvariant == Init => IInv
<1>. SUFFICES ASSUME Init PROVE IInv
  OBVIOUS
<1>1. 1 \in Inode /\ 1 \in Text /\ 0 \in Size /\ 0 \in 0..MaxFaults
  BY TailBounds DEF Inode, Text, Size
<1>2. TypeOK
  BY <1>1 DEF Init, TypeOK, NoState
<1>3. Bounds
  BY TailBounds DEF Init, Bounds, NoState
<1>4. files[path].text = path /\ files[path].size = 0
  BY <1>1 DEF Init
<1>5. StateSound /\ ScanSound
  BY <1>4, NoLines DEF Init, StateSound, ScanSound, Passed, NoState
<1>6. OnlyAhead
  BY <1>4 DEF Init, OnlyAhead, NoState
<1>. QED BY <1>2, <1>3, <1>4, <1>5, <1>6 DEF IInv

(* Each step keeps the invariant.                                          *)
LEMMA StepInvariant == IInv /\ [Next]_vars => IInv'
<1>. SUFFICES ASSUME IInv, [Next]_vars PROVE IInv'
  OBVIOUS
<1>. faults \in 0..MaxFaults
  BY DEF IInv, TypeOK
<1>1. CASE ScanFails
  <2>1. faults' = faults \/ (faults' \in 0..MaxFaults /\ faults' # 0)
    BY <1>1, TailBounds DEF ScanFails, Fault
  <2>. QED BY <1>1, <2>1, ScanOverStep DEF ScanFails
<1>2. CASE Durable
  BY <1>2, ScanOverStep DEF Durable
<1>3. CASE NotDurable
  <2>1. faults' \in 0..MaxFaults /\ faults' # 0
    BY <1>3, TailBounds DEF NotDurable, Fault
  <2>. QED BY <1>3, <2>1, ScanOverStep DEF NotDurable
<1>4. CASE UNCHANGED vars
  <2>. USE <1>4 DEF vars, fileVars, scanVars
  <2>1. TypeOK'
    BY DEF IInv, TypeOK
  <2>2. Bounds' /\ OnlyAhead'
    BY DEF IInv, Bounds, OnlyAhead
  <2>3. ASSUME Identified' PROVE files'[path'].text = path' /\ StateSound' /\ ScanSound'
    BY <2>3
    DEF IInv, Identified, NeverTruncated, StateSound, ScanSound, Passed, InodeOf, Lines,
        NextState
  <2>. QED BY <2>1, <2>2, <2>3 DEF IInv
<1>. QED
  BY <1>1, <1>2, <1>3, <1>4, ToolSteps, StatStep, OpenStep, ReadLineStep, ReadEndStep
  DEF Next, Step

(* The invariant holds in every reachable state.                           *)
LEMMA InvariantHolds == Spec => []IInv
  BY InitInvariant, StepInvariant, PTL DEF Spec

-----------------------------------------------------------------------------
(* Every reachable state is that of a transcript and of a scan at some     *)
(* place in it.                                                            *)
THEOREM TailTypeCorrect == Spec => []TypeOK
<1>1. IInv => TypeOK
  BY DEF IInv
<1>. QED BY <1>1, InvariantHolds, PTL

(* A line is passed over only when it is durable, whatever the tool does   *)
(* between the stat, the open and the reads of a scan except truncate, and *)
(* whichever scans and passes fail (claudecode.go:32-40, 69, codex.go). A  *)
(* build without inodes must count on the transcript never being replaced. *)
THEOREM TailSkipsNothing ==
  ASSUME HasInodes \/ MaxReplacements = 0
  PROVE  Spec => []NothingSkipped
<1>1. ASSUME IInv, NeverTruncated PROVE Skipped \subseteq emitted
  <2>. TypeOK /\ Bounds
    BY <1>1 DEF IInv
  <2>1. Identified
    BY <1>1 DEF Identified, TypeOK, Inode
  <2>2. /\ files[path].text = path /\ StateSound
        /\ files[path].size \in Nat
    BY <1>1, <2>1, Sizes DEF IInv, TypeOK
  <2>3. CASE tailing
    BY <2>1, <2>2, <2>3, StartPassed, Sizes DEF Skipped, Passed
  <2>4. CASE ~tailing
    BY <2>2, <2>4 DEF Skipped, NothingNew, StateSound, Passed
  <2>. QED BY <2>3, <2>4
<1>2. IInv => NothingSkipped
  BY <1>1 DEF NothingSkipped
<1>. QED BY <1>2, InvariantHolds, PTL

(* A tailing parser ships only the new tail (README.md:123): it reads no   *)
(* line twice as long as no pass fails and the file is not replaced,       *)
(* however appends fall between its reads.                                 *)
THEOREM TailReadsOnce == Spec => []OnlyNewTail
<1>1. ASSUME IInv, tailing, faults = 0, text = 1 PROVE got \cap emitted = {}
  <2>1. \A l \in got \cup emitted : l[2] \in Nat
    BY <1>1, TailBounds DEF IInv, TypeOK, Line
  <2>2. CASE pc \in {"idle", "open"}
    BY <1>1, <2>2 DEF IInv, Bounds
  <2>3. CASE pc \in {"read", "done"}
    BY <1>1, <2>1, <2>3, Sizes DEF IInv, OnlyAhead
  <2>. QED BY <1>1, <2>2, <2>3 DEF IInv, TypeOK
<1>2. IInv => OnlyNewTail
  BY <1>1 DEF OnlyNewTail
<1>. QED BY <1>2, InvariantHolds, PTL
=============================================================================
