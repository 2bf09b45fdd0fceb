---------------------------- MODULE CodexPatches ----------------------------
(***************************************************************************)
(* How edits are taken from the rollout file of a Codex or astron-code     *)
(* session. A call that edits files and the line that says how it ended    *)
(* are written apart, other calls run meanwhile, and every scan reads the  *)
(* file from the beginning as far as it has been written.                  *)
(*                                                                         *)
(* A patch is a sequence of sections, one for each file. It comes as       *)
(*   "apply_patch"  the input of the tool of that name,                    *)
(*   "exec"         string literals in a script, here one for each file,   *)
(*   "heredoc"      a part of a script,                                    *)
(*   "edit"         a call whose line the parser does not read; what it    *)
(*                  has changed is in the patch_apply_end line.            *)
(* A script runs other commands too, and what it prints of them stands in  *)
(* its output beside what it prints of the patch.                          *)
(***************************************************************************)
EXTENDS Naturals, Sequences, FiniteSets, SequencesExt

CONSTANTS
  Call,       \* call ids
  Patches,    \* patches, sequences of sections
  MaxCodes    \* bound on the exit codes that a script prints

(* "plus3" is an added line whose own text begins with "++", so that the   *)
(* diff has "+++" there, and "minus3" is its counterpart.                  *)
BodyLine == {"plus", "minus", "plus3", "minus3", "context"}

Section ==
  [kind : {"update", "move", "add", "delete"}, path : Nat, to : Nat, body : Seq(BodyLine)]

ASSUME PatchesAssumption ==
  \A p \in Patches :
    /\ p \in Seq(Section)
    /\ \A i, j \in DOMAIN p : i # j => p[i].path # p[j].path
    /\ \A i \in DOMAIN p :
         /\ p[i].kind # "move" => p[i].to = p[i].path
         /\ p[i].kind = "delete" => p[i].body = <<>>
         /\ p[i].kind = "add" => ToSet(p[i].body) \subseteq {"plus", "plus3"}

ASSUME CodesAssumption == MaxCodes \in Nat

Shape == {"apply_patch", "exec", "heredoc", "edit"}

VARIABLES
  calls,    \* what each call is about and how far it is
  rollout,  \* the lines of the file that concern edits
  edits     \* history: the edit records of all scans

patchVars == <<calls, rollout, edits>>

NotYet == [status |-> "none", shape |-> "edit", patch |-> <<>>, applied |-> {}]

PatchInit ==
  /\ calls = [c \in Call |-> NotYet]
  /\ rollout = <<>>
  /\ edits = {}

-----------------------------------------------------------------------------
(* Texts, as sequences of lines. "file" lines name the file of a section,  *)
(* "mark" stands for the other lines that begin with "*** ".               *)

Named(type, p) == [type |-> type, path |-> p]
Unnamed(types) == [i \in DOMAIN types |-> Named(types[i], 0)]

SectionText(s) ==
  CASE s.kind = "delete" -> Unnamed(<<"mark">>)
    [] s.kind = "move"   -> <<Named("file", s.path)>> \o Unnamed(<<"mark", "context">> \o s.body)
    [] OTHER             -> <<Named("file", s.path)>> \o Unnamed(<<"context">> \o s.body)

Envelope(p) ==
  Unnamed(<<"mark">>)
    \o FlattenSeq([i \in DOMAIN p |-> SectionText(p[i])])
    \o Unnamed(<<"mark">>)

(* What a script does besides.                                             *)
Script == Unnamed(<<"minus", "context", "plus">>)

UnifiedDiff(s) == <<"minus3", "plus3", "context">> \o s.body

-----------------------------------------------------------------------------
(* Variants of definitions below, each with a plausible slip.              *)
OnlyTheTool(shape, p)  == IF shape = "apply_patch" THEN <<Envelope(p)>> ELSE <<>>
ToTheNextFile(text, h) ==
  {j \in (h + 1)..Len(text) : \A k \in (h + 1)..j : text[k].type # "file"}
FirstCode(codes)       == codes[1]
-----------------------------------------------------------------------------
(* codexPatchEnvelopes: the texts to look for sections in.                 *)
CodexPatchEnvelopes(shape, p) ==
  CASE shape = "apply_patch" -> <<Envelope(p)>>
    [] shape = "exec"        -> [i \in DOMAIN p |-> Envelope(<<p[i]>>)]
    [] shape = "heredoc"     -> <<Script \o Envelope(p) \o Script>>

(* The lines that count for the file named in line h.                      *)
Counted(text, h) ==
  {j \in (h + 1)..Len(text) : \A k \in (h + 1)..j : text[k].type \notin {"file", "mark"}}

ParseApplyPatch(text) ==
  LET heads == {i \in DOMAIN text : text[i].type = "file"}
      FileLine(n) == CHOOSE h \in heads : Cardinality({i \in heads : i <= h}) = n
      Count(h, types) == Cardinality({j \in Counted(text, h) : text[j].type \in types})
  IN [n \in 1..Cardinality(heads) |->
        [path    |-> text[FileLine(n)].path,
         added   |-> Count(FileLine(n), {"plus", "plus3"}),
         removed |-> Count(FileLine(n), {"minus", "minus3"})]]

(* diffLineCounts leaves out what looks like the header of a file.         *)
DiffCount(lines, type) == Cardinality({i \in DOMAIN lines : lines[i] = type})

(* The lines of an added file: its line breaks, but not the last, and one. *)
ContentLines(body) == IF body = <<>> THEN 1 ELSE Len(body)

(* addPatchApplyEnd: the changes in the order of their paths.              *)
Change(s) ==
  IF s.kind = "add"
    THEN [path |-> s.path, added |-> ContentLines(s.body), removed |-> 0]
    ELSE [path |-> s.to,
          added   |-> DiffCount(UnifiedDiff(s), "plus"),
          removed |-> DiffCount(UnifiedDiff(s), "minus")]

ChangesByPath(p) ==
  LET counted == {i \in DOMAIN p : p[i].kind # "delete"}
      Nth(n) == CHOOSE i \in counted :
                  Cardinality({j \in counted : p[j].path <= p[i].path}) = n
  IN [n \in 1..Cardinality(counted) |-> Change(p[Nth(n)])]

(* The files of line l.                                                    *)
FilesOf(l) ==
  CASE l.type = "custom_tool_call" ->
         LET texts == CodexPatchEnvelopes(l.shape, l.patch)
         IN FlattenSeq([i \in DOMAIN texts |-> ParseApplyPatch(texts[i])])
    [] l.type = "patch_apply_end" -> IF l.ok THEN ChangesByPath(l.patch) ELSE <<>>
    [] OTHER -> <<>>

(* An output is the text of the commands of a call, or one JSON document,  *)
(* with                                                                    *)
(*   exit   the exit code in the metadata of the document, if there is one,*)
(*   word   the first word of the text, or of the document's own output,   *)
(*          if it is looked at: "Success" or another,                      *)
(*   codes  the exit codes in the text.                                    *)
(* Each of them is a verdict on what one command has done: the sections it *)
(* was to apply, none for a command that does something else.              *)
Verdict == [of : SUBSET Nat, ok : BOOLEAN]

(* lastExitCode.                                                           *)
LastCode(codes) == codes[Len(codes)]

(* codexOutputSucceeded: the exit code of the document, else its first     *)
(* word, else the last code in the text, else the first word of the text.  *)
OutputSucceeded(out) ==
  IF out.document /\ out.exit \o out.word # <<>>
    THEN Head(out.exit \o out.word).ok
    ELSE IF out.codes # <<>> THEN LastCode(out.codes).ok
                             ELSE ~out.document /\ out.word[1].ok

-----------------------------------------------------------------------------
(* codexScanState after all lines of file r.                               *)

(* Variants of the two definitions below, each with a plausible slip.      *)
RecordedAgain(r, i)   == FilesOf(r[i]) # <<>>
RunningIndex(r, i, k) == k - 1 + Cardinality({j \in 1..(i - 1) : FilesOf(r[j]) # <<>>})

(* The lines in patches: a patch_apply_end whose call is there already is  *)
(* passed over.                                                            *)
Recorded(r, i) ==
  /\ FilesOf(r[i]) # <<>>
  /\ r[i].type = "patch_apply_end" =>
       \A j \in 1..(i - 1) : r[j].call = r[i].call => FilesOf(r[j]) = <<>>

Confirms(r, i) ==
  \/ r[i].type = "custom_tool_call_output" /\ OutputSucceeded(r[i].output)
  \/ r[i].type = "patch_apply_end" /\ Recorded(r, i)

PatchOK(r) == {r[i].call : i \in {j \in DOMAIN r : Confirms(r, j)}}

EventIndex(r, i, k) == k - 1

(* The edit records of a scan.                                             *)
Result(r) ==
  UNION {LET files == FilesOf(r[i])
         IN {[call |-> r[i].call, index |-> EventIndex(r, i, k), file |-> files[k]] :
               k \in DOMAIN files} :
           i \in {j \in DOMAIN r : Recorded(r, j) /\ r[j].call \in PatchOK(r)}}

-----------------------------------------------------------------------------
(* The session.                                                            *)

(* The model calls a tool. The line of an "edit" is not one that is read.  *)
Ask(c, shape, p) ==
  /\ calls[c].status = "none"
  /\ calls' = [calls EXCEPT ![c] =
                [status |-> "asked", shape |-> shape, patch |-> p, applied |-> {}]]
  /\ rollout' = IF shape = "edit"
                  THEN rollout
                  ELSE Append(rollout, [type |-> "custom_tool_call", call |-> c,
                                        shape |-> shape, patch |-> p])
  /\ UNCHANGED edits

(* The sections that one command applies, all of them or none.             *)
Parts(shape, p) == IF shape = "exec" THEN {{k} : k \in DOMAIN p} ELSE {DOMAIN p}

Outcomes(shape, p) == {UNION S : S \in SUBSET Parts(shape, p)}

(* The patch is applied, or parts of it, or none. Always for an "edit", and *)
(* for the others in a version that does so, the outcome is written down.  *)
Finish(c, applied, told) ==
  /\ calls[c].status = "asked"
  /\ calls[c].shape = "edit" => told
  /\ calls' = [calls EXCEPT ![c].applied = applied,
                            ![c].status = IF calls[c].shape = "edit" THEN "over" ELSE "run"]
  /\ rollout' = IF told
                  THEN Append(rollout, [type |-> "patch_apply_end", call |-> c,
                                        ok |-> applied = DOMAIN calls[c].patch,
                                        patch |-> calls[c].patch])
                  ELSE rollout
  /\ UNCHANGED edits

(* What an output can say of part of the patch of call v, and at all.      *)
Says(v, part) == [of |-> part, ok |-> part \subseteq v.applied]

Verdicts(v) ==
  {Says(v, part) : part \in Parts(v.shape, v.patch)} \cup [of : {{}}, ok : BOOLEAN]

NotSuccess == [of |-> {}, ok |-> FALSE]

(* The tool prints a document with its exit code, an older one without, or *)
(* plain text. A script prints whatever codes it likes, or none, and if it *)
(* is the output of one command only, this is a document too.              *)
ToolOutputs(v) ==
  LET whole == <<Says(v, DOMAIN v.patch)>>
  IN { [document |-> TRUE, exit |-> whole, word |-> whole, codes |-> whole],
       [document |-> TRUE, exit |-> <<>>, word |-> whole, codes |-> <<>>],
       [document |-> FALSE, exit |-> <<>>, word |-> whole, codes |-> <<>>] }

ScriptOutputs(v) ==
  {[document |-> FALSE, exit |-> <<>>, word |-> <<w>>, codes |-> <<>>] : w \in Verdicts(v)}
    \cup {[document |-> FALSE, exit |-> <<>>, word |-> <<NotSuccess>>, codes |-> codes] :
            codes \in UNION {[1..n -> Verdicts(v)] : n \in 1..MaxCodes}}
    \cup {[document |-> TRUE, exit |-> <<>>, word |-> word, codes |-> <<code>>] :
            code \in Verdicts(v), word \in {<<>>, <<NotSuccess>>} \cup {<<w>> : w \in Verdicts(v)}}

Outputs(v) == IF v.shape = "apply_patch" THEN ToolOutputs(v) ELSE ScriptOutputs(v)

Output(c) ==
  /\ calls[c].status = "run"
  /\ calls' = [calls EXCEPT ![c].status = "over"]
  /\ \E out \in Outputs(calls[c]) :
       rollout' = Append(rollout, [type |-> "custom_tool_call_output", call |-> c,
                                   output |-> out])
  /\ UNCHANGED edits

(* A scan, of the lines that are there.                                    *)
Scan ==
  /\ edits' = edits \cup Result(rollout)
  /\ UNCHANGED <<calls, rollout>>

PatchNext ==
  \/ \E c \in Call :
       \/ \E shape \in Shape, p \in Patches : Ask(c, shape, p)
       \/ \E applied \in Outcomes(calls[c].shape, calls[c].patch), told \in BOOLEAN :
            Finish(c, applied, told)
       \/ Output(c)
  \/ Scan

PatchSpec == PatchInit /\ [][PatchNext]_patchVars

-----------------------------------------------------------------------------
PatchTypeOK ==
  /\ calls \in [Call -> [status : {"none", "asked", "run", "over"}, shape : Shape,
                         patch : Patches \cup {<<>>}, applied : SUBSET Nat]]
  /\ \A c \in Call : calls[c].applied \subseteq DOMAIN calls[c].patch
  /\ \A i \in DOMAIN rollout : rollout[i].call \in Call
  /\ \A e \in edits :
       /\ e.call \in Call
       /\ e.index \in 0..(Len(calls[e.call].patch) - 1)
       /\ e.file \in [path : Nat, added : Nat, removed : Nat]

(* An event id stands for one and the same change in every scan, however   *)
(* many lines there are by then. The server keeps the first record of an   *)
(* id, so another one would be lost (codex.go:297-300, 315).               *)
EventsStable ==
  \A d, e \in edits : d.call = e.call /\ d.index = e.index => d = e

(* The places of the sections of a call that have lines to count.          *)
Counting(c) == {k \in DOMAIN calls[c].patch : calls[c].patch[k].kind # "delete"}

Added(s)   == Cardinality({i \in DOMAIN s.body : s.body[i] \in {"plus", "plus3"}})
Removed(s) == Cardinality({i \in DOMAIN s.body : s.body[i] \in {"minus", "minus3"}})

(* Two kinds of sections lose lines. parseApplyPatch takes the line        *)
(* "*** Move to" for the end of the section, and diffLineCounts takes a    *)
(* changed line that begins with "++" or "--" for a header. One gains one: *)
(* addPatchApplyEnd counts a line for a file that is added empty.          *)
LosesLines(c, s) ==
  IF calls[c].shape = "edit"
    THEN ToSet(s.body) \cap {"plus3", "minus3"} # {}
    ELSE s.kind = "move"

AddedCount(c, s) ==
  IF calls[c].shape = "edit" /\ s.kind = "add" /\ s.body = <<>> THEN 1 ELSE Added(s)

Path(c, s) == IF calls[c].shape = "edit" THEN s.to ELSE s.path

StandsFor(f, c, s) ==
  /\ f.path = Path(c, s)
  /\ f.added <= AddedCount(c, s) /\ f.removed <= Removed(s)
  /\ ~LosesLines(c, s) => f.added = AddedCount(c, s) /\ f.removed = Removed(s)

(* The verdict that a reader of an output ends with, a document's own      *)
(* first, and of several the last.                                         *)
Final(out) ==
  IF out.document THEN Head(out.exit \o out.word \o out.codes)
                  ELSE IF out.codes # <<>> THEN Last(out.codes) ELSE out.word[1]

(* Section k of call c is judged by what something else has done: the      *)
(* outcome of a script is that of its last command that prints one.        *)
Misjudged(c, k) ==
  \E i \in DOMAIN rollout :
    /\ rollout[i].type = "custom_tool_call_output" /\ rollout[i].call = c
    /\ k \notin Final(rollout[i].output).of

(* Every edit record stands for a section of its call, with the lines of   *)
(* this section, and the section has been applied, unless it is misjudged  *)
(* (codex.go:88-89).                                                       *)
EditsAreChanges ==
  \A e \in edits : \E k \in Counting(e.call) :
    /\ StandsFor(e.file, e.call, calls[e.call].patch[k])
    /\ k \in calls[e.call].applied \/ Misjudged(e.call, k)

(* When a call is over, a scan finds each section that has been applied,   *)
(* unless it is misjudged, whichever way the tool was called and whatever  *)
(* other calls have written; and it finds none twice.                      *)
NothingMissing ==
  \A c \in Call :
    calls[c].status = "over" =>
      LET found == {e \in Result(rollout) : e.call = c}
      IN /\ Cardinality(found) \in {0, Cardinality(Counting(c))}
         /\ \A k \in Counting(c) \cap calls[c].applied :
              ~Misjudged(c, k) => \E e \in found : StandsFor(e.file, c, calls[c].patch[k])

(* "We only emit EditRecords for calls whose output confirms the patch     *)
(* actually applied (exit_code 0)" (codex.go:88-89): no text that gives    *)
(* the exit code of a part of the patch gives that of a failure.           *)
EditsAreConfirmed ==
  \A e \in edits : \A i \in DOMAIN rollout :
    LET l == rollout[i]
    IN (l.type = "custom_tool_call_output" /\ l.call = e.call /\ ~l.output.document) =>
         \A n \in DOMAIN l.output.codes :
           l.output.codes[n].of # {} => l.output.codes[n].ok
=============================================================================
