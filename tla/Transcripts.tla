---------------------------- MODULE Transcripts ----------------------------
(***************************************************************************)
(* What the watcher reads and the server stores.                           *)
(*                                                                         *)
(* A transcript is an append-only sequence of complete lines; Line gives   *)
(* what its parser makes of each: the deduplication key of a usage record  *)
(* (message_id, request_id), that of an edit event (event_id), or nothing. *)
(* The same key may stand on several lines: a resumed session copies       *)
(* earlier messages into a new transcript.                                 *)
(***************************************************************************)
EXTENDS Integers, Sequences, FiniteSets

CONSTANTS
  NumFiles,   \* transcripts under the configured sources, in walk order
  MaxLines,   \* bound on the lines of one transcript
  Reparse,    \* transcripts whose parser re-reads the whole file when it changed
  Usage,      \* keys of usage records
  Edit,       \* keys of edit events
  NoRecord,   \* a line that yields neither
  Line        \* what each line yields

Files    == 1..NumFiles
Position == Files \X (1..MaxLines)
Key      == Usage \cup Edit
Kind     == {"usage", "edit"}

ASSUME SizesAssumption == NumFiles \in Nat /\ MaxLines \in Nat
ASSUME ReparseAssumption == Reparse \subseteq Files
ASSUME KeyAssumption == Usage \cap Edit = {} /\ NoRecord \notin Key
ASSUME LineAssumption == Line \in [Position -> Key \cup {NoRecord}]

(* The table a record goes to: usage_detail or edit_detail.                *)
KeysOf(k) == IF k = "usage" THEN Usage ELSE Edit

(* One POST /ingest body. Send fills only records, SendEdits only edits,   *)
(* so every request of a watcher is of one kind.                           *)
Request == [kind : Kind, keys : SUBSET Key]

(* WalkDir order: by transcript, then by line.                             *)
Precedes(p, q) == p[1] < q[1] \/ (p[1] = q[1] /\ p[2] < q[2])

(* The listing of a set of positions in the order a scan meets them.       *)
WalkOrders(P) ==
  {s \in [1..Cardinality(P) -> P] :
      /\ \A p \in P : \E i \in DOMAIN s : s[i] = p
      /\ \A i, j \in DOMAIN s : i < j => Precedes(s[i], s[j])}
=============================================================================
