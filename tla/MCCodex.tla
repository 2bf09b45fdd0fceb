------------------------------ MODULE MCCodex ------------------------------
(***************************************************************************)
(* Calls of a session of Codex: a patch whose files are not in the order   *)
(* of their names, with a file that is added empty, one with a file that   *)
(* goes and one that gets another name, and one with a line that looks     *)
(* like a header. One call prints what it likes; two calls at once end     *)
(* with one word about their patch each.                                   *)
(***************************************************************************)
EXTENDS CodexPatches, TLC

CONSTANTS c1, c2

MCPatches ==
  { <<[kind |-> "update", path |-> 2, to |-> 2, body |-> <<"minus", "plus", "plus">>],
      [kind |-> "add", path |-> 1, to |-> 1, body |-> <<>>]>>,
    <<[kind |-> "delete", path |-> 1, to |-> 1, body |-> <<>>],
      [kind |-> "move", path |-> 2, to |-> 3, body |-> <<"minus", "context">>]>>,
    <<[kind |-> "update", path |-> 1, to |-> 1, body |-> <<"plus3", "minus">>]>> }

Begun == {c \in Call : calls[c].status # "none"}

EndsInAWord(line) ==
  line.type = "custom_tool_call_output" =>
    ~line.output.document /\ line.output.codes = <<>> /\ line.output.word[1].of # {}

MCPatchNext ==
  /\ PatchNext
  /\ Cardinality(Begun') > 1 => \A i \in DOMAIN rollout' : EndsInAWord(rollout'[i])

MCPatchSpec == PatchInit /\ [][MCPatchNext]_patchVars

Symmetry == Permutations(Call)
=============================================================================
