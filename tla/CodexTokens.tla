---------------------------- MODULE CodexTokens ----------------------------
(***************************************************************************)
(* How the token counts of one Codex session are taken from its rollout    *)
(* file. Codex writes token_count lines with running totals, repeats a     *)
(* line when nothing was spent, and counts cached input and reasoning      *)
(* output as parts of input and output. The parser turns the lines into    *)
(* usage records of what was spent since the line before; uncached and     *)
(* cached input are priced apart.                                          *)
(*                                                                         *)
(* A scan reads the whole file again, so what it finds for a line depends  *)
(* on the lines before it alone: one pass over the growing file is enough. *)
(***************************************************************************)
EXTENDS Integers

CONSTANTS
  MaxTokens,   \* bound on the tokens of a kind spent in a turn
  MaxRestarts, \* bound on how often the totals start over
  MaxTurns     \* bound on the turns

ASSUME TokenBounds ==
  MaxTokens \in Nat /\ MaxRestarts \in Nat /\ MaxTurns \in Nat

(* codexTokens                                                             *)
Tokens == [input : Nat, cached : Nat, output : Nat, reasoning : Nat]

NoTokens == [input |-> 0, cached |-> 0, output |-> 0, reasoning |-> 0]

(* What one turn spends.                                                   *)
Turn ==
  {d \in [input : 0..MaxTokens, cached : 0..MaxTokens,
          output : 0..MaxTokens, reasoning : 0..MaxTokens] :
     d.cached <= d.input /\ d.reasoning <= d.output}

Plus(s, t) ==
  [input |-> s.input + t.input, cached |-> s.cached + t.cached,
   output |-> s.output + t.output, reasoning |-> s.reasoning + t.reasoning]

VARIABLES
  totals,   \* the running totals of Codex
  spent,    \* history: what the session has spent
  prev,     \* codexScanState.prev
  usage,    \* the sums of the records: input_tokens, cache_read, output
  restarts, \* how often the totals have started over
  turns     \* turns so far

tokenVars == <<totals, spent, prev, usage, restarts, turns>>

TokenInit ==
  /\ totals = NoTokens
  /\ spent = NoTokens
  /\ prev = NoTokens
  /\ usage = [uncached |-> 0, cached |-> 0, output |-> 0]
  /\ restarts = 0
  /\ turns = 0

-----------------------------------------------------------------------------
(* Variants of the definitions below, each with a plausible slip.          *)
OnlyNewInput(t) == t.input > prev.input
WholeInput(t)   == t.input - prev.input
ClampedOnce(t)  ==
  (IF t.input > prev.input THEN t.input - prev.input ELSE 0)
    - (IF t.cached > prev.cached THEN t.cached - prev.cached ELSE 0)
-----------------------------------------------------------------------------
Positive(n) == IF n > 0 THEN n ELSE 0

(* Some total has grown since the last record.                             *)
Grown(t) ==
  \/ t.input > prev.input
  \/ t.cached > prev.cached
  \/ t.output > prev.output
  \/ t.reasoning > prev.reasoning

Uncached(t) ==
  Positive(Positive(t.input - prev.input) - Positive(t.cached - prev.cached))

(* emitCodexLine on a token_count line with the totals t.                  *)
Emit(t) ==
  IF Grown(t)
    THEN /\ prev' = t
         /\ usage' = [uncached |-> usage.uncached + Uncached(t),
                      cached   |-> usage.cached + Positive(t.cached - prev.cached),
                      output   |-> usage.output + Positive(t.output - prev.output)]
    ELSE UNCHANGED <<prev, usage>>

AnotherTurn == turns < MaxTurns /\ turns' = turns + 1

TurnEnds(d) ==
  /\ AnotherTurn
  /\ totals' = Plus(totals, d)
  /\ spent' = Plus(spent, d)
  /\ Emit(totals')
  /\ UNCHANGED restarts

Repeat ==
  /\ Emit(totals)
  /\ UNCHANGED <<totals, spent, restarts, turns>>

(* The totals start over with this turn.                                   *)
Restart(d) ==
  /\ AnotherTurn
  /\ restarts < MaxRestarts
  /\ restarts' = restarts + 1
  /\ totals' = d
  /\ spent' = Plus(spent, d)
  /\ Emit(totals')

TokenNext ==
  \/ \E d \in Turn : TurnEnds(d) \/ Restart(d)
  \/ Repeat

TokenSpec == TokenInit /\ [][TokenNext]_tokenVars

-----------------------------------------------------------------------------
TokenTypeOK ==
  /\ totals \in Tokens
  /\ spent \in Tokens
  /\ prev \in Tokens
  /\ usage \in [uncached : Nat, cached : Nat, output : Nat]
  /\ restarts \in 0..MaxRestarts
  /\ turns \in 0..MaxTurns

(* The records of a session add up to what it spent: repeated lines are    *)
(* not counted again, and reasoning and cached input are not counted twice *)
(* (codex.go:30-33, 251-255).                                              *)
AddsUp ==
  restarts = 0 =>
    /\ usage.uncached = spent.input - spent.cached
    /\ usage.cached = spent.cached
    /\ usage.output = spent.output

(* Even when the totals start over, the records never claim more than what *)
(* was spent.                                                              *)
NeverTooMuch ==
  /\ usage.uncached <= spent.input - spent.cached
  /\ usage.cached <= spent.cached
  /\ usage.output <= spent.output
=============================================================================
