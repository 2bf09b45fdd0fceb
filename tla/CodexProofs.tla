---------------------------- MODULE CodexProofs ----------------------------
(***************************************************************************)
(* Proofs about CodexTokens, for every number and size of turns and        *)
(* restarts, and about CodexPatches, for every set of calls and of patches,*)
(* however many sections they have and however long these are.             *)
(*                                                                         *)
(* NeverTooMuch is not inductive for the uncached input: prev may be far   *)
(* ahead of totals in one component and not in another, and what the next  *)
(* record claims depends on how far. Two upper bounds on what the records  *)
(* have left unclaimed make it so (Unclaimed).                             *)
(*                                                                         *)
(* Of the patches, most of the work is to show what parseApplyPatch makes  *)
(* of the text of any patch (CallFiles): the texts of the sections, one    *)
(* after the other, give the files of each, one after the other, by        *)
(* induction over the sections. The invariant relates each line of the     *)
(* file to what has become of its call (Told), and each edit record to the *)
(* one line it was taken from (Sourced), which later lines do not change.  *)
(***************************************************************************)
EXTENDS CodexTokens, CodexPatches, SequenceTheorems, FiniteSetTheorems,
        WellFoundedInduction, TLAPS

-----------------------------------------------------------------------------
(* Tokens.                                                                 *)

(* t has all the cached input in its input.                                *)
Breakdown(t) == t.cached <= t.input

(* The last record's totals are at least those of Codex now.               *)
Ahead ==
  /\ prev.input >= totals.input
  /\ prev.cached >= totals.cached
  /\ prev.output >= totals.output
  /\ prev.reasoning >= totals.reasoning

(* The uncached input that no record claims, and a lower bound on it: what *)
(* the totals have of it beyond prev was not claimed.                      *)
Unclaimed == spent.input - spent.cached - usage.uncached

UnclaimedEnough ==
  /\ Unclaimed >= 0
  /\ Unclaimed >= (totals.input - totals.cached) - (prev.input - prev.cached)

IInv ==
  /\ TokenTypeOK
  /\ Breakdown(totals)
  /\ Breakdown(prev)
  /\ Ahead
  /\ UnclaimedEnough
  /\ usage.cached <= spent.cached
  /\ usage.output <= spent.output
  /\ restarts = 0 => prev = totals /\ totals = spent
  /\ AddsUp

-----------------------------------------------------------------------------
(* Sums of token counts keep their type and their breakdown.               *)
LEMMA PlusTokens ==
  ASSUME NEW s \in Tokens, NEW d \in Turn
  PROVE  /\ Plus(s, d) \in Tokens
         /\ d \in Tokens
         /\ Breakdown(d)
         /\ Breakdown(s) => Breakdown(Plus(s, d))
  BY TokenBounds DEF Plus, Tokens, Turn, Breakdown

(* A record never claims a negative number of uncached tokens.             *)
LEMMA UncachedTokens ==
  ASSUME TokenTypeOK, NEW t \in Tokens
  PROVE  Uncached(t) \in Nat
  BY DEF TokenTypeOK, Tokens, Uncached, Positive

(* A token_count line with the totals t, at the end of a turn that spent d *)
(* on top of the old totals or of none.                                    *)
LEMMA EmitKeepsInvariant ==
  ASSUME IInv, NEW d \in Turn,
         totals' = Plus(totals, d) \/ (totals' = d /\ restarts' # 0),
         spent' = Plus(spent, d),
         restarts' \in 0..MaxRestarts, restarts' >= restarts,
         turns' \in 0..MaxTurns,
         Emit(totals')
  PROVE  IInv'
<1>. USE DEF IInv
<1>1. /\ totals \in Tokens /\ spent \in Tokens /\ prev \in Tokens
      /\ usage \in [uncached : Nat, cached : Nat, output : Nat]
      /\ restarts \in Nat /\ restarts' \in Nat
  BY TokenBounds DEF TokenTypeOK
<1>2. /\ totals' \in Tokens /\ spent' \in Tokens
      /\ Breakdown(totals')
  BY <1>1, PlusTokens
<1>3. prev' \in Tokens /\ usage' \in [uncached : Nat, cached : Nat, output : Nat]
  BY <1>1, <1>2, UncachedTokens DEF Emit, Tokens, Positive
<1>4. TokenTypeOK'
  BY <1>2, <1>3 DEF TokenTypeOK
<1>5. Breakdown(prev')
  BY <1>2 DEF Emit
<1>6. Ahead'
  BY <1>1, <1>2 DEF Emit, Grown, Ahead, Tokens
<1>7. UnclaimedEnough'
  <2>1. CASE Grown(totals')
    BY <2>1, <1>1, <1>2, TokenBounds
    DEF Emit, Uncached, Positive, UnclaimedEnough, Unclaimed, Ahead, Breakdown,
        Tokens, Turn, Plus
  <2>2. CASE ~Grown(totals')
    BY <2>2, <1>1, <1>2, TokenBounds
    DEF Emit, Grown, UnclaimedEnough, Unclaimed, Ahead, Breakdown, Tokens, Turn, Plus
  <2>. QED BY <2>1, <2>2
<1>8. usage'.cached <= spent'.cached /\ usage'.output <= spent'.output
  BY <1>1, <1>2, TokenBounds DEF Emit, Positive, Ahead, Tokens, Turn, Plus
<1>9. restarts' = 0 => prev' = totals' /\ totals' = spent' /\ AddsUp'
  BY <1>1, <1>2, TokenBounds
  DEF Emit, Grown, Uncached, Positive, AddsUp, Breakdown, Tokens, Turn, Plus
<1>. QED
  BY <1>2, <1>4, <1>5, <1>6, <1>7, <1>8, <1>9 DEF AddsUp

(* The invariant holds before the first turn.                              *)
LEMMA InitInvariant == TokenInit => IInv
  BY TokenBounds
  DEF TokenInit, IInv, TokenTypeOK, NoTokens, Tokens, Breakdown, Ahead, UnclaimedEnough,
      Unclaimed, AddsUp

(* A line that repeats the totals finds nothing grown.                     *)
LEMMA RepeatChangesNothing ==
  ASSUME IInv, Repeat
  PROVE  UNCHANGED tokenVars
  BY DEF IInv, TokenTypeOK, Tokens, Ahead, Repeat, Emit, Grown, tokenVars

(* Each step keeps the invariant.                                          *)
LEMMA NextInvariant == IInv /\ [TokenNext]_tokenVars => IInv'
<1>1. ASSUME IInv, UNCHANGED tokenVars PROVE IInv'
  BY <1>1 DEF IInv, TokenTypeOK, Breakdown, Ahead, UnclaimedEnough, Unclaimed, AddsUp, tokenVars
<1>2. ASSUME IInv, NEW d \in Turn, TurnEnds(d) PROVE IInv'
  <2>1. restarts' \in 0..MaxRestarts /\ restarts' >= restarts /\ turns' \in 0..MaxTurns
    BY <1>2, TokenBounds DEF TurnEnds, AnotherTurn, IInv, TokenTypeOK
  <2>. QED BY <1>2, <2>1, EmitKeepsInvariant DEF TurnEnds
<1>3. ASSUME IInv, NEW d \in Turn, Restart(d) PROVE IInv'
  <2>1. /\ restarts' \in 0..MaxRestarts /\ restarts' >= restarts /\ restarts' # 0
        /\ turns' \in 0..MaxTurns
    BY <1>3, TokenBounds DEF Restart, AnotherTurn, IInv, TokenTypeOK
  <2>. QED BY <1>3, <2>1, EmitKeepsInvariant DEF Restart
<1>4. ASSUME IInv, Repeat PROVE IInv'
  BY <1>1, <1>4, RepeatChangesNothing
<1>. QED BY <1>1, <1>2, <1>3, <1>4 DEF TokenNext

(* The invariant of the token counts holds in every reachable state        *)
(* (codex.go:107-167).                                                     *)
THEOREM Invariance == TokenSpec => []IInv
  BY InitInvariant, NextInvariant, PTL DEF TokenSpec

(* The sums of a session's records stay well-typed: no difference of two   *)
(* totals is ever recorded as a negative count, although the totals may    *)
(* start over (the clamps of codex.go:237-258).                            *)
THEOREM CodexTypeCorrect == TokenSpec => []TokenTypeOK
<1>. IInv => TokenTypeOK
  BY DEF IInv
<1>. QED BY Invariance, PTL

(* As long as the totals do not start over, the records of a session add   *)
(* up to exactly what it spent, each kind of token counted once.           *)
THEOREM RecordsAddUp == TokenSpec => []AddsUp
<1>. IInv => AddsUp
  BY DEF IInv
<1>. QED BY Invariance, PTL

(* However often the totals start over, and wherever they start over from, *)
(* the records never claim more than was spent.                            *)
THEOREM NothingOvercounted == TokenSpec => []NeverTooMuch
<1>. IInv => NeverTooMuch
  BY DEF IInv, TokenTypeOK, Tokens, UnclaimedEnough, Unclaimed, NeverTooMuch
<1>. QED BY Invariance, PTL

-----------------------------------------------------------------------------
(* Patches: lemmas about sets and sequences.                               *)

(* Induction over the numbers, for a set of numbers. The subsets of a      *)
(* finite set are well-founded by inclusion, as the library shows: the     *)
(* least number outside S would be the end of a least interval.            *)
LEMMA Induction ==
  ASSUME NEW S, 0 \in S, \A n \in Nat : n \in S => n + 1 \in S
  PROVE  \A n \in Nat : n \in S
<1>. SUFFICES ASSUME NEW n \in Nat, n \notin S PROVE FALSE
  OBVIOUS
<1>. DEFINE B == {0..m : m \in {k \in 0..n : k \notin S}}
<1>1. B \subseteq FiniteSubsetsOf(0..n) /\ B # {}
  <2>1. \A m \in 0..n : 0..m \in SUBSET (0..n) /\ IsFiniteSet(0..m)
    BY FS_Interval
  <2>2. \A T \in B : T \in SUBSET (0..n) /\ IsFiniteSet(T)
    BY <2>1
  <2>3. 0..n \in B
    OBVIOUS
  <2>. HIDE DEF B
  <2>. QED BY <2>2, <2>3 DEF FiniteSubsetsOf
<1>2. IsWellFoundedOn(StrictSubsetOrdering(0..n), FiniteSubsetsOf(0..n))
  BY FS_Interval, FS_StrictSubsetOrderingWellFounded
<1>3. PICK T \in B : \A U \in B : <<U, T>> \notin StrictSubsetOrdering(0..n)
  <2>. HIDE DEF B
  <2>. QED BY <1>1, <1>2, WFMin
<1>4. PICK m \in 0..n : m \notin S /\ T = 0..m
  OBVIOUS
<1>5. m - 1 \in 0..n /\ m - 1 \notin S
  <2>1. m # 0 /\ m - 1 \in Nat
    BY <1>4
  <2>2. m - 1 \in S => m \in S
    BY <2>1
  <2>. QED BY <1>4, <2>1, <2>2
<1>6. 0..(m - 1) \in B
  BY <1>5
<1>7. 0..(m - 1) \subseteq 0..m /\ m \in 0..m /\ m \notin 0..(m - 1)
  OBVIOUS
<1>8. 0..m \in SUBSET (0..n) /\ 0..(m - 1) \in SUBSET (0..n)
  OBVIOUS
<1>. HIDE DEF B
<1>. QED BY <1>3, <1>4, <1>6, <1>7, <1>8 DEF StrictSubsetOrdering

(* FlattenSeq is defined by recursion over the sequences; f[n] is what it  *)
(* makes of the first n.                                                   *)
Flattens(f, s) ==
  /\ \A i \in 1..Len(s) : f[i] = IF i = 1 THEN s[i] ELSE f[i - 1] \o s[i]

(* Such an f exists, and its last value is FlattenSeq(s).                  *)
LEMMA FlattenFunction ==
  ASSUME NEW T, NEW s \in Seq(Seq(T)), s # <<>>
  PROVE  \E f \in [1..Len(s) -> Seq(T)] : Flattens(f, s) /\ FlattenSeq(s) = f[Len(s)]
<1>. DEFINE N == Len(s)
            Step(f, i) == IF i = 1 THEN s[i] ELSE f[i - 1] \o s[i]
            Upto(n) == \E f \in [1..n -> Seq(T)] : \A i \in 1..n : f[i] = Step(f, i)
            S == {n \in Nat : n <= N => Upto(n)}
<1>0. N \in Nat \ {0} /\ \A i \in 1..N : s[i] \in Seq(T)
  OBVIOUS
<1>1. 0 \in S
  <2>1. [i \in 1..0 |-> <<>>] \in [1..0 -> Seq(T)] /\ 1..0 = {}
    OBVIOUS
  <2>. QED BY <2>1
<1>2. ASSUME NEW n \in Nat, n \in S PROVE n + 1 \in S
  <2>. SUFFICES ASSUME n + 1 <= N PROVE Upto(n + 1)
    OBVIOUS
  <2>. HIDE DEF N
  <2>0. Upto(n)
    <3>1. n <= N
      BY <1>0
    <3>. HIDE DEF Upto
    <3>. QED BY <1>2, <3>1
  <2>1. PICK f \in [1..n -> Seq(T)] : \A i \in 1..n : f[i] = Step(f, i)
    BY <2>0
  <2>. DEFINE last == Step(f, n + 1)
              g == [i \in 1..(n + 1) |-> IF i = n + 1 THEN last ELSE f[i]]
  <2>2. last \in Seq(T)
    <3>1. CASE n = 0
      BY <1>0, <3>1
    <3>2. CASE n # 0
      <4>1. f[n] \in Seq(T) /\ s[n + 1] \in Seq(T)
        BY <1>0, <3>2
      <4>. QED BY <3>2, <4>1
    <3>. QED BY <3>1, <3>2
  <2>3. g \in [1..(n + 1) -> Seq(T)]
    <3>. HIDE DEF last
    <3>. QED BY <2>2
  <2>4. g[n + 1] = last /\ \A j \in 1..n : g[j] = f[j]
    <3>. HIDE DEF last
    <3>. QED OBVIOUS
  <2>5. ASSUME NEW i \in 1..(n + 1) PROVE g[i] = Step(g, i)
    <3>1. CASE i = n + 1
      <4>1. g[i] = last
        BY <2>4, <3>1
      <4>2. n # 0 => g[n] = f[n]
        BY <2>4
      <4>. HIDE DEF g
      <4>3. CASE n = 0
        BY <3>1, <4>1, <4>3
      <4>4. CASE n # 0
        BY <3>1, <4>1, <4>2, <4>4
      <4>. QED BY <4>3, <4>4
    <3>2. CASE i \in 1..n
      <4>. HIDE DEF g
      <4>1. g[i] = f[i] /\ (i # 1 => g[i - 1] = f[i - 1])
        BY <2>4, <3>2
      <4>2. f[i] = Step(f, i)
        BY <2>1, <3>2
      <4>. QED BY <4>1, <4>2
    <3>. QED BY <3>1, <3>2
  <2>. HIDE DEF g, Step
  <2>. QED BY <2>3, <2>5
<1>3. Upto(N)
  <2>1. \A n \in Nat : n \in S
    <3>. HIDE DEF S
    <3>. QED BY <1>1, <1>2, Induction
  <2>. HIDE DEF Upto
  <2>. QED BY <1>0, <2>1
<1>4. PICK f \in [1..N -> Seq(T)] : \A i \in 1..N : f[i] = Step(f, i)
  BY <1>3
<1>5. f = [i \in 1..N |-> Step(f, i)]
  <2>. HIDE DEF Step, N
  <2>. QED BY <1>4
<1>. DEFINE flatten == CHOOSE flatten :
       flatten = [i \in 1..Len(s) |-> IF i = 1 THEN s[i] ELSE flatten[i - 1] \o s[i]]
<1>6. flatten = [i \in 1..N |-> Step(flatten, i)]
  BY <1>5
<1>7. FlattenSeq(s) = flatten[N]
  BY <1>0 DEF FlattenSeq
<1>. DEFINE R == {n \in Nat : n <= N => \A i \in 1..n : flatten[i] = f[i]}
<1>8. \A i \in 1..N : flatten[i] = f[i]
  <2>. HIDE DEF flatten
  <2>0. \A i \in 1..N : flatten[i] = Step(flatten, i)
    <3>. HIDE DEF N
    <3>. QED BY <1>6
  <2>1. 0 \in R
    OBVIOUS
  <2>2. ASSUME NEW n \in Nat, n \in R PROVE n + 1 \in R
    <3>. SUFFICES ASSUME n + 1 <= N PROVE flatten[n + 1] = f[n + 1]
      BY <1>0, <2>2
    <3>1. n # 0 => flatten[n] = f[n]
      BY <1>0, <2>2
    <3>2. n + 1 \in 1..N
      BY <1>0
    <3>3. flatten[n + 1] = Step(flatten, n + 1) /\ f[n + 1] = Step(f, n + 1)
      BY <1>4, <2>0, <3>2
    <3>4. CASE n = 0
      BY <3>3, <3>4
    <3>5. CASE n # 0
      BY <3>1, <3>3, <3>5
    <3>. QED BY <3>4, <3>5
  <2>3. N \in R
    <3>. HIDE DEF R, N
    <3>. QED BY <1>0, <2>1, <2>2, Induction
  <2>. QED BY <1>0, <2>3
<1>9. Flattens(f, s)
  BY <1>4 DEF Flattens
<1>10. FlattenSeq(s) = f[Len(s)]
  <2>. HIDE DEF flatten
  <2>. QED BY <1>0, <1>7, <1>8
<1>. QED BY <1>4, <1>9, <1>10


(* A set has as many elements as an image of it under which no two fall    *)
(* together.                                                               *)
LEMMA ImageSize ==
  ASSUME NEW S, IsFiniteSet(S), NEW f, \A x, y \in S : f[x] = f[y] => x = y
  PROVE  /\ IsFiniteSet({f[x] : x \in S})
         /\ Cardinality({f[x] : x \in S}) = Cardinality(S)
<1>. DEFINE T == {f[x] : x \in S}
            g == [x \in S |-> f[x]]
<1>1. g \in Bijection(S, T)
  BY DEF Bijection, Injection, Surjection, IsInjective
<1>. HIDE DEF g, T
<1>2. ExistsBijection(S, T)
  BY <1>1 DEF ExistsBijection
<1>3. IsFiniteSet(T) /\ Cardinality(T) = Cardinality(S)
  BY <1>2, FS_Bijection
<1>. QED BY <1>3 DEF T

(* A set of numbers that are all moved by c has as many of them.           *)
LEMMA ShiftSize ==
  ASSUME NEW S \in SUBSET Int, IsFiniteSet(S), NEW c \in Int
  PROVE  /\ IsFiniteSet({c + i : i \in S})
         /\ Cardinality({c + i : i \in S}) = Cardinality(S)
<1>. DEFINE f == [i \in S |-> c + i]
<1>1. \A x, y \in S : f[x] = f[y] => x = y
  OBVIOUS
<1>2. {f[x] : x \in S} = {c + i : i \in S}
  OBVIOUS
<1>. HIDE DEF f
<1>3. IsFiniteSet({f[x] : x \in S}) /\ Cardinality({f[x] : x \in S}) = Cardinality(S)
  BY <1>1, ImageSize
<1>. QED BY <1>2, <1>3

(* The rank of an element by its key: each rank is that of just one.       *)
Below(i, S, key) == {j \in S : key[j] <= key[i]}

(* ... and the ranks are the numbers up to the size of the set.            *)
LEMMA Ranks ==
  ASSUME NEW S, IsFiniteSet(S), NEW key, \A i \in S : key[i] \in Nat,
         \A i, j \in S : key[i] = key[j] => i = j
  PROVE  /\ Cardinality(S) \in Nat
         /\ \A i \in S : Cardinality(Below(i, S, key)) \in 1..Cardinality(S)
         /\ \A i, j \in S :
              Cardinality(Below(i, S, key)) = Cardinality(Below(j, S, key)) => i = j
         /\ \A n \in 1..Cardinality(S) :
              \E i \in S : Cardinality(Below(i, S, key)) = n
<1>. DEFINE N == Cardinality(S)
            rank == [i \in S |-> Cardinality(Below(i, S, key))]
<1>1. N \in Nat
  BY FS_CardinalityType
<1>2. ASSUME NEW i \in S
      PROVE  /\ Below(i, S, key) \in SUBSET S /\ IsFiniteSet(Below(i, S, key))
             /\ Cardinality(Below(i, S, key)) \in 1..N
  <2>1. Below(i, S, key) \in SUBSET S /\ i \in Below(i, S, key)
    BY DEF Below
  <2>2. IsFiniteSet(Below(i, S, key)) /\ Cardinality(Below(i, S, key)) <= N
    BY <2>1, FS_Subset
  <2>3. Cardinality(Below(i, S, key)) \in Nat /\ Cardinality(Below(i, S, key)) # 0
    BY <2>1, <2>2, FS_CardinalityType, FS_EmptySet
  <2>. QED BY <1>1, <2>1, <2>2, <2>3
<1>3. ASSUME NEW i \in S, NEW j \in S, key[i] <= key[j],
             Cardinality(Below(i, S, key)) = Cardinality(Below(j, S, key))
      PROVE  i = j
  <2>1. Below(i, S, key) \in SUBSET Below(j, S, key)
    BY <1>3 DEF Below
  <2>2. Below(j, S, key) = Below(i, S, key)
    BY <1>2, <1>3, <2>1, FS_Subset
  <2>3. key[j] <= key[i]
    BY <2>2 DEF Below
  <2>. QED BY <1>3, <2>3
<1>4. \A i, j \in S :
        Cardinality(Below(i, S, key)) = Cardinality(Below(j, S, key)) => i = j
  <2>1. \A i, j \in S : key[i] <= key[j] \/ key[j] <= key[i]
    OBVIOUS
  <2>. QED BY <1>3, <2>1
<1>5. rank \in Injection(S, 1..N)
  BY <1>2, <1>4 DEF Injection, IsInjective
<1>6. IsFiniteSet(1..N) /\ Cardinality(1..N) = N
  BY <1>1, FS_Interval
<1>7. rank \in Surjection(S, 1..N)
  <2>. HIDE DEF rank
  <2>. QED BY <1>5, <1>6, FS_Injection
<1>8. \A n \in 1..N : \E i \in S : Cardinality(Below(i, S, key)) = n
  BY <1>7 DEF Surjection
<1>. QED BY <1>1, <1>2, <1>4, <1>8

-----------------------------------------------------------------------------
(* Texts.                                                                  *)
TextLine == [type : {"file", "mark"} \cup BodyLine, path : Nat]
File     == [path : Nat, added : Nat, removed : Nat]
Text     == Seq(TextLine)

Heads(t) == {i \in DOMAIN t : t[i].type = "file"}
Until(t, h) == {i \in Heads(t) : i <= h}

OfTypes(t, h, types) == {j \in Counted(t, h) : t[j].type \in types}
Entry(t, h) ==
  [path    |-> t[h].path,
   added   |-> Cardinality(OfTypes(t, h, {"plus", "plus3"})),
   removed |-> Cardinality(OfTypes(t, h, {"minus", "minus3"}))]

(* There are finitely many lines that name a file.                         *)
LEMMA HeadsFinite ==
  ASSUME NEW t \in Text
  PROVE  /\ Heads(t) \in SUBSET (1..Len(t)) /\ IsFiniteSet(Heads(t))
         /\ Cardinality(Heads(t)) \in Nat
<1>1. Len(t) \in Nat /\ DOMAIN t = 1..Len(t)
  BY DEF Text
<1>2. IsFiniteSet(1..Len(t)) /\ Heads(t) \in SUBSET (1..Len(t))
  BY <1>1, FS_Interval DEF Heads
<1>. QED BY <1>2, FS_Subset, FS_CardinalityType

(* The "file" lines of a text, counted from its beginning.                 *)
LEMMA HeadRanks ==
  ASSUME NEW t \in Text
  PROVE  /\ \A h \in Heads(t) : Cardinality(Until(t, h)) \in 1..Cardinality(Heads(t))
         /\ \A g, h \in Heads(t) :
              Cardinality(Until(t, g)) = Cardinality(Until(t, h)) => g = h
         /\ \A n \in 1..Cardinality(Heads(t)) :
              \E h \in Heads(t) : Cardinality(Until(t, h)) = n
<1>. DEFINE H == Heads(t)
            key == [i \in H |-> i]
<1>1. \A h \in H : Below(h, H, key) = Until(t, h)
  BY DEF Below, Until
<1>2. /\ IsFiniteSet(H) /\ \A i \in H : key[i] \in Nat
      /\ \A i, j \in H : key[i] = key[j] => i = j
  BY HeadsFinite
<1>. HIDE DEF key, H
<1>3. /\ \A h \in H : Cardinality(Below(h, H, key)) \in 1..Cardinality(H)
      /\ \A g, h \in H : Cardinality(Below(g, H, key)) = Cardinality(Below(h, H, key)) => g = h
      /\ \A n \in 1..Cardinality(H) : \E h \in H : Cardinality(Below(h, H, key)) = n
  BY <1>2, Ranks
<1>4. /\ \A h \in H : Cardinality(Until(t, h)) \in 1..Cardinality(H)
      /\ \A g, h \in H : Cardinality(Until(t, g)) = Cardinality(Until(t, h)) => g = h
      /\ \A n \in 1..Cardinality(H) : \E h \in H : Cardinality(Until(t, h)) = n
  BY <1>1, <1>3
<1>. QED BY <1>4 DEF H

(* What stands for the file of a "file" line has the type of a file.       *)
LEMMA EntryType ==
  ASSUME NEW t \in Text, NEW h \in Heads(t)
  PROVE  Entry(t, h) \in File
<1>1. h \in 1..Len(t) /\ t[h] \in TextLine
  BY DEF Heads, Text
<1>2. ASSUME NEW types PROVE Cardinality(OfTypes(t, h, types)) \in Nat
  <2>1. Len(t) \in Nat /\ IsFiniteSet(1..Len(t))
    BY FS_Interval DEF Text
  <2>2. OfTypes(t, h, types) \in SUBSET (1..Len(t))
    BY <1>1, <2>1 DEF OfTypes, Counted
  <2>. QED BY <2>1, <2>2, FS_Subset, FS_CardinalityType
<1>. QED BY <1>1, <1>2 DEF Entry, File, TextLine

(* parseApplyPatch finds one file for each "file" line, in their order.    *)
LEMMA ParseFinds ==
  ASSUME NEW t \in Text
  PROVE  /\ ParseApplyPatch(t) \in Seq(File)
         /\ Len(ParseApplyPatch(t)) = Cardinality(Heads(t))
         /\ \A h \in Heads(t) : ParseApplyPatch(t)[Cardinality(Until(t, h))] = Entry(t, h)
<1>. DEFINE Nth(n) == CHOOSE h \in Heads(t) : Cardinality(Until(t, h)) = n
            N == Cardinality(Heads(t))
<1>1. ParseApplyPatch(t) = [n \in 1..N |-> Entry(t, Nth(n))]
  BY DEF ParseApplyPatch, Heads, Until, Entry, OfTypes
<1>2. \A n \in 1..N : Nth(n) \in Heads(t) /\ Cardinality(Until(t, Nth(n))) = n
  BY HeadRanks
<1>3. \A h \in Heads(t) : /\ Cardinality(Until(t, h)) \in 1..N
                          /\ Nth(Cardinality(Until(t, h))) = h
  BY HeadRanks
<1>4. N \in Nat
  BY HeadsFinite
<1>. HIDE DEF N, Nth
<1>5. \A n \in 1..N : Entry(t, Nth(n)) \in File
  BY <1>2, EntryType
<1>6. ParseApplyPatch(t) \in Seq(File) /\ Len(ParseApplyPatch(t)) = N
  BY <1>1, <1>4, <1>5
<1>7. ASSUME NEW h \in Heads(t)
      PROVE  ParseApplyPatch(t)[Cardinality(Until(t, h))] = Entry(t, h)
  BY <1>1, <1>3
<1>. QED BY <1>6, <1>7 DEF N

-----------------------------------------------------------------------------
(* A text after a text.                                                    *)

(* Nothing of v counts for a file of u.                                    *)
Cuts(u, v) ==
  \/ Heads(u) = {}
  \/ v = <<>>
  \/ v[1].type \in {"file", "mark"}
  \/ u[Len(u)].type = "mark"

(* The lines of two texts, one after the other.                            *)
LEMMA TextConcat ==
  ASSUME NEW u \in Text, NEW v \in Text
  PROVE  /\ u \o v \in Text /\ Len(u \o v) = Len(u) + Len(v)
         /\ Len(u) \in Nat /\ Len(v) \in Nat
         /\ DOMAIN (u \o v) = 1..(Len(u) + Len(v))
         /\ DOMAIN u = 1..Len(u) /\ DOMAIN v = 1..Len(v)
         /\ \A i \in 1..Len(u) : (u \o v)[i] = u[i]
         /\ \A i \in 1..Len(v) : (u \o v)[Len(u) + i] = v[i]
BY DEF Text

(* The "file" lines of both, and how many there are up to each.            *)
LEMMA HeadsConcat ==
  ASSUME NEW u \in Text, NEW v \in Text
  PROVE  /\ Heads(u \o v) = Heads(u) \cup {Len(u) + i : i \in Heads(v)}
         /\ Cardinality(Heads(u \o v)) = Cardinality(Heads(u)) + Cardinality(Heads(v))
         /\ \A h \in Heads(u) : Until(u \o v, h) = Until(u, h)
         /\ \A h \in Heads(v) :
              Cardinality(Until(u \o v, Len(u) + h))
                = Cardinality(Heads(u)) + Cardinality(Until(v, h))
<1>. DEFINE w == u \o v
            m == Len(u)
            Shift(S) == {m + i : i \in S}
<1>0. /\ m \in Nat /\ Len(v) \in Nat
      /\ DOMAIN w = 1..(m + Len(v)) /\ DOMAIN u = 1..m /\ DOMAIN v = 1..Len(v)
      /\ \A i \in 1..m : w[i] = u[i]
      /\ \A i \in 1..Len(v) : w[m + i] = v[i]
  BY TextConcat
<1>1. /\ Heads(u) \in SUBSET (1..m) /\ Heads(v) \in SUBSET (1..Len(v))
      /\ IsFiniteSet(Heads(u)) /\ IsFiniteSet(Heads(v))
      /\ Cardinality(Heads(u)) \in Nat /\ Cardinality(Heads(v)) \in Nat
  BY HeadsFinite
<1>. HIDE DEF w, m
<1>2. Heads(w) = Heads(u) \cup Shift(Heads(v))
  <2>1. ASSUME NEW i \in Heads(w) PROVE i \in Heads(u) \cup Shift(Heads(v))
    <3>1. i \in 1..(m + Len(v)) /\ w[i].type = "file"
      BY <1>0 DEF Heads
    <3>2. CASE i <= m
      BY <1>0, <3>1, <3>2 DEF Heads
    <3>3. CASE i > m
      <4>1. i - m \in 1..Len(v) /\ i = m + (i - m)
        BY <1>0, <3>1, <3>3
      <4>2. w[m + (i - m)] = v[i - m]
        BY <1>0, <4>1
      <4>3. i - m \in Heads(v)
        BY <1>0, <3>1, <4>1, <4>2 DEF Heads
      <4>. QED BY <4>1, <4>3
    <3>. QED BY <1>0, <3>1, <3>2, <3>3
  <2>2. ASSUME NEW i \in Heads(u) PROVE i \in Heads(w)
    BY <1>0 DEF Heads
  <2>3. ASSUME NEW i \in Heads(v) PROVE m + i \in Heads(w)
    BY <1>0 DEF Heads
  <2>. QED BY <2>1, <2>2, <2>3
<1>3. ASSUME NEW S \in SUBSET Heads(v)
      PROVE  /\ IsFiniteSet(Shift(S)) /\ Cardinality(Shift(S)) = Cardinality(S)
             /\ Cardinality(Heads(u) \cup Shift(S)) = Cardinality(Heads(u)) + Cardinality(S)
  <2>1. IsFiniteSet(S) /\ S \in SUBSET Int /\ m \in Int
    BY <1>0, <1>1, FS_Subset
  <2>2. IsFiniteSet(Shift(S)) /\ Cardinality(Shift(S)) = Cardinality(S)
    BY <2>1, ShiftSize
  <2>3. Heads(u) \cap Shift(S) = {}
    BY <1>0, <1>1
  <2>4. Cardinality(S) \in Nat
    BY <2>1, FS_CardinalityType
  <2>. HIDE DEF Shift
  <2>5. Cardinality(Heads(u) \cup Shift(S))
          = Cardinality(Heads(u)) + Cardinality(Shift(S)) - Cardinality(Heads(u) \cap Shift(S))
    BY <1>1, <2>2, FS_Union
  <2>6. Cardinality(Heads(u) \cap Shift(S)) = 0
    BY <2>3, FS_EmptySet
  <2>7. Cardinality(Heads(u) \cup Shift(S)) = Cardinality(Heads(u)) + Cardinality(S)
    BY <1>1, <2>2, <2>4, <2>5, <2>6
  <2>. QED BY <2>2, <2>7
<1>4. Cardinality(Heads(w)) = Cardinality(Heads(u)) + Cardinality(Heads(v))
  BY <1>2, <1>3
<1>5. ASSUME NEW h \in Heads(u) PROVE Until(w, h) = Until(u, h)
  <2>1. \A i \in Shift(Heads(v)) : ~(i <= h)
    BY <1>0, <1>1
  <2>. QED BY <1>2, <2>1 DEF Until
<1>6. ASSUME NEW h \in Heads(v)
      PROVE  Cardinality(Until(w, m + h)) = Cardinality(Heads(u)) + Cardinality(Until(v, h))
  <2>1. Until(w, m + h) = Heads(u) \cup Shift(Until(v, h))
    <3>1. \A i \in Heads(u) : i <= m + h
      BY <1>0, <1>1
    <3>2. \A i \in Heads(v) : m + i <= m + h <=> i <= h
      BY <1>0, <1>1
    <3>. QED BY <1>2, <3>1, <3>2 DEF Until
  <2>2. Until(v, h) \in SUBSET Heads(v)
    BY DEF Until
  <2>. QED BY <1>3, <2>1, <2>2
<1>. QED BY <1>2, <1>4, <1>5, <1>6 DEF w, m

(* The file of each "file" line is the same as in its own text, where      *)
(* nothing of the second text counts for a file of the first (Cuts).       *)
LEMMA EntryConcat ==
  ASSUME NEW u \in Text, NEW v \in Text
  PROVE  /\ Cuts(u, v) => \A h \in Heads(u) : Entry(u \o v, h) = Entry(u, h)
         /\ \A h \in Heads(v) : Entry(u \o v, Len(u) + h) = Entry(v, h)
<1>. DEFINE w == u \o v
            m == Len(u)
<1>0. /\ m \in Nat /\ Len(v) \in Nat /\ Len(w) = m + Len(v)
      /\ DOMAIN u = 1..m /\ DOMAIN v = 1..Len(v)
      /\ \A i \in 1..m : w[i] = u[i]
      /\ \A i \in 1..Len(v) : w[m + i] = v[i]
  BY TextConcat
<1>1. /\ Heads(u) \in SUBSET (1..m) /\ Heads(v) \in SUBSET (1..Len(v))
  BY HeadsFinite
<1>. HIDE DEF w
<1>2. ASSUME Cuts(u, v), NEW h \in Heads(u) PROVE Entry(w, h) = Entry(u, h)
  <2>1. h \in 1..m /\ u[h].type = "file"
    BY <1>1 DEF Heads
  <2>2. Counted(w, h) \subseteq Counted(u, h)
    <3>. SUFFICES ASSUME NEW j \in Counted(w, h) PROVE j \in Counted(u, h)
      OBVIOUS
    <3>1. /\ j \in (h + 1)..(m + Len(v))
          /\ \A k \in (h + 1)..j : w[k].type \notin {"file", "mark"}
      BY <1>0 DEF Counted
    <3>2. CASE j <= m
      BY <1>0, <2>1, <3>1, <3>2 DEF Counted
    <3>3. CASE j > m
      <4>1. v # <<>> /\ 1 \in 1..Len(v) /\ m + 1 \in (h + 1)..j /\ w[m + 1] = v[1]
        BY <1>0, <2>1, <3>1, <3>3
      <4>2. v[1].type \notin {"file", "mark"}
        BY <3>1, <4>1
      <4>3. u[m].type = "mark"
        BY <1>2, <4>1, <4>2 DEF Cuts
      <4>4. m \in (h + 1)..j /\ w[m] = u[m]
        BY <1>0, <2>1, <3>1, <3>3, <4>3
      <4>. QED BY <3>1, <4>3, <4>4
    <3>. QED BY <1>0, <3>1, <3>2, <3>3
  <2>3. Counted(u, h) \subseteq Counted(w, h)
    BY <1>0, <2>1 DEF Counted
  <2>4. \A j \in Counted(u, h) : w[j] = u[j]
    BY <1>0, <2>1 DEF Counted
  <2>5. ASSUME NEW types PROVE OfTypes(w, h, types) = OfTypes(u, h, types)
    BY <2>2, <2>3, <2>4 DEF OfTypes
  <2>6. w[h] = u[h]
    BY <1>0, <2>1
  <2>. QED BY <2>5, <2>6 DEF Entry
<1>3. ASSUME NEW h \in Heads(v) PROVE Entry(w, m + h) = Entry(v, h)
  <2>1. h \in 1..Len(v) /\ w[m + h] = v[h]
    BY <1>0, <1>1
  <2>2. \A j \in (h + 1)..Len(v) : w[m + j] = v[j]
    BY <1>0, <2>1
  <2>3. ASSUME NEW j \in (h + 1)..Len(v)
        PROVE  m + j \in Counted(w, m + h) <=> j \in Counted(v, h)
    <3>1. m + j \in (m + h + 1)..Len(w)
      BY <1>0, <2>1
    <3>2. ASSUME NEW k \in (h + 1)..j
          PROVE  m + k \in (m + h + 1)..(m + j) /\ w[m + k] = v[k]
      BY <1>0, <2>1, <2>2
    <3>3. ASSUME NEW k \in (m + h + 1)..(m + j)
          PROVE  k - m \in (h + 1)..j /\ k = m + (k - m)
      BY <1>0, <2>1
    <3>4. (\A k \in (m + h + 1)..(m + j) : w[k].type \notin {"file", "mark"})
            <=> \A k \in (h + 1)..j : v[k].type \notin {"file", "mark"}
      BY <3>2, <3>3
    <3>. QED BY <3>1, <3>4 DEF Counted
  <2>4. ASSUME NEW types
        PROVE  Cardinality(OfTypes(w, m + h, types)) = Cardinality(OfTypes(v, h, types))
    <3>1. OfTypes(v, h, types) \in SUBSET (1..Len(v))
      BY <1>0, <2>1 DEF OfTypes, Counted
    <3>2. ASSUME NEW j \in OfTypes(w, m + h, types)
          PROVE  j - m \in OfTypes(v, h, types) /\ j = m + (j - m)
      <4>1. j \in Counted(w, m + h) /\ w[j].type \in types
        BY DEF OfTypes
      <4>2. j \in (m + h + 1)..(m + Len(v))
        BY <1>0, <4>1 DEF Counted
      <4>3. j - m \in (h + 1)..Len(v) /\ j = m + (j - m)
        BY <1>0, <2>1, <4>2
      <4>. QED BY <2>2, <2>3, <4>1, <4>3 DEF OfTypes
    <3>3. ASSUME NEW j \in OfTypes(v, h, types) PROVE m + j \in OfTypes(w, m + h, types)
      <4>1. j \in Counted(v, h) /\ v[j].type \in types /\ j \in (h + 1)..Len(v)
        BY DEF OfTypes, Counted
      <4>. QED BY <2>2, <2>3, <4>1 DEF OfTypes
    <3>4. OfTypes(w, m + h, types) = {m + j : j \in OfTypes(v, h, types)}
      BY <3>2, <3>3
    <3>. DEFINE S == OfTypes(v, h, types)
    <3>5. S \in SUBSET (1..Len(v)) /\ OfTypes(w, m + h, types) = {m + j : j \in S}
      BY <3>1, <3>4
    <3>. HIDE DEF S, m
    <3>6. S \in SUBSET Int /\ IsFiniteSet(1..Len(v)) /\ m \in Int
      BY <1>0, <3>5, FS_Interval
    <3>7. IsFiniteSet(S)
      BY <3>5, <3>6, FS_Subset
    <3>8. Cardinality({m + j : j \in S}) = Cardinality(S)
      BY <3>6, <3>7, ShiftSize
    <3>. QED BY <3>5, <3>8 DEF S
  <2>. QED BY <2>1, <2>4 DEF Entry
<1>. QED BY <1>2, <1>3 DEF w

(* The files of a text are those of its parts, where it is cut.            *)
LEMMA ParseConcat ==
  ASSUME NEW u \in Text, NEW v \in Text, Cuts(u, v)
  PROVE  ParseApplyPatch(u \o v) = ParseApplyPatch(u) \o ParseApplyPatch(v)
<1>. DEFINE w == u \o v
            A == ParseApplyPatch(u)
            V == ParseApplyPatch(v)
            W == ParseApplyPatch(w)
<1>1. w \in Text
  BY TextConcat
<1>2. /\ A \in Seq(File) /\ Len(A) = Cardinality(Heads(u))
      /\ V \in Seq(File) /\ Len(V) = Cardinality(Heads(v))
      /\ W \in Seq(File) /\ Len(W) = Len(A) + Len(V)
      /\ Len(A) \in Nat /\ Len(V) \in Nat
  <2>1. /\ A \in Seq(File) /\ Len(A) = Cardinality(Heads(u))
        /\ V \in Seq(File) /\ Len(V) = Cardinality(Heads(v))
        /\ W \in Seq(File) /\ Len(W) = Cardinality(Heads(w))
    BY <1>1, ParseFinds
  <2>2. /\ Cardinality(Heads(u)) \in Nat /\ Cardinality(Heads(v)) \in Nat
        /\ Cardinality(Heads(w)) = Cardinality(Heads(u)) + Cardinality(Heads(v))
    BY HeadsConcat, HeadsFinite
  <2>. HIDE DEF A, V, W
  <2>. QED BY <2>1, <2>2
<1>3. ASSUME NEW n \in 1..Len(A) PROVE W[n] = A[n]
  <2>1. PICK h \in Heads(u) : Cardinality(Until(u, h)) = n
    BY <1>2, HeadRanks
  <2>2. h \in Heads(w) /\ Until(w, h) = Until(u, h) /\ Entry(w, h) = Entry(u, h)
    BY HeadsConcat, EntryConcat
  <2>3. A[n] = Entry(u, h)
    BY <2>1, ParseFinds
  <2>4. W[n] = Entry(w, h)
    BY <1>1, <2>1, <2>2, ParseFinds
  <2>. QED BY <2>2, <2>3, <2>4
<1>4. ASSUME NEW n \in 1..Len(V) PROVE W[Len(A) + n] = V[n]
  <2>1. PICK h \in Heads(v) : Cardinality(Until(v, h)) = n
    BY <1>2, HeadRanks
  <2>2. /\ Len(u) + h \in Heads(w) /\ Entry(w, Len(u) + h) = Entry(v, h)
        /\ Cardinality(Until(w, Len(u) + h)) = Len(A) + n
    BY <1>2, <2>1, HeadsConcat, EntryConcat
  <2>3. V[n] = Entry(v, h)
    BY <2>1, ParseFinds
  <2>4. W[Len(A) + n] = Entry(w, Len(u) + h)
    BY <1>1, <2>2, ParseFinds
  <2>. QED BY <2>2, <2>3, <2>4
<1>. HIDE DEF A, V, W
<1>5. \A n \in 1..(Len(A) + Len(V)) : W[n] = (A \o V)[n]
  <2>. SUFFICES ASSUME NEW n \in 1..(Len(A) + Len(V)) PROVE W[n] = (A \o V)[n]
    OBVIOUS
  <2>1. CASE n <= Len(A)
    BY <1>2, <1>3, <2>1
  <2>2. CASE n > Len(A)
    <3>1. n - Len(A) \in 1..Len(V) /\ n = Len(A) + (n - Len(A))
      BY <1>2, <2>2
    <3>2. W[n] = V[n - Len(A)]
      BY <1>4, <3>1
    <3>. QED BY <1>2, <2>2, <3>2
  <2>. QED BY <1>2, <2>1, <2>2
<1>6. W = A \o V
  <2>1. A \o V \in Seq(File) /\ Len(A \o V) = Len(A) + Len(V)
    BY <1>2
  <2>2. Len(W) = Len(A \o V) /\ \A n \in 1..Len(W) : W[n] = (A \o V)[n]
    BY <1>2, <1>5, <2>1
  <2>. QED BY <1>2, <2>1, <2>2, SeqEqual
<1>. QED BY <1>6 DEF W, A, V

-----------------------------------------------------------------------------
(* The text of a section.                                                  *)

(* A text without "file" lines has no files.                               *)
LEMMA NoFiles ==
  ASSUME NEW t \in Text, Heads(t) = {}
  PROVE  ParseApplyPatch(t) = <<>>
<1>1. ParseApplyPatch(t) \in Seq(File) /\ Len(ParseApplyPatch(t)) = 0
  BY ParseFinds, FS_EmptySet
<1>. QED BY <1>1

(* A text of lines that name no file.                                      *)
LEMMA UnnamedText ==
  ASSUME NEW types \in Seq({"mark"} \cup BodyLine)
  PROVE  /\ Unnamed(types) \in Text /\ Len(Unnamed(types)) = Len(types)
         /\ \A i \in 1..Len(types) : Unnamed(types)[i].type = types[i]
         /\ Heads(Unnamed(types)) = {}
<1>. DEFINE t == Unnamed(types)
<1>1. \A i \in 1..Len(types) : types[i] \in {"mark"} \cup BodyLine /\ types[i] # "file"
  BY DEF BodyLine
<1>2. t = [i \in 1..Len(types) |-> Named(types[i], 0)]
  BY DEF Unnamed
<1>3. \A i \in 1..Len(types) : Named(types[i], 0) \in TextLine
  BY <1>1 DEF Named, TextLine
<1>4. Len(types) \in Nat
  OBVIOUS
<1>. HIDE DEF t
<1>5. t \in Text /\ Len(t) = Len(types) /\ DOMAIN t = 1..Len(types)
  BY <1>2, <1>3, <1>4 DEF Text
<1>6. \A i \in 1..Len(types) : t[i].type = types[i]
  BY <1>2 DEF Named
<1>7. Heads(t) = {}
  BY <1>1, <1>5, <1>6 DEF Heads
<1>. QED BY <1>5, <1>6, <1>7 DEF t

MarkText == Unnamed(<<"mark">>)

(* The first line and the last one of an envelope.                         *)
LEMMA MarkIsText ==
  /\ MarkText \in Text /\ Len(MarkText) = 1 /\ MarkText[1].type = "mark"
  /\ Heads(MarkText) = {} /\ ParseApplyPatch(MarkText) = <<>>
<1>1. <<"mark">> \in Seq({"mark"} \cup BodyLine) /\ Len(<<"mark">>) = 1
  OBVIOUS
<1>2. MarkText \in Text /\ Len(MarkText) = 1 /\ MarkText[1].type = "mark" /\ Heads(MarkText) = {}
  <2>1. /\ MarkText \in Text /\ Len(MarkText) = Len(<<"mark">>) /\ Heads(MarkText) = {}
        /\ \A i \in 1..Len(<<"mark">>) : MarkText[i].type = <<"mark">>[i]
    BY <1>1, UnnamedText DEF MarkText
  <2>. QED BY <1>1, <2>1
<1>. QED BY <1>2, NoFiles

(* What parseApplyPatch makes of one section.                              *)
Body(s, types) == {i \in DOMAIN s.body : s.body[i] \in types}

Piece(s) ==
  [path    |-> s.path,
   added   |-> IF s.kind = "move" THEN 0 ELSE Added(s),
   removed |-> IF s.kind = "move" THEN 0 ELSE Removed(s)]

(* The lines of a kind in the body of a section.                           *)
LEMMA BodyFinite ==
  ASSUME NEW s \in Section, NEW types
  PROVE  /\ Body(s, types) \in SUBSET (1..Len(s.body)) /\ IsFiniteSet(Body(s, types))
         /\ Cardinality(Body(s, types)) \in Nat
<1>1. Len(s.body) \in Nat /\ DOMAIN s.body = 1..Len(s.body)
  BY DEF Section
<1>2. IsFiniteSet(1..Len(s.body)) /\ Body(s, types) \in SUBSET (1..Len(s.body))
  BY <1>1, FS_Interval DEF Body
<1>. QED BY <1>2, FS_Subset, FS_CardinalityType

(* The text of a section begins with a line that ends the section before,  *)
(* and holds its one file, or none where the file is deleted. A "mark"     *)
(* after the header of a moved file cuts its lines off (codex.go:425-431). *)
LEMMA SectionParse ==
  ASSUME NEW s \in Section
  PROVE  /\ SectionText(s) \in Text /\ SectionText(s) # <<>>
         /\ SectionText(s)[1].type \in {"file", "mark"}
         /\ Piece(s) \in File
         /\ ParseApplyPatch(SectionText(s)) = IF s.kind = "delete" THEN <<>> ELSE <<Piece(s)>>
<1>0. s.body \in Seq(BodyLine) /\ s.path \in Nat
  BY DEF Section
<1>1. Piece(s) \in File
  <2>1. Added(s) \in Nat /\ Removed(s) \in Nat
    BY BodyFinite DEF Added, Removed, Body
  <2>. QED BY <1>0, <2>1 DEF Piece, File
<1>2. CASE s.kind = "delete"
  <2>1. SectionText(s) = MarkText
    BY <1>2 DEF SectionText, MarkText
  <2>2. MarkText # <<>>
    BY MarkIsText
  <2>. QED BY <1>1, <1>2, <2>1, <2>2, MarkIsText
<1>3. CASE s.kind # "delete"
  <2>. DEFINE head == <<Named("file", s.path)>>
              lead == IF s.kind = "move" THEN <<"mark", "context">> ELSE <<"context">>
              types == lead \o s.body
              rest == Unnamed(types)
              t == head \o rest
  <2>1. SectionText(s) = t
    BY <1>3 DEF SectionText, Section
  <2>2. /\ lead \in Seq({"mark"} \cup BodyLine) /\ types \in Seq({"mark"} \cup BodyLine)
        /\ Len(types) = Len(lead) + Len(s.body)
        /\ \A i \in 1..Len(s.body) : types[Len(lead) + i] = s.body[i]
        /\ \A i \in 1..Len(lead) : types[i] = lead[i]
    <3>. DEFINE X == {"mark"} \cup BodyLine
    <3>1. "mark" \in X /\ "context" \in X /\ BodyLine \subseteq X
      BY DEF BodyLine
    <3>. HIDE DEF X
    <3>2. <<"mark", "context">> \in Seq(X) /\ <<"context">> \in Seq(X)
      BY <3>1
    <3>3. s.body \in Seq(X)
      BY <1>0, <3>1, SeqMonotonic
    <3>4. lead \in Seq(X)
      BY <3>2
    <3>. HIDE DEF lead
    <3>. QED BY <3>3, <3>4 DEF X
  <2>3. head \in Text /\ Len(head) = 1 /\ head[1].type = "file" /\ head[1].path = s.path
    BY <1>0 DEF Named, TextLine, Text
  <2>4. /\ rest \in Text /\ Len(rest) = Len(types) /\ Heads(rest) = {}
        /\ \A i \in 1..Len(types) : rest[i].type = types[i]
    <3>. HIDE DEF types
    <3>. QED BY <2>2, UnnamedText
  <2>. HIDE DEF head, rest, types
  <2>5. /\ t \in Text /\ Len(t) = 1 + Len(types) /\ t[1] = head[1]
        /\ \A i \in 1..Len(types) : t[1 + i].type = types[i]
        /\ Len(types) \in Nat /\ DOMAIN t = 1..(1 + Len(types))
    <3>1. /\ t \in Text /\ Len(t) = Len(head) + Len(rest) /\ Len(rest) \in Nat
          /\ \A i \in 1..Len(head) : t[i] = head[i]
          /\ \A i \in 1..Len(rest) : t[Len(head) + i] = rest[i]
      BY <2>3, <2>4, TextConcat
    <3>2. DOMAIN t = 1..Len(t)
      BY <3>1 DEF Text
    <3>. HIDE DEF t
    <3>. QED BY <2>3, <2>4, <3>1, <3>2
  <2>6. Heads(t) = {1}
    <3>1. 1 \in Heads(t)
      BY <2>3, <2>5 DEF Heads
    <3>2. ASSUME NEW i \in Heads(t), i # 1 PROVE FALSE
      <4>1. i - 1 \in 1..Len(types) /\ i = 1 + (i - 1)
        BY <2>5, <3>2 DEF Heads
      <4>2. rest[i - 1].type = "file"
        BY <2>4, <2>5, <4>1 DEF Heads
      <4>. QED BY <2>4, <4>1, <4>2 DEF Heads, Text
    <3>. QED BY <3>1, <3>2
  <2>. HIDE DEF t, lead
  <2>7. ASSUME NEW T, T \subseteq BodyLine \ {"context"}
        PROVE  Cardinality(OfTypes(t, 1, T))
                 = IF s.kind = "move" THEN 0 ELSE Cardinality(Body(s, T))
    <3>1. CASE s.kind = "move"
      <4>1. t[2].type = "mark"
        <5>1. lead = <<"mark", "context">>
          BY <3>1 DEF lead
        <5>2. types[1] = "mark" /\ 1 \in 1..Len(types)
          BY <2>2, <5>1
        <5>. QED BY <2>5, <5>2
      <4>2. OfTypes(t, 1, T) = {}
        BY <4>1 DEF OfTypes, Counted
      <4>. QED BY <3>1, <4>2, FS_EmptySet
    <3>2. CASE s.kind # "move"
      <4>1. lead = <<"context">> /\ Len(lead) = 1 /\ Len(s.body) \in Nat
        BY <1>0, <3>2 DEF lead
      <4>2. /\ t[2].type = "context" /\ Len(t) = 2 + Len(s.body)
            /\ \A i \in 1..Len(s.body) : t[2 + i].type = s.body[i]
        <5>1. types[1] = "context" /\ 1 \in 1..Len(types) /\ Len(types) = 1 + Len(s.body)
          BY <2>2, <4>1
        <5>2. ASSUME NEW i \in 1..Len(s.body) PROVE t[2 + i].type = s.body[i]
          <6>1. types[1 + i] = s.body[i] /\ 1 + i \in 1..Len(types)
            BY <2>2, <4>1, <5>1
          <6>2. t[1 + (1 + i)].type = s.body[i] /\ 1 + (1 + i) = 2 + i
            BY <2>5, <6>1
          <6>. QED BY <6>2
        <5>3. t[1 + 1].type = "context"
          BY <2>5, <5>1
        <5>. QED BY <2>5, <4>1, <5>1, <5>2, <5>3
      <4>3. \A k \in 2..Len(t) : t[k].type \in BodyLine
        <5>1. ASSUME NEW k \in 2..Len(t), k # 2 PROVE t[k].type \in BodyLine
          <6>1. k - 2 \in 1..Len(s.body) /\ 2 + (k - 2) = k
            BY <4>1, <4>2, <5>1
          <6>2. t[2 + (k - 2)].type = s.body[k - 2] /\ s.body[k - 2] \in BodyLine
            BY <1>0, <4>2, <6>1
          <6>. QED BY <6>1, <6>2
        <5>. QED BY <4>2, <5>1 DEF BodyLine
      <4>4. Counted(t, 1) = 2..Len(t)
        <5>1. \A k \in 2..Len(t) : t[k].type \notin {"file", "mark"}
          BY <4>3 DEF BodyLine
        <5>2. Len(t) \in Nat
          BY <2>5
        <5>3. Counted(t, 1) = {j \in 2..Len(t) : \A k \in 2..j : t[k].type \notin {"file", "mark"}}
          BY DEF Counted
        <5>4. \A j \in 2..Len(t) : \A k \in 2..j : k \in 2..Len(t)
          BY <5>2
        <5>. QED BY <5>1, <5>3, <5>4
      <4>5. OfTypes(t, 1, T) = {2 + i : i \in Body(s, T)}
        <5>1. ASSUME NEW j \in OfTypes(t, 1, T)
              PROVE  j - 2 \in Body(s, T) /\ j = 2 + (j - 2)
          <6>1. j \in 2..Len(t) /\ t[j].type \in T /\ j # 2
            BY <2>7, <4>2, <4>4 DEF OfTypes
          <6>2. j - 2 \in 1..Len(s.body) /\ j = 2 + (j - 2)
            BY <4>1, <4>2, <6>1
          <6>3. s.body[j - 2] = t[2 + (j - 2)].type
            BY <4>2, <6>2
          <6>. QED BY <1>0, <6>1, <6>2, <6>3 DEF Body
        <5>2. ASSUME NEW i \in Body(s, T) PROVE 2 + i \in OfTypes(t, 1, T)
          <6>1. i \in 1..Len(s.body) /\ s.body[i] \in T
            BY <1>0 DEF Body
          <6>2. 2 + i \in 2..Len(t) /\ t[2 + i].type \in T
            BY <4>1, <4>2, <6>1
          <6>. QED BY <4>4, <6>2 DEF OfTypes
        <5>. QED BY <5>1, <5>2
      <4>6. Body(s, T) \in SUBSET Int /\ IsFiniteSet(Body(s, T)) /\ 2 \in Int
        BY BodyFinite
      <4>7. Cardinality({2 + i : i \in Body(s, T)}) = Cardinality(Body(s, T))
        BY <4>6, ShiftSize
      <4>. QED BY <3>2, <4>5, <4>7
    <3>. QED BY <3>1, <3>2
  <2>8. Entry(t, 1) = Piece(s)
    <3>1. /\ {"plus", "plus3"} \subseteq BodyLine \ {"context"}
          /\ {"minus", "minus3"} \subseteq BodyLine \ {"context"}
      BY DEF BodyLine
    <3>. QED BY <2>3, <2>5, <2>7, <3>1 DEF Entry, Piece, Added, Removed, Body
  <2>9. ParseApplyPatch(t) = <<Piece(s)>>
    <3>1. Until(t, 1) = {1} /\ Cardinality({1}) = 1
      <4>1. Until(t, 1) = {1}
        BY <2>6 DEF Until
      <4>. QED BY <4>1, FS_Singleton
    <3>2. Len(ParseApplyPatch(t)) = 1 /\ ParseApplyPatch(t)[1] = Piece(s)
      <4>1. /\ Len(ParseApplyPatch(t)) = Cardinality(Heads(t))
            /\ \A h \in Heads(t) :
                 ParseApplyPatch(t)[Cardinality(Until(t, h))] = Entry(t, h)
        BY <2>5, ParseFinds
      <4>2. 1 \in Heads(t)
        BY <2>6
      <4>. QED BY <2>6, <2>8, <3>1, <4>1, <4>2
    <3>3. ParseApplyPatch(t) \in Seq(File)
      BY <2>5, ParseFinds
    <3>. QED BY <3>2, <3>3
  <2>. QED BY <1>1, <1>3, <2>1, <2>3, <2>5, <2>9
<1>. QED BY <1>2, <1>3

-----------------------------------------------------------------------------
(* The text of a patch.                                                    *)

(* One sequence, flattened.                                                *)
LEMMA FlattenOne ==
  ASSUME NEW T, NEW x \in Seq(T)
  PROVE  FlattenSeq(<<x>>) = x
<1>1. <<x>> \in Seq(Seq(T)) /\ <<x>> # <<>> /\ Len(<<x>>) = 1 /\ <<x>>[1] = x
  OBVIOUS
<1>2. PICK f \in [1..Len(<<x>>) -> Seq(T)] :
        Flattens(f, <<x>>) /\ FlattenSeq(<<x>>) = f[Len(<<x>>)]
  BY <1>1, FlattenFunction
<1>. QED BY <1>1, <1>2 DEF Flattens

(* No sequences, flattened.                                                *)
LEMMA FlattenNone == FlattenSeq(<<>>) = <<>>
BY DEF FlattenSeq

(* Texts that begin with the header of a section, one after the other,     *)
(* hold the files of each, one after the other.                            *)
Parsed(texts) == [i \in DOMAIN texts |-> ParseApplyPatch(texts[i])]

(* By induction over the texts, with ParseConcat.                          *)
LEMMA ParseFlatten ==
  ASSUME NEW texts \in Seq(Text),
         \A i \in 1..Len(texts) : texts[i] # <<>> /\ texts[i][1].type \in {"file", "mark"}
  PROVE  /\ FlattenSeq(texts) \in Text
         /\ Parsed(texts) \in Seq(Seq(File)) /\ Len(Parsed(texts)) = Len(texts)
         /\ ParseApplyPatch(FlattenSeq(texts)) = FlattenSeq(Parsed(texts))
<1>. DEFINE N == Len(texts)
            P == Parsed(texts)
<1>0. N \in Nat /\ DOMAIN texts = 1..N /\ \A i \in 1..N : texts[i] \in Text
  OBVIOUS
<1>1. /\ P \in Seq(Seq(File)) /\ Len(P) = N
      /\ \A i \in 1..N : P[i] = ParseApplyPatch(texts[i])
  <2>1. P = [i \in 1..N |-> ParseApplyPatch(texts[i])]
    BY <1>0 DEF Parsed
  <2>2. \A i \in 1..N : ParseApplyPatch(texts[i]) \in Seq(File)
    BY <1>0, ParseFinds
  <2>. HIDE DEF N, P
  <2>. QED BY <1>0, <2>1, <2>2
<1>2. CASE texts = <<>>
  <2>1. P = <<>>
    BY <1>1, <1>2
  <2>2. <<>> \in Text /\ Heads(<<>>) = {}
    BY DEF Text, Heads
  <2>. QED BY <1>1, <1>2, <2>1, <2>2, FlattenNone, NoFiles
<1>3. CASE texts # <<>>
  <2>1. P # <<>>
    BY <1>1, <1>3
  <2>. HIDE DEF P
  <2>2. PICK f \in [1..N -> Text] : Flattens(f, texts) /\ FlattenSeq(texts) = f[N]
    <3>1. texts \in Seq(Seq(TextLine))
      BY DEF Text
    <3>. QED BY <1>3, <3>1, FlattenFunction DEF Text
  <2>3. PICK g \in [1..N -> Seq(File)] : Flattens(g, P) /\ FlattenSeq(P) = g[N]
    BY <1>1, <2>1, FlattenFunction
  <2>. HIDE DEF N
  <2>4. \A i \in 1..N : f[i] = IF i = 1 THEN texts[i] ELSE f[i - 1] \o texts[i]
    BY <2>2 DEF Flattens, N
  <2>5. \A i \in 1..N : g[i] = IF i = 1 THEN P[i] ELSE g[i - 1] \o P[i]
    BY <1>1, <2>3 DEF Flattens
  <2>. DEFINE S == {n \in Nat : n \in 1..N => ParseApplyPatch(f[n]) = g[n]}
  <2>6. 0 \in S
    OBVIOUS
  <2>7. ASSUME NEW n \in Nat, n \in S PROVE n + 1 \in S
    <3>. SUFFICES ASSUME n + 1 \in 1..N PROVE ParseApplyPatch(f[n + 1]) = g[n + 1]
      OBVIOUS
    <3>1. CASE n = 0
      <4>1. f[1] = texts[1] /\ g[1] = P[1] /\ 1 \in 1..N
        <5>1. 1 \in 1..N
          BY <3>1
        <5>. QED BY <2>4, <2>5, <5>1
      <4>. QED BY <1>1, <3>1, <4>1
    <3>2. CASE n # 0
      <4>1. n \in 1..N /\ ParseApplyPatch(f[n]) = g[n]
        BY <1>0, <2>7, <3>2
      <4>2. f[n + 1] = f[n] \o texts[n + 1] /\ g[n + 1] = g[n] \o P[n + 1]
        <5>1. n + 1 \in 1..N /\ n + 1 # 1 /\ (n + 1) - 1 = n
          BY <3>2
        <5>. QED BY <2>4, <2>5, <5>1
      <4>3. f[n] \in Text /\ texts[n + 1] \in Text /\ Cuts(f[n], texts[n + 1])
        BY <1>0, <2>2, <4>1 DEF Cuts, N
      <4>4. ParseApplyPatch(f[n] \o texts[n + 1])
              = ParseApplyPatch(f[n]) \o ParseApplyPatch(texts[n + 1])
        BY <4>3, ParseConcat
      <4>. QED BY <1>1, <4>1, <4>2, <4>4
    <3>. QED BY <3>1, <3>2
  <2>8. N \in 1..N
    BY <1>0, <1>3 DEF N
  <2>9. ParseApplyPatch(f[N]) = g[N]
    <3>1. \A n \in Nat : n \in S
      <4>. HIDE DEF S
      <4>. QED BY <2>6, <2>7, Induction
    <3>. QED BY <1>0, <2>8, <3>1
  <2>10. f[N] \in Text
    BY <2>2, <2>8
  <2>. QED BY <1>1, <2>2, <2>3, <2>9, <2>10 DEF P, N
<1>. QED BY <1>2, <1>3

(* The files of each section, where it stands alone.                       *)
Pieces(p) == [i \in DOMAIN p |-> IF p[i].kind = "delete" THEN <<>> ELSE <<Piece(p[i])>>]

(* Each section has one file or none.                                      *)
LEMMA PiecesType ==
  ASSUME NEW p \in Seq(Section)
  PROVE  Pieces(p) \in Seq(Seq(File)) /\ Len(Pieces(p)) = Len(p)
<1>. DEFINE x(i) == IF p[i].kind = "delete" THEN <<>> ELSE <<Piece(p[i])>>
<1>1. \A i \in 1..Len(p) : x(i) \in Seq(File)
  BY SectionParse
<1>2. Pieces(p) = [i \in 1..Len(p) |-> x(i)] /\ Len(p) \in Nat
  BY DEF Pieces
<1>. HIDE DEF x
<1>. QED BY <1>1, <1>2

(* The envelope of a patch holds the files of its sections, in their       *)
(* order.                                                                  *)
LEMMA EnvelopeParse ==
  ASSUME NEW p \in Seq(Section)
  PROVE  /\ Envelope(p) \in Text /\ Envelope(p) # <<>>
         /\ Envelope(p)[1].type = "mark" /\ Envelope(p)[Len(Envelope(p))].type = "mark"
         /\ ParseApplyPatch(Envelope(p)) = FlattenSeq(Pieces(p))
         /\ FlattenSeq(Pieces(p)) \in Seq(File)
<1>. DEFINE texts == [i \in DOMAIN p |-> SectionText(p[i])]
            F == FlattenSeq(texts)
<1>1. /\ texts \in Seq(Text) /\ Len(texts) = Len(p)
      /\ \A i \in 1..Len(texts) : texts[i] # <<>> /\ texts[i][1].type \in {"file", "mark"}
  <2>1. \A i \in 1..Len(p) : p[i] \in Section
    OBVIOUS
  <2>2. \A i \in 1..Len(p) : /\ SectionText(p[i]) \in Text /\ SectionText(p[i]) # <<>>
                             /\ SectionText(p[i])[1].type \in {"file", "mark"}
    BY <2>1, SectionParse
  <2>3. texts = [i \in 1..Len(p) |-> SectionText(p[i])] /\ Len(p) \in Nat
    OBVIOUS
  <2>. HIDE DEF texts
  <2>4. texts \in Seq(Text) /\ Len(texts) = Len(p)
    BY <2>2, <2>3
  <2>. QED BY <2>2, <2>3, <2>4
<1>2. Parsed(texts) = Pieces(p)
  <2>1. \A i \in DOMAIN p : ParseApplyPatch(SectionText(p[i]))
                              = IF p[i].kind = "delete" THEN <<>> ELSE <<Piece(p[i])>>
    BY SectionParse
  <2>. QED BY <2>1 DEF Parsed, Pieces
<1>3. Envelope(p) = (MarkText \o F) \o MarkText
  BY DEF Envelope, MarkText
<1>. HIDE DEF texts
<1>4. F \in Text /\ ParseApplyPatch(F) = FlattenSeq(Pieces(p))
  BY <1>1, <1>2, ParseFlatten
<1>. HIDE DEF F
<1>. DEFINE U == MarkText \o F
<1>5. /\ U \in Text /\ Len(U) \in Nat /\ Len(U) >= 1 /\ U[1].type = "mark"
      /\ ParseApplyPatch(U) = ParseApplyPatch(F)
  <2>1. U \in Text /\ Len(U) = 1 + Len(F) /\ Len(F) \in Nat /\ U[1] = MarkText[1]
    <3>1. /\ U \in Text /\ Len(U) = Len(MarkText) + Len(F) /\ Len(F) \in Nat
          /\ \A i \in 1..Len(MarkText) : U[i] = MarkText[i]
      BY <1>4, MarkIsText, TextConcat
    <3>. HIDE DEF U
    <3>. QED BY <3>1, MarkIsText
  <2>2. ParseApplyPatch(U) = <<>> \o ParseApplyPatch(F)
    BY <1>4, MarkIsText, ParseConcat DEF Cuts
  <2>3. ParseApplyPatch(F) \in Seq(File)
    BY <1>4, ParseFinds
  <2>. HIDE DEF U
  <2>. QED BY <2>1, <2>2, <2>3, MarkIsText
<1>. HIDE DEF U
<1>. DEFINE E1 == U \o MarkText
<1>6. /\ E1 \in Text /\ Len(E1) = Len(U) + 1
      /\ E1[1].type = "mark" /\ E1[Len(U) + 1].type = "mark"
  <2>1. /\ E1 \in Text /\ Len(E1) = Len(U) + Len(MarkText)
        /\ \A i \in 1..Len(U) : E1[i] = U[i]
        /\ \A i \in 1..Len(MarkText) : E1[Len(U) + i] = MarkText[i]
    BY <1>5, MarkIsText, TextConcat
  <2>. HIDE DEF E1
  <2>. QED BY <1>5, <2>1, MarkIsText
<1>7. ParseApplyPatch(E1) = FlattenSeq(Pieces(p)) /\ FlattenSeq(Pieces(p)) \in Seq(File)
  <2>1. ParseApplyPatch(E1) = ParseApplyPatch(U) \o <<>>
    BY <1>5, MarkIsText, ParseConcat DEF Cuts
  <2>2. ParseApplyPatch(U) \in Seq(File)
    BY <1>5, ParseFinds
  <2>. QED BY <1>4, <1>5, <2>1, <2>2
<1>8. E1 # <<>>
  BY <1>5, <1>6
<1>. QED BY <1>3, <1>6, <1>7, <1>8 DEF U

(* All ways of handing a patch over have the same files.                   *)
LEMMA CallFiles ==
  ASSUME NEW shape \in Shape \ {"edit"}, NEW p \in Seq(Section)
  PROVE  FlattenSeq(Parsed(CodexPatchEnvelopes(shape, p))) = FlattenSeq(Pieces(p))
<1>1. FlattenSeq(Pieces(p)) \in Seq(File)
  BY EnvelopeParse
<1>2. CASE shape = "apply_patch"
  <2>1. CodexPatchEnvelopes(shape, p) = <<Envelope(p)>>
    BY <1>2 DEF CodexPatchEnvelopes
  <2>2. Parsed(<<Envelope(p)>>) = <<ParseApplyPatch(Envelope(p))>>
    BY DEF Parsed
  <2>. QED BY <1>1, <2>1, <2>2, EnvelopeParse, FlattenOne
<1>3. CASE shape = "exec"
  <2>1. CodexPatchEnvelopes(shape, p) = [i \in DOMAIN p |-> Envelope(<<p[i]>>)]
    BY <1>3 DEF CodexPatchEnvelopes
  <2>2. ASSUME NEW i \in DOMAIN p
        PROVE  ParseApplyPatch(Envelope(<<p[i]>>)) = Pieces(p)[i]
    <3>. DEFINE x == IF p[i].kind = "delete" THEN <<>> ELSE <<Piece(p[i])>>
    <3>1. p[i] \in Section /\ <<p[i]>> \in Seq(Section)
      OBVIOUS
    <3>2. Pieces(<<p[i]>>) = <<x>> /\ Pieces(p)[i] = x
      BY DEF Pieces
    <3>3. x \in Seq(File)
      BY <3>1, SectionParse
    <3>. HIDE DEF x
    <3>. QED BY <3>1, <3>2, <3>3, EnvelopeParse, FlattenOne
  <2>3. Parsed([i \in DOMAIN p |-> Envelope(<<p[i]>>)])
          = [i \in DOMAIN p |-> ParseApplyPatch(Envelope(<<p[i]>>))]
    BY DEF Parsed
  <2>4. Pieces(p) = [i \in DOMAIN p |-> Pieces(p)[i]]
    BY DEF Pieces
  <2>. QED BY <2>1, <2>2, <2>3, <2>4
<1>4. CASE shape = "heredoc"
  <2>. DEFINE E1 == Envelope(p)
              V == Script \o E1
              W == V \o Script
  <2>1. CodexPatchEnvelopes(shape, p) = <<W>>
    BY <1>4 DEF CodexPatchEnvelopes
  <2>2. Script \in Text /\ Heads(Script) = {} /\ ParseApplyPatch(Script) = <<>>
        /\ Len(Script) = 3
    <3>1. <<"minus", "context", "plus">> \in Seq({"mark"} \cup BodyLine)
      BY DEF BodyLine
    <3>2. Script \in Text /\ Heads(Script) = {} /\ Len(Script) = Len(<<"minus", "context", "plus">>)
      BY <3>1, UnnamedText DEF Script
    <3>. QED BY <3>2, NoFiles
  <2>3. /\ E1 \in Text /\ E1[1].type = "mark" /\ E1[Len(E1)].type = "mark"
        /\ Len(E1) \in Nat /\ Len(E1) >= 1
        /\ ParseApplyPatch(E1) = FlattenSeq(Pieces(p))
    <3>1. E1 \in Text /\ E1 # <<>> /\ E1[1].type = "mark" /\ E1[Len(E1)].type = "mark"
          /\ ParseApplyPatch(E1) = FlattenSeq(Pieces(p))
      BY EnvelopeParse
    <3>. HIDE DEF E1
    <3>. QED BY <3>1 DEF Text
  <2>. HIDE DEF E1
  <2>4. /\ V \in Text /\ V[Len(V)].type = "mark"
        /\ ParseApplyPatch(V) = FlattenSeq(Pieces(p))
    <3>1. V \in Text /\ Len(V) = 3 + Len(E1) /\ \A i \in 1..Len(E1) : V[3 + i] = E1[i]
      <4>1. /\ V \in Text /\ Len(V) = Len(Script) + Len(E1)
            /\ \A i \in 1..Len(E1) : V[Len(Script) + i] = E1[i]
        BY <2>2, <2>3, TextConcat
      <4>. HIDE DEF V
      <4>. QED BY <2>2, <4>1
    <3>2. ParseApplyPatch(V) = <<>> \o ParseApplyPatch(E1)
      BY <2>2, <2>3, ParseConcat DEF Cuts
    <3>. HIDE DEF V
    <3>. QED BY <1>1, <2>3, <3>1, <3>2
  <2>. HIDE DEF V
  <2>5. ParseApplyPatch(W) = FlattenSeq(Pieces(p))
    <3>1. ParseApplyPatch(W) = ParseApplyPatch(V) \o <<>>
      BY <2>2, <2>4, ParseConcat DEF Cuts
    <3>. QED BY <1>1, <2>4, <3>1
  <2>. HIDE DEF W
  <2>6. Parsed(<<W>>) = <<ParseApplyPatch(W)>>
    BY DEF Parsed
  <2>. QED BY <1>1, <2>1, <2>5, <2>6, FlattenOne
<1>. QED BY <1>2, <1>3, <1>4 DEF Shape

-----------------------------------------------------------------------------
(* The files of a patch are its changes, whichever way it comes.           *)

(* The sections that have lines to count, by their places.                 *)
Kept(p) == {i \in DOMAIN p : p[i].kind # "delete"}

(* StandsFor, of the way the patch was handed over.                        *)
AddedIn(shape, s) ==
  IF shape = "edit" /\ s.kind = "add" /\ s.body = <<>> THEN 1 ELSE Added(s)

Stands(f, shape, s) ==
  /\ f.path = IF shape = "edit" THEN s.to ELSE s.path
  /\ f.added <= AddedIn(shape, s) /\ f.removed <= Removed(s)
  /\ ~(IF shape = "edit" THEN ToSet(s.body) \cap {"plus3", "minus3"} # {}
                       ELSE s.kind = "move")
       => f.added = AddedIn(shape, s) /\ f.removed = Removed(s)

Matches(files, shape, p) ==
  /\ files \in Seq(File)
  /\ \E b \in Bijection(1..Len(files), Kept(p)) :
       \A k \in 1..Len(files) : Stands(files[k], shape, p[b[k]])

(* There are finitely many of them.                                        *)
LEMMA KeptFinite ==
  ASSUME NEW p \in Seq(Section)
  PROVE  Kept(p) \in SUBSET (1..Len(p)) /\ IsFiniteSet(Kept(p)) /\ Cardinality(Kept(p)) \in Nat
<1>1. IsFiniteSet(1..Len(p)) /\ Kept(p) \in SUBSET (1..Len(p))
  BY FS_Interval DEF Kept
<1>. QED BY <1>1, FS_Subset, FS_CardinalityType

(* One more pair for a bijection.                                          *)
LEMMA BijectionGrows ==
  ASSUME NEW n \in Nat, NEW T, NEW b \in Bijection(1..n, T), NEW x, x \notin T
  PROVE  [k \in 1..(n + 1) |-> IF k = n + 1 THEN x ELSE b[k]]
           \in Bijection(1..(n + 1), T \cup {x})
<1>. DEFINE c == [k \in 1..(n + 1) |-> IF k = n + 1 THEN x ELSE b[k]]
<1>1. /\ \A k \in 1..n : b[k] \in T
      /\ \A j, k \in 1..n : b[j] = b[k] => j = k
      /\ \A t \in T : \E k \in 1..n : b[k] = t
  BY DEF Bijection, Injection, Surjection, IsInjective
<1>2. /\ c[n + 1] = x /\ \A k \in 1..n : c[k] = b[k]
      /\ DOMAIN c = 1..(n + 1) /\ \A k \in 1..(n + 1) : k = n + 1 \/ k \in 1..n
  OBVIOUS
<1>3. c \in [1..(n + 1) -> T \cup {x}]
  BY <1>1
<1>. HIDE DEF c
<1>4. \A j, k \in 1..(n + 1) : c[j] = c[k] => j = k
  BY <1>1, <1>2
<1>5. \A t \in T \cup {x} : \E k \in 1..(n + 1) : c[k] = t
  <2>1. n + 1 \in 1..(n + 1) /\ 1..n \subseteq 1..(n + 1)
    OBVIOUS
  <2>. QED BY <1>1, <1>2, <2>1
<1>6. c \in Bijection(1..(n + 1), T \cup {x})
  BY <1>3, <1>4, <1>5 DEF Bijection, Injection, Surjection, IsInjective
<1>. QED BY <1>6 DEF c

(* The files are those of the sections that have lines to count, one for   *)
(* each of them. By induction over the sections.                           *)
LEMMA FlattenPieces ==
  ASSUME NEW p \in Seq(Section)
  PROVE  \E b \in Bijection(1..Len(FlattenSeq(Pieces(p))), Kept(p)) :
           \A k \in 1..Len(FlattenSeq(Pieces(p))) : FlattenSeq(Pieces(p))[k] = Piece(p[b[k]])
<1>. DEFINE P == Pieces(p)
            N == Len(p)
<1>1. /\ P \in Seq(Seq(File)) /\ Len(P) = N /\ N \in Nat /\ DOMAIN p = 1..N
      /\ \A i \in 1..N : P[i] = IF p[i].kind = "delete" THEN <<>> ELSE <<Piece(p[i])>>
  BY PiecesType DEF Pieces
<1>2. \A i \in 1..N : Piece(p[i]) \in File
  BY SectionParse
<1>. HIDE DEF P, N
<1>. DEFINE Got(s, n) ==
       /\ s \in Seq(File)
       /\ \E b \in Bijection(1..Len(s), {i \in Kept(p) : i <= n}) :
            \A k \in 1..Len(s) : s[k] = Piece(p[b[k]])
<1>3. Got(<<>>, 0)
  <2>1. {i \in Kept(p) : i <= 0} = {} /\ 1..Len(<<>>) = {}
    BY <1>1 DEF Kept
  <2>2. [k \in {} |-> k] \in Bijection({}, {})
    BY DEF Bijection, Injection, Surjection, IsInjective
  <2>3. <<>> \in Seq(File) /\ \A k \in {} : <<>>[k] = Piece(p[[j \in {} |-> j][k]])
    OBVIOUS
  <2>4. \E b \in Bijection(1..Len(<<>>), {i \in Kept(p) : i <= 0}) :
          \A k \in 1..Len(<<>>) : <<>>[k] = Piece(p[b[k]])
    BY <2>1, <2>2, <2>3, Zenon
  <2>. QED BY <2>3, <2>4
<1>4. ASSUME NEW s, NEW n \in Nat, n + 1 \in 1..N, Got(s, n)
      PROVE  Got(s \o P[n + 1], n + 1)
  <2>1. PICK b \in Bijection(1..Len(s), {i \in Kept(p) : i <= n}) :
          \A k \in 1..Len(s) : s[k] = Piece(p[b[k]])
    BY <1>4
  <2>2. s \in Seq(File) /\ Len(s) \in Nat
    BY <1>4
  <2>3. CASE p[n + 1].kind = "delete"
    <3>1. s \o P[n + 1] = s
      BY <1>1, <1>4, <2>2, <2>3
    <3>2. {i \in Kept(p) : i <= n + 1} = {i \in Kept(p) : i <= n}
      BY <1>1, <2>3 DEF Kept
    <3>. QED BY <1>4, <3>1, <3>2
  <2>4. CASE p[n + 1].kind # "delete"
    <3>. DEFINE T == {i \in Kept(p) : i <= n}
                x == Piece(p[n + 1])
                c == [k \in 1..(Len(s) + 1) |-> IF k = Len(s) + 1 THEN n + 1 ELSE b[k]]
                t == s \o <<x>>
    <3>1. P[n + 1] = <<x>> /\ x \in File
      BY <1>1, <1>2, <1>4, <2>4
    <3>. HIDE DEF x
    <3>2. /\ t \in Seq(File) /\ Len(t) = Len(s) + 1 /\ t[Len(s) + 1] = x
          /\ \A k \in 1..Len(s) : t[k] = s[k]
      BY <2>2, <3>1
    <3>3. {i \in Kept(p) : i <= n + 1} = T \cup {n + 1} /\ n + 1 \notin T
      BY <1>1, <1>4, <2>4 DEF Kept
    <3>. HIDE DEF T
    <3>4. c \in Bijection(1..(Len(s) + 1), T \cup {n + 1})
      BY <2>1, <2>2, <3>3, BijectionGrows DEF T
    <3>5. c[Len(s) + 1] = n + 1 /\ \A k \in 1..Len(s) : c[k] = b[k]
      BY <2>2
    <3>. HIDE DEF c, t
    <3>6. \A k \in 1..Len(t) : t[k] = Piece(p[c[k]])
      <4>1. \A k \in 1..Len(t) : k = Len(s) + 1 \/ k \in 1..Len(s)
        BY <2>2, <3>2
      <4>. QED BY <2>1, <3>2, <3>5, <4>1 DEF x
    <3>7. Got(t, n + 1)
      BY <3>2, <3>3, <3>4, <3>6
    <3>. QED BY <3>1, <3>7 DEF t
  <2>. QED BY <2>3, <2>4
<1>. HIDE DEF Got
<1>5. Got(FlattenSeq(P), N)
  <2>1. CASE N = 0
    BY <1>1, <1>3, <2>1, FlattenNone
  <2>2. CASE N # 0
    <3>1. P # <<>>
      BY <1>1, <2>2
    <3>2. PICK f \in [1..N -> Seq(File)] : Flattens(f, P) /\ FlattenSeq(P) = f[N]
      BY <1>1, <3>1, FlattenFunction
    <3>3. \A i \in 1..N : f[i] = IF i = 1 THEN P[i] ELSE f[i - 1] \o P[i]
      BY <1>1, <3>2 DEF Flattens
    <3>. DEFINE S == {n \in Nat : n \in 1..N => Got(f[n], n)}
    <3>4. 0 \in S
      OBVIOUS
    <3>5. ASSUME NEW n \in Nat, n \in S PROVE n + 1 \in S
      <4>. SUFFICES ASSUME n + 1 \in 1..N PROVE Got(f[n + 1], n + 1)
        OBVIOUS
      <4>1. CASE n = 0
        <5>1. 1 \in 1..N /\ f[1] = P[1] /\ P[1] \in Seq(File)
          BY <1>1, <3>3, <4>1
        <5>2. <<>> \o P[1] = P[1]
          BY <5>1
        <5>3. 0 \in Nat /\ 0 + 1 \in 1..N /\ 0 + 1 = 1
          BY <5>1
        <5>4. Got(<<>> \o P[0 + 1], 0 + 1)
          BY <1>3, <1>4, <5>3, Zenon
        <5>. QED BY <4>1, <5>1, <5>2, <5>3, <5>4
      <4>2. CASE n # 0
        <5>1. n \in 1..N /\ n + 1 # 1 /\ (n + 1) - 1 = n
          BY <1>1, <4>2
        <5>2. f[n + 1] = f[n] \o P[n + 1]
          BY <3>3, <5>1
        <5>. QED BY <1>4, <3>5, <5>1, <5>2
      <4>. QED BY <4>1, <4>2
    <3>6. N \in S
      <4>. HIDE DEF S
      <4>. QED BY <1>1, <3>4, <3>5, Induction
    <3>7. N \in 1..N
      BY <1>1, <2>2
    <3>. QED BY <3>2, <3>6, <3>7
  <2>. QED BY <2>1, <2>2
<1>6. {i \in Kept(p) : i <= N} = Kept(p)
  BY <1>1 DEF Kept
<1>. QED BY <1>5, <1>6 DEF Got, P

(* What the two kinds of lines that record a patch say of its files.       *)
LEMMA CallMatches ==
  ASSUME NEW shape \in Shape \ {"edit"}, NEW p \in Seq(Section)
  PROVE  Matches(FlattenSeq(Parsed(CodexPatchEnvelopes(shape, p))), shape, p)
<1>. DEFINE F1 == FlattenSeq(Pieces(p))
<1>1. ASSUME NEW s \in Section PROVE Stands(Piece(s), shape, s)
  <2>1. Added(s) \in Nat /\ Removed(s) \in Nat
    BY BodyFinite DEF Added, Removed, Body
  <2>2. AddedIn(shape, s) = Added(s)
    BY DEF AddedIn
  <2>. QED BY <2>1, <2>2 DEF Stands, Piece
<1>2. F1 \in Seq(File)
  BY EnvelopeParse
<1>3. PICK b \in Bijection(1..Len(F1), Kept(p)) : \A k \in 1..Len(F1) : F1[k] = Piece(p[b[k]])
  BY FlattenPieces
<1>4. \A k \in 1..Len(F1) : p[b[k]] \in Section
  BY <1>3 DEF Bijection, Injection, Kept
<1>. HIDE DEF F1
<1>5. Matches(F1, shape, p)
  BY <1>1, <1>2, <1>3, <1>4 DEF Matches
<1>. QED BY <1>5, CallFiles DEF F1

(* A change of a patch_apply_end line stands for its section: three lines  *)
(* stand before its body in the diff, and none of them counts.             *)
LEMMA ChangeStands ==
  ASSUME NEW p \in Patches, NEW i \in Kept(p)
  PROVE  Change(p[i]) \in File /\ Stands(Change(p[i]), "edit", p[i])
<1>. DEFINE s == p[i]
<1>1. /\ s \in Section /\ s.kind # "delete"
      /\ s.kind # "move" => s.to = s.path
      /\ s.kind = "add" => ToSet(s.body) \subseteq {"plus", "plus3"}
  <2>1. p \in Seq(Section) /\ i \in DOMAIN p /\ p[i].kind # "delete"
    BY PatchesAssumption DEF Kept
  <2>2. /\ p[i].kind # "move" => p[i].to = p[i].path
        /\ p[i].kind = "add" => ToSet(p[i].body) \subseteq {"plus", "plus3"}
    BY <2>1, PatchesAssumption, Zenon
  <2>. QED BY <2>1, <2>2
<1>. HIDE DEF s
<1>2. /\ s.body \in Seq(BodyLine) /\ Len(s.body) \in Nat /\ DOMAIN s.body = 1..Len(s.body)
      /\ s.path \in Nat /\ s.to \in Nat
  BY <1>1 DEF Section
<1>3. ToSet(s.body) = {s.body[j] : j \in 1..Len(s.body)}
  BY <1>2 DEF ToSet
<1>4. CASE s.kind = "add"
  <2>1. Body(s, {"plus", "plus3"}) = 1..Len(s.body) /\ Body(s, {"minus", "minus3"}) = {}
    BY <1>1, <1>2, <1>3, <1>4 DEF Body
  <2>2. Added(s) = Len(s.body) /\ Removed(s) = 0
    <3>1. Cardinality(1..Len(s.body)) = Len(s.body) /\ Cardinality({}) = 0
      <4>1. 1 \in Int /\ Len(s.body) \in Int
        BY <1>2
      <4>2. Cardinality(1..Len(s.body))
              = IF 1 > Len(s.body) THEN 0 ELSE (Len(s.body) - 1) + 1
        BY <4>1, FS_Interval
      <4>3. Cardinality({}) = 0
        BY FS_EmptySet
      <4>. QED BY <1>2, <4>2, <4>3
    <3>. QED BY <2>1, <3>1 DEF Added, Removed, Body
  <2>3. AddedIn("edit", s) = ContentLines(s.body) /\ ContentLines(s.body) \in Nat
    BY <1>2, <1>4, <2>2 DEF AddedIn, ContentLines
  <2>4. Change(s) = [path |-> s.path, added |-> ContentLines(s.body), removed |-> 0]
    BY <1>4 DEF Change
  <2>. QED BY <1>1, <1>2, <1>4, <2>2, <2>3, <2>4 DEF Stands, File, s
<1>5. CASE s.kind # "add"
  <2>. DEFINE lead == <<"minus3", "plus3", "context">>
              d == UnifiedDiff(s)
  <2>1. /\ d \in Seq(BodyLine) /\ Len(d) = 3 + Len(s.body)
        /\ d[1] = "minus3" /\ d[2] = "plus3" /\ d[3] = "context"
        /\ \A j \in 1..Len(s.body) : d[3 + j] = s.body[j]
    <3>1. lead \in Seq(BodyLine) /\ Len(lead) = 3
          /\ lead[1] = "minus3" /\ lead[2] = "plus3" /\ lead[3] = "context"
      BY DEF BodyLine
    <3>2. d = lead \o s.body
      BY DEF UnifiedDiff
    <3>. HIDE DEF lead, d
    <3>3. /\ d \in Seq(BodyLine) /\ Len(d) = Len(lead) + Len(s.body)
          /\ \A j \in 1..Len(lead) : d[j] = lead[j]
          /\ \A j \in 1..Len(s.body) : d[Len(lead) + j] = s.body[j]
      <4>. DEFINE body == s.body
      <4>1. body \in Seq(BodyLine)
        BY <1>2
      <4>. HIDE DEF body
      <4>2. /\ lead \o body \in Seq(BodyLine) /\ Len(lead \o body) = Len(lead) + Len(body)
            /\ \A j \in 1..Len(lead) : (lead \o body)[j] = lead[j]
            /\ \A j \in 1..Len(body) : (lead \o body)[Len(lead) + j] = body[j]
        <5>1. /\ lead \o body \in Seq(BodyLine) /\ Len(lead \o body) = Len(lead) + Len(body)
              /\ \A h \in 1 .. Len(lead) + Len(body) : (lead \o body)[h]
                   = IF h <= Len(lead) THEN lead[h] ELSE body[h - Len(lead)]
          BY <3>1, <4>1, ConcatProperties, Zenon
        <5>2. Len(lead) = 3 /\ Len(body) \in Nat
          BY <3>1, <4>1
        <5>3. \A j \in 1..Len(lead) : j \in 1 .. Len(lead) + Len(body) /\ j <= Len(lead)
          BY <5>2
        <5>4. \A j \in 1..Len(body) :
                /\ Len(lead) + j \in 1 .. Len(lead) + Len(body)
                /\ ~(Len(lead) + j <= Len(lead)) /\ (Len(lead) + j) - Len(lead) = j
          BY <5>2
        <5>. QED BY <5>1, <5>3, <5>4, Zenon
      <4>. QED BY <3>2, <4>2 DEF body
    <3>. QED BY <3>1, <3>3
  <2>. HIDE DEF d
  <2>2. ASSUME NEW type \in {"plus", "minus"}
        PROVE  DiffCount(d, type) = Cardinality(Body(s, {type}))
    <3>1. ASSUME NEW j \in DOMAIN d, d[j] = type
          PROVE  j - 3 \in Body(s, {type}) /\ j = 3 + (j - 3)
      <4>1. j \in 1..(3 + Len(s.body)) /\ j # 1 /\ j # 2 /\ j # 3
        BY <1>2, <2>1, <3>1
      <4>2. j - 3 \in 1..Len(s.body) /\ j = 3 + (j - 3)
        BY <1>2, <4>1
      <4>3. s.body[j - 3] = d[3 + (j - 3)]
        BY <2>1, <4>2
      <4>. QED BY <1>2, <3>1, <4>2, <4>3 DEF Body
    <3>2. ASSUME NEW j \in Body(s, {type}) PROVE 3 + j \in DOMAIN d /\ d[3 + j] = type
      BY <1>2, <2>1 DEF Body
    <3>3. {j \in DOMAIN d : d[j] = type} = {3 + j : j \in Body(s, {type})}
      BY <3>1, <3>2
    <3>4. Body(s, {type}) \in SUBSET Int /\ IsFiniteSet(Body(s, {type})) /\ 3 \in Int
      BY <1>1, BodyFinite
    <3>5. Cardinality({3 + j : j \in Body(s, {type})}) = Cardinality(Body(s, {type}))
      BY <3>4, ShiftSize
    <3>. QED BY <3>3, <3>5 DEF DiffCount
  <2>3. ASSUME NEW S, NEW T, S \subseteq T
        PROVE  /\ Cardinality(Body(s, S)) \in Nat /\ Cardinality(Body(s, T)) \in Nat
               /\ Cardinality(Body(s, S)) <= Cardinality(Body(s, T))
    <3>1. Body(s, S) \in SUBSET Body(s, T) /\ IsFiniteSet(Body(s, T))
      BY <1>1, <2>3, BodyFinite DEF Body
    <3>2. Cardinality(Body(s, S)) \in Nat /\ Cardinality(Body(s, T)) \in Nat
      BY <1>1, BodyFinite
    <3>. QED BY <3>1, <3>2, FS_Subset
  <2>4. /\ DiffCount(d, "plus") \in Nat /\ DiffCount(d, "plus") <= Added(s)
        /\ DiffCount(d, "minus") \in Nat /\ DiffCount(d, "minus") <= Removed(s)
    <3>1. /\ Cardinality(Body(s, {"plus"})) <= Cardinality(Body(s, {"plus", "plus3"}))
          /\ Cardinality(Body(s, {"minus"})) <= Cardinality(Body(s, {"minus", "minus3"}))
          /\ Cardinality(Body(s, {"plus"})) \in Nat /\ Cardinality(Body(s, {"minus"})) \in Nat
      BY <2>3
    <3>. QED BY <2>2, <3>1 DEF Added, Removed, Body
  <2>5. ASSUME ToSet(s.body) \cap {"plus3", "minus3"} = {}
        PROVE  DiffCount(d, "plus") = Added(s) /\ DiffCount(d, "minus") = Removed(s)
    <3>1. /\ Body(s, {"plus"}) = Body(s, {"plus", "plus3"})
          /\ Body(s, {"minus"}) = Body(s, {"minus", "minus3"})
      BY <1>2, <1>3, <2>5 DEF Body
    <3>. QED BY <2>2, <3>1 DEF Added, Removed, Body
  <2>6. Change(s) = [path |-> s.to, added |-> DiffCount(d, "plus"),
                     removed |-> DiffCount(d, "minus")]
    BY <1>5 DEF Change, d
  <2>7. AddedIn("edit", s) = Added(s)
    BY <1>5 DEF AddedIn
  <2>. QED BY <1>2, <2>4, <2>5, <2>6, <2>7 DEF Stands, File, s
<1>. QED BY <1>4, <1>5

(* The changes of a patch_apply_end line, in the order of their paths.     *)
LEMMA EndMatches ==
  ASSUME NEW p \in Patches
  PROVE  Matches(ChangesByPath(p), "edit", p)
<1>. DEFINE K == Kept(p)
            key == [i \in K |-> p[i].path]
            N == Cardinality(K)
            Nth(n) == CHOOSE i \in K : Cardinality(Below(i, K, key)) = n
            b == [n \in 1..N |-> Nth(n)]
<1>1. p \in Seq(Section) /\ \A i, j \in DOMAIN p : i # j => p[i].path # p[j].path
  BY PatchesAssumption
<1>2. IsFiniteSet(K) /\ N \in Nat
  BY <1>1, KeptFinite
<1>3. \A i \in K : key[i] \in Nat
  <2>1. \A i \in K : i \in DOMAIN p /\ p[i] \in Section
    BY <1>1 DEF Kept
  <2>2. \A i \in K : p[i].path \in Nat
    BY <2>1 DEF Section
  <2>. QED BY <2>2
<1>4. \A i, j \in K : key[i] = key[j] => i = j
  BY <1>1 DEF Kept
<1>5. ChangesByPath(p) = [n \in 1..N |-> Change(p[Nth(n)])]
  <2>1. \A i \in K : Below(i, K, key) = {j \in K : p[j].path <= p[i].path}
    BY DEF Below
  <2>. DEFINE Mth(n) == CHOOSE i \in K : Cardinality({j \in K : p[j].path <= p[i].path}) = n
  <2>2. ChangesByPath(p) = [n \in 1..Cardinality(K) |-> Change(p[Mth(n)])]
    BY DEF ChangesByPath, Kept
  <2>3. \A n : Nth(n) = Mth(n)
    <3>. HIDE DEF K, key
    <3>. QED BY <2>1
  <2>. HIDE DEF Mth, Nth
  <2>. QED BY <2>2, <2>3
<1>. HIDE DEF K, key
<1>6. /\ \A i \in K : Cardinality(Below(i, K, key)) \in 1..N
      /\ \A i, j \in K : Cardinality(Below(i, K, key)) = Cardinality(Below(j, K, key)) => i = j
      /\ \A n \in 1..N : \E i \in K : Cardinality(Below(i, K, key)) = n
  BY <1>2, <1>3, <1>4, Ranks
<1>7. \A n \in 1..N : Nth(n) \in K /\ Cardinality(Below(Nth(n), K, key)) = n
  BY <1>6
<1>8. \A i \in K : \E n \in 1..N : Nth(n) = i
  BY <1>6
<1>. HIDE DEF Nth, N
<1>9. b \in Bijection(1..N, K)
  BY <1>7, <1>8 DEF Bijection, Injection, Surjection, IsInjective
<1>10. \A n \in 1..N : Change(p[Nth(n)]) \in File /\ Stands(Change(p[Nth(n)]), "edit", p[Nth(n)])
  BY <1>7, ChangeStands DEF K
<1>11. /\ ChangesByPath(p) \in Seq(File) /\ Len(ChangesByPath(p)) = N
       /\ \A n \in 1..N : ChangesByPath(p)[n] = Change(p[b[n]])
  BY <1>2, <1>5, <1>10
<1>12. \A n \in 1..N : Stands(ChangesByPath(p)[n], "edit", p[b[n]])
  BY <1>10, <1>11
<1>. HIDE DEF b
<1>. QED BY <1>9, <1>11, <1>12 DEF Matches, K


(* The numbers from 1 to n.                                                *)
LEMMA IntervalSize ==
  ASSUME NEW n \in Nat
  PROVE  IsFiniteSet(1..n) /\ Cardinality(1..n) = n
<1>1. 1 \in Int /\ n \in Int
  OBVIOUS
<1>2. /\ IsFiniteSet(1..n)
      /\ Cardinality(1..n) = IF 1 > n THEN 0 ELSE (n - 1) + 1
  BY <1>1, FS_Interval
<1>. QED BY <1>2

(* As many files as sections with lines to count.                          *)
LEMMA MatchesSize ==
  ASSUME NEW p \in Seq(Section), NEW shape, NEW files, Matches(files, shape, p)
  PROVE  /\ Len(files) \in Nat /\ DOMAIN files = 1..Len(files)
         /\ Len(files) = Cardinality(Kept(p)) /\ Len(files) <= Len(p)
<1>1. files \in Seq(File)
  BY DEF Matches
<1>2. Len(files) \in Nat /\ DOMAIN files = 1..Len(files)
  BY <1>1
<1>3. ExistsBijection(1..Len(files), Kept(p))
  BY DEF Matches, ExistsBijection
<1>4. IsFiniteSet(1..Len(files)) /\ Cardinality(1..Len(files)) = Len(files)
  BY <1>2, IntervalSize
<1>5. Cardinality(1..Len(files)) = Cardinality(Kept(p))
  BY <1>3, <1>4, FS_Bijection
<1>6. Len(p) \in Nat /\ IsFiniteSet(1..Len(p)) /\ Cardinality(1..Len(p)) = Len(p)
  BY IntervalSize
<1>7. Kept(p) \in SUBSET (1..Len(p))
  BY KeptFinite
<1>8. Cardinality(Kept(p)) <= Cardinality(1..Len(p))
  BY <1>6, <1>7, FS_Subset
<1>. QED BY <1>2, <1>4, <1>5, <1>6, <1>8

-----------------------------------------------------------------------------
(* The lines of the file and what they say of a call.                      *)
CallType == [status : {"none", "asked", "run", "over"}, shape : Shape,
             patch : Patches \cup {<<>>}, applied : SUBSET Nat]

Out == UNION {Outputs(v) : v \in CallType}

CallLine ==
  [type : {"custom_tool_call"}, call : Call, shape : Shape \ {"edit"}, patch : Patches]
EndLine  == [type : {"patch_apply_end"}, call : Call, ok : BOOLEAN, patch : Patches]
OutLine  == [type : {"custom_tool_call_output"}, call : Call, output : Out]
Line     == CallLine \cup EndLine \cup OutLine

Started  == {"asked", "run", "over"}
Finished == {"run", "over"}

Told(cs, l) ==
  /\ l.call \in Call
  /\ \/ /\ l.type = "custom_tool_call"
        /\ cs[l.call].status \in Started /\ cs[l.call].shape # "edit"
        /\ l.shape = cs[l.call].shape /\ l.patch = cs[l.call].patch
     \/ /\ l.type = "patch_apply_end"
        /\ cs[l.call].status \in Finished
        /\ l.ok <=> cs[l.call].applied = DOMAIN cs[l.call].patch
        /\ l.patch = cs[l.call].patch
     \/ /\ l.type = "custom_tool_call_output"
        /\ cs[l.call].status = "over" /\ cs[l.call].shape # "edit"
        /\ l.output \in Outputs(cs[l.call])

(* The state of one call.                                                  *)
CallIs(v) ==
  /\ v.status \notin Finished => v.applied = {}
  /\ v.status \in Started => v.patch \in Patches
  /\ v.status \in Finished => v.applied \in Outcomes(v.shape, v.patch)
  /\ v.shape = "edit" => v.status # "run"

CallsAre(cs) ==
  /\ cs \in [Call -> CallType]
  /\ \A c \in Call : CallIs(cs[c])

(* A line of a kind is written once for a call, that of the call first.    *)
InOrder(r) ==
  \A i, j \in DOMAIN r : r[i].call = r[j].call =>
    /\ r[i].type = r[j].type => i = j
    /\ r[i].type = "custom_tool_call" => i <= j

(* The line that holds the files of a call, and the one that ends it.      *)
HasLine(r, c, type) == \E i \in DOMAIN r : r[i].call = c /\ r[i].type = type

Written(cs, r) ==
  \A c \in Call :
    /\ cs[c].status \in Started /\ cs[c].shape # "edit" => HasLine(r, c, "custom_tool_call")
    /\ cs[c].status = "over" =>
         HasLine(r, c, IF cs[c].shape = "edit" THEN "patch_apply_end"
                                               ELSE "custom_tool_call_output")

Consistent(cs, r) ==
  /\ CallsAre(cs)
  /\ r \in Seq(Line)
  /\ \A i \in DOMAIN r : Told(cs, r[i])
  /\ InOrder(r)
  /\ Written(cs, r)

Event(r, i, k) == [call |-> r[i].call, index |-> k - 1, file |-> FilesOf(r[i])[k]]

(* What a scan confirms a call by: the whole patch has been applied, or    *)
(* the final verdict of the output is a success.                           *)
Whole(cs, c) == cs[c].status \in Finished /\ cs[c].applied = DOMAIN cs[c].patch

OutputAt(r, j, c) ==
  j \in DOMAIN r /\ r[j].type = "custom_tool_call_output" /\ r[j].call = c

Confirmed(cs, r, c) ==
  Whole(cs, c) \/ \E j \in DOMAIN r : OutputAt(r, j, c) /\ Final(r[j].output).ok

Sourced(cs, r, es) ==
  \A e \in es : \E i \in DOMAIN r :
    /\ Recorded(r, i) /\ Confirmed(cs, r, r[i].call)
    /\ \E k \in DOMAIN FilesOf(r[i]) : e = Event(r, i, k)

(* What a call has applied are sections of it. A part of the patch one     *)
(* section of which has been applied has been applied as a whole.          *)
LEMMA PartsApplied ==
  ASSUME NEW shape, NEW p, NEW applied \in Outcomes(shape, p)
  PROVE  /\ applied \subseteq DOMAIN p
         /\ \A part \in Parts(shape, p) : \A k \in part \cap applied : part \subseteq applied
<1>1. PICK S \in SUBSET Parts(shape, p) : applied = UNION S
  BY DEF Outcomes
<1>2. \A part \in Parts(shape, p) : part \subseteq DOMAIN p
  BY DEF Parts
<1>3. ASSUME NEW P \in Parts(shape, p), NEW Q \in Parts(shape, p), NEW k \in P \cap Q
      PROVE  P = Q
  BY <1>3 DEF Parts
<1>. QED BY <1>1, <1>2, <1>3

(* codexOutputSucceeded goes by the final verdict of the output, which is  *)
(* one of those there are of the call, in each of its forms.               *)
LEMMA OutputTells ==
  ASSUME NEW v, v.shape # "edit", NEW out \in Outputs(v)
  PROVE  /\ OutputSucceeded(out) <=> Final(out).ok
         /\ \/ Final(out).of = {}
            \/ /\ Final(out).of \in Parts(v.shape, v.patch)
               /\ Final(out).ok <=> Final(out).of \subseteq v.applied
<1>. DEFINE Fits(w) == /\ w.ok \in BOOLEAN
                       /\ \/ w.of = {}
                          \/ /\ w.of \in Parts(v.shape, v.patch)
                             /\ w.ok <=> w.of \subseteq v.applied
<1>0. /\ \A w : <<w>> # <<>>
      /\ \A w : Head(<<w>>) = w
      /\ <<>> \o <<>> = <<>>
      /\ \A w : <<>> \o <<w>> = <<w>>
      /\ \A w, x : <<w>> \o <<x>> # <<>>
      /\ \A w, x : Head(<<w>> \o <<x>>) = w
      /\ \A w, x, y : Head(<<w>> \o <<x>> \o <<y>>) = w
  <2>1. ASSUME NEW S, NEW s \in Seq(S), NEW t \in Seq(S), s # <<>>
        PROVE  s \o t \in Seq(S) /\ s \o t # <<>> /\ Head(s \o t) = Head(s)
    <3>1. /\ s \o t \in Seq(S) /\ Len(s \o t) = Len(s) + Len(t)
          /\ \A i \in 1 .. Len(s) + Len(t) : (s \o t)[i] = IF i <= Len(s) THEN s[i] ELSE t[i - Len(s)]
      BY ConcatProperties, Zenon
    <3>2. Len(s) \in Nat /\ Len(t) \in Nat /\ Len(s) # 0
      BY <2>1
    <3>3. 1 \in 1 .. Len(s) + Len(t) /\ 1 <= Len(s)
      BY <3>2
    <3>4. (s \o t)[1] = s[1] /\ Len(s \o t) # 0
      BY <3>1, <3>2, <3>3
    <3>. QED BY <2>1, <3>1, <3>4
  <2>2. ASSUME NEW w, NEW x, NEW y
        PROVE  /\ <<w>> \o <<x>> # <<>> /\ Head(<<w>> \o <<x>>) = w
               /\ Head(<<w>> \o <<x>> \o <<y>>) = w
    <3>. DEFINE S == {w, x, y}
                a == <<w>>
                b == <<x>>
                d == <<y>>
    <3>1. a \in Seq(S) /\ b \in Seq(S) /\ d \in Seq(S) /\ a # <<>> /\ Head(a) = w
      OBVIOUS
    <3>. HIDE DEF S, a, b, d
    <3>2. a \o b \in Seq(S) /\ a \o b # <<>> /\ Head(a \o b) = w
      BY <2>1, <3>1
    <3>3. Head(a \o b \o d) = w
      BY <2>1, <3>1, <3>2
    <3>. QED BY <3>2, <3>3 DEF a, b, d
  <2>3. \A w : <<w>> # <<>> /\ Head(<<w>>) = w
    OBVIOUS
  <2>4. <<>> \o <<>> = <<>> /\ \A w : <<>> \o <<w>> = <<w>>
    OBVIOUS
  <2>. QED BY <2>2, <2>3, <2>4
<1>1. ASSUME NEW w \in Verdicts(v) PROVE Fits(w)
  <2>1. CASE w \in {Says(v, part) : part \in Parts(v.shape, v.patch)}
    <3>1. PICK part \in Parts(v.shape, v.patch) : w = Says(v, part)
      BY <2>1
    <3>2. w.of = part /\ w.ok = (part \subseteq v.applied)
      BY <3>1 DEF Says
    <3>. QED BY <3>1, <3>2
  <2>2. CASE w \in [of : {{}}, ok : BOOLEAN]
    BY <2>2
  <2>. QED BY <2>1, <2>2 DEF Verdicts
<1>. DEFINE Result1 == (OutputSucceeded(out) <=> Final(out).ok) /\ Fits(Final(out))
<1>2. CASE v.shape = "apply_patch"
  <2>. DEFINE w == Says(v, DOMAIN v.patch)
  <2>1. Fits(w)
    BY <1>2 DEF Says, Parts
  <2>. HIDE DEF w
  <2>2. out \in { [document |-> TRUE, exit |-> <<w>>, word |-> <<w>>, codes |-> <<w>>],
                  [document |-> TRUE, exit |-> <<>>, word |-> <<w>>, codes |-> <<>>],
                  [document |-> FALSE, exit |-> <<>>, word |-> <<w>>, codes |-> <<>>] }
    BY <1>2 DEF Outputs, ToolOutputs, w
  <2>3. CASE out.document /\ out.exit = <<w>> /\ out.word = <<w>> /\ out.codes = <<w>>
    <3>1. out.exit \o out.word # <<>> /\ Head(out.exit \o out.word) = w
      BY <1>0, <2>3
    <3>2. Head(out.exit \o out.word \o out.codes) = w
      BY <1>0, <2>3
    <3>. QED BY <2>1, <2>3, <3>1, <3>2 DEF OutputSucceeded, Final
  <2>4. CASE out.document /\ out.exit = <<>> /\ out.word = <<w>> /\ out.codes = <<>>
    <3>1. out.exit \o out.word # <<>> /\ Head(out.exit \o out.word) = w
      BY <1>0, <2>4
    <3>2. Head(out.exit \o out.word \o out.codes) = w
      BY <1>0, <2>4
    <3>. QED BY <2>1, <2>4, <3>1, <3>2 DEF OutputSucceeded, Final
  <2>5. CASE ~out.document /\ out.word = <<w>> /\ out.codes = <<>>
    BY <1>0, <2>1, <2>5 DEF OutputSucceeded, Final
  <2>. QED BY <2>2, <2>3, <2>4, <2>5
<1>3. CASE v.shape # "apply_patch"
  <2>1. \/ \E w \in Verdicts(v) :
             out = [document |-> FALSE, exit |-> <<>>, word |-> <<w>>, codes |-> <<>>]
        \/ \E n \in 1..MaxCodes : \E codes \in [1..n -> Verdicts(v)] :
             out = [document |-> FALSE, exit |-> <<>>, word |-> <<NotSuccess>>, codes |-> codes]
        \/ \E code \in Verdicts(v) :
             \E word \in {<<>>, <<NotSuccess>>} \cup {<<w>> : w \in Verdicts(v)} :
               out = [document |-> TRUE, exit |-> <<>>, word |-> word, codes |-> <<code>>]
    <3>. DEFINE A == {[document |-> FALSE, exit |-> <<>>, word |-> <<w>>, codes |-> <<>>] :
                       w \in Verdicts(v)}
                B == {[document |-> FALSE, exit |-> <<>>, word |-> <<NotSuccess>>,
                       codes |-> codes] :
                        codes \in UNION {[1..n -> Verdicts(v)] : n \in 1..MaxCodes}}
                W == {<<>>, <<NotSuccess>>} \cup {<<w>> : w \in Verdicts(v)}
                D == {[document |-> TRUE, exit |-> <<>>, word |-> word, codes |-> <<code>>] :
                        code \in Verdicts(v), word \in W}
    <3>1. out \in A \/ out \in B \/ out \in D
      BY <1>3 DEF Outputs, ScriptOutputs
    <3>2. CASE out \in A
      BY <3>2
    <3>3. CASE out \in B
      BY <3>3
    <3>4. CASE out \in D
      BY <3>4
    <3>. QED BY <3>1, <3>2, <3>3, <3>4
  <2>2. ASSUME NEW w \in Verdicts(v), ~out.document, out.word = <<w>>, out.codes = <<>>
        PROVE  Result1
    BY <1>0, <1>1, <2>2 DEF OutputSucceeded, Final
  <2>3. ASSUME NEW n \in 1..MaxCodes, NEW codes \in [1..n -> Verdicts(v)],
               ~out.document, out.codes = codes
        PROVE  Result1
    <3>1. codes \in Seq(Verdicts(v)) /\ Len(codes) = n /\ codes # <<>> /\ n \in 1..n
      BY CodesAssumption
    <3>2. LastCode(codes) = codes[n] /\ Last(codes) = codes[n] /\ codes[n] \in Verdicts(v)
      BY <3>1 DEF LastCode, Last
    <3>3. Fits(codes[n])
      BY <1>1, <3>2
    <3>. QED BY <2>3, <3>1, <3>2, <3>3 DEF OutputSucceeded, Final
  <2>4. ASSUME NEW code \in Verdicts(v), out.document, out.exit = <<>>, out.word = <<>>,
               out.codes = <<code>>
        PROVE  Result1
    <3>1. out.exit \o out.word = <<>> /\ LastCode(out.codes) = code /\ out.codes # <<>>
      BY <1>0, <2>4 DEF LastCode
    <3>2. Head(out.exit \o out.word \o out.codes) = code
      BY <1>0, <2>4
    <3>. QED BY <1>1, <2>4, <3>1, <3>2 DEF OutputSucceeded, Final
  <2>5. ASSUME NEW code, NEW w \in Verdicts(v), out.document, out.exit = <<>>,
               out.word = <<w>>, out.codes = <<code>>
        PROVE  Result1
    <3>1. out.exit \o out.word # <<>> /\ Head(out.exit \o out.word) = w
      BY <1>0, <2>5
    <3>2. Head(out.exit \o out.word \o out.codes) = w
      BY <1>0, <2>5
    <3>. QED BY <1>1, <2>5, <3>1, <3>2 DEF OutputSucceeded, Final
  <2>6. NotSuccess \in Verdicts(v)
    BY DEF NotSuccess, Verdicts
  <2>7. CASE \E w \in Verdicts(v) :
               out = [document |-> FALSE, exit |-> <<>>, word |-> <<w>>, codes |-> <<>>]
    <3>1. PICK w \in Verdicts(v) : ~out.document /\ out.word = <<w>> /\ out.codes = <<>>
      BY <2>7
    <3>. QED BY <2>2, <3>1
  <2>8. CASE \E n \in 1..MaxCodes : \E codes \in [1..n -> Verdicts(v)] :
               out = [document |-> FALSE, exit |-> <<>>, word |-> <<NotSuccess>>, codes |-> codes]
    <3>1. PICK n \in 1..MaxCodes : \E codes \in [1..n -> Verdicts(v)] :
            ~out.document /\ out.codes = codes
      BY <2>8
    <3>. QED BY <2>3, <3>1
  <2>9. CASE \E code \in Verdicts(v) :
               \E word \in {<<>>, <<NotSuccess>>} \cup {<<w>> : w \in Verdicts(v)} :
                 out = [document |-> TRUE, exit |-> <<>>, word |-> word, codes |-> <<code>>]
    <3>1. PICK code \in Verdicts(v) :
            \E word \in {<<>>, <<NotSuccess>>} \cup {<<w>> : w \in Verdicts(v)} :
              out.document /\ out.exit = <<>> /\ out.word = word /\ out.codes = <<code>>
      BY <2>9
    <3>2. out.word = <<>> \/ \E w \in Verdicts(v) : out.word = <<w>>
      BY <2>6, <3>1
    <3>. QED BY <2>4, <2>5, <3>1, <3>2
  <2>. HIDE DEF Result1
  <2>. QED BY <2>1, <2>7, <2>8, <2>9
<1>. QED BY <1>2, <1>3

(* The files of a line.                                                    *)
LEMMA LineFiles ==
  ASSUME NEW cs, NEW l, CallsAre(cs), Told(cs, l)
  PROVE  /\ l.type = "custom_tool_call" =>
              /\ cs[l.call].shape # "edit"
              /\ Matches(FilesOf(l), cs[l.call].shape, cs[l.call].patch)
         /\ l.type = "patch_apply_end" =>
              IF Whole(cs, l.call) THEN Matches(FilesOf(l), "edit", cs[l.call].patch)
                                   ELSE FilesOf(l) = <<>>
         /\ l.type = "custom_tool_call_output" => FilesOf(l) = <<>>
         /\ FilesOf(l) # <<>> => l.type \in {"custom_tool_call", "patch_apply_end"}
<1>1. l.call \in Call /\ cs[l.call] \in CallType /\ CallIs(cs[l.call])
  BY DEF Told, CallsAre
<1>2. CASE l.type = "custom_tool_call"
  <2>1. /\ l.shape = cs[l.call].shape /\ l.patch = cs[l.call].patch
        /\ cs[l.call].shape # "edit" /\ cs[l.call].status \in Started
    BY <1>2 DEF Told
  <2>2. l.patch \in Patches /\ l.shape \in Shape \ {"edit"}
    BY <1>1, <2>1 DEF CallIs, CallType
  <2>3. l.patch \in Seq(Section)
    BY <2>2, PatchesAssumption
  <2>4. FilesOf(l) = FlattenSeq(Parsed(CodexPatchEnvelopes(l.shape, l.patch)))
    BY <1>2 DEF FilesOf, Parsed
  <2>5. Matches(FilesOf(l), l.shape, l.patch)
    BY <2>2, <2>3, <2>4, CallMatches
  <2>. QED BY <1>2, <2>1, <2>5
<1>3. CASE l.type = "patch_apply_end"
  <2>1. (l.ok <=> Whole(cs, l.call)) /\ l.patch = cs[l.call].patch
        /\ cs[l.call].status \in Finished
    BY <1>3 DEF Told, Whole
  <2>2. l.patch \in Patches
    BY <1>1, <2>1 DEF CallIs, Started, Finished
  <2>3. FilesOf(l) = IF l.ok THEN ChangesByPath(l.patch) ELSE <<>>
    BY <1>3 DEF FilesOf
  <2>4. Matches(ChangesByPath(l.patch), "edit", l.patch)
    BY <2>2, EndMatches
  <2>. QED BY <1>3, <2>1, <2>3, <2>4
<1>4. CASE l.type = "custom_tool_call_output"
  BY <1>4 DEF FilesOf
<1>5. l.type \in {"custom_tool_call", "patch_apply_end", "custom_tool_call_output"}
  BY DEF Told
<1>. QED BY <1>2, <1>3, <1>4, <1>5

(* Where one list of files of a patch is empty, so is each.                *)
LEMMA NoFilesAtAll ==
  ASSUME NEW p \in Patches, NEW f, NEW g, NEW s, NEW t,
         Matches(f, s, p), Matches(g, t, p), f = <<>>
  PROVE  g = <<>>
<1>1. p \in Seq(Section)
  BY PatchesAssumption
<1>2. Len(f) = Cardinality(Kept(p)) /\ Len(g) = Cardinality(Kept(p))
  BY <1>1, MatchesSize
<1>3. g \in Seq(File)
  BY DEF Matches
<1>4. Len(g) = 0
  BY <1>2
<1>. QED BY <1>3, <1>4

(* codexScanState records a call in one line.                              *)
LEMMA RecordedOnce ==
  ASSUME NEW cs, NEW r, Consistent(cs, r),
         NEW i \in DOMAIN r, NEW j \in DOMAIN r, Recorded(r, i), Recorded(r, j),
         r[i].call = r[j].call
  PROVE  i = j
<1>1. FilesOf(r[i]) # <<>> /\ FilesOf(r[j]) # <<>>
  BY DEF Recorded
<1>2. /\ r[i].type \in {"custom_tool_call", "patch_apply_end"}
      /\ r[j].type \in {"custom_tool_call", "patch_apply_end"}
  BY <1>1, LineFiles DEF Consistent
<1>3. i \in Nat /\ j \in Nat /\ i >= 1 /\ j >= 1 /\ InOrder(r)
  BY DEF Consistent
<1>4. CASE r[i].type = r[j].type
  BY <1>3, <1>4 DEF InOrder
<1>5. CASE r[i].type = "custom_tool_call" /\ r[j].type = "patch_apply_end"
  <2>1. i <= j /\ i # j
    BY <1>3, <1>5 DEF InOrder
  <2>2. i \in 1..(j - 1)
    BY <1>3, <2>1
  <2>. QED BY <1>1, <1>5, <2>2 DEF Recorded
<1>6. CASE r[j].type = "custom_tool_call" /\ r[i].type = "patch_apply_end"
  <2>1. j <= i /\ i # j
    BY <1>3, <1>6 DEF InOrder
  <2>2. j \in 1..(i - 1)
    BY <1>3, <2>1
  <2>. QED BY <1>1, <1>6, <2>2 DEF Recorded
<1>. QED BY <1>2, <1>4, <1>5, <1>6

(* ... and what it records are the changes of the patch.                   *)
LEMMA RecordedMatches ==
  ASSUME NEW cs, NEW r, Consistent(cs, r), NEW i \in DOMAIN r, Recorded(r, i)
  PROVE  /\ r[i].call \in Call /\ cs[r[i].call].patch \in Patches
         /\ Matches(FilesOf(r[i]), cs[r[i].call].shape, cs[r[i].call].patch)
<1>. DEFINE c == r[i].call
<1>1. Told(cs, r[i]) /\ c \in Call /\ CallsAre(cs) /\ FilesOf(r[i]) # <<>>
  BY DEF Consistent, Told, Recorded
<1>2. r[i].type \in {"custom_tool_call", "patch_apply_end"}
  BY <1>1, LineFiles
<1>3. cs[c].patch \in Patches /\ cs[c].status \in Started
  BY <1>1, <1>2 DEF Told, CallsAre, CallIs, Started, Finished
<1>4. CASE r[i].type = "custom_tool_call"
  BY <1>1, <1>3, <1>4, LineFiles
<1>5. CASE r[i].type = "patch_apply_end"
  <2>1. Matches(FilesOf(r[i]), "edit", cs[c].patch)
    BY <1>1, <1>5, LineFiles
  <2>2. ASSUME cs[c].shape # "edit" PROVE FALSE
    <3>1. PICK j \in DOMAIN r : r[j].call = c /\ r[j].type = "custom_tool_call"
      BY <1>1, <1>3, <2>2 DEF Consistent, Written, HasLine
    <3>2. j \in 1..(i - 1)
      <4>1. j <= i /\ j # i
        BY <1>5, <3>1 DEF Consistent, InOrder
      <4>2. i \in Nat /\ j \in Nat /\ j >= 1
        BY DEF Consistent
      <4>. QED BY <4>1, <4>2
    <3>3. FilesOf(r[j]) = <<>>
      BY <1>5, <3>1, <3>2 DEF Recorded
    <3>4. Matches(FilesOf(r[j]), cs[c].shape, cs[c].patch)
      <4>1. Told(cs, r[j])
        BY DEF Consistent
      <4>. QED BY <1>1, <3>1, <4>1, LineFiles
    <3>. QED BY <1>1, <1>3, <2>1, <3>3, <3>4, NoFilesAtAll
  <2>. QED BY <1>1, <1>3, <2>1, <2>2
<1>. QED BY <1>2, <1>4, <1>5


(* What a scan returns, line by line.                                      *)
LEMMA ResultEvents ==
  ASSUME NEW r, NEW e
  PROVE  e \in Result(r) <=>
           \E i \in DOMAIN r : /\ Recorded(r, i) /\ r[i].call \in PatchOK(r)
                               /\ \E k \in DOMAIN FilesOf(r[i]) : e = Event(r, i, k)
<1>. DEFINE R == {j \in DOMAIN r : Recorded(r, j) /\ r[j].call \in PatchOK(r)}
            X(i) == {[call |-> r[i].call, index |-> EventIndex(r, i, k),
                      file |-> FilesOf(r[i])[k]] : k \in DOMAIN FilesOf(r[i])}
<1>1. Result(r) = UNION {X(i) : i \in R}
  BY DEF Result
<1>2. \A i : e \in X(i) <=> \E k \in DOMAIN FilesOf(r[i]) : e = Event(r, i, k)
  BY DEF EventIndex, Event
<1>. HIDE DEF X
<1>. QED BY <1>1, <1>2

(* What confirms a call to a scan.                                         *)
LEMMA ConfirmedCalls ==
  ASSUME NEW cs, NEW r, Consistent(cs, r), NEW c \in PatchOK(r)
  PROVE  c \in Call /\ Confirmed(cs, r, c)
<1>1. PICK i \in DOMAIN r : r[i].call = c /\ Confirms(r, i)
  BY DEF PatchOK
<1>2. Told(cs, r[i]) /\ CallsAre(cs)
  BY DEF Consistent
<1>3. CASE r[i].type = "custom_tool_call_output" /\ OutputSucceeded(r[i].output)
  <2>1. r[i].output \in Outputs(cs[c]) /\ cs[c].shape # "edit" /\ c \in Call
    BY <1>1, <1>2, <1>3 DEF Told
  <2>2. Final(r[i].output).ok
    BY <1>3, <2>1, OutputTells
  <2>. QED BY <1>1, <1>3, <2>1, <2>2 DEF Confirmed, OutputAt
<1>4. CASE r[i].type = "patch_apply_end" /\ Recorded(r, i)
  <2>1. FilesOf(r[i]) # <<>>
    BY <1>4 DEF Recorded
  <2>2. Whole(cs, r[i].call)
    BY <1>2, <1>4, <2>1, LineFiles
  <2>. QED BY <1>1, <1>2, <2>2 DEF Told, Confirmed
<1>. QED BY <1>1, <1>3, <1>4 DEF Confirms

(* A scan adds only what its lines hold.                                   *)
LEMMA ResultSourced ==
  ASSUME NEW cs, NEW r, NEW es, Consistent(cs, r), Sourced(cs, r, es)
  PROVE  Sourced(cs, r, es \cup Result(r))
<1>1. ASSUME NEW e \in Result(r)
      PROVE  \E i \in DOMAIN r : /\ Recorded(r, i) /\ Confirmed(cs, r, r[i].call)
                                 /\ \E k \in DOMAIN FilesOf(r[i]) : e = Event(r, i, k)
  <2>1. PICK i \in DOMAIN r : /\ Recorded(r, i) /\ r[i].call \in PatchOK(r)
                              /\ \E k \in DOMAIN FilesOf(r[i]) : e = Event(r, i, k)
    BY ResultEvents
  <2>2. Confirmed(cs, r, r[i].call)
    BY <2>1, ConfirmedCalls
  <2>. QED BY <2>1, <2>2
<1>. QED BY <1>1 DEF Sourced

(* An event is one file of one recorded line.                              *)
LEMMA EventsType ==
  ASSUME NEW cs, NEW r, NEW es, Consistent(cs, r), Sourced(cs, r, es), NEW e \in es
  PROVE  \E i \in DOMAIN r : \E k \in 1..Len(FilesOf(r[i])) :
           /\ e = Event(r, i, k) /\ Recorded(r, i) /\ Confirmed(cs, r, e.call)
           /\ e.call = r[i].call /\ e.call \in Call /\ e.index = k - 1
           /\ e.file = FilesOf(r[i])[k]
           /\ cs[e.call].patch \in Patches
           /\ Matches(FilesOf(r[i]), cs[e.call].shape, cs[e.call].patch)
           /\ Len(FilesOf(r[i])) \in Nat
           /\ Len(FilesOf(r[i])) <= Len(cs[e.call].patch)
<1>1. PICK i \in DOMAIN r : /\ Recorded(r, i) /\ Confirmed(cs, r, r[i].call)
                            /\ \E k \in DOMAIN FilesOf(r[i]) : e = Event(r, i, k)
  BY DEF Sourced
<1>2. PICK k \in DOMAIN FilesOf(r[i]) : e = Event(r, i, k)
  BY <1>1
<1>3. /\ r[i].call \in Call /\ cs[r[i].call].patch \in Patches
      /\ Matches(FilesOf(r[i]), cs[r[i].call].shape, cs[r[i].call].patch)
  BY <1>1, RecordedMatches
<1>4. cs[r[i].call].patch \in Seq(Section)
  BY <1>3, PatchesAssumption
<1>5. /\ Len(FilesOf(r[i])) \in Nat /\ DOMAIN FilesOf(r[i]) = 1..Len(FilesOf(r[i]))
      /\ Len(FilesOf(r[i])) <= Len(cs[r[i].call].patch)
  BY <1>3, <1>4, MatchesSize
<1>6. e.call = r[i].call /\ e.index = k - 1 /\ e.file = FilesOf(r[i])[k]
  BY <1>2 DEF Event
<1>. QED BY <1>1, <1>2, <1>3, <1>5, <1>6

(* The final verdict of the output of call c is about something other than *)
(* section k (Misjudged).                                                  *)
Misleads(r, c, k) == \E j \in DOMAIN r : OutputAt(r, j, c) /\ k \notin Final(r[j].output).of

(* When a call is over, a section that has been applied and is not         *)
(* misjudged is recorded by a scan in some line, and the call confirmed.   *)
LEMMA OverHasLine ==
  ASSUME NEW cs, NEW r, Consistent(cs, r), NEW c \in Call, cs[c].status = "over",
         NEW k \in Kept(cs[c].patch), k \in cs[c].applied, ~Misleads(r, c, k)
  PROVE  \E i \in DOMAIN r : r[i].call = c /\ Recorded(r, i) /\ c \in PatchOK(r)
<1>0. /\ CallsAre(cs) /\ Written(cs, r) /\ InOrder(r)
      /\ \A i \in DOMAIN r : Told(cs, r[i]) /\ i \in Nat /\ i >= 1
  BY DEF Consistent
<1>1. /\ cs[c].patch \in Patches /\ cs[c].patch \in Seq(Section)
      /\ cs[c].applied \in Outcomes(cs[c].shape, cs[c].patch)
  BY <1>0, PatchesAssumption DEF CallsAre, CallIs, Started, Finished
<1>2. ASSUME NEW files, NEW shape, Matches(files, shape, cs[c].patch) PROVE files # <<>>
  <2>1. Len(files) = Cardinality(Kept(cs[c].patch))
    BY <1>1, <1>2, MatchesSize
  <2>2. Cardinality(Kept(cs[c].patch)) # 0
    BY <1>1, KeptFinite, FS_EmptySet
  <2>. QED BY <2>1, <2>2
<1>3. ASSUME NEW part \in Parts(cs[c].shape, cs[c].patch), k \in part
      PROVE  part \subseteq cs[c].applied
  BY <1>1, <1>3, PartsApplied
<1>4. CASE cs[c].shape = "edit"
  <2>1. PICK i \in DOMAIN r : r[i].call = c /\ r[i].type = "patch_apply_end"
    BY <1>0, <1>4 DEF Written, HasLine
  <2>2. Whole(cs, c)
    <3>1. k \in DOMAIN cs[c].patch /\ DOMAIN cs[c].patch \in Parts(cs[c].shape, cs[c].patch)
      BY <1>4 DEF Kept, Parts
    <3>2. DOMAIN cs[c].patch \subseteq cs[c].applied
      BY <1>3, <3>1
    <3>3. cs[c].applied \subseteq DOMAIN cs[c].patch
      BY <1>1, PartsApplied
    <3>. QED BY <3>2, <3>3 DEF Whole, Finished
  <2>3. Matches(FilesOf(r[i]), "edit", cs[c].patch)
    BY <1>0, <2>1, <2>2, LineFiles
  <2>4. Recorded(r, i)
    <3>1. ASSUME NEW j \in 1..(i - 1), r[j].call = c PROVE FALSE
      <4>1. j \in DOMAIN r /\ j # i
        <5>1. DOMAIN r = 1..Len(r) /\ Len(r) \in Nat
          BY DEF Consistent
        <5>. QED BY <1>0, <5>1
      <4>2. r[j].type = "patch_apply_end"
        BY <1>0, <1>4, <3>1, <4>1 DEF Told
      <4>. QED BY <1>0, <2>1, <3>1, <4>1, <4>2 DEF InOrder
    <3>2. FilesOf(r[i]) # <<>>
      BY <1>2, <2>3
    <3>. QED BY <2>1, <3>1, <3>2 DEF Recorded
  <2>5. c \in PatchOK(r)
    BY <2>1, <2>4 DEF PatchOK, Confirms
  <2>. QED BY <2>1, <2>4, <2>5
<1>5. CASE cs[c].shape # "edit"
  <2>1. PICK i \in DOMAIN r : r[i].call = c /\ r[i].type = "custom_tool_call"
    BY <1>0, <1>5 DEF Written, HasLine, Started
  <2>2. PICK j \in DOMAIN r : r[j].call = c /\ r[j].type = "custom_tool_call_output"
    BY <1>0, <1>5 DEF Written, HasLine
  <2>3. Matches(FilesOf(r[i]), cs[c].shape, cs[c].patch)
    BY <1>0, <2>1, LineFiles
  <2>4. Recorded(r, i)
    <3>1. FilesOf(r[i]) # <<>>
      BY <1>2, <2>3
    <3>. QED BY <2>1, <3>1 DEF Recorded
  <2>5. OutputSucceeded(r[j].output)
    <3>1. r[j].output \in Outputs(cs[c])
      BY <1>0, <2>2 DEF Told
    <3>2. k \in Final(r[j].output).of
      BY <2>2 DEF Misleads, OutputAt
    <3>3. /\ OutputSucceeded(r[j].output) <=> Final(r[j].output).ok
          /\ Final(r[j].output).of \in Parts(cs[c].shape, cs[c].patch)
          /\ Final(r[j].output).ok <=> Final(r[j].output).of \subseteq cs[c].applied
      BY <1>5, <3>1, <3>2, OutputTells
    <3>. QED BY <1>3, <3>2, <3>3
  <2>6. c \in PatchOK(r)
    BY <2>2, <2>5 DEF PatchOK, Confirms
  <2>. QED BY <2>1, <2>4, <2>6
<1>. QED BY <1>4, <1>5

(* The events of call c in a scan.                                         *)
Found(r, c) == {e \in Result(r) : e.call = c}

(* Where a line of a confirmed call is recorded, a scan finds as many       *)
(* changes as its patch has, and each of them.                             *)
LEMMA FoundComplete ==
  ASSUME NEW cs, NEW r, Consistent(cs, r), NEW c \in Call, c \in PatchOK(r),
         NEW n \in DOMAIN r, r[n].call = c, Recorded(r, n)
  PROVE  /\ Cardinality(Found(r, c)) = Cardinality(Kept(cs[c].patch))
         /\ \A i \in Kept(cs[c].patch) :
              \E e \in Found(r, c) : Stands(e.file, cs[c].shape, cs[c].patch[i])
<1>. DEFINE p == cs[c].patch
            found == Found(r, c)
<1>1. p \in Patches /\ Matches(FilesOf(r[n]), cs[c].shape, p) /\ FilesOf(r[n]) # <<>>
  BY RecordedMatches DEF Recorded
<1>. DEFINE F1 == FilesOf(r[n])
            f == [k \in 1..Len(F1) |-> Event(r, n, k)]
<1>2. p \in Seq(Section) /\ p \in Patches
  BY <1>1, PatchesAssumption
<1>. HIDE DEF p
<1>3. /\ Len(F1) \in Nat /\ DOMAIN F1 = 1..Len(F1) /\ Len(F1) = Cardinality(Kept(p))
      /\ F1 \in Seq(File)
  BY <1>1, <1>2, MatchesSize DEF Matches
<1>4. found = {f[k] : k \in 1..Len(F1)}
  <2>0. \A e : e \in found <=> e \in Result(r) /\ e.call = c
    BY DEF Found
  <2>. HIDE DEF found
  <2>1. ASSUME NEW e \in found PROVE \E k \in 1..Len(F1) : e = Event(r, n, k)
    <3>1. PICK i \in DOMAIN r : /\ Recorded(r, i) /\ r[i].call \in PatchOK(r)
                                /\ \E k \in DOMAIN FilesOf(r[i]) : e = Event(r, i, k)
      BY <2>0, ResultEvents
    <3>2. r[i].call = c
      BY <2>0, <3>1 DEF Event
    <3>5. i = n
      BY <3>1, <3>2, RecordedOnce
    <3>. QED BY <1>3, <3>1, <3>5
  <2>2. ASSUME NEW k \in 1..Len(F1) PROVE Event(r, n, k) \in found
    <3>1. Event(r, n, k) \in Result(r)
      BY <1>3, ResultEvents
    <3>. QED BY <2>0, <3>1 DEF Event
  <2>. QED BY <2>1, <2>2
<1>5. \A j, k \in 1..Len(F1) : f[j] = f[k] => j = k
  BY <1>3 DEF Event
<1>6. IsFiniteSet(1..Len(F1)) /\ Cardinality(1..Len(F1)) = Len(F1)
  BY <1>3, IntervalSize
<1>7. \A k \in 1..Len(F1) : f[k].file = F1[k]
  BY DEF Event
<1>. HIDE DEF f
<1>8. Cardinality(found) = Cardinality(Kept(p))
  <2>. DEFINE S == 1..Len(F1)
  <2>1. IsFiniteSet(S) /\ Cardinality(S) = Len(F1) /\ \A j, k \in S : f[j] = f[k] => j = k
    BY <1>5, <1>6
  <2>2. found = {f[k] : k \in S}
    BY <1>4
  <2>. HIDE DEF S, F1, found
  <2>3. Cardinality({f[k] : k \in S}) = Cardinality(S)
    BY <2>1, ImageSize
  <2>. QED BY <1>3, <2>1, <2>2, <2>3
<1>9. ASSUME NEW i \in Kept(p)
      PROVE  \E e \in found : Stands(e.file, cs[c].shape, p[i])
  <2>1. PICK b \in Bijection(1..Len(F1), Kept(p)) :
          \A k \in 1..Len(F1) : Stands(F1[k], cs[c].shape, p[b[k]])
    BY <1>1 DEF Matches
  <2>2. PICK k \in 1..Len(F1) : b[k] = i
    BY <2>1 DEF Bijection, Surjection
  <2>3. Stands(f[k].file, cs[c].shape, p[i])
    BY <1>7, <2>1, <2>2
  <2>. QED BY <1>4, <2>3
<1>. QED BY <1>8, <1>9 DEF p

(* When a call is over, a scan finds all changes of its patch or none, and *)
(* all where some section was applied and is not misjudged.                *)
LEMMA OverIsComplete ==
  ASSUME NEW cs, NEW r, Consistent(cs, r), NEW c \in Call, cs[c].status = "over"
  PROVE  /\ Cardinality(Found(r, c)) \in {0, Cardinality(Kept(cs[c].patch))}
         /\ \A k \in Kept(cs[c].patch) \cap cs[c].applied :
              ~Misleads(r, c, k) =>
                \E e \in Found(r, c) : Stands(e.file, cs[c].shape, cs[c].patch[k])
<1>1. CASE \E n \in DOMAIN r : r[n].call = c /\ Recorded(r, n) /\ c \in PatchOK(r)
  BY <1>1, FoundComplete
<1>2. CASE ~\E n \in DOMAIN r : r[n].call = c /\ Recorded(r, n) /\ c \in PatchOK(r)
  <2>1. Found(r, c) = {}
    <3>1. ASSUME NEW e \in Result(r), e.call = c PROVE FALSE
      <4>1. PICK i \in DOMAIN r : /\ Recorded(r, i) /\ r[i].call \in PatchOK(r)
                                  /\ \E k \in DOMAIN FilesOf(r[i]) : e = Event(r, i, k)
        BY ResultEvents
      <4>2. r[i].call = c
        BY <3>1, <4>1 DEF Event
      <4>. QED BY <1>2, <4>1, <4>2
    <3>. QED BY <3>1 DEF Found
  <2>2. Cardinality({}) = 0
    BY FS_EmptySet
  <2>. QED BY <1>2, <2>1, <2>2, OverHasLine
<1>. QED BY <1>1, <1>2


-----------------------------------------------------------------------------
(* Steps.                                                                  *)
LEMMA OneMoreLine ==
  ASSUME NEW S, NEW r \in Seq(S), NEW l \in S
  PROVE  /\ Append(r, l) \in Seq(S) /\ Len(Append(r, l)) = Len(r) + 1 /\ Len(r) \in Nat
         /\ DOMAIN r = 1..Len(r) /\ DOMAIN Append(r, l) = 1..(Len(r) + 1)
         /\ Append(r, l)[Len(r) + 1] = l
         /\ \A i \in DOMAIN r : i \in DOMAIN Append(r, l) /\ Append(r, l)[i] = r[i]
         /\ \A i \in DOMAIN Append(r, l) : i = Len(r) + 1 \/ i \in DOMAIN r
OBVIOUS

(* What has been recorded stays so.                                        *)
LEMMA SourcedAppend ==
  ASSUME NEW cs, NEW ds, NEW r \in Seq(Line), NEW l \in Line, NEW es, Sourced(cs, r, es),
         \A i \in DOMAIN r : Whole(cs, r[i].call) => Whole(ds, r[i].call)
  PROVE  Sourced(ds, r, es) /\ Sourced(ds, Append(r, l), es)
<1>. DEFINE q == Append(r, l)
<1>1. /\ \A i \in DOMAIN r : i \in DOMAIN q /\ q[i] = r[i]
      /\ DOMAIN r = 1..Len(r) /\ Len(r) \in Nat
  BY OneMoreLine
<1>. HIDE DEF q
<1>2. ASSUME NEW i \in DOMAIN r, Recorded(r, i) PROVE Recorded(q, i)
  <2>1. \A j \in 1..(i - 1) : j \in DOMAIN r
    BY <1>1
  <2>. QED BY <1>1, <1>2, <2>1 DEF Recorded
<1>3. \A i \in DOMAIN r : \A k : Event(q, i, k) = Event(r, i, k)
  BY <1>1 DEF Event
<1>4. ASSUME NEW i \in DOMAIN r, Confirmed(cs, r, r[i].call)
      PROVE  Confirmed(ds, r, r[i].call) /\ Confirmed(ds, q, r[i].call)
  BY <1>1, <1>4 DEF Confirmed, OutputAt
<1>. QED BY <1>1, <1>2, <1>3, <1>4 DEF Sourced, q

(* One more line, about call c, and what has become of the call: c alone   *)
(* has changed, and has no line of this kind so far.                       *)
LEMMA AppendConsistent ==
  ASSUME NEW cs, NEW ds, NEW r, Consistent(cs, r), NEW l \in Line, CallsAre(ds),
         \A d \in Call \ {l.call} : ds[d] = cs[d],
         \A i \in DOMAIN r : r[i].call = l.call => Told(ds, r[i]) /\ r[i].type # l.type,
         Told(ds, l),
         l.type = "custom_tool_call" => \A i \in DOMAIN r : r[i].call # l.call,
         ds[l.call].shape # "edit" =>
           l.type = "custom_tool_call" \/ HasLine(r, l.call, "custom_tool_call"),
         ds[l.call].status = "over" =>
           l.type = IF ds[l.call].shape = "edit" THEN "patch_apply_end"
                                                 ELSE "custom_tool_call_output"
  PROVE  Consistent(ds, Append(r, l))
<1>. DEFINE q == Append(r, l)
            n == Len(r) + 1
<1>0. /\ r \in Seq(Line) /\ \A i \in DOMAIN r : Told(cs, r[i])
      /\ InOrder(r) /\ Written(cs, r) /\ l.call \in Call
  BY DEF Consistent, Told
<1>1. /\ q \in Seq(Line) /\ Len(q) = n /\ Len(r) \in Nat /\ n \in DOMAIN q
      /\ DOMAIN r = 1..Len(r) /\ DOMAIN q = 1..n /\ q[n] = l
      /\ \A i \in DOMAIN r : i \in DOMAIN q /\ q[i] = r[i]
      /\ \A i \in DOMAIN q : i = n \/ i \in DOMAIN r
  <2>1. r \in Seq(Line)
    BY <1>0
  <2>. QED BY <2>1, OneMoreLine
<1>2. \A i \in DOMAIN r : i < n /\ i # n /\ i <= n
  BY <1>1
<1>. HIDE DEF q, n
<1>3. ASSUME NEW i \in DOMAIN q PROVE Told(ds, q[i])
  <2>1. CASE i = n
    BY <1>1, <2>1
  <2>2. CASE i \in DOMAIN r /\ r[i].call = l.call
    BY <1>1, <2>2
  <2>3. CASE i \in DOMAIN r /\ r[i].call # l.call
    <3>1. ds[r[i].call] = cs[r[i].call]
      BY <1>0, <2>3 DEF Told
    <3>. QED BY <1>0, <1>1, <2>3, <3>1 DEF Told
  <2>. QED BY <1>1, <2>1, <2>2, <2>3
<1>4. ASSUME NEW i \in DOMAIN q, NEW j \in DOMAIN q, q[i].call = q[j].call
      PROVE  /\ q[i].type = q[j].type => i = j
             /\ q[i].type = "custom_tool_call" => i <= j
  <2>1. CASE i = n /\ j = n
    BY <1>1, <2>1
  <2>2. CASE i \in DOMAIN r /\ j \in DOMAIN r
    BY <1>0, <1>1, <1>4, <2>2 DEF InOrder
  <2>3. CASE i = n /\ j \in DOMAIN r
    BY <1>1, <1>4, <2>3
  <2>4. CASE i \in DOMAIN r /\ j = n
    BY <1>1, <1>2, <1>4, <2>4
  <2>. QED BY <1>1, <2>1, <2>2, <2>3, <2>4
<1>5. ASSUME NEW c \in Call, NEW type, HasLine(r, c, type) PROVE HasLine(q, c, type)
  BY <1>1, <1>5 DEF HasLine
<1>6. HasLine(q, l.call, l.type)
  BY <1>1 DEF HasLine
<1>7. ASSUME NEW c \in Call
      PROVE  /\ ds[c].status \in Started /\ ds[c].shape # "edit" =>
                  HasLine(q, c, "custom_tool_call")
             /\ ds[c].status = "over" =>
                  HasLine(q, c, IF ds[c].shape = "edit" THEN "patch_apply_end"
                                                        ELSE "custom_tool_call_output")
  <2>1. CASE c = l.call
    BY <1>5, <1>6, <2>1
  <2>2. CASE c # l.call
    <3>1. ds[c] = cs[c]
      BY <2>2
    <3>. QED BY <1>0, <1>5, <3>1 DEF Written
  <2>. QED BY <2>1, <2>2
<1>8. InOrder(q) /\ Written(ds, q)
  BY <1>4, <1>7 DEF InOrder, Written
<1>. QED BY <1>1, <1>3, <1>8 DEF Consistent, q

(* No new line: only c has changed, and its lines still tell of it.        *)
LEMMA SameLinesConsistent ==
  ASSUME NEW cs, NEW ds, NEW r, Consistent(cs, r), NEW c \in Call, CallsAre(ds),
         \A d \in Call \ {c} : ds[d] = cs[d],
         \A i \in DOMAIN r : r[i].call = c => Told(ds, r[i]),
         ds[c].shape # "edit" => HasLine(r, c, "custom_tool_call"),
         ds[c].status # "over"
  PROVE  Consistent(ds, r)
<1>1. ASSUME NEW i \in DOMAIN r PROVE Told(ds, r[i])
  <2>1. Told(cs, r[i])
    BY DEF Consistent
  <2>2. r[i].call # c => ds[r[i].call] = cs[r[i].call]
    BY <2>1 DEF Told
  <2>. QED BY <2>1, <2>2 DEF Told
<1>2. ASSUME NEW d \in Call
      PROVE  /\ ds[d].status \in Started /\ ds[d].shape # "edit" =>
                  HasLine(r, d, "custom_tool_call")
             /\ ds[d].status = "over" =>
                  HasLine(r, d, IF ds[d].shape = "edit" THEN "patch_apply_end"
                                                        ELSE "custom_tool_call_output")
  <2>1. d # c => ds[d] = cs[d]
    OBVIOUS
  <2>. QED BY <2>1 DEF Consistent, Written
<1>3. Written(ds, r)
  BY <1>2 DEF Written
<1>. QED BY <1>1, <1>3 DEF Consistent

PatchInv == Consistent(calls, rollout) /\ Sourced(calls, rollout, edits)

(* No calls, no lines, no edits.                                           *)
LEMMA PatchInitInvariant == PatchInit => PatchInv
<1>. SUFFICES ASSUME PatchInit PROVE PatchInv
  OBVIOUS
<1>1. /\ \A c \in Call : calls[c] = NotYet
      /\ calls = [c \in Call |-> NotYet] /\ rollout = <<>> /\ edits = {}
  BY DEF PatchInit
<1>2. NotYet \in CallType
  BY DEF NotYet, CallType, Shape
<1>3. CallsAre(calls)
  <2>1. calls \in [Call -> CallType]
    BY <1>1, <1>2
  <2>2. NotYet.status = "none" /\ NotYet.applied = {}
    BY DEF NotYet
  <2>. QED BY <1>1, <2>1, <2>2 DEF CallsAre, CallIs, Started, Finished
<1>4. rollout \in Seq(Line) /\ DOMAIN rollout = {}
  BY <1>1
<1>5. \A c \in Call : calls[c].status = "none"
  BY <1>1 DEF NotYet
<1>6. Consistent(calls, rollout)
  BY <1>3, <1>4, <1>5 DEF Consistent, InOrder, Written, Started
<1>7. Sourced(calls, rollout, edits)
  BY <1>1 DEF Sourced
<1>. QED BY <1>6, <1>7 DEF PatchInv

(* Of the calls, only c has changed.                                       *)
OnlyCall(cs, ds, c) == ds \in [Call -> CallType] /\ \A d \in Call \ {c} : ds[d] = cs[d]

(* The calls keep their invariant when c does.                             *)
LEMMA CallChanged ==
  ASSUME NEW cs, NEW ds, NEW c \in Call, CallsAre(cs), OnlyCall(cs, ds, c),
         CallIs(ds[c])
  PROVE  CallsAre(ds)
<1>1. ds \in [Call -> CallType] /\ \A d \in Call : d # c => ds[d] = cs[d]
  BY DEF OnlyCall
<1>. QED BY <1>1 DEF CallsAre

(* Ask, Finish and Output, by what each makes of the call and of the file. *)
LEMMA AskSound ==
  ASSUME NEW cs, NEW ds, NEW r, NEW es, Consistent(cs, r), Sourced(cs, r, es),
         NEW c \in Call, NEW shape \in Shape, NEW p \in Patches,
         cs[c].status = "none", OnlyCall(cs, ds, c),
         ds[c].status = "asked", ds[c].shape = shape, ds[c].patch = p,
         ds[c].applied = {}
  PROVE  IF shape = "edit"
           THEN Consistent(ds, r) /\ Sourced(ds, r, es)
           ELSE LET q == Append(r, [type |-> "custom_tool_call", call |-> c,
                                    shape |-> shape, patch |-> p])
                IN Consistent(ds, q) /\ Sourced(ds, q, es)
<1>. DEFINE l == [type |-> "custom_tool_call", call |-> c, shape |-> shape, patch |-> p]
<1>1. l.type = "custom_tool_call" /\ l.call = c /\ l.shape = shape /\ l.patch = p
  OBVIOUS
<1>2. shape # "edit" => l \in Line
  BY DEF Line, CallLine
<1>. HIDE DEF l
<1>3. CallsAre(cs) /\ r \in Seq(Line) /\ \A i \in DOMAIN r : Told(cs, r[i])
  BY DEF Consistent
<1>4. CallsAre(ds)
  <2>1. CallIs(ds[c])
    BY DEF CallIs, Started, Finished
  <2>. QED BY <1>3, <2>1, CallChanged
<1>5. \A i \in DOMAIN r : r[i].call # c
  BY <1>3 DEF Told, Started, Finished
<1>6. \A d \in Call \ {c} : ds[d] = cs[d]
  BY DEF OnlyCall
<1>7. \A i \in DOMAIN r : Whole(cs, r[i].call) => Whole(ds, r[i].call)
  BY <1>3, <1>5, <1>6 DEF Told, Whole
<1>8. CASE shape = "edit"
  <2>1. ds[c].shape = "edit" /\ ds[c].status # "over"
    BY <1>8
  <2>2. Consistent(ds, r)
    BY <1>4, <1>5, <1>6, <2>1, SameLinesConsistent
  <2>3. Sourced(ds, r, es)
    BY <1>7 DEF Sourced, Confirmed
  <2>. QED BY <1>8, <2>2, <2>3
<1>9. CASE shape # "edit"
  <2>1. Told(ds, l)
    BY <1>1, <1>9 DEF Told, Started
  <2>2. ds[l.call].status # "over"
    BY <1>1
  <2>3. Consistent(ds, Append(r, l))
    BY <1>1, <1>2, <1>4, <1>5, <1>6, <1>9, <2>1, <2>2, AppendConsistent
  <2>4. Sourced(ds, Append(r, l), es)
    BY <1>2, <1>3, <1>7, <1>9, SourcedAppend
  <2>. QED BY <1>9, <2>3, <2>4 DEF l
<1>. QED BY <1>8, <1>9

(* The patch_apply_end line, if it is written, is the first for its call.  *)
LEMMA FinishSound ==
  ASSUME NEW cs, NEW ds, NEW r, NEW es, Consistent(cs, r), Sourced(cs, r, es),
         NEW c \in Call, NEW applied \in Outcomes(cs[c].shape, cs[c].patch), NEW told \in BOOLEAN,
         cs[c].status = "asked", cs[c].shape = "edit" => told, OnlyCall(cs, ds, c),
         ds[c].status = IF cs[c].shape = "edit" THEN "over" ELSE "run",
         ds[c].shape = cs[c].shape, ds[c].patch = cs[c].patch,
         ds[c].applied = applied
  PROVE  IF told
           THEN LET q == Append(r, [type |-> "patch_apply_end", call |-> c,
                                    ok |-> applied = DOMAIN cs[c].patch,
                                    patch |-> cs[c].patch])
                IN Consistent(ds, q) /\ Sourced(ds, q, es)
           ELSE Consistent(ds, r) /\ Sourced(ds, r, es)
<1>. DEFINE l == [type |-> "patch_apply_end", call |-> c,
                  ok |-> applied = DOMAIN cs[c].patch, patch |-> cs[c].patch]
<1>1. CallsAre(cs) /\ r \in Seq(Line) /\ \A i \in DOMAIN r : Told(cs, r[i])
  BY DEF Consistent
<1>2. cs[c].patch \in Patches
  BY <1>1 DEF CallsAre, CallIs, Started
<1>3. /\ l.type = "patch_apply_end" /\ l.call = c /\ l.patch = cs[c].patch
      /\ l.ok <=> applied = DOMAIN cs[c].patch
      /\ l \in Line
  BY <1>2 DEF Line, EndLine
<1>. HIDE DEF l
<1>4. CallsAre(ds)
  <2>1. CallIs(ds[c])
    BY <1>2 DEF CallIs, Started, Finished
  <2>. QED BY <1>1, <2>1, CallChanged
<1>5. \A d \in Call \ {c} : ds[d] = cs[d]
  BY DEF OnlyCall
<1>6. ASSUME NEW i \in DOMAIN r, r[i].call = c
      PROVE  Told(ds, r[i]) /\ r[i].type # "patch_apply_end"
  <2>1. r[i].type = "custom_tool_call" /\ cs[c].shape # "edit"
    BY <1>1, <1>6 DEF Told, Finished
  <2>. QED BY <1>1, <1>6, <2>1 DEF Told, Started
<1>7. \A i \in DOMAIN r : Whole(cs, r[i].call) => Whole(ds, r[i].call)
  BY <1>1, <1>5 DEF Told, Whole, Finished
<1>8. ds[c].shape # "edit" => HasLine(r, c, "custom_tool_call")
  BY DEF Consistent, Written, Started
<1>9. CASE told
  <2>1. Told(ds, l)
    BY <1>3 DEF Told, Finished
  <2>2. \A i \in DOMAIN r : r[i].call = l.call => Told(ds, r[i]) /\ r[i].type # l.type
    BY <1>3, <1>6
  <2>3. ds[l.call].status = "over" => ds[l.call].shape = "edit"
    BY <1>3
  <2>4. ds[l.call].shape # "edit" => HasLine(r, l.call, "custom_tool_call")
    BY <1>3, <1>8
  <2>5. \A d \in Call \ {l.call} : ds[d] = cs[d]
    BY <1>3, <1>5
  <2>6. Consistent(ds, Append(r, l))
    BY <1>3, <1>4, <2>1, <2>2, <2>3, <2>4, <2>5, AppendConsistent
  <2>7. Sourced(ds, Append(r, l), es)
    BY <1>1, <1>3, <1>7, SourcedAppend
  <2>. QED BY <1>9, <2>6, <2>7 DEF l
<1>10. CASE ~told
  <2>1. ds[c].status # "over"
    BY <1>10
  <2>2. Consistent(ds, r)
    BY <1>4, <1>5, <1>6, <1>8, <2>1, SameLinesConsistent
  <2>3. Sourced(ds, r, es)
    BY <1>7 DEF Sourced, Confirmed
  <2>. QED BY <1>10, <2>2, <2>3
<1>. QED BY <1>9, <1>10

(* The output line is the first for its call and tells its outcome.        *)
LEMMA OutputSound ==
  ASSUME NEW cs, NEW ds, NEW r, NEW es, Consistent(cs, r), Sourced(cs, r, es),
         NEW c \in Call, cs[c].status = "run", OnlyCall(cs, ds, c),
         ds[c].status = "over", ds[c].shape = cs[c].shape,
         ds[c].patch = cs[c].patch, ds[c].applied = cs[c].applied,
         NEW out \in Outputs(cs[c])
  PROVE  LET q == Append(r, [type |-> "custom_tool_call_output", call |-> c,
                             output |-> out])
         IN Consistent(ds, q) /\ Sourced(ds, q, es)
<1>. DEFINE l == [type |-> "custom_tool_call_output", call |-> c, output |-> out]
<1>1. CallsAre(cs) /\ r \in Seq(Line) /\ \A i \in DOMAIN r : Told(cs, r[i])
  BY DEF Consistent
<1>2. cs[c] \in CallType /\ cs[c].patch \in Patches /\ cs[c].shape # "edit"
  BY <1>1 DEF CallsAre, CallIs, Started
<1>3. out \in Out /\ out \in Outputs(ds[c])
  <2>1. out \in Out
    BY <1>2 DEF Out
  <2>2. Outputs(ds[c]) = Outputs(cs[c])
    BY DEF Outputs, ToolOutputs, ScriptOutputs, Verdicts, Says
  <2>. QED BY <2>1, <2>2
<1>4. /\ l.type = "custom_tool_call_output" /\ l.call = c /\ l.output = out
      /\ l \in Line
  BY <1>3 DEF Line, OutLine
<1>. HIDE DEF l
<1>5. CallsAre(ds)
  <2>1. CallIs(ds[c])
    BY <1>1, <1>2 DEF CallsAre, CallIs, Started, Finished
  <2>. QED BY <1>1, <2>1, CallChanged
<1>6. \A d \in Call \ {c} : ds[d] = cs[d]
  BY DEF OnlyCall
<1>7. ASSUME NEW i \in DOMAIN r, r[i].call = c
      PROVE  Told(ds, r[i]) /\ r[i].type # "custom_tool_call_output"
  <2>1. r[i].type # "custom_tool_call_output"
    BY <1>1, <1>7 DEF Told
  <2>. QED BY <1>1, <1>7, <2>1 DEF Told, Started, Finished
<1>8. \A i \in DOMAIN r : Whole(cs, r[i].call) => Whole(ds, r[i].call)
  BY <1>1, <1>6 DEF Told, Whole, Finished
<1>9. HasLine(r, c, "custom_tool_call")
  BY <1>2 DEF Consistent, Written, Started
<1>10. Told(ds, l)
  BY <1>2, <1>3, <1>4 DEF Told
<1>11. Consistent(ds, Append(r, l))
  <2>1. \A i \in DOMAIN r : r[i].call = l.call => Told(ds, r[i]) /\ r[i].type # l.type
    BY <1>4, <1>7
  <2>2. ds[l.call].shape # "edit" /\ HasLine(r, l.call, "custom_tool_call")
    BY <1>2, <1>4, <1>9
  <2>3. /\ \A d \in Call \ {l.call} : ds[d] = cs[d]
        /\ l.type # "custom_tool_call" /\ l.type = "custom_tool_call_output"
    BY <1>4, <1>6
  <2>. QED BY <1>4, <1>5, <1>10, <2>1, <2>2, <2>3, AppendConsistent
<1>12. Sourced(ds, Append(r, l), es)
  BY <1>1, <1>4, <1>8, SourcedAppend
<1>. QED BY <1>11, <1>12 DEF l

(* Each step keeps the invariant.                                          *)
LEMMA PatchStepInvariant == PatchInv /\ [PatchNext]_patchVars => PatchInv'
<1>. SUFFICES ASSUME PatchInv, [PatchNext]_patchVars PROVE PatchInv'
  OBVIOUS
<1>0. Consistent(calls, rollout) /\ Sourced(calls, rollout, edits)
  BY DEF PatchInv
<1>. SUFFICES Consistent(calls', rollout') /\ Sourced(calls', rollout', edits')
  BY DEF PatchInv, Consistent, Sourced, CallsAre, Told, InOrder, Written, HasLine,
         Confirmed, Whole, OutputAt
<1>6. calls \in [Call -> CallType] /\ \A c \in Call : calls[c] \in CallType
  BY <1>0 DEF Consistent, CallsAre
<1>1. ASSUME NEW c \in Call, NEW shape \in Shape, NEW p \in Patches, Ask(c, shape, p)
      PROVE  Consistent(calls', rollout') /\ Sourced(calls', rollout', edits')
  <2>1. edits' = edits /\ calls[c].status = "none"
    BY <1>1 DEF Ask
  <2>2. /\ OnlyCall(calls, calls', c) /\ calls'[c].status = "asked"
        /\ calls'[c].shape = shape /\ calls'[c].patch = p /\ calls'[c].applied = {}
    BY <1>1, <1>6 DEF Ask, OnlyCall, CallType
  <2>3. rollout' = IF shape = "edit" THEN rollout
                     ELSE Append(rollout, [type |-> "custom_tool_call", call |-> c,
                                           shape |-> shape, patch |-> p])
    BY <1>1 DEF Ask
  <2>. QED BY <1>0, <2>1, <2>2, <2>3, AskSound
<1>2. ASSUME NEW c \in Call, NEW applied \in Outcomes(calls[c].shape, calls[c].patch),
             NEW told \in BOOLEAN, Finish(c, applied, told)
      PROVE  Consistent(calls', rollout') /\ Sourced(calls', rollout', edits')
  <2>1. edits' = edits /\ calls[c].status = "asked" /\ (calls[c].shape = "edit" => told)
    BY <1>2 DEF Finish
  <2>2. /\ OnlyCall(calls, calls', c)
        /\ calls'[c].status = IF calls[c].shape = "edit" THEN "over" ELSE "run"
        /\ calls'[c].shape = calls[c].shape /\ calls'[c].patch = calls[c].patch
        /\ calls'[c].applied = applied
    <3>1. applied \in SUBSET Nat
      <4>1. applied \subseteq DOMAIN calls[c].patch
        BY PartsApplied
      <4>2. calls[c].patch \in Patches \cup {<<>>} /\ <<>> \in Seq(Section)
        BY <1>6 DEF CallType
      <4>3. calls[c].patch \in Seq(Section)
        BY <4>2, PatchesAssumption
      <4>. QED BY <4>1, <4>3
    <3>. QED BY <1>2, <1>6, <3>1 DEF Finish, OnlyCall, CallType
  <2>3. rollout' = IF told THEN Append(rollout, [type |-> "patch_apply_end", call |-> c,
                                                 ok |-> applied = DOMAIN calls[c].patch,
                                                 patch |-> calls[c].patch])
                           ELSE rollout
    BY <1>2 DEF Finish
  <2>. QED BY <1>0, <2>1, <2>2, <2>3, FinishSound
<1>3. ASSUME NEW c \in Call, Output(c)
      PROVE  Consistent(calls', rollout') /\ Sourced(calls', rollout', edits')
  <2>1. edits' = edits /\ calls[c].status = "run"
    BY <1>3 DEF Output
  <2>2. /\ OnlyCall(calls, calls', c) /\ calls'[c].status = "over"
        /\ calls'[c].shape = calls[c].shape /\ calls'[c].patch = calls[c].patch
        /\ calls'[c].applied = calls[c].applied
    BY <1>3, <1>6 DEF Output, OnlyCall, CallType
  <2>3. PICK out \in Outputs(calls[c]) :
          rollout' = Append(rollout, [type |-> "custom_tool_call_output", call |-> c,
                                      output |-> out])
    BY <1>3 DEF Output
  <2>. QED BY <1>0, <2>1, <2>2, <2>3, OutputSound
<1>4. ASSUME Scan
      PROVE  Consistent(calls', rollout') /\ Sourced(calls', rollout', edits')
  <2>1. calls' = calls /\ rollout' = rollout /\ edits' = edits \cup Result(rollout)
    BY <1>4 DEF Scan
  <2>. QED BY <1>0, <2>1, ResultSourced
<1>5. ASSUME UNCHANGED patchVars
      PROVE  Consistent(calls', rollout') /\ Sourced(calls', rollout', edits')
  BY <1>0, <1>5 DEF patchVars
<1>. QED BY <1>1, <1>2, <1>3, <1>4, <1>5 DEF PatchNext

(* The invariant holds in every reachable state.                           *)
LEMMA PatchInvariant == PatchSpec => []PatchInv
BY PatchInitInvariant, PatchStepInvariant, PTL DEF PatchSpec

(* Calls, lines and edit records have their types: an event's index is one *)
(* of the sections of its call (codex.go:315).                             *)
THEOREM PatchTypeCorrect == PatchSpec => []PatchTypeOK
<1>1. PatchInv => PatchTypeOK
  <2>. SUFFICES ASSUME PatchInv PROVE PatchTypeOK
    OBVIOUS
  <2>0. Consistent(calls, rollout) /\ Sourced(calls, rollout, edits)
    BY DEF PatchInv
  <2>1. calls \in [Call -> CallType]
    BY <2>0 DEF Consistent, CallsAre
  <2>2. \A i \in DOMAIN rollout : rollout[i].call \in Call
    BY <2>0 DEF Consistent, Told
  <2>3. ASSUME NEW e \in edits
        PROVE  /\ e.call \in Call
               /\ e.index \in 0..(Len(calls[e.call].patch) - 1)
               /\ e.file \in File
    <3>1. PICK i \in DOMAIN rollout : \E k \in 1..Len(FilesOf(rollout[i])) :
            /\ e.call \in Call /\ e.index = k - 1 /\ e.file = FilesOf(rollout[i])[k]
            /\ calls[e.call].patch \in Patches
            /\ Matches(FilesOf(rollout[i]), calls[e.call].shape, calls[e.call].patch)
            /\ Len(FilesOf(rollout[i])) \in Nat
            /\ Len(FilesOf(rollout[i])) <= Len(calls[e.call].patch)
      BY <2>0, EventsType
    <3>2. FilesOf(rollout[i]) \in Seq(File)
      BY <3>1 DEF Matches
    <3>3. Len(calls[e.call].patch) \in Nat
      <4>1. calls[e.call].patch \in Seq(Section)
        BY <3>1, PatchesAssumption
      <4>. QED BY <4>1
    <3>. QED BY <3>1, <3>2, <3>3
  <2>4. ASSUME NEW c \in Call PROVE calls[c].applied \subseteq DOMAIN calls[c].patch
    <3>1. CallIs(calls[c]) /\ calls[c] \in CallType
      BY <2>0 DEF Consistent, CallsAre
    <3>. QED BY <3>1, PartsApplied DEF CallIs
  <2>. QED BY <2>1, <2>2, <2>3, <2>4 DEF PatchTypeOK, CallType, File
<1>. QED BY <1>1, PatchInvariant, PTL

(* An event id stands for one and the same change in every scan: only one  *)
(* line of a call is ever recorded, and later lines change neither that    *)
(* nor the order of its files (codex.go:297-300, 315).                     *)
THEOREM EventsAreStable == PatchSpec => []EventsStable
<1>1. PatchInv => EventsStable
  <2>. SUFFICES ASSUME PatchInv, NEW d \in edits, NEW e \in edits,
                       d.call = e.call, d.index = e.index
                PROVE  d = e
    BY DEF EventsStable
  <2>0. Consistent(calls, rollout) /\ Sourced(calls, rollout, edits)
    BY DEF PatchInv
  <2>1. PICK i \in DOMAIN rollout : \E k \in 1..Len(FilesOf(rollout[i])) :
          /\ d = Event(rollout, i, k) /\ Recorded(rollout, i)
          /\ d.call = rollout[i].call /\ d.index = k - 1
    BY <2>0, EventsType
  <2>2. PICK j \in DOMAIN rollout : \E k \in 1..Len(FilesOf(rollout[j])) :
          /\ e = Event(rollout, j, k) /\ Recorded(rollout, j)
          /\ e.call = rollout[j].call /\ e.index = k - 1
    BY <2>0, EventsType
  <2>3. i = j
    BY <2>0, <2>1, <2>2, RecordedOnce
  <2>. QED BY <2>1, <2>2, <2>3
<1>. QED BY <1>1, PatchInvariant, PTL

(* Every edit record has the lines of one of the sections of its call, and *)
(* this section has been applied unless the verdict that the parser goes   *)
(* by is about something else (codex.go:88-89).                            *)
THEOREM EditsAreAlwaysChanges == PatchSpec => []EditsAreChanges
<1>1. PatchInv => EditsAreChanges
  <2>. SUFFICES ASSUME PatchInv, NEW e \in edits
                PROVE  \E k \in Counting(e.call) :
                         /\ StandsFor(e.file, e.call, calls[e.call].patch[k])
                         /\ k \in calls[e.call].applied \/ Misjudged(e.call, k)
    BY DEF EditsAreChanges
  <2>0. Consistent(calls, rollout) /\ Sourced(calls, rollout, edits)
    BY DEF PatchInv
  <2>. DEFINE p == calls[e.call].patch
  <2>1. PICK i \in DOMAIN rollout : \E k \in 1..Len(FilesOf(rollout[i])) :
          /\ Confirmed(calls, rollout, e.call) /\ e.file = FilesOf(rollout[i])[k]
          /\ e.call \in Call
          /\ Matches(FilesOf(rollout[i]), calls[e.call].shape, p)
    BY <2>0, EventsType
  <2>2. PICK k \in 1..Len(FilesOf(rollout[i])) : e.file = FilesOf(rollout[i])[k]
    BY <2>1
  <2>3. PICK b \in Bijection(1..Len(FilesOf(rollout[i])), Kept(p)) :
          \A n \in 1..Len(FilesOf(rollout[i])) :
            Stands(FilesOf(rollout[i])[n], calls[e.call].shape, p[b[n]])
    BY <2>1 DEF Matches
  <2>4. b[k] \in Kept(p) /\ Stands(e.file, calls[e.call].shape, p[b[k]])
    BY <2>2, <2>3 DEF Bijection, Injection
  <2>5. b[k] \in Counting(e.call) /\ StandsFor(e.file, e.call, p[b[k]])
    BY <2>4 DEF Kept, Counting, Stands, StandsFor, Path, LosesLines, AddedCount, AddedIn
  <2>6. b[k] \in calls[e.call].applied \/ Misjudged(e.call, b[k])
    <3>1. CASE Whole(calls, e.call)
      BY <2>4, <3>1 DEF Whole, Kept
    <3>2. CASE \E j \in DOMAIN rollout :
                 OutputAt(rollout, j, e.call) /\ Final(rollout[j].output).ok
      <4>1. PICK j \in DOMAIN rollout :
              OutputAt(rollout, j, e.call) /\ Final(rollout[j].output).ok
        BY <3>2
      <4>2. rollout[j].output \in Outputs(calls[e.call]) /\ calls[e.call].shape # "edit"
        BY <2>0, <4>1 DEF Consistent, Told, OutputAt
      <4>3. b[k] \in Final(rollout[j].output).of => b[k] \in calls[e.call].applied
        BY <4>1, <4>2, OutputTells
      <4>. QED BY <4>1, <4>3 DEF Misjudged, OutputAt
    <3>. QED BY <2>1, <3>1, <3>2 DEF Confirmed
  <2>. QED BY <2>5, <2>6
<1>. QED BY <1>1, PatchInvariant, PTL

(* When a call is over, a scan finds all changes of its patch or none, and *)
(* each that has been applied unless the verdict that the parser goes by   *)
(* is about something else, whichever way the patch was handed over and    *)
(* whatever stands in between (codex.go:88-89, 297-304).                   *)
THEOREM NoEditMissing == PatchSpec => []NothingMissing
<1>1. PatchInv => NothingMissing
  <2>. SUFFICES ASSUME PatchInv, NEW c \in Call, calls[c].status = "over"
                PROVE  /\ Cardinality(Found(rollout, c)) \in {0, Cardinality(Counting(c))}
                       /\ \A k \in Counting(c) \cap calls[c].applied :
                            ~Misjudged(c, k) =>
                              \E e \in Found(rollout, c) :
                                StandsFor(e.file, c, calls[c].patch[k])
    BY DEF NothingMissing, Found
  <2>1. Consistent(calls, rollout)
    BY DEF PatchInv
  <2>2. /\ Cardinality(Found(rollout, c)) \in {0, Cardinality(Kept(calls[c].patch))}
        /\ \A k \in Kept(calls[c].patch) \cap calls[c].applied :
             ~Misleads(rollout, c, k) =>
               \E e \in Found(rollout, c) : Stands(e.file, calls[c].shape, calls[c].patch[k])
    BY <2>1, OverIsComplete
  <2>3. Counting(c) = Kept(calls[c].patch)
    BY DEF Counting, Kept
  <2>4. \A k : Misleads(rollout, c, k) => Misjudged(c, k)
    BY DEF Misleads, Misjudged, OutputAt
  <2>5. \A f, s : Stands(f, calls[c].shape, s) => StandsFor(f, c, s)
    BY DEF Stands, StandsFor, Path, LosesLines, AddedCount, AddedIn
  <2>. QED BY <2>2, <2>3, <2>4, <2>5
<1>. QED BY <1>1, PatchInvariant, PTL
=============================================================================
