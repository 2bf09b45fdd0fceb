---------------------------- MODULE PricesProofs ----------------------------
(***************************************************************************)
(* Proofs about Prices, for families of any size, any names and vendors,   *)
(* days of any length and any number of changes of the list and of faults. *)
(*                                                                         *)
(* The inductive invariant has two parts. The first is about the rows: no  *)
(* two begin at once, one is active, together they leave no gap, and they  *)
(* all began before the sync that is under way (Fresh). The second counts  *)
(* them: a prefix has one row more than before only if the list has        *)
(* changed since, and what is chosen and not yet written down counts as    *)
(* much as what is (Counted, Pending).                                     *)
(***************************************************************************)
EXTENDS Prices, FiniteSetTheorems, WellFoundedInduction, TLAPS

Rows(p)     == {r \in prices : r.prefix = p}
Versions(p) == Cardinality(Rows(p))

(* No two rows of a prefix begin at once, one is active, and together they *)
(* leave no gap.                                                           *)
Sound(T) ==
  /\ IsFiniteSet(T)
  /\ \A r, s \in T : r.from = s.from => r = s
  /\ T # {} => /\ \E a \in T : {r \in T : r.to = Open} = {a}
               /\ \A t \in Time : \E r \in T : r.from <= t /\ t < r.to

(* A key (model_prefix, valid_from) that the sync will insert is new.      *)
Fresh(p) ==
  \A r \in Rows(p) :
    /\ r.from <= from
    /\ p \in todo => r.from < IF pc = "upsert" THEN from ELSE clock

(* What is written down was in the list as of some change, and what is     *)
(* active is in the list now if there has been none since.                 *)
Counted(p) ==
  \A a \in Active(p) :
    IF IsSeed(a)
      THEN Rows(p) = {a}
      ELSE /\ Versions(p) <= changes
           /\ Versions(p) = changes => a.rate = Selected(p)

Pending(p) ==
  p \in todo =>
    /\ changes >= 1
    /\ changes = 1 => chosen[p] = Selected(p)
    /\ \A a \in Active(p) :
         (~IsSeed(a) /\ a.rate # chosen[p]) =>
           /\ Versions(p) + 1 <= changes
           /\ Versions(p) + 1 = changes => chosen[p] = Selected(p)

PrefixOK(p) == Sound(Rows(p)) /\ Fresh(p) /\ Counted(p) /\ Pending(p)

InSync ==
  /\ from <= clock
  /\ pc = "fetch" => from < clock
  /\ pc \notin {"stamp", "upsert"} => todo = {}
  /\ \A p \in todo : chosen[p] # Unlisted
  /\ changes = 0 => \A n \in Name : listed[n] = Unlisted

IInv == TypeOK /\ InSync /\ \A p \in Prefix : PrefixOK(p)

-----------------------------------------------------------------------------
(* What the two ORDER BY and the ranking rest on.                          *)

(* A finite set has an element that none is before.                        *)
LEMMA FirstExists ==
  ASSUME NEW F, IsFiniteSet(F), F # {}, NEW R,
         \A x \in F : <<x, x>> \notin R,
         \A x, y, z \in F : <<x, y>> \in R /\ <<y, z>> \in R => <<x, z>> \in R
  PROVE  \E x \in F : \A y \in F : <<y, x>> \notin R
<1>. DEFINE Before(x) == {y \in F : <<y, x>> \in R}
            B == {Before(x) : x \in F}
<1>1. B \subseteq FiniteSubsetsOf(F) /\ B # {}
  <2>1. \A x \in F : Before(x) \in SUBSET F /\ IsFiniteSet(Before(x))
    BY FS_Subset
  <2>2. \A x \in F : Before(x) \in FiniteSubsetsOf(F)
    BY <2>1 DEF FiniteSubsetsOf
  <2>. HIDE DEF Before
  <2>. QED BY <2>2
<1>2. PICK T \in B : \A U \in B : <<U, T>> \notin StrictSubsetOrdering(F)
  <2>. HIDE DEF B
  <2>. QED BY <1>1, FS_StrictSubsetOrderingWellFounded, WFMin
<1>3. PICK x \in F : T = Before(x)
  OBVIOUS
<1>4. ASSUME NEW y \in F, <<y, x>> \in R PROVE FALSE
  <2>1. Before(y) \subseteq Before(x) /\ y \in Before(x) /\ y \notin Before(y)
    BY <1>4
  <2>2. Before(y) \in B
    OBVIOUS
  <2>3. Before(x) \in SUBSET F /\ Before(y) \in SUBSET F
    OBVIOUS
  <2>. HIDE DEF Before, B
  <2>. QED BY <1>2, <1>3, <2>1, <2>2, <2>3 DEF StrictSubsetOrdering
<1>. QED BY <1>4

(* The ranking of selectPriceRows, with the order of the names for equals, *)
(* has a first among the candidates: what is chosen is a rate of the list. *)
LEMMA SelectedIsListed ==
  ASSUME TypeOK, NEW p \in Prefix, Candidates(p) # {}
  PROVE  \E n \in Candidates(p) : Selected(p) = listed[n].rate
<1>. DEFINE F == Candidates(p)
            Better(n, m) == RanksAbove(n, m) \/ (RanksWith(n, m) /\ n < m)
            R == {nm \in F \X F : Better(nm[1], nm[2])}
<1>1. F \subseteq 1..NumNames /\ IsFiniteSet(F) /\ F # {}
  <2>1. IsFiniteSet(1..NumNames)
    BY FS_Interval, FamilyAssumption
  <2>2. F \subseteq 1..NumNames
    BY DEF Candidates, Name
  <2>. QED BY <2>1, <2>2, FS_Subset
<1>2. \A n, m \in F : <<n, m>> \in R <=> Better(n, m)
  OBVIOUS
<1>3. \A n \in F : n \in Int /\ listed[n].full \in BOOLEAN
  BY FamilyAssumption DEF Candidates, TypeOK, Entry, Name
<1>4. \A n \in F : ~Better(n, n)
  BY <1>3 DEF RanksAbove
<1>. HIDE DEF F
<1>5. \A l, n, m \in F : Better(l, n) /\ Better(n, m) => Better(l, m)
  BY <1>3 DEF RanksAbove, RanksWith, Complete
<1>6. \A n, m \in F : ~Better(m, n) => RanksAbove(n, m) \/ (RanksWith(n, m) /\ n <= m)
  BY <1>3 DEF RanksAbove, RanksWith, Complete
<1>. HIDE DEF R, Better
<1>7. PICK n \in F : \A m \in F : <<m, n>> \notin R
  BY <1>1, <1>2, <1>4, <1>5, FirstExists
<1>8. \A m \in F : RanksAbove(n, m) \/ (RanksWith(n, m) /\ FirstOf(n, m))
  BY <1>2, <1>6, <1>7 DEF FirstOf
<1>. QED BY <1>8 DEF Selected, F

(* The price of a prefix is one of the list, or there is none.             *)
LEMMA SelectedType ==
  ASSUME TypeOK, NEW p \in Prefix
  PROVE  /\ Selected(p) \in Rate \cup {Unlisted}
         /\ (\A n \in Name : listed[n] = Unlisted) => Selected(p) = Unlisted
<1>1. CASE Candidates(p) = {}
  BY <1>1 DEF Selected
<1>2. CASE Candidates(p) # {}
  BY <1>2, SelectedIsListed DEF Candidates, TypeOK, Entry
<1>. QED BY <1>1, <1>2

-----------------------------------------------------------------------------
(* What an upsert makes of the rows of a prefix.                           *)

(* What is a number.                                                       *)
LEMMA Numbers ==
  ASSUME TypeOK
  PROVE  /\ clock \in Nat /\ from \in Nat /\ changes \in Nat
         /\ MaxTime \in Nat /\ Open \in Nat /\ Epoch = 0 /\ 0 \in Time
         /\ Open \notin Time /\ Prefix \subseteq Nat
         /\ \A t \in Time : t \in Nat /\ t < Open
         /\ \A r \in prices : r.from \in Nat /\ r.to \in Nat
  BY PriceBounds, FamilyAssumption
  DEF TypeOK, Time, Open, Epoch, Row, Prefix

(* A single row that is always in effect.                                  *)
LEMMA OneRowSound ==
  ASSUME NEW b, b.from = Epoch, b.to = Open
  PROVE  Sound({b}) /\ Cardinality({b}) = 1
<1>1. \A t \in Time : Epoch <= t /\ t < Open
  BY PriceBounds DEF Time, Epoch, Open
<1>2. IsFiniteSet({b}) /\ Cardinality({b}) = 1
  BY FS_Singleton
<1>. QED BY <1>1, <1>2 DEF Sound

(* The active row ends at c, and another begins at f, not after c.         *)
LEMMA SplitSound ==
  ASSUME NEW T, Sound(T), NEW a \in T, {r \in T : r.to = Open} = {a},
         NEW c \in Time, NEW f \in Time, f <= c, \A r \in T : r.from < f,
         NEW b, b.from = a.from, b.to = c,
         NEW new, new.from = f, new.to = Open
  PROVE  /\ Sound(((T \ {a}) \cup {b}) \cup {new})
         /\ {r \in ((T \ {a}) \cup {b}) \cup {new} : r.to = Open} = {new}
         /\ Cardinality(((T \ {a}) \cup {b}) \cup {new}) \in Nat
         /\ Cardinality(((T \ {a}) \cup {b}) \cup {new}) <= Cardinality(T) + 1
<1>. DEFINE S == (T \ {a}) \cup {b}
            U == S \cup {new}
<1>0. c \in Nat /\ f \in Nat /\ c < Open /\ Open \in Nat
  BY PriceBounds DEF Time, Open
<1>1. /\ IsFiniteSet(U)
      /\ Cardinality(U) \in Nat /\ Cardinality(U) <= Cardinality(T) + 1
  <2>1. IsFiniteSet(T) /\ Cardinality(T) \in Nat
    BY FS_CardinalityType DEF Sound
  <2>2. IsFiniteSet(T \ {a}) /\ Cardinality(T \ {a}) = Cardinality(T) - 1
    BY <2>1, FS_RemoveElement
  <2>3. /\ IsFiniteSet(S)
        /\ Cardinality(S) \in {Cardinality(T \ {a}), Cardinality(T \ {a}) + 1}
    <3>. DEFINE V == T \ {a}
    <3>. HIDE DEF V
    <3>1. /\ IsFiniteSet(V \cup {b})
          /\ Cardinality(V \cup {b}) \in {Cardinality(V), Cardinality(V) + 1}
      BY <2>2, FS_AddElement DEF V
    <3>. QED BY <3>1 DEF V
  <2>. HIDE DEF S
  <2>4. IsFiniteSet(U) /\ Cardinality(U) \in {Cardinality(S), Cardinality(S) + 1}
    BY <2>3, FS_AddElement
  <2>5. Cardinality(S) \in Nat /\ Cardinality(U) \in Nat
    BY <2>3, <2>4, FS_CardinalityType
  <2>. QED BY <2>1, <2>2, <2>3, <2>4, <2>5
<1>2. \A r \in S : r.from < f
  OBVIOUS
<1>3. \A r, s \in U : r.from = s.from => r = s
  <2>1. \A r, s \in S : r.from = s.from => r = s
    BY DEF Sound
  <2>2. \A r \in S : r.from # f
    BY <1>0, <1>2
  <2>. HIDE DEF S
  <2>. QED BY <2>1, <2>2
<1>4. {r \in U : r.to = Open} = {new}
  <2>1. \A r \in S : r.to # Open
    BY <1>0
  <2>. QED BY <2>1
<1>5. \A t \in Time : \E r \in U : r.from <= t /\ t < r.to
  <2>. SUFFICES ASSUME NEW t \in Time PROVE \E r \in U : r.from <= t /\ t < r.to
    OBVIOUS
  <2>0. t \in Nat /\ t < Open
    BY PriceBounds DEF Time, Open
  <2>1. PICK r \in T : r.from <= t /\ t < r.to
    BY DEF Sound
  <2>2. CASE r # a
    BY <2>1, <2>2
  <2>3. CASE r = a /\ t < c
    BY <2>1, <2>3
  <2>4. CASE c <= t
    BY <1>0, <2>0, <2>4
  <2>. QED BY <1>0, <2>0, <2>2, <2>3, <2>4
<1>. QED BY <1>1, <1>3, <1>4, <1>5 DEF Sound

-----------------------------------------------------------------------------
(* Steps that leave the table alone.                                       *)

(* The rows in effect are the open ones.                                   *)
LEMMA ActiveIn == \A p : Active(p) = {r \in Rows(p) : r.to = Open}
  BY DEF Active, Rows

(* What the table and the list say of a prefix, when neither changes.      *)
LEMMA SameRows ==
  ASSUME NEW q \in Prefix, PrefixOK(q), Rows(q)' = Rows(q),
         UNCHANGED <<listed, changes>>,
         q \in todo' => q \in todo /\ chosen'[q] = chosen[q]
  PROVE  Sound(Rows(q))' /\ Counted(q)' /\ Pending(q)'
<1>1. Active(q)' = Active(q) /\ Versions(q)' = Versions(q)
  BY DEF Active, Rows, Versions
<1>2. Selected(q)' = Selected(q)
  BY DEF Selected, Candidates, RanksAbove, RanksWith, Complete, FirstOf
<1>3. Sound(Rows(q))'
  BY DEF PrefixOK, Sound
<1>4. Counted(q)'
  BY <1>1, <1>2 DEF PrefixOK, Counted, IsSeed
<1>5. Pending(q)'
  BY <1>1, <1>2 DEF PrefixOK, Pending, IsSeed
<1>. QED BY <1>3, <1>4, <1>5

(* The clock, the beginning and the end of a sync, and the stamp.          *)
LEMMA QuietSteps ==
  ASSUME IInv, UNCHANGED <<prices, listed, changes, synced>>,
         Tick \/ Sync \/ ServerUp \/ Down \/ FetchFails \/ Stamp,
         faults' \in 0..MaxFaults
  PROVE  IInv'
<1>. TypeOK /\ InSync
  BY DEF IInv
<1>1. /\ todo' \in {todo, {}} /\ (todo' # {} => chosen' = chosen)
      /\ from <= from' /\ clock <= clock' /\ from' <= clock'
      /\ from' \in Time /\ clock' \in Time
  BY Numbers DEF Tick, Sync, ServerUp, Down, FetchFails, Stamp, InSync, TypeOK,
     syncVars, Time
<1>2. TypeOK'
  BY <1>1 DEF TypeOK, Tick, Sync, ServerUp, Down, FetchFails, Stamp, syncVars, Nothing
<1>3. InSync'
  BY <1>1, Numbers DEF InSync, Tick, Sync, ServerUp, Down, FetchFails, Stamp,
     syncVars, TypeOK, Time
<1>4. ASSUME NEW q \in Prefix PROVE PrefixOK(q)'
  <2>1. PrefixOK(q) /\ Rows(q)' = Rows(q)
    BY DEF IInv, Rows
  <2>2. Sound(Rows(q))' /\ Counted(q)' /\ Pending(q)'
    BY <1>1, <2>1, SameRows
  <2>3. Fresh(q)'
    <3>1. \A r \in Rows(q) : r.from \in Nat
      BY Numbers DEF Rows
    <3>2. from' \in Nat /\ clock' \in Nat
      BY <1>2, PriceBounds DEF TypeOK, Time
    <3>3. q \in todo' =>
            /\ q \in todo
            /\ \/ pc' = pc /\ from' = from
               \/ pc = "stamp" /\ pc' = "upsert" /\ from' = clock
      BY <1>1 DEF InSync, Tick, Sync, ServerUp, Down, FetchFails, Stamp, syncVars
    <3>. QED BY <1>1, <2>1, <3>1, <3>2, <3>3, Numbers DEF PrefixOK, Fresh
  <2>. QED BY <2>2, <2>3 DEF PrefixOK
<1>. QED BY <1>2, <1>3, <1>4 DEF IInv

(* A change of the list makes room for one more row of each prefix.        *)
LEMMA RelistStep ==
  ASSUME IInv, NEW n \in Name, NEW e \in Entry, Relist(n, e)
  PROVE  IInv'
<1>. TypeOK /\ InSync
  BY DEF IInv
<1>1. /\ UNCHANGED <<prices, clock, pc, chosen, todo, from, synced, faults>>
      /\ changes' = changes + 1 /\ changes' \in 0..MaxChanges
      /\ listed' \in [Name -> Entry]
  BY PriceBounds DEF Relist, syncVars, TypeOK
<1>2. TypeOK'
  BY <1>1 DEF TypeOK
<1>3. InSync'
  BY <1>1, Numbers DEF InSync
<1>4. ASSUME NEW q \in Prefix PROVE PrefixOK(q)'
  <2>. PrefixOK(q)
    BY DEF IInv
  <2>1. Rows(q)' = Rows(q) /\ Active(q)' = Active(q) /\ Versions(q)' = Versions(q)
    BY <1>1 DEF Rows, Active, Versions
  <2>2. Versions(q) \in Nat
    BY FS_CardinalityType DEF PrefixOK, Sound, Versions
  <2>3. Sound(Rows(q))'
    BY <2>1 DEF PrefixOK, Sound
  <2>4. Fresh(q)'
    BY <1>1, <2>1 DEF PrefixOK, Fresh
  <2>5. Counted(q)'
    BY <1>1, <2>1, <2>2, Numbers DEF PrefixOK, Counted, IsSeed
  <2>6. Pending(q)'
    BY <1>1, <2>1, <2>2, Numbers DEF PrefixOK, Pending, IsSeed
  <2>. QED BY <2>3, <2>4, <2>5, <2>6 DEF PrefixOK
<1>. QED BY <1>2, <1>3, <1>4 DEF IInv

(* What is fetched is what the list says now.                              *)
LEMMA FetchedStep ==
  ASSUME IInv, Fetched
  PROVE  IInv'
<1>. TypeOK /\ InSync
  BY DEF IInv
<1>1. /\ UNCHANGED <<prices, listed, clock, from, synced, changes, faults>>
      /\ chosen' = [p \in Prefix |-> Selected(p)]
      /\ todo' = {p \in Prefix : Selected(p) # Unlisted}
      /\ pc = "fetch" /\ pc' = IF todo' = {} THEN "idle" ELSE "stamp"
  BY DEF Fetched
<1>2. TypeOK'
  BY <1>1, SelectedType DEF TypeOK
<1>3. InSync'
  BY <1>1 DEF InSync
<1>4. ASSUME NEW q \in Prefix PROVE PrefixOK(q)'
  <2>. PrefixOK(q)
    BY DEF IInv
  <2>1. Rows(q)' = Rows(q) /\ Active(q)' = Active(q) /\ Versions(q)' = Versions(q)
    BY <1>1 DEF Rows, Active, Versions
  <2>2. Versions(q) \in Nat /\ q \notin todo
    BY <1>1, FS_CardinalityType DEF PrefixOK, Sound, Versions, InSync
  <2>3. Selected(q)' = Selected(q)
    BY <1>1 DEF Selected, Candidates, RanksAbove, RanksWith, Complete, FirstOf
  <2>4. Sound(Rows(q))' /\ Counted(q)'
    BY <1>1, <2>1, <2>3 DEF PrefixOK, Sound, Counted, IsSeed
  <2>5. Fresh(q)'
    <3>1. \A r \in Rows(q) : r.from \in Nat /\ r.from <= from
      BY Numbers DEF PrefixOK, Fresh, Rows
    <3>2. \A r \in Rows(q) : r.from < clock
      BY <1>1, <3>1, Numbers DEF InSync
    <3>. QED BY <1>1, <2>1, <3>1, <3>2 DEF Fresh
  <2>6. Pending(q)'
    <3>. SUFFICES ASSUME Selected(q) # Unlisted
                  PROVE  /\ changes >= 1
                         /\ \A a \in Active(q) :
                              (~IsSeed(a) /\ a.rate # Selected(q)) =>
                                Versions(q) + 1 <= changes
      BY <1>1, <2>1, <2>3 DEF Pending, IsSeed
    <3>1. changes # 0
      BY SelectedType DEF InSync
    <3>. QED BY <2>2, <3>1, Numbers DEF PrefixOK, Counted
  <2>. QED BY <2>4, <2>5, <2>6 DEF PrefixOK
<1>. QED BY <1>2, <1>3, <1>4 DEF IInv

(* The seeds: one row for each prefix that has a default.                  *)
LEMMA SeedStep ==
  ASSUME IInv, Start, prices = {}
  PROVE  IInv'
<1>. TypeOK /\ InSync
  BY DEF IInv
<1>1. /\ UNCHANGED <<listed, clock, chosen, todo, from, synced, changes, faults>>
      /\ prices' = Seeds /\ pc = "down" /\ pc' = "fetch" /\ from < clock
  BY Numbers DEF Start, ServerUp
<1>2. TypeOK'
  <2>1. Seeds \subseteq Row
    BY Numbers, FamilyAssumption DEF Seeds, Row, Time, Epoch
  <2>. QED BY <1>1, <2>1 DEF TypeOK
<1>3. InSync'
  BY <1>1 DEF InSync
<1>4. ASSUME NEW q \in Prefix PROVE PrefixOK(q)'
  <2>. DEFINE seed == [prefix |-> q, from |-> Epoch, to |-> Open,
                       rate |-> Default[q], source |-> "default-seed"]
  <2>1. todo' = {}
    BY <1>1 DEF InSync
  <2>2. Rows(q)' = IF Default[q] # Unlisted THEN {seed} ELSE {}
    BY <1>1 DEF Rows, Seeds
  <2>3. Sound(Rows(q)')
    <3>1. Sound({})
      BY FS_EmptySet DEF Sound
    <3>2. Sound({seed})
      BY OneRowSound
    <3>. QED BY <2>2, <3>1, <3>2
  <2>4. Fresh(q)'
    BY <1>1, <2>1, <2>2, Numbers DEF Fresh
  <2>5. Counted(q)'
    BY <2>2 DEF Counted, Active, Rows, IsSeed
  <2>. QED BY <2>1, <2>3, <2>4, <2>5 DEF PrefixOK, Pending, Sound
<1>. QED BY <1>2, <1>3, <1>4 DEF IInv

-----------------------------------------------------------------------------
(* Upserts.                                                                *)

(* The rows of p are all that changes.                                     *)
LEMMA UpsertStep ==
  ASSUME IInv, NEW p \in Prefix, Upsert(p),
         prices' \subseteq Row, synced' \subseteq Prefix, faults' \in 0..MaxFaults,
         \A q \in Prefix \ {p} : Rows(q)' = Rows(q),
         Sound(Rows(p)'), \A r \in Rows(p)' : r.from <= from,
         Counted(p)'
  PROVE  IInv'
<1>. TypeOK /\ InSync
  BY DEF IInv
<1>1. /\ UNCHANGED <<listed, clock, from, changes>>
      /\ pc = "upsert" /\ pc' = IF todo' = {} THEN "idle" ELSE "stamp"
      /\ todo' = todo \ {p} /\ chosen' = [chosen EXCEPT ![p] = Unlisted]
  BY DEF Upsert
<1>2. TypeOK'
  BY <1>1 DEF TypeOK
<1>3. InSync'
  BY <1>1 DEF InSync, TypeOK
<1>4. ASSUME NEW q \in Prefix, q # p PROVE PrefixOK(q)'
  <2>1. PrefixOK(q) /\ Rows(q)' = Rows(q)
    BY <1>4 DEF IInv
  <2>2. Sound(Rows(q))' /\ Counted(q)' /\ Pending(q)'
    <3>1. q \in todo' => q \in todo /\ chosen'[q] = chosen[q]
      BY <1>1, <1>4 DEF TypeOK
    <3>. QED BY <1>1, <2>1, <3>1, SameRows
  <2>3. Fresh(q)'
    <3>1. \A r \in Rows(q) : r.from \in Nat
      BY Numbers DEF Rows
    <3>. QED BY <1>1, <2>1, <3>1, Numbers DEF PrefixOK, Fresh, InSync
  <2>. QED BY <2>2, <2>3 DEF PrefixOK
<1>5. PrefixOK(p)'
  BY <1>1 DEF PrefixOK, Fresh, Pending, Sound
<1>. QED BY <1>2, <1>3, <1>4, <1>5 DEF IInv

(* The price is the one that is active, or the transaction fails.          *)
LEMMA NoWriteStep ==
  ASSUME IInv, NEW p \in Prefix, SamePrice(p) \/ UpsertFails(p)
  PROVE  IInv'
<1>1. /\ Upsert(p) /\ prices' = prices
      /\ synced' \subseteq Prefix /\ faults' \in 0..MaxFaults
  BY PriceBounds DEF SamePrice, UpsertFails, Upserted, Fault, IInv, TypeOK
<1>2. \A q \in Prefix : Rows(q)' = Rows(q)
  BY <1>1 DEF Rows
<1>3. Counted(p)' /\ Sound(Rows(p))'
  BY <1>1, <1>2, SameRows DEF IInv, Upsert
<1>4. \A r \in Rows(p)' : r.from <= from
  BY <1>2 DEF IInv, PrefixOK, Fresh
<1>. QED BY <1>1, <1>2, <1>3, <1>4, UpsertStep DEF IInv, TypeOK, Sound

(* What each of the three cases of UpsertPrice writes.                     *)
Listed(r, p) == r.prefix = p /\ r.rate = chosen[p] /\ r.source = "litellm"

FirstForm(p) ==
  /\ Rows(p) = {}
  /\ \E new \in Row :
       /\ Listed(new, p) /\ new.from = Epoch /\ new.to = Open
       /\ prices' = prices \cup {new}

SeedForm(p) ==
  \E a \in prices, b \in Row :
    /\ Rows(p) = {a} /\ IsSeed(a) /\ a.from = Epoch /\ a.to = Open
    /\ Listed(b, p) /\ b.from = a.from /\ b.to = a.to
    /\ prices' = (prices \ {a}) \cup {b}

NewForm(p) ==
  \E a \in prices, b, new \in Row :
    /\ Active(p) = {a} /\ ~IsSeed(a) /\ a.rate # chosen[p]
    /\ b = [a EXCEPT !.to = clock]
    /\ Listed(new, p) /\ new.from = from /\ new.to = Open
    /\ prices' = ((prices \ {a}) \cup {b}) \cup {new}

(* The three ways in which a price is upserted, by what they make of the   *)
(* rows of the prefix.                                                     *)
LEMMA Forms ==
  ASSUME IInv, NEW p \in Prefix
  PROVE  /\ FirstPrice(p) => FirstForm(p)
         /\ ReplaceSeed(p) => SeedForm(p)
         /\ NewPrice(p) => NewForm(p)
<1>. TypeOK /\ InSync /\ PrefixOK(p)
  BY DEF IInv
<1>. DEFINE first == [prefix |-> p, from |-> Epoch, to |-> Open,
                      rate |-> chosen[p], source |-> "litellm"]
            next  == [prefix |-> p, from |-> from, to |-> Open,
                      rate |-> chosen[p], source |-> "litellm"]
<1>1. Upsert(p) => /\ chosen[p] \in Rate /\ first \in Row /\ next \in Row
                   /\ pc = "upsert" /\ p \in todo
  BY Numbers DEF Upsert, InSync, TypeOK, Row, Time
<1>2. Rows(p) = {} \/ \E a \in prices : Active(p) = {a}
  BY ActiveIn DEF PrefixOK, Sound, Rows
<1>3. ASSUME FirstPrice(p)
      PROVE  Rows(p) = {} /\ prices' = prices \cup {first} /\ first \in Row
  <2>1. Rows(p) = {}
    BY <1>2, <1>3 DEF FirstPrice
  <2>. QED BY <1>1, <1>3, <2>1 DEF FirstPrice, Upserted, Insert, FirstFrom, Rows
<1>4. ASSUME ReplaceSeed(p)
      PROVE  \E a \in prices : LET b == [a EXCEPT !.rate = chosen[p], !.source = "litellm"]
                               IN /\ Rows(p) = {a} /\ IsSeed(a) /\ a.from = Epoch
                                  /\ a.to = Open /\ b \in Row /\ a \in Row
                                  /\ a.prefix = p
                                  /\ prices' = (prices \ {a}) \cup {b}
  <2>1. PICK a \in prices : Active(p) = {a} /\ IsSeed(a)
    BY <1>2, <1>4 DEF ReplaceSeed, Active, Rows
  <2>2. Rows(p) = {a} /\ a.prefix = p /\ a.to = Open /\ a \in Row
    BY <2>1 DEF PrefixOK, Counted, Active, TypeOK
  <2>3. a.from = Epoch
    BY <2>2, Numbers DEF PrefixOK, Sound
  <2>4. [a EXCEPT !.rate = chosen[p], !.source = "litellm"] \in Row
    BY <1>1, <1>4, <2>2 DEF ReplaceSeed, Upserted, Row
  <2>. DEFINE Relisted(r) == [r EXCEPT !.rate = chosen[p], !.source = "litellm"]
  <2>5. prices' = (prices \ {a}) \cup {Relisted(r) : r \in {a}}
    BY <1>4, <2>1 DEF ReplaceSeed
  <2>6. {Relisted(r) : r \in {a}} = {Relisted(a)}
    OBVIOUS
  <2>7. prices' = (prices \ {a}) \cup {Relisted(a)}
    BY <2>5, <2>6
  <2>. QED BY <2>1, <2>2, <2>3, <2>4, <2>7
<1>5. ASSUME NewPrice(p)
      PROVE  \E a \in prices : LET b == [a EXCEPT !.to = clock]
                               IN /\ Active(p) = {a} /\ ~IsSeed(a) /\ a.rate # chosen[p]
                                  /\ b \in Row /\ next \in Row
                                  /\ prices' = ((prices \ {a}) \cup {b}) \cup {next}
  <2>1. PICK a \in prices : Active(p) = {a} /\ ~IsSeed(a) /\ a.rate # chosen[p]
    BY <1>2, <1>5 DEF NewPrice, Active, Rows
  <2>. DEFINE b == [a EXCEPT !.to = clock]
  <2>2. a \in Row /\ a.prefix = p /\ a.to = Open /\ b \in Row
    BY <2>1 DEF TypeOK, Row, Active
  <2>3. Closed(p) = (prices \ {a}) \cup {b}
    <3>1. \A r \in prices : r.prefix = p /\ r.to = Open <=> r = a
      BY <2>1 DEF Active
    <3>2. Closed(p) = {IF r = a THEN b ELSE r : r \in prices}
      BY <3>1 DEF Closed
    <3>. HIDE DEF b
    <3>. QED BY <2>1, <3>2
  <2>4. \A r \in Closed(p) : r.prefix = p => r.from # from
    <3>1. \A r \in Rows(p) : r.from < from /\ r.from \in Nat
      BY <1>1, <1>5, Numbers DEF NewPrice, Upserted, PrefixOK, Fresh, Rows
    <3>2. \A r \in Rows(p) : r.from # from
      BY <3>1, Numbers
    <3>3. b.from = a.from /\ a \in Rows(p)
      BY <2>2 DEF Row, Rows
    <3>. QED BY <2>3, <3>2, <3>3 DEF Rows
  <2>5. prices' = Closed(p) \cup {next}
    BY <1>5, <2>4 DEF NewPrice, NewFrom, Insert
  <2>. QED BY <1>1, <1>5, <2>1, <2>2, <2>3, <2>5 DEF NewPrice, Upserted
<1>. HIDE DEF first, next
<1>6. /\ Listed(first, p) /\ first.from = Epoch /\ first.to = Open
      /\ Listed(next, p) /\ next.from = from /\ next.to = Open
  BY DEF first, next, Listed
<1>7. ASSUME ReplaceSeed(p) PROVE SeedForm(p)
  <2>1. PICK a \in prices : LET b == [a EXCEPT !.rate = chosen[p], !.source = "litellm"]
                            IN /\ Rows(p) = {a} /\ IsSeed(a) /\ a.from = Epoch
                               /\ a.to = Open /\ b \in Row /\ a \in Row
                               /\ a.prefix = p
                               /\ prices' = (prices \ {a}) \cup {b}
    BY <1>4, <1>7
  <2>. DEFINE b == [a EXCEPT !.rate = chosen[p], !.source = "litellm"]
  <2>2. Listed(b, p) /\ b.from = a.from /\ b.to = a.to
    BY <2>1 DEF Row, Listed
  <2>3. b \in Row /\ prices' = (prices \ {a}) \cup {b}
    BY <2>1
  <2>. HIDE DEF b
  <2>. QED BY <2>1, <2>2, <2>3 DEF SeedForm
<1>8. NewPrice(p) => NewForm(p)
  BY <1>5, <1>6 DEF NewForm
<1>9. FirstPrice(p) => FirstForm(p)
  BY <1>3, <1>6 DEF FirstForm
<1>. QED BY <1>7, <1>8, <1>9

(* The first row of a prefix counts for the first change of the list.      *)
LEMMA OneListedRow ==
  ASSUME IInv, NEW p \in Prefix, Upsert(p), NEW b, Listed(b, p),
         b.from = Epoch, b.to = Open, Rows(p)' = {b}
  PROVE  /\ Sound(Rows(p)') /\ Counted(p)'
         /\ \A r \in Rows(p)' : r.from <= from
<1>1. Sound({b}) /\ Cardinality({b}) = 1
  BY OneRowSound
<1>2. p \in todo /\ changes' = changes /\ Selected(p)' = Selected(p)
  BY DEF Upsert, Selected, Candidates, RanksAbove, RanksWith, Complete, FirstOf
<1>3. changes >= 1 /\ (changes = 1 => b.rate = Selected(p))
  BY <1>2 DEF IInv, PrefixOK, Pending, Listed
<1>4. Active(p)' = {b} /\ Versions(p)' = 1 /\ ~IsSeed(b)
  BY <1>1 DEF Active, Rows, Versions, IsSeed, Listed
<1>5. Counted(p)'
  BY <1>2, <1>3, <1>4 DEF Counted, IsSeed
<1>. QED BY <1>1, <1>5, Numbers DEF IInv

(* The first price of a prefix is in effect from the beginning.            *)
LEMMA FirstPriceStep ==
  ASSUME IInv, NEW p \in Prefix, FirstPrice(p)
  PROVE  IInv'
<1>1. Upsert(p) /\ synced' \subseteq Prefix /\ faults' \in 0..MaxFaults
  BY DEF FirstPrice, Upserted, IInv, TypeOK
<1>2. PICK new \in Row : /\ Listed(new, p) /\ new.from = Epoch /\ new.to = Open
                         /\ prices' = prices \cup {new}
  BY Forms DEF FirstForm
<1>3. Rows(p)' = {new} /\ \A q \in Prefix \ {p} : Rows(q)' = Rows(q)
  BY <1>2, Forms DEF FirstForm, Rows, Listed
<1>4. prices' \subseteq Row
  BY <1>2 DEF IInv, TypeOK
<1>. QED BY <1>1, <1>2, <1>3, <1>4, OneListedRow, UpsertStep

(* A built-in price is replaced from the beginning.                        *)
LEMMA ReplaceSeedStep ==
  ASSUME IInv, NEW p \in Prefix, ReplaceSeed(p)
  PROVE  IInv'
<1>1. Upsert(p) /\ synced' \subseteq Prefix /\ faults' \in 0..MaxFaults
  BY DEF ReplaceSeed, Upserted, IInv, TypeOK
<1>2. PICK a \in prices, b \in Row :
        /\ Rows(p) = {a} /\ a.from = Epoch /\ a.to = Open
        /\ Listed(b, p) /\ b.from = a.from /\ b.to = a.to
        /\ prices' = (prices \ {a}) \cup {b}
  BY Forms DEF SeedForm
<1>3. Rows(p)' = {b} /\ \A q \in Prefix \ {p} : Rows(q)' = Rows(q)
  BY <1>2 DEF Rows, Listed
<1>4. prices' \subseteq Row
  BY <1>2 DEF IInv, TypeOK
<1>. QED BY <1>1, <1>2, <1>3, <1>4, OneListedRow, UpsertStep

(* One row more, for a change of the list that no row stands for yet.      *)
LEMMA NewPriceStep ==
  ASSUME IInv, NEW p \in Prefix, NewPrice(p)
  PROVE  IInv'
<1>. TypeOK /\ InSync /\ PrefixOK(p)
  BY DEF IInv
<1>1. /\ Upsert(p) /\ synced' \subseteq Prefix /\ faults' \in 0..MaxFaults
      /\ p \in todo /\ pc = "upsert"
      /\ changes' = changes /\ Selected(p)' = Selected(p)
  BY DEF NewPrice, Upserted, TypeOK, Upsert, Selected, Candidates, RanksAbove,
         RanksWith, Complete, FirstOf
<1>2. PICK a \in prices, b \in Row, new \in Row :
        /\ Active(p) = {a} /\ ~IsSeed(a) /\ a.rate # chosen[p]
        /\ b = [a EXCEPT !.to = clock]
        /\ Listed(new, p) /\ new.from = from /\ new.to = Open
        /\ prices' = ((prices \ {a}) \cup {b}) \cup {new}
  BY Forms DEF NewForm
<1>3. /\ a \in Rows(p) /\ {r \in Rows(p) : r.to = Open} = {a}
      /\ b.prefix = p /\ b.from = a.from /\ b.to = clock
      /\ new.prefix = p /\ new.from = from /\ new.to = Open
  BY <1>2 DEF Active, Rows, Row, TypeOK, Listed
<1>4. /\ Rows(p)' = ((Rows(p) \ {a}) \cup {b}) \cup {new}
      /\ \A q \in Prefix \ {p} : Rows(q)' = Rows(q)
  BY <1>2, <1>3 DEF Rows, Listed
<1>5. /\ \A r \in Rows(p) : r.from < from
      /\ clock \in Time /\ from \in Time /\ from <= clock
  BY <1>1 DEF PrefixOK, Fresh, TypeOK, InSync
<1>. DEFINE T == ((Rows(p) \ {a}) \cup {b}) \cup {new}
<1>6. /\ Sound(T) /\ {r \in T : r.to = Open} = {new}
      /\ Cardinality(T) \in Nat /\ Cardinality(T) <= Versions(p) + 1
  <2>1. Sound(Rows(p))
    BY DEF PrefixOK
  <2>. HIDE DEF T
  <2>. QED BY <1>3, <1>5, <2>1, SplitSound DEF Versions, T
<1>7. \A r \in T : r.from <= from
  <2>1. \A r \in Rows(p) : r.from \in Nat /\ from \in Nat
    BY Numbers DEF Rows
  <2>2. \A r \in Rows(p) : r.from <= from
    BY <1>5, <2>1
  <2>3. b.from <= from /\ new.from <= from
    BY <1>3, <2>1, <2>2
  <2>. QED BY <2>2, <2>3
<1>. HIDE DEF T
<1>8. Rows(p)' = T /\ Active(p)' = {new} /\ Versions(p)' = Cardinality(T)
  BY <1>4, <1>6 DEF T, Active, Rows, Versions
<1>9. Counted(p)'
  <2>1. /\ Versions(p) + 1 <= changes
        /\ Versions(p) + 1 = changes => new.rate = Selected(p)
    <3>1. a \in Active(p) /\ ~IsSeed(a) /\ a.rate # chosen[p] /\ new.rate = chosen[p]
      BY <1>2 DEF Listed
    <3>. QED BY <1>1, <3>1 DEF PrefixOK, Pending
  <2>2. /\ Cardinality(T) <= changes
        /\ Cardinality(T) = changes => new.rate = Selected(p)
    <3>1. Versions(p) \in Nat /\ changes \in Nat
      BY Numbers, FS_CardinalityType DEF PrefixOK, Sound, Versions
    <3>2. Cardinality(T) \in Nat /\ Cardinality(T) <= Versions(p) + 1
      BY <1>6
    <3>. QED BY <2>1, <3>1, <3>2
  <2>. QED BY <1>1, <1>2, <1>8, <2>2 DEF Counted, IsSeed, Listed
<1>10. prices' \subseteq Row
  BY <1>2 DEF TypeOK
<1>. QED BY <1>1, <1>4, <1>6, <1>7, <1>8, <1>9, <1>10, UpsertStep

-----------------------------------------------------------------------------
(* An empty table.                                                         *)
LEMMA InitInvariant == Init => IInv
<1>. SUFFICES ASSUME Init PROVE IInv
  OBVIOUS
<1>0. 0 \in Time /\ 1 \in Time /\ 0 \in 0..MaxChanges /\ 0 \in 0..MaxFaults
  BY PriceBounds DEF Time
<1>1. TypeOK
  BY <1>0 DEF Init, TypeOK, Epoch, Nothing, Entry
<1>2. InSync
  BY DEF Init, InSync, Epoch
<1>3. ASSUME NEW p \in Prefix PROVE PrefixOK(p)
  BY FS_EmptySet DEF Init, PrefixOK, Rows, Sound, Fresh, Counted, Pending, Active
<1>. QED BY <1>1, <1>2, <1>3 DEF IInv

(* Each step keeps the invariant.                                          *)
LEMMA StepInvariant == IInv /\ [Next]_vars => IInv'
<1>. SUFFICES ASSUME IInv, [Next]_vars PROVE IInv'
  OBVIOUS
<1>0. TypeOK /\ InSync
  BY DEF IInv
<1>1. CASE UNCHANGED vars
  <2>1. UNCHANGED <<prices, listed, clock, pc, chosen, todo, from, synced, changes,
                    faults>>
    BY <1>1 DEF vars, syncVars
  <2>2. TypeOK' /\ InSync'
    BY <1>0, <2>1 DEF TypeOK, InSync
  <2>3. ASSUME NEW q \in Prefix PROVE PrefixOK(q)'
    <3>1. PrefixOK(q) /\ Rows(q)' = Rows(q)
      BY <2>1 DEF IInv, Rows
    <3>. QED BY <2>1, <3>1, SameRows DEF PrefixOK, Fresh
  <2>. QED BY <2>2, <2>3 DEF IInv
<1>2. ASSUME NEW n \in Name, NEW e \in Entry, Relist(n, e) PROVE IInv'
  BY <1>2, RelistStep
<1>3. CASE Tick \/ Sync \/ Down \/ FetchFails \/ Stamp
  <2>1. UNCHANGED <<prices, listed, changes, synced>>
    BY <1>3 DEF Tick, Sync, Down, FetchFails, Stamp
  <2>2. faults' \in 0..MaxFaults
    BY <1>0, <1>3, PriceBounds DEF Tick, Sync, Down, FetchFails, Stamp, Fault, TypeOK
  <2>. QED BY <1>3, <2>1, <2>2, QuietSteps
<1>4. CASE Start \/ StartUnseeded
  <2>1. CASE Start /\ prices = {}
    BY <2>1, SeedStep
  <2>2. CASE StartUnseeded \/ (Start /\ prices # {})
    <3>1. /\ UNCHANGED <<prices, listed, changes, synced>> /\ ServerUp
          /\ faults' \in 0..MaxFaults
      BY <1>0, <2>2, PriceBounds DEF Start, StartUnseeded, ServerUp, Fault, TypeOK
    <3>. QED BY <3>1, QuietSteps
  <2>. QED BY <1>4, <2>1, <2>2
<1>5. CASE Fetched
  BY <1>5, FetchedStep
<1>6. ASSUME NEW p \in Prefix,
             SamePrice(p) \/ FirstPrice(p) \/ ReplaceSeed(p) \/ NewPrice(p) \/ UpsertFails(p)
      PROVE  IInv'
  BY <1>6, NoWriteStep, FirstPriceStep, ReplaceSeedStep, NewPriceStep
<1>. QED BY <1>1, <1>2, <1>3, <1>4, <1>5, <1>6 DEF Next

(* The invariant holds in every reachable state.                           *)
LEMMA InvariantHolds == Spec => []IInv
  BY InitInvariant, StepInvariant, PTL DEF Spec

-----------------------------------------------------------------------------
(* priceLookupSQL.                                                         *)

Best(r, F) ==
  /\ r \in F
  /\ \A s \in F : s.prefix < r.prefix \/ (s.prefix = r.prefix /\ s.from <= r.from)

Found(m, d) == {r \in OnDay(d) : r.prefix <= m}

(* The order of the query has a first row.                                 *)
LEMMA BestExists ==
  ASSUME NEW F, F \subseteq Row, IsFiniteSet(F), F # {}
  PROVE  \E r \in F : Best(r, F)
<1>. DEFINE Above(r, s) == s.prefix < r.prefix \/ (s.prefix = r.prefix /\ s.from < r.from)
            R == {rs \in F \X F : Above(rs[1], rs[2])}
<1>1. \A r \in F : r.prefix \in Nat /\ r.from \in Nat
  BY PriceBounds, FamilyAssumption DEF Row, Prefix, Time
<1>2. \A r, s \in F : <<r, s>> \in R <=> Above(r, s)
  OBVIOUS
<1>3. \A r \in F : ~Above(r, r)
  BY <1>1
<1>4. \A r, s, t \in F : Above(r, s) /\ Above(s, t) => Above(r, t)
  BY <1>1
<1>5. \A r, s \in F :
        ~Above(s, r) => s.prefix < r.prefix \/ (s.prefix = r.prefix /\ s.from <= r.from)
  BY <1>1
<1>. HIDE DEF R, Above
<1>6. PICK r \in F : \A s \in F : <<s, r>> \notin R
  BY <1>2, <1>3, <1>4, FirstExists
<1>. QED BY <1>2, <1>5, <1>6 DEF Best

(* The query finds the longest prefix that has a row on the day, and the   *)
(* last row of that prefix.                                                *)
FirstRow(F) ==
  CHOOSE r \in F :
    \A s \in F : s.prefix < r.prefix \/ (s.prefix = r.prefix /\ s.from <= r.from)

(* ... and FirstRow picks it.                                               *)
LEMMA FirstRowIsBest ==
  ASSUME NEW F, F \subseteq Row, IsFiniteSet(F), F # {}
  PROVE  Best(FirstRow(F), F)
<1>1. PICK r \in F : Best(r, F)
  BY BestExists
<1>. QED BY <1>1 DEF FirstRow, Best

(* There are finitely many rows, and no two have the same key.             *)
LEMMA TableOfRows ==
  ASSUME NEW T, T \subseteq Row, \A p \in Prefix : Sound({r \in T : r.prefix = p})
  PROVE  /\ IsFiniteSet(T)
         /\ \A r, s \in T : r.prefix = s.prefix /\ r.from = s.from => r = s
<1>. DEFINE Part(p) == {r \in T : r.prefix = p}
            S == {Part(p) : p \in Prefix}
            f == [p \in Prefix |-> Part(p)]
<1>1. \A r, s \in T : r.prefix = s.prefix /\ r.from = s.from => r = s
  BY DEF Row, Sound
<1>2. IsFiniteSet(Prefix) /\ f \in Surjection(Prefix, S)
  <2>1. IsFiniteSet(Prefix)
    BY FamilyAssumption, FS_Interval DEF Prefix
  <2>. HIDE DEF Part
  <2>2. f \in Surjection(Prefix, S)
    BY DEF Surjection
  <2>. QED BY <2>1, <2>2
<1>3. \A P \in S : IsFiniteSet(P)
  BY DEF Sound
<1>4. T = UNION S
  BY DEF Row
<1>. HIDE DEF S, f
<1>5. IsFiniteSet(S)
  BY <1>2, FS_Surjection
<1>. QED BY <1>1, <1>3, <1>4, <1>5, FS_UNION

(* The price table has such rows.                                          *)
LEMMA Table ==
  ASSUME IInv
  PROVE  /\ IsFiniteSet(prices)
         /\ \A r, s \in prices : r.prefix = s.prefix /\ r.from = s.from => r = s
<1>1. prices \subseteq Row /\ \A p \in Prefix : Sound({r \in prices : r.prefix = p})
  BY DEF IInv, TypeOK, PrefixOK, Rows
<1>. QED BY <1>1, TableOfRows

(* A price that is found is the first one in that order.                   *)
LEMMA PriceRowIsBest ==
  ASSUME IInv, NEW m, NEW d, Found(m, d) # {}
  PROVE  Best(PriceRow(m, d), Found(m, d))
<1>1. Found(m, d) \subseteq prices
  BY DEF Found, OnDay
<1>2. Found(m, d) \subseteq Row /\ IsFiniteSet(Found(m, d))
  BY <1>1, Table, FS_Subset DEF IInv, TypeOK
<1>3. PriceRow(m, d) = FirstRow(Found(m, d))
  BY DEF PriceRow, Found, FirstRow
<1>. QED BY <1>2, <1>3, FirstRowIsBest

(* No day so far begins later than now.                                    *)
LEMMA Midnight ==
  ASSUME NEW c \in Nat, NEW l \in Nat \ {0}, NEW d \in Nat, d <= c \div l
  PROVE  d * l <= c /\ d * l \in Nat
  OBVIOUS

(* A day so far, in the units of the clock.                                *)
LEMMA DayHasBegun ==
  ASSUME TypeOK, NEW d \in Days
  PROVE  /\ d * DayLength \in Time /\ d * DayLength <= clock
         /\ (d + 1) * DayLength = d * DayLength + DayLength
         /\ d * DayLength \in Nat /\ DayLength \in Nat \ {0}
<1>1. DayLength \in Nat \ {0} /\ clock \in Nat /\ clock <= MaxTime /\ d \in Nat
  BY PriceBounds DEF TypeOK, Time, Days
<1>2. d <= clock \div DayLength
  BY <1>1 DEF Days
<1>3. d * DayLength <= clock /\ d * DayLength \in Nat
  BY <1>1, <1>2, Midnight
<1>4. (d + 1) * DayLength = d * DayLength + DayLength
  BY <1>1
<1>. QED BY <1>1, <1>3, <1>4, PriceBounds DEF Time

-----------------------------------------------------------------------------
(* Every variable keeps its type: a row runs from a time to a time or is   *)
(* open, and its rate is one of the list or of the defaults                *)
(* (store.go:431-465, pricesync.go:69-110).                                *)
THEOREM PricesTypeCorrect == Spec => []TypeOK
<1>1. IInv => TypeOK
  BY DEF IInv
<1>. QED BY <1>1, InvariantHolds, PTL

(* At every moment a prefix that has a price has exactly one that is in    *)
(* effect, and the query finds a price of its own for every day so far,    *)
(* whatever failed and whenever the server was restarted                   *)
(* (store.go:431-465).                                                     *)
THEOREM EveryDayIsPriced == Spec => []EveryDayPriced
<1>1. IInv => EveryDayPriced
  <2>. SUFFICES ASSUME IInv, NEW p \in Priced
                PROVE  /\ Cardinality(Active(p)) = 1
                       /\ \A d \in Days : PriceRow(p, d).prefix = p
    BY DEF EveryDayPriced
  <2>. TypeOK /\ p \in Prefix /\ p \in Nat
    BY Numbers DEF IInv, Priced, TypeOK, Row
  <2>1. Sound(Rows(p)) /\ Rows(p) # {}
    BY DEF IInv, PrefixOK, Priced, Rows
  <2>2. Cardinality(Active(p)) = 1
    BY <2>1, FS_Singleton, ActiveIn DEF Sound
  <2>3. ASSUME NEW d \in Days PROVE PriceRow(p, d).prefix = p
    <3>1. PICK r \in Rows(p) : r.from <= d * DayLength /\ d * DayLength < r.to
      BY <2>1, DayHasBegun DEF Sound
    <3>2. r \in Found(p, d)
      <4>1. /\ r \in prices /\ r.prefix = p
            /\ r.from \in Nat /\ r.to \in Nat
        BY Numbers DEF Rows
      <4>2. r.from <= (d + 1) * DayLength /\ r.to > d * DayLength
        BY <3>1, <4>1, DayHasBegun
      <4>. QED BY <4>1, <4>2 DEF Found, OnDay
    <3>3. Best(PriceRow(p, d), Found(p, d))
      BY <3>2, PriceRowIsBest
    <3>4. r.prefix = p /\ \A s \in Found(p, d) : s.prefix \in Nat /\ s.prefix <= p
      BY <3>1, Numbers DEF Rows, Found, OnDay, TypeOK, Row
    <3>. QED BY <3>2, <3>3, <3>4 DEF Best
  <2>. QED BY <2>2, <2>3
<1>. QED BY <1>1, InvariantHolds, PTL

(* However the entries of a prefix compete, a prefix has at most one row   *)
(* for each change of the list, beside a first one: a sync that finds the  *)
(* list as it was writes no history (pricesync.go:90-99).                  *)
THEOREM HistoryIsAlwaysChange == Spec => []HistoryIsChange
<1>1. IInv => HistoryIsChange
  <2>. SUFFICES ASSUME IInv, NEW p \in Priced
                PROVE  Versions(p) = 1 \/ Versions(p) <= changes
    BY DEF HistoryIsChange, Versions, Rows
  <2>1. p \in Prefix /\ Rows(p) # {}
    BY DEF IInv, Priced, TypeOK, Row, Rows
  <2>2. PICK a : Active(p) = {a}
    BY <2>1, ActiveIn DEF IInv, PrefixOK, Sound
  <2>3. Rows(p) = {a} \/ Versions(p) <= changes
    BY <2>1, <2>2 DEF IInv, PrefixOK, Counted
  <2>. QED BY <2>3, FS_Singleton DEF Versions
<1>. QED BY <1>1, InvariantHolds, PTL

-----------------------------------------------------------------------------
(* The price of a day that is over.                                        *)

(* The row x has become k, and no later row of its prefix is on the day:   *)
(* the query finds k, or a row of a longer prefix.                         *)
LEMMA BestIsKept ==
  ASSUME NEW F, F \subseteq Row, NEW G, G \subseteq Row, NEW x, Best(x, F),
         NEW y, Best(y, G), NEW k \in G,
         k.prefix = x.prefix, k.from = x.from, k.rate = x.rate,
         \A r, s \in G : r.prefix = s.prefix /\ r.from = s.from => r = s,
         \A s \in G : s.prefix = x.prefix => s.from <= x.from
  PROVE  y.rate = x.rate \/ y.prefix > x.prefix
<1>1. \A r \in G : r.prefix \in Nat /\ r.from \in Nat
  BY PriceBounds, FamilyAssumption DEF Row, Prefix, Time
<1>2. y \in G /\ (k.prefix < y.prefix \/ (k.prefix = y.prefix /\ k.from <= y.from))
  BY DEF Best
<1>3. CASE k.prefix = y.prefix /\ k.from <= y.from
  <2>1. y.from <= k.from
    BY <1>2, <1>3
  <2>2. y.from = k.from
    BY <1>1, <1>2, <1>3, <2>1
  <2>. QED BY <1>2, <1>3, <2>2
<1>4. CASE k.prefix < y.prefix
  BY <1>1, <1>2, <1>4
<1>. QED BY <1>2, <1>3, <1>4

(* What the steps that write make of the row that prices a past day: it is *)
(* still there, closed perhaps, and no later row of its prefix is.         *)
LEMMA RowIsKept ==
  ASSUME IInv, Next, NEW m \in Prefix, NEW d \in Days, Over(d),
         NEW x, Best(x, Found(m, d)), x.source = "litellm"
  PROVE  /\ \E k \in Found(m, d)' :
              k.prefix = x.prefix /\ k.from = x.from /\ k.rate = x.rate
         /\ \A s \in Found(m, d)' : s.prefix = x.prefix => s.from <= x.from
<1>. TypeOK /\ InSync
  BY DEF IInv
<1>. DEFINE On(r) == /\ r.from <= (d + 1) * DayLength /\ r.to > d * DayLength
                     /\ r.prefix <= m
<1>1. \A r : (r \in Found(m, d) <=> r \in prices /\ On(r))
             /\ (r \in Found(m, d)' <=> r \in prices' /\ On(r))
  BY DEF Found, OnDay
<1>2. x \in prices /\ On(x)
  BY <1>1 DEF Best
<1>3. \A s \in prices : On(s) /\ s.prefix = x.prefix => s.from <= x.from
  <2>1. x.prefix \in Nat
    BY <1>2, Numbers DEF TypeOK, Row
  <2>. HIDE DEF On
  <2>. QED BY <1>1, <2>1 DEF Best
<1>. SUFFICES /\ \E k \in prices' :
                   On(k) /\ k.prefix = x.prefix /\ k.from = x.from /\ k.rate = x.rate
              /\ \A s \in prices' : On(s) /\ s.prefix = x.prefix => s.from <= x.from
  <2>. HIDE DEF On
  <2>. QED BY <1>1
<1>4. CASE UNCHANGED prices
  <2>. HIDE DEF On
  <2>. QED BY <1>2, <1>3, <1>4
<1>5. ASSUME NEW p \in Prefix, FirstForm(p)
      PROVE  /\ x \in prices'
             /\ \A s \in prices' : s \in prices \/ s.prefix # x.prefix
  BY <1>2, <1>5 DEF FirstForm, Rows, Listed
<1>6. ASSUME NEW p \in Prefix, SeedForm(p)
      PROVE  /\ x \in prices'
             /\ \A s \in prices' : s \in prices \/ s.prefix # x.prefix
  <2>1. PICK a \in prices, b \in Row :
          /\ Rows(p) = {a} /\ IsSeed(a) /\ b.prefix = p
          /\ prices' = (prices \ {a}) \cup {b}
    BY <1>6 DEF SeedForm, Listed
  <2>2. x # a
    BY <2>1 DEF IsSeed
  <2>3. x.prefix # p
    BY <1>2, <2>1, <2>2 DEF Rows
  <2>. QED BY <1>2, <2>1, <2>2, <2>3
<1>7. ASSUME NEW p \in Prefix, NewPrice(p)
      PROVE  /\ \E k \in prices' :
                   On(k) /\ k.prefix = x.prefix /\ k.from = x.from /\ k.rate = x.rate
             /\ \A s \in prices' : On(s) /\ s.prefix = x.prefix => s.from <= x.from
  <2>1. PICK a \in prices, b \in Row, new \in Row :
          /\ b = [a EXCEPT !.to = clock] /\ a.to = Open
          /\ new.from = from
          /\ prices' = ((prices \ {a}) \cup {b}) \cup {new}
    BY <1>7, Forms DEF NewForm, Active
  <2>2. /\ a \in Row /\ b.to = clock
        /\ b.from = a.from /\ b.prefix = a.prefix /\ b.rate = a.rate
    BY <2>1 DEF TypeOK, Row
  <2>3. /\ (d + 1) * DayLength < from /\ from <= clock
        /\ d * DayLength < clock /\ d * DayLength < Open
        /\ (d + 1) * DayLength \in Nat
    <3>1. from' = from
      BY <1>7 DEF NewPrice, Upserted, Upsert
    <3>2. (d + 1) * DayLength < from
      BY <3>1 DEF Over
    <3>3. d * DayLength < (d + 1) * DayLength /\ d * DayLength < Open
          /\ (d + 1) * DayLength \in Nat /\ d * DayLength \in Nat
      BY DayHasBegun, Numbers
    <3>. QED BY <3>2, <3>3, Numbers DEF InSync
  <2>4. ~On(new)
    BY <2>1, <2>3, Numbers
  <2>5. On(a) <=> On(b)
    BY <2>1, <2>2, <2>3
  <2>. HIDE DEF On
  <2>6. \A s \in prices' : On(s) /\ s.prefix = x.prefix => s.from <= x.from
    BY <1>3, <2>1, <2>2, <2>4, <2>5
  <2>7. \E k \in prices' :
          On(k) /\ k.prefix = x.prefix /\ k.from = x.from /\ k.rate = x.rate
    BY <1>2, <2>1, <2>2, <2>5
  <2>. QED BY <2>6, <2>7
<1>8. prices # {}
  BY <1>2
<1>. HIDE DEF On
<1>9. ASSUME NEW p \in Prefix, FirstForm(p) \/ SeedForm(p)
      PROVE  /\ \E k \in prices' :
                   On(k) /\ k.prefix = x.prefix /\ k.from = x.from /\ k.rate = x.rate
             /\ \A s \in prices' : On(s) /\ s.prefix = x.prefix => s.from <= x.from
  BY <1>2, <1>3, <1>5, <1>6, <1>9
<1>10. ASSUME NEW p \in Prefix, FirstPrice(p) \/ ReplaceSeed(p)
       PROVE  FirstForm(p) \/ SeedForm(p)
  BY <1>10, Forms
<1>11. \/ UNCHANGED prices
       \/ \E p \in Prefix : FirstPrice(p) \/ ReplaceSeed(p) \/ NewPrice(p)
  BY <1>8 DEF Next, Relist, Tick, Start, StartUnseeded, Down, Sync, Fetched, FetchFails,
     Stamp, SamePrice, UpsertFails
<1>. QED BY <1>4, <1>7, <1>9, <1>10, <1>11

(* A price that replaced a seed or was the first of its prefix stays the   *)
(* price of the days that were over when the sync that supersedes it took  *)
(* its time; only a longer prefix that gets a price of its own may take    *)
(* its place (store.go:627-628 and 431-465). So a change of a rate does    *)
(* not re-price history, whatever README.md:265-266 says.                  *)
THEOREM PricesOfPastDaysStay == Spec => PastDaysKeepTheirPrice
<1>1. IInv /\ IInv' /\ [Next]_vars =>
        [\A m \in Prefix, d \in Days :
           (Over(d) /\ PriceRow(m, d).source = "litellm")
             => PriceRow(m, d)'.rate = PriceRow(m, d).rate \/ Specialised(m, d)]_vars
  <2>. SUFFICES ASSUME IInv, IInv', Next, NEW m \in Prefix, NEW d \in Days,
                       Over(d), PriceRow(m, d).source = "litellm"
                PROVE  PriceRow(m, d)'.rate = PriceRow(m, d).rate \/ Specialised(m, d)
    OBVIOUS
  <2>. DEFINE x == PriceRow(m, d)
              F == Found(m, d)
              G == Found(m, d)'
  <2>1. F # {}
    BY DEF PriceRow, Found, NoRow
  <2>2. Best(x, F)
    BY <2>1, PriceRowIsBest
  <2>3. PICK k \in G : k.prefix = x.prefix /\ k.from = x.from /\ k.rate = x.rate
    BY <2>2, RowIsKept
  <2>4. \A s \in G : s.prefix = x.prefix => s.from <= x.from
    BY <2>2, RowIsKept
  <2>5. /\ F \subseteq Row /\ G \subseteq Row /\ IsFiniteSet(G)
        /\ \A r, s \in G : r.prefix = s.prefix /\ r.from = s.from => r = s
    <3>1. /\ prices' \subseteq Row
          /\ \A p \in Prefix : Sound({r \in prices' : r.prefix = p})
      BY DEF IInv, TypeOK, PrefixOK, Rows, Sound
    <3>2. F \subseteq prices /\ G \subseteq prices'
      BY DEF Found, OnDay
    <3>. HIDE DEF F, G
    <3>. QED BY <3>1, <3>2, TableOfRows, FS_Subset DEF IInv, TypeOK
  <2>6. PriceRow(m, d)' = FirstRow(G)
    <3>1. G # {}
      BY <2>3
    <3>2. PriceRow(m, d)' = IF G = {} THEN NoRow ELSE FirstRow(G)
      BY DEF PriceRow, Found, FirstRow, NoRow
    <3>. QED BY <3>1, <3>2
  <2>. DEFINE y == FirstRow(G)
  <2>7. Best(y, G)
    BY <2>3, <2>5, FirstRowIsBest
  <2>. HIDE DEF F, G, x, y
  <2>8. y.rate = x.rate \/ y.prefix > x.prefix
    BY <2>2, <2>3, <2>4, <2>5, <2>7, BestIsKept
  <2>. QED BY <2>6, <2>8 DEF Specialised, x, y
<1>. QED BY <1>1, InvariantHolds, PTL DEF Spec, PastDaysKeepTheirPrice

=============================================================================
