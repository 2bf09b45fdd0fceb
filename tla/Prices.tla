------------------------------- MODULE Prices -------------------------------
(***************************************************************************)
(* The history of model prices: the table model_prices, seeded when the    *)
(* server first starts, kept up to date from a public price list, and      *)
(* looked up by model and day.                                             *)
(*                                                                         *)
(* The prefixes are those of one family of models, by length: prefix 2 is  *)
(* longer than prefix 1 and begins with it. Model m has the name that is   *)
(* prefix m, and matches the prefixes up to it. A rate stands for the five *)
(* rates of a row.                                                         *)
(*                                                                         *)
(* pc: "down" (no server), "idle" (between two syncs), "fetch", "stamp"    *)
(* (before ValidFrom is taken for the next prefix), "upsert".              *)
(***************************************************************************)
EXTENDS Naturals, FiniteSets

CONSTANTS
  NumPrefixes, \* the family
  NumNames,    \* names in the price list, in sorted order
  PrefixOf,    \* normalizeModel
  Vendor,      \* names without a slash: the vendor's own
  Rate,        \* rates
  Unlisted,    \* no entry, or one that is not usable
  Default,     \* defaultRates, for some of the prefixes
  DayLength,   \* length of a day
  MaxTime,     \* bound on time
  MaxChanges,  \* bound on changes of the list
  MaxFaults    \* bound on failed statements and requests, and restarts

Prefix == 1..NumPrefixes
Name   == 1..NumNames
Time   == 0..MaxTime

ASSUME FamilyAssumption ==
  /\ NumPrefixes \in Nat
  /\ NumNames \in Nat
  /\ PrefixOf \in [Name -> Prefix]
  /\ Vendor \subseteq Name
  /\ Unlisted \notin Rate
  /\ Default \in [Prefix -> Rate \cup {Unlisted}]

ASSUME PriceBounds ==
  /\ DayLength \in Nat \ {0}
  /\ MaxTime \in Nat \ {0} /\ MaxChanges \in Nat /\ MaxFaults \in Nat

Epoch == 0
Open  == MaxTime + 1       \* valid_to IS NULL

VARIABLES
  prices,  \* model_prices
  listed,  \* the price list: per name, an entry
  clock,   \* the time
  pc,      \* where the server is
  chosen,  \* the rates that the sync has taken from the list
  todo,    \* the prefixes it has still to upsert
  from,    \* the last ValidFrom
  synced,  \* history: prefixes whose rate has come from the list
  changes, \* how often the list has changed
  faults   \* how many things have gone wrong

syncVars == <<chosen, todo, from>>
vars == <<prices, listed, clock, pc, syncVars, synced, changes, faults>>

Row ==
  [prefix : Prefix, from : Time, to : Time \cup {Open}, rate : Rate,
   source : {"default-seed", "litellm"}]

(* liteLLMEntry: a rate, and whether it has all the cache rates.           *)
Entry == [rate : Rate, full : BOOLEAN] \cup {Unlisted}

Nothing == [p \in Prefix |-> Unlisted]

Init ==
  /\ prices = {}
  /\ listed = [n \in Name |-> Unlisted]
  /\ clock = 1
  /\ pc = "down"
  /\ chosen = Nothing
  /\ todo = {}
  /\ from = Epoch
  /\ synced = {}
  /\ changes = 0
  /\ faults = 0

Fault == faults < MaxFaults /\ faults' = faults + 1

-----------------------------------------------------------------------------
(* Variants of the definitions below, each with a plausible slip.          *)
FromNowOn(p)          == from
FromTomorrow          == clock + DayLength
InWhateverOrder(n, m) == IF clock % 2 = 0 THEN n <= m ELSE n >= m
OnlyPlaceholders(r)   == r.from = Epoch
-----------------------------------------------------------------------------
(* The list changes under one of its names.                                *)
Relist(n, e) ==
  /\ changes < MaxChanges
  /\ e # listed[n]
  /\ changes' = changes + 1
  /\ listed' = [listed EXCEPT ![n] = e]
  /\ UNCHANGED <<prices, clock, pc, syncVars, synced, faults>>

Tick ==
  /\ clock < MaxTime
  /\ clock' = clock + 1
  /\ UNCHANGED <<prices, listed, pc, syncVars, synced, changes, faults>>

-----------------------------------------------------------------------------
(* runServer: SeedDefaultPrices, then Worker.Start.                        *)
Seeds ==
  {[prefix |-> p, from |-> Epoch, to |-> Open, rate |-> Default[p],
    source |-> "default-seed"] : p \in {q \in Prefix : Default[q] # Unlisted}}

ServerUp ==
  /\ pc = "down"
  /\ clock > from
  /\ pc' = "fetch"
  /\ UNCHANGED <<listed, clock, chosen, todo, from, synced, changes>>

Start ==
  /\ ServerUp
  /\ prices' = IF prices = {} THEN Seeds ELSE prices
  /\ UNCHANGED faults

(* Seeding fails: the server starts all the same.                          *)
StartUnseeded ==
  /\ ServerUp
  /\ prices = {}
  /\ Fault
  /\ UNCHANGED prices

(* The process ends; a transaction that was open is rolled back.           *)
Down ==
  /\ pc # "down"
  /\ Fault
  /\ pc' = "down"
  /\ chosen' = Nothing
  /\ todo' = {}
  /\ UNCHANGED <<prices, listed, clock, from, synced, changes>>

(* priceLoop: the ticker. time.Now has moved since the last sync.          *)
Sync ==
  /\ pc = "idle"
  /\ clock > from
  /\ pc' = "fetch"
  /\ UNCHANGED <<prices, listed, clock, chosen, todo, from, synced, changes, faults>>

-----------------------------------------------------------------------------
(* fetchPriceJSONWithRetry                                                 *)

(* priceCandidateRank                                                      *)
Complete(n) == listed[n].full
RanksAbove(n, m) ==
  \/ Complete(n) /\ ~Complete(m)
  \/ Complete(n) = Complete(m) /\ n \in Vendor /\ m \notin Vendor
RanksWith(n, m) ==
  Complete(n) = Complete(m) /\ (n \in Vendor <=> m \in Vendor)

FirstOf(n, m) == n <= m

Candidates(p) == {n \in Name : PrefixOf[n] = p /\ listed[n] # Unlisted}

(* selectPriceRows: the rate of the best candidate, the first of equals.   *)
Selected(p) ==
  IF Candidates(p) = {}
    THEN Unlisted
    ELSE LET best == CHOOSE n \in Candidates(p) :
               \A m \in Candidates(p) :
                 RanksAbove(n, m) \/ (RanksWith(n, m) /\ FirstOf(n, m))
         IN listed[best].rate

Fetched ==
  /\ pc = "fetch"
  /\ chosen' = [p \in Prefix |-> Selected(p)]
  /\ todo' = {p \in Prefix : Selected(p) # Unlisted}
  /\ pc' = IF todo' = {} THEN "idle" ELSE "stamp"
  /\ UNCHANGED <<prices, listed, clock, from, synced, changes, faults>>

(* The last attempt fails, or one whose answer is final. An attempt that   *)
(* is repeated changes nothing.                                            *)
FetchFails ==
  /\ pc = "fetch"
  /\ Fault
  /\ pc' = "idle"
  /\ UNCHANGED <<prices, listed, clock, syncVars, synced, changes>>

-----------------------------------------------------------------------------
(* SyncPrices: for each prefix, ValidFrom is taken and UpsertPrice called. *)

Stamp ==
  /\ pc = "stamp"
  /\ from' = clock
  /\ pc' = "upsert"
  /\ UNCHANGED <<prices, listed, clock, chosen, todo, synced, changes, faults>>

Active(p) == {r \in prices : r.prefix = p /\ r.to = Open}

(* INSERT ... ON CONFLICT (model_prefix, valid_from) DO UPDATE             *)
Insert(T, p, since) ==
  LET same == {r \in T : r.prefix = p /\ r.from = since}
  IN IF same = {}
       THEN T \cup {[prefix |-> p, from |-> since, to |-> Open,
                     rate |-> chosen[p], source |-> "litellm"]}
       ELSE (T \ same)
              \cup {[r EXCEPT !.rate = chosen[p], !.source = "litellm"] : r \in same}

(* p is the next in order, and the loop goes on after it.                  *)
Upsert(p) ==
  /\ pc = "upsert"
  /\ p \in todo
  /\ \A q \in todo : p <= q
  /\ todo' = todo \ {p}
  /\ chosen' = [chosen EXCEPT ![p] = Unlisted]
  /\ pc' = IF todo' = {} THEN "idle" ELSE "stamp"
  /\ UNCHANGED <<listed, clock, from, changes>>

Upserted(p) ==
  /\ Upsert(p)
  /\ synced' = synced \cup {p}
  /\ UNCHANGED faults

SamePrice(p) ==
  /\ Upserted(p)
  /\ \E r \in Active(p) : r.rate = chosen[p]
  /\ UNCHANGED prices

(* Case 1: the prefix has no active row.                                   *)
FirstFrom(p) == Epoch

FirstPrice(p) ==
  /\ Upserted(p)
  /\ Active(p) = {}
  /\ prices' = Insert(prices, p, FirstFrom(p))

(* Case 2: a seed is replaced in place.                                    *)
IsSeed(r) == r.source = "default-seed"

ReplaceSeed(p) ==
  /\ Upserted(p)
  /\ \E r \in Active(p) : r.rate # chosen[p] /\ IsSeed(r)
  /\ prices' = (prices \ Active(p))
                 \cup {[r EXCEPT !.rate = chosen[p], !.source = "litellm"] : r \in Active(p)}

(* Case 3: the active row ends now, and a new one begins.                  *)
Closed(p) ==
  {IF r.prefix = p /\ r.to = Open THEN [r EXCEPT !.to = clock] ELSE r : r \in prices}

NewFrom == from

NewPrice(p) ==
  /\ Upserted(p)
  /\ \E r \in Active(p) : r.rate # chosen[p] /\ ~IsSeed(r)
  /\ prices' = Insert(Closed(p), p, NewFrom)

(* The transaction fails: the prefix is skipped.                           *)
UpsertFails(p) ==
  /\ Upsert(p)
  /\ Fault
  /\ UNCHANGED <<prices, synced>>

Next ==
  \/ \E n \in Name, e \in Entry : Relist(n, e)
  \/ Tick
  \/ Start
  \/ StartUnseeded
  \/ Down
  \/ Sync
  \/ Fetched
  \/ FetchFails
  \/ Stamp
  \/ \E p \in Prefix :
       SamePrice(p) \/ FirstPrice(p) \/ ReplaceSeed(p) \/ NewPrice(p) \/ UpsertFails(p)

Spec == Init /\ [][Next]_vars

-----------------------------------------------------------------------------
(* priceLookupSQL                                                          *)
OnDay(d) ==
  {r \in prices : r.from <= (d + 1) * DayLength /\ r.to > d * DayLength}

NoRow == [prefix |-> 0, from |-> Epoch, to |-> Open, rate |-> Unlisted, source |-> "none"]

PriceRow(m, d) ==
  LET found == {r \in OnDay(d) : r.prefix <= m}
  IN IF found = {}
       THEN NoRow
       ELSE CHOOSE r \in found :
              \A s \in found :
                s.prefix < r.prefix \/ (s.prefix = r.prefix /\ s.from <= r.from)

-----------------------------------------------------------------------------
TypeOK ==
  /\ prices \subseteq Row
  /\ listed \in [Name -> Entry]
  /\ clock \in Time
  /\ pc \in {"down", "idle", "fetch", "stamp", "upsert"}
  /\ chosen \in [Prefix -> Rate \cup {Unlisted}]
  /\ todo \subseteq Prefix
  /\ from \in Time
  /\ synced \subseteq Prefix
  /\ changes \in 0..MaxChanges
  /\ faults \in 0..MaxFaults

Days == 0..(clock \div DayLength)

(* A prefix that has a price has exactly one that is in effect now, and    *)
(* every day has one of its rows, through failed upserts and restarts: no  *)
(* gap between the end of a row and the beginning of the next leaves a day *)
(* to a shorter prefix or to no price at all (store.go:431-465).           *)
Priced == {r.prefix : r \in prices}

EveryDayPriced ==
  \A p \in Priced :
    /\ Cardinality(Active(p)) = 1
    /\ \A d \in Days : PriceRow(p, d).prefix = p

(* A sync that finds the list as it was writes no history: however the     *)
(* entries of a prefix compete, each row after the first stands for a      *)
(* change of the list (pricesync.go:90-99).                                *)
HistoryIsChange ==
  \A p \in Priced :
    LET versions == Cardinality({r \in prices : r.prefix = p})
    IN versions = 1 \/ versions <= changes

(* The model is priced by a row of another prefix than before, which is    *)
(* longer: it has got a price of its own.                                  *)
Specialised(m, d) == PriceRow(m, d)'.prefix > PriceRow(m, d).prefix

(* A day that was over, midnight included, before the sync took its time.  *)
Over(d) == (d + 1) * DayLength < from'

(* "Changing today's prices does not retroactively re-price historical     *)
(* rows" (store.go:627-628), and a changed rate is "a proper history step" *)
(* (README.md:277-280): a price that replaced a seed or was the first of   *)
(* its prefix stays for the days that are over when it is superseded. Two  *)
(* other places say the opposite, "rate changes re-price history"          *)
(* (README.md:265-266 and docs/agents-dot-md/architecture.md:74). The code *)
(* does that to the days of a seed alone, and to those of a shorter prefix *)
(* when a longer one gets its first price (store.go:416, 431-437).         *)
PastDaysKeepTheirPrice ==
  [][\A m \in Prefix, d \in Days :
       (Over(d) /\ PriceRow(m, d).source = "litellm")
         => PriceRow(m, d)'.rate = PriceRow(m, d).rate \/ Specialised(m, d)]_vars

-----------------------------------------------------------------------------
(* The same sentence for every rate that the list has confirmed. When the  *)
(* list first gives the rate of the seed, nothing is written and the row   *)
(* stays a seed; when the rate changes, it changes for all the past.       *)
KnownDaysKeepTheirPrice ==
  [][\A m \in Prefix, d \in Days :
       (Over(d) /\ PriceRow(m, d).prefix \in synced)
         => PriceRow(m, d)'.rate = PriceRow(m, d).rate \/ Specialised(m, d)]_vars
=============================================================================
