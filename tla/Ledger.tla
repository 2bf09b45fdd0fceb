------------------------------- MODULE Ledger -------------------------------
(***************************************************************************)
(* What the pipeline promises of the records the tools write, whatever     *)
(* crashes, timeouts, retries and replays happen below it:                 *)
(*   - a line is released (the watcher will not read it again) only when   *)
(*     its record is in custody;                                           *)
(*   - what is in custody stays there, and what is released stays so;      *)
(*   - a record is added to the daily totals at most once.                 *)
(***************************************************************************)
EXTENDS Transcripts

VARIABLES
  custody,   \* keys stored, spooled, or refused for good
  counted,   \* how many times each key was added to the daily totals
  released   \* lines behind the durable checkpoint

ledgerVars == <<custody, counted, released>>

LedgerInit ==
  /\ custody = {}
  /\ counted = [k \in Key |-> 0]
  /\ released = {}

(* The server takes the keys K and counts those it has never counted.      *)
Deliver(K) ==
  /\ custody' = custody \cup K
  /\ counted' = [k \in Key |-> IF k \in K THEN 1 ELSE counted[k]]
  /\ UNCHANGED released

(* The watcher takes the keys K into its own hands.                        *)
Hold(K) ==
  /\ custody' = custody \cup K
  /\ UNCHANGED <<counted, released>>

(* The checkpoint moves past the lines P.                                  *)
Release(P) ==
  /\ \A p \in P : Line[p] \in custody \cup {NoRecord}
  /\ released' = released \cup P
  /\ UNCHANGED <<custody, counted>>

LedgerNext ==
  \/ \E K \in SUBSET Key : Deliver(K) \/ Hold(K)
  \/ \E P \in SUBSET Position : Release(P)

LedgerSpec == LedgerInit /\ [][LedgerNext]_ledgerVars
=============================================================================
