------------------------------- MODULE Access -------------------------------
(***************************************************************************)
(* Users and API keys, and handleIngest step by step: watchers post what   *)
(* they have spooled, the handler resolves the key of the request and then *)
(* runs one statement for its usage records and one for its edits, while   *)
(* an operator adds users, mints and revokes keys and gives a watcher      *)
(* another one.                                                            *)
(*                                                                         *)
(* Each SQL statement is one step: Resolve and Revoke are single UPDATEs   *)
(* of a row that is locked and looked at again, and for the inserts Rollup *)
(* says so (TotalsHold). Which user a record counts for is a matter of the *)
(* request that brings it, not of the record. A request may carry records  *)
(* of both kinds, which handleIngest takes, although Send and SendEdits    *)
(* keep them apart. A watcher has one request at a time: that one it gave  *)
(* up may go on beside the next is in Ingest.                              *)
(***************************************************************************)
EXTENDS Naturals

CONSTANTS
  Person,      \* user ids
  APIKey,      \* keys that NewAPIKey may return
  PrefixOf,    \* the first 12 characters of each
  MintedFor,   \* the user that each is for
  FirstKey,    \* the one that each watcher is first configured with
  UsageKey,    \* records by their primary keys in usage_detail
  EditKey,     \* and in edit_detail
  Client,      \* watchers
  Batches,     \* what a request can carry
  MaxHitches,  \* bound on failures, revocations and reconfigurations
  Nobody

Prefix == {PrefixOf[k] : k \in APIKey}

ASSUME AccessAssumption ==
  /\ Nobody \notin Person \cup APIKey
  /\ MintedFor \in [APIKey -> Person]
  /\ FirstKey \in [Client -> APIKey]
  /\ UsageKey \cap EditKey = {}
  /\ Batches \subseteq (SUBSET (UsageKey \cup EditKey)) \ {{}}
  /\ UNION Batches = UsageKey \cup EditKey
  /\ MaxHitches \in Nat

VARIABLES
  people,   \* users
  keyUser,  \* api_keys: the user of each key, Nobody when there is no row
  revoked,  \* those with a revoked_at
  conf,     \* the key each watcher is configured with
  due,      \* what each has in its spool
  call,     \* its request and how far the handler is with it
  owner,    \* user_id of the rows of usage_detail and edit_detail
  daily,    \* how often each record was added to the daily rows of each user
  hitches   \* how many things have gone wrong so far

keyVars    == <<people, keyUser, revoked, conf>>
tableVars  == <<owner, daily>>
accessVars == <<keyVars, due, call, tableVars, hitches>>

Datum  == UsageKey \cup EditKey
Owner  == Person \cup {Nobody}
NoCall == [at |-> "idle", key |-> Nobody, who |-> Nobody, body |-> {},
           barred |-> FALSE]

Hitch == hitches < MaxHitches /\ hitches' = hitches + 1

(* A new installation: no users, and watchers with a key that is to come.  *)
AccessInit ==
  /\ people = {}
  /\ keyUser = [k \in APIKey |-> Nobody]
  /\ revoked = {}
  /\ conf = FirstKey
  /\ due = [c \in Client |-> Datum]
  /\ call = [c \in Client |-> NoCall]
  /\ owner = [r \in Datum |-> Nobody]
  /\ daily = [u \in Person |-> [r \in Datum |-> 0]]
  /\ hitches = 0

-----------------------------------------------------------------------------
(* Variants of the definitions below, each with a plausible slip.          *)
AnyKey(x)              == {k \in APIKey : PrefixOf[k] = x} \ revoked
WholeBatch(c, R)       == call[c].body \cap R
OkayWithoutEdits(c, R) == IF R = UsageKey THEN "500" ELSE "ok"
Any4xx(a)              == a \in {"ok", "401"}
-----------------------------------------------------------------------------
(* The admin commands.                                                     *)

(* user-add. A second row of the same user violates the primary key.       *)
CreateUser(u) ==
  /\ u \notin people
  /\ people' = people \cup {u}
  /\ UNCHANGED <<keyUser, revoked, conf, due, call, tableVars, hitches>>

(* key-create. The user must exist; the key is random, and new.            *)
CreateAPIKey(k) ==
  /\ MintedFor[k] \in people
  /\ keyUser[k] = Nobody
  /\ keyUser' = [keyUser EXCEPT ![k] = MintedFor[k]]
  /\ UNCHANGED <<people, revoked, conf, due, call, tableVars, hitches>>

(* key-revoke: every active key with the prefix. Without one it fails.     *)
Matching(x) == {k \in APIKey : PrefixOf[k] = x /\ keyUser[k] # Nobody} \ revoked

RevokeAPIKey(x) ==
  /\ Hitch
  /\ Matching(x) # {}
  /\ revoked' = revoked \cup Matching(x)
  /\ UNCHANGED <<people, keyUser, conf, due, call, tableVars>>

(* The watcher is installed anew with another key; what it has spooled     *)
(* stays.                                                                  *)
Install(c, k) ==
  /\ k # conf[c]
  /\ Hitch
  /\ conf' = [conf EXCEPT ![c] = k]
  /\ UNCHANGED <<people, keyUser, revoked, due, call, tableVars>>

-----------------------------------------------------------------------------
(* A request.                                                              *)

(* barred (history): its key was revoked before it was made.               *)
Post(c, B) ==
  /\ call[c].at = "idle"
  /\ B \cap due[c] # {}
  /\ call' = [call EXCEPT ![c] =
                [at |-> "auth", key |-> conf[c], who |-> Nobody, body |-> B,
                 barred |-> conf[c] \in revoked]]
  /\ UNCHANGED <<keyVars, due, tableVars, hitches>>

Moves(c, place) == call' = [call EXCEPT ![c].at = place]

(* ResolveAPIKey: WHERE key_hash = $1 AND revoked_at IS NULL.              *)
Active(k) == keyUser[k] # Nobody /\ k \notin revoked

Resolve(c) ==
  /\ call[c].at = "auth"
  /\ IF Active(call[c].key)
     THEN call' = [call EXCEPT ![c].at = "usage", ![c].key = Nobody,
                               ![c].who = keyUser[call[c].key]]
     ELSE Moves(c, "401")
  /\ UNCHANGED <<keyVars, due, tableVars, hitches>>

(* The rows of ins: those of the batch that are not there yet.             *)
Inserted(c, R) == {r \in call[c].body \cap R : owner[r] = Nobody}

(* The statement of Insert or InsertEdits commits, for the resolved user.  *)
Commit(c, R) ==
  LET new == Inserted(c, R) IN
  /\ owner' = [r \in Datum |-> IF r \in new THEN call[c].who ELSE owner[r]]
  /\ daily' = [daily EXCEPT ![call[c].who] =
                 [r \in Datum |-> @[r] + IF r \in new THEN 1 ELSE 0]]

InsertUsage(c) ==
  /\ call[c].at = "usage"
  /\ Commit(c, UsageKey)
  /\ Moves(c, "edits")
  /\ UNCHANGED <<keyVars, due, hitches>>

InsertEdits(c) ==
  /\ call[c].at = "edits"
  /\ Commit(c, EditKey)
  /\ Moves(c, "ok")
  /\ UNCHANGED <<keyVars, due, hitches>>

(* What the handler does after an error of the statement over R.           *)
AfterError(c, R) == "500"

(* The statement fails, or its commit is not heard of; the client may have *)
(* hung up, which cancels it. What the one before has stored stays.        *)
InsertFails(c, R) ==
  /\ call[c].at = IF R = UsageKey THEN "usage" ELSE "edits"
  /\ call[c].body \cap R # {}
  /\ Hitch
  /\ Commit(c, R) \/ UNCHANGED tableVars
  /\ Moves(c, AfterError(c, R))
  /\ UNCHANGED <<keyVars, due>>

ResolveFails(c) ==
  /\ call[c].at = "auth"
  /\ Hitch
  /\ Moves(c, "500")
  /\ UNCHANGED <<keyVars, due, tableVars>>

(* After which answers the watcher forgets the batch: not after a 401,     *)
(* which isHTTPRejection does not take for a refusal.                      *)
Forgets(a) == a = "ok"

Receive(c) ==
  /\ call[c].at \in {"ok", "401", "500"}
  /\ due' = [due EXCEPT ![c] = IF Forgets(call[c].at) THEN @ \ call[c].body ELSE @]
  /\ call' = [call EXCEPT ![c] = NoCall]
  /\ UNCHANGED <<keyVars, tableVars, hitches>>

(* All transcripts are read anew (cleanup --with-checkpoint), or another   *)
(* copy of them appears.                                                   *)
Rescan(c) ==
  /\ due[c] = {}
  /\ due' = [due EXCEPT ![c] = Datum]
  /\ UNCHANGED <<keyVars, call, tableVars, hitches>>

Handled(c) ==
  \/ \E B \in Batches : Post(c, B)
  \/ Resolve(c) \/ InsertUsage(c) \/ InsertEdits(c) \/ Receive(c)

AccessNext ==
  \/ \E u \in Person : CreateUser(u)
  \/ \E k \in APIKey : CreateAPIKey(k)
  \/ \E x \in Prefix : RevokeAPIKey(x)
  \/ \E c \in Client :
       \/ Handled(c) \/ Rescan(c)
       \/ ResolveFails(c) \/ InsertFails(c, UsageKey) \/ InsertFails(c, EditKey)
       \/ \E k \in APIKey : Install(c, k)

AccessSpec == AccessInit /\ [][AccessNext]_accessVars

(* Handlers end, and watchers send what they have again at the next pass.  *)
AccessFairness == \A c \in Client : WF_accessVars(Handled(c))

-----------------------------------------------------------------------------
AccessTypeOK ==
  /\ people \subseteq Person
  /\ keyUser \in [APIKey -> people \cup {Nobody}]
  /\ revoked \subseteq {k \in APIKey : keyUser[k] # Nobody}
  /\ conf \in [Client -> APIKey]
  /\ due \in [Client -> SUBSET Datum]
  /\ call \in [Client ->
       [at : {"idle", "auth", "usage", "edits", "ok", "401", "500"},
        key : APIKey \cup {Nobody}, who : people \cup {Nobody},
        body : Batches \cup {{}}, barred : BOOLEAN]]
  /\ owner \in [Datum -> Owner]
  /\ daily \in [Person -> [Datum -> Nat]]
  /\ hitches \in 0..MaxHitches

(* The daily rows of a user hold each record that is stored under that     *)
(* user once and no other, whichever of several users' requests brings the *)
(* same record first, fails halfway and comes again (store.go:134-139).    *)
CountedForOwner ==
  \A u \in Person, r \in Datum : daily[u][r] = IF owner[r] = u THEN 1 ELSE 0

(* What is answered with a 2xx is stored, both halves of it, under whatever*)
(* user, also when a half of it was stored by an earlier attempt that      *)
(* failed; and it is never answered to a request that was made after       *)
(* key-revoke had returned, although those that were let in before go on   *)
(* (api.go:51-92).                                                         *)
AnswersTrue ==
  \A c \in Client :
    call[c].at = "ok" => ~call[c].barred /\ \A r \in call[c].body : owner[r] # Nobody

(* A watcher that has an active key in the end gets rid of everything, and *)
(* it is stored: while its key is missing, revoked or replaced by that of  *)
(* another user, nothing is dropped (cleanup.go:28-31, uploader.go:219).   *)
RotationLosesNothing ==
  \A c \in Client :
    <>[]Active(conf[c]) =>
      []<>(due[c] = {} /\ \A r \in Datum : owner[r] # Nobody)
=============================================================================
