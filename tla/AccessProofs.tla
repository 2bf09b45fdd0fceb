---------------------------- MODULE AccessProofs ----------------------------
(***************************************************************************)
(* Proofs about Access, for every number of users, keys, watchers and      *)
(* records, and every number of failures and revocations.                  *)
(*                                                                         *)
(* Neither CountedForOwner nor AnswersTrue is inductive: the daily rows    *)
(* that a statement adds to must be those of a user, and an answer is true *)
(* because of what the handler knew on the way to it (Sound).              *)
(***************************************************************************)
EXTENDS Access, TLAPS

Stored(R) == \A r \in R : owner[r] # Nobody

(* What holds of the request of a watcher at each place of the handler.    *)
Sound(c) ==
  /\ call[c].at \in {"usage", "edits"} => call[c].who \in Person
  /\ call[c].at = "auth" => call[c].key \in APIKey
  /\ call[c].at = "auth" /\ call[c].barred => call[c].key \in revoked
  /\ call[c].at \in {"usage", "edits", "ok"} => ~call[c].barred
  /\ call[c].at = "edits" => Stored(call[c].body \cap UsageKey)
  /\ call[c].at = "ok" => Stored(call[c].body)

IInv ==
  /\ AccessTypeOK
  /\ CountedForOwner
  /\ \A c \in Client : Sound(c)

-----------------------------------------------------------------------------
(* A request brings records and nothing else.                              *)
LEMMA BatchesAreRecords ==
  ASSUME NEW B \in Batches \cup {{}}
  PROVE  B \subseteq Datum
  BY AccessAssumption DEF Datum

(* Between two steps of the handlers tables grow at most: what was sound   *)
(* of a request that did not move is sound still.                          *)
LEMMA StaysSound ==
  ASSUME NEW c \in Client, Sound(c), call'[c] = call[c],
         revoked \subseteq revoked',
         \A r \in Datum : owner[r] # Nobody => owner'[r] # Nobody,
         AccessTypeOK
  PROVE  Sound(c)'
<1>1. call[c].body \subseteq Datum
  BY BatchesAreRecords DEF AccessTypeOK
<1>. QED BY <1>1 DEF Sound, Stored, Datum

(* A statement counts each row it inserts, for the user of the request.    *)
LEMMA CommitCounts ==
  ASSUME IInv, NEW c \in Client, NEW R,
         call[c].at \in {"usage", "edits"}, Commit(c, R)
  PROVE  /\ owner' \in [Datum -> Owner]
         /\ daily' \in [Person -> [Datum -> Nat]]
         /\ CountedForOwner'
         /\ \A r \in Datum : owner[r] # Nobody => owner'[r] # Nobody
         /\ \A r \in call[c].body \cap R : owner'[r] # Nobody
<1> DEFINE p   == call[c].who
           new == Inserted(c, R)
<1>1. /\ owner \in [Datum -> Owner] /\ daily \in [Person -> [Datum -> Nat]]
      /\ p \in Person /\ Nobody \notin Person
  BY AccessAssumption DEF IInv, AccessTypeOK, Sound
<1>2. call[c].body \subseteq Datum
  BY BatchesAreRecords DEF IInv, AccessTypeOK
<1>3. \A r \in new : r \in Datum /\ owner[r] = Nobody
  BY <1>2 DEF Inserted
<1>4. owner' = [r \in Datum |-> IF r \in new THEN p ELSE owner[r]]
  BY DEF Commit
<1>5. daily' = [daily EXCEPT ![p] =
                  [r \in Datum |-> daily[p][r] + IF r \in new THEN 1 ELSE 0]]
  BY DEF Commit
<1>6. owner' \in [Datum -> Owner]
  BY <1>1, <1>4 DEF Owner
<1>7. daily' \in [Person -> [Datum -> Nat]]
  <2>1. [r \in Datum |-> daily[p][r] + IF r \in new THEN 1 ELSE 0] \in [Datum -> Nat]
    BY <1>1
  <2>. QED BY <1>1, <1>5, <2>1
<1>8. ASSUME NEW u \in Person, NEW r \in Datum
      PROVE  daily'[u][r] = IF owner'[r] = u THEN 1 ELSE 0
  <2>1. daily[u][r] = IF owner[r] = u THEN 1 ELSE 0
    BY DEF IInv, CountedForOwner
  <2>2. CASE u = p
    <3>1. daily'[u][r] = daily[u][r] + IF r \in new THEN 1 ELSE 0
      BY <1>1, <1>5, <2>2
    <3>. QED BY <1>1, <1>3, <1>4, <2>1, <2>2, <3>1
  <2>3. CASE u # p
    <3>1. daily'[u][r] = daily[u][r]
      BY <1>1, <1>5, <2>3
    <3>. QED BY <1>1, <1>3, <1>4, <2>1, <2>3, <3>1
  <2>. QED BY <2>2, <2>3
<1>9. \A r \in Datum : owner[r] # Nobody => owner'[r] # Nobody
  BY <1>1, <1>4
<1>10. \A r \in call[c].body \cap R : owner'[r] # Nobody
  BY <1>1, <1>2, <1>4 DEF Inserted
<1>. QED
  BY <1>6, <1>7, <1>8, <1>9, <1>10 DEF CountedForOwner

(* A new installation satisfies the invariant.                             *)
LEMMA InitInvariant == AccessInit => IInv
<1>. SUFFICES ASSUME AccessInit PROVE IInv
  OBVIOUS
<1>1. AccessTypeOK
  BY AccessAssumption DEF AccessInit, AccessTypeOK, NoCall, Owner
<1>2. CountedForOwner
  BY AccessAssumption DEF AccessInit, CountedForOwner
<1>3. \A c \in Client : Sound(c)
  BY DEF AccessInit, Sound, NoCall
<1>. QED BY <1>1, <1>2, <1>3 DEF IInv

-----------------------------------------------------------------------------
(* A step that leaves the tables alone and moves one request at most, to a *)
(* sound place.                                                            *)
LEMMA QuietStep ==
  ASSUME IInv, AccessTypeOK', UNCHANGED tableVars,
         revoked \subseteq revoked',
         NEW d \in Client, Sound(d)',
         \A c \in Client \ {d} : call'[c] = call[c]
  PROVE  IInv'
<1>1. CountedForOwner'
  BY DEF IInv, CountedForOwner, tableVars
<1>2. ASSUME NEW c \in Client PROVE Sound(c)'
  <2>1. CASE c = d
    BY <2>1
  <2>2. CASE c # d
    BY <2>2, StaysSound DEF IInv, tableVars
  <2>. QED BY <2>1, <2>2
<1>. QED BY <1>1, <1>2 DEF IInv

(* A step of the operator or of a spool, beside the requests.              *)
LEMMA BesideRequests ==
  ASSUME IInv, AccessTypeOK', UNCHANGED <<tableVars, call>>,
         revoked \subseteq revoked'
  PROVE  IInv'
<1>1. CountedForOwner'
  BY DEF IInv, CountedForOwner, tableVars
<1>2. \A c \in Client : Sound(c)'
  BY StaysSound DEF IInv, tableVars
<1>. QED BY <1>1, <1>2 DEF IInv

(* A statement commits and its request moves to a sound place.             *)
LEMMA CommitStep ==
  ASSUME IInv, AccessTypeOK', NEW d \in Client, NEW R,
         call[d].at \in {"usage", "edits"}, Commit(d, R),
         UNCHANGED keyVars, Sound(d)',
         \A c \in Client \ {d} : call'[c] = call[c]
  PROVE  IInv'
<1>1. CountedForOwner'
  BY CommitCounts
<1>2. ASSUME NEW c \in Client PROVE Sound(c)'
  <2>1. CASE c = d
    BY <2>1
  <2>2. CASE c # d
    <3>1. \A r \in Datum : owner[r] # Nobody => owner'[r] # Nobody
      BY CommitCounts
    <3>. QED BY <2>2, <3>1, StaysSound DEF IInv, keyVars
  <2>. QED BY <2>1, <2>2
<1>. QED BY <1>1, <1>2 DEF IInv

Place == {"idle", "auth", "usage", "edits", "ok", "401", "500"}

Request ==
  [at : Place, key : APIKey \cup {Nobody}, who : people \cup {Nobody},
   body : Batches \cup {{}}, barred : BOOLEAN]

(* Moving a request keeps it well-typed, and the others where they are.    *)
LEMMA MovesTo ==
  ASSUME AccessTypeOK, NEW d \in Client, NEW a \in Place, Moves(d, a)
  PROVE  /\ \A c \in Client \ {d} : call'[c] = call[c]
         /\ call'[d].at = a
         /\ call'[d].key = call[d].key /\ call'[d].who = call[d].who
         /\ call'[d].body = call[d].body /\ call'[d].barred = call[d].barred
         /\ call' \in [Client -> Request]
<1>1. call \in [Client -> Request]
  BY DEF AccessTypeOK, Request, Place
<1>2. call[d] \in Request
  BY <1>1
<1> DEFINE q == [call[d] EXCEPT !.at = a]
<1>3. call' = [call EXCEPT ![d] = q]
  BY DEF Moves
<1>4. /\ q \in Request
      /\ q.at = a /\ q.key = call[d].key /\ q.who = call[d].who
      /\ q.body = call[d].body /\ q.barred = call[d].barred
  BY <1>2 DEF Request
<1>. HIDE DEF q
<1>. QED BY <1>1, <1>3, <1>4

(* Failures stay within their bound.                                       *)
LEMMA HitchBound ==
  ASSUME AccessTypeOK, Hitch
  PROVE  hitches' \in 0..MaxHitches
  BY AccessAssumption DEF AccessTypeOK, Hitch

-----------------------------------------------------------------------------
(* The steps of the operator and of the spools.                            *)
LEMMA OperatorSteps ==
  ASSUME IInv,
         \/ \E u \in Person : CreateUser(u)
         \/ \E k \in APIKey : CreateAPIKey(k)
         \/ \E x \in Prefix : RevokeAPIKey(x)
         \/ \E c \in Client : Rescan(c) \/ \E k \in APIKey : Install(c, k)
  PROVE  IInv'
<1>. USE DEF IInv
<1>1. ASSUME NEW u \in Person, CreateUser(u) PROVE IInv'
  <2>1. AccessTypeOK'
    BY <1>1 DEF CreateUser, AccessTypeOK, tableVars
  <2>. QED BY <1>1, <2>1, BesideRequests DEF CreateUser
<1>2. ASSUME NEW k \in APIKey, CreateAPIKey(k) PROVE IInv'
  <2>1. AccessTypeOK'
    BY <1>2, AccessAssumption DEF CreateAPIKey, AccessTypeOK, tableVars
  <2>. QED BY <1>2, <2>1, BesideRequests DEF CreateAPIKey
<1>3. ASSUME NEW x \in Prefix, RevokeAPIKey(x) PROVE IInv'
  <2>1. hitches' \in 0..MaxHitches
    BY <1>3, HitchBound DEF RevokeAPIKey
  <2>2. AccessTypeOK'
    BY <1>3, <2>1 DEF RevokeAPIKey, Matching, AccessTypeOK, tableVars
  <2>. QED BY <1>3, <2>2, BesideRequests DEF RevokeAPIKey
<1>4. ASSUME NEW c \in Client, Rescan(c) PROVE IInv'
  <2>1. AccessTypeOK'
    BY <1>4 DEF Rescan, AccessTypeOK, keyVars, tableVars
  <2>. QED BY <1>4, <2>1, BesideRequests DEF Rescan, keyVars
<1>5. ASSUME NEW c \in Client, NEW k \in APIKey, Install(c, k) PROVE IInv'
  <2>1. hitches' \in 0..MaxHitches
    BY <1>5, HitchBound DEF Install
  <2>2. AccessTypeOK'
    BY <1>5, <2>1 DEF Install, AccessTypeOK, tableVars
  <2>. QED BY <1>5, <2>2, BesideRequests DEF Install
<1>. QED BY <1>1, <1>2, <1>3, <1>4, <1>5

(* The steps of a request that store nothing.                              *)
LEMMA QuietSteps ==
  ASSUME IInv, NEW c \in Client,
         \/ \E B \in Batches : Post(c, B)
         \/ Resolve(c) \/ ResolveFails(c) \/ Receive(c)
  PROVE  IInv'
<1>. USE DEF IInv
<1>1. call \in [Client -> Request] /\ call[c] \in Request
  BY DEF AccessTypeOK, Request, Place
<1>2. ASSUME NEW B \in Batches, Post(c, B) PROVE IInv'
  <2> DEFINE q == [at |-> "auth", key |-> conf[c], who |-> Nobody, body |-> B,
                   barred |-> conf[c] \in revoked]
  <2>1. q \in Request /\ conf[c] \in APIKey
    BY DEF AccessTypeOK, Request, Place
  <2>2. call' = [call EXCEPT ![c] = q]
    BY <1>2 DEF Post
  <2>3. call' \in [Client -> Request] /\ call'[c] = q
    BY <1>1, <2>1, <2>2
  <2>4. AccessTypeOK'
    BY <1>2, <2>3 DEF Post, keyVars, tableVars, AccessTypeOK, Request, Place
  <2>5. Sound(c)'
    BY <1>2, <2>1, <2>3 DEF Sound, Post, keyVars
  <2>6. \A d \in Client \ {c} : call'[d] = call[d]
    BY <1>1, <2>2
  <2>. QED BY <1>2, <2>4, <2>5, <2>6, QuietStep DEF Post, keyVars
<1>3. ASSUME Resolve(c), Active(call[c].key) PROVE IInv'
  <2> DEFINE q == [call[c] EXCEPT !.at = "usage", !.key = Nobody,
                                  !.who = keyUser[call[c].key]]
  <2>1. keyUser[call[c].key] \in people \cap Person
    BY <1>3, AccessAssumption DEF Resolve, Active, Sound, AccessTypeOK
  <2>2. call' = [call EXCEPT ![c] = q]
    BY <1>3 DEF Resolve
  <2>3. /\ q \in Request
        /\ q.at = "usage" /\ q.who \in Person /\ q.barred = call[c].barred
    BY <1>1, <2>1 DEF Request, Place
  <2>4. ~call[c].barred
    BY <1>3 DEF Resolve, Active, Sound
  <2>. HIDE DEF q
  <2>5. call' \in [Client -> Request] /\ call'[c] = q
    BY <1>1, <2>2, <2>3
  <2>6. AccessTypeOK'
    BY <1>3, <2>5 DEF Resolve, keyVars, tableVars, AccessTypeOK, Request, Place
  <2>7. Sound(c)'
    BY <2>3, <2>4, <2>5 DEF Sound
  <2>8. \A d \in Client \ {c} : call'[d] = call[d]
    BY <1>1, <2>2
  <2>. QED BY <1>3, <2>6, <2>7, <2>8, QuietStep DEF Resolve, keyVars
<1>4. ASSUME \/ Resolve(c) /\ ~Active(call[c].key)
             \/ ResolveFails(c)
      PROVE  IInv'
  <2>1. PICK a \in {"401", "500"} : Moves(c, a)
    BY <1>4 DEF Resolve, ResolveFails
  <2>2. /\ call' \in [Client -> Request] /\ call'[c].at = a
        /\ \A d \in Client \ {c} : call'[d] = call[d]
    BY <2>1, MovesTo DEF Place
  <2>3. UNCHANGED <<keyVars, due, tableVars>>
    BY <1>4 DEF Resolve, ResolveFails
  <2>4. hitches' \in 0..MaxHitches
    BY <1>4, HitchBound DEF Resolve, ResolveFails, AccessTypeOK
  <2>5. AccessTypeOK'
    BY <2>2, <2>3, <2>4 DEF keyVars, tableVars, AccessTypeOK, Request, Place
  <2>6. Sound(c)'
    BY <2>2 DEF Sound
  <2>. QED BY <2>2, <2>3, <2>5, <2>6, QuietStep DEF keyVars
<1>5. ASSUME Receive(c) PROVE IInv'
  <2>1. call' = [call EXCEPT ![c] = NoCall] /\ NoCall \in Request
    BY <1>5 DEF Receive, NoCall, Request, Place
  <2>2. /\ call' \in [Client -> Request] /\ call'[c] = NoCall
        /\ \A d \in Client \ {c} : call'[d] = call[d]
    BY <1>1, <2>1
  <2>3. due' \in [Client -> SUBSET Datum]
    BY <1>5 DEF Receive, AccessTypeOK
  <2>4. AccessTypeOK'
    BY <1>5, <2>2, <2>3
    DEF Receive, keyVars, tableVars, AccessTypeOK, Request, Place
  <2>5. Sound(c)'
    BY <2>2 DEF Sound, NoCall
  <2>. QED BY <1>5, <2>2, <2>4, <2>5, QuietStep DEF Receive, keyVars
<1>. QED BY <1>2, <1>3, <1>4, <1>5 DEF Resolve

(* The statement over R ends, and the handler goes to a.                   *)
LEMMA StatementStep ==
  ASSUME IInv, NEW c \in Client, NEW R, NEW a \in {"edits", "ok", "500"},
         call[c].at \in {"usage", "edits"},
         Commit(c, R), Moves(c, a),
         UNCHANGED <<keyVars, due>>, hitches' \in 0..MaxHitches,
         a = "edits" => R = UsageKey,
         a = "ok" => call[c].at = "edits" /\ R = EditKey
  PROVE  IInv'
<1>1. /\ call' \in [Client -> Request] /\ call'[c].at = a
      /\ call'[c].who = call[c].who /\ call'[c].barred = call[c].barred
      /\ call'[c].body = call[c].body
      /\ \A d \in Client \ {c} : call'[d] = call[d]
  BY MovesTo DEF IInv, Place
<1>2. /\ owner' \in [Datum -> Owner] /\ daily' \in [Person -> [Datum -> Nat]]
      /\ \A r \in Datum : owner[r] # Nobody => owner'[r] # Nobody
      /\ \A r \in call[c].body \cap R : owner'[r] # Nobody
  BY CommitCounts
<1>3. AccessTypeOK'
  BY <1>1, <1>2 DEF IInv, keyVars, AccessTypeOK, Request, Place
<1>4. call[c].body \subseteq Datum
  BY BatchesAreRecords DEF IInv, AccessTypeOK
<1>5. Sound(c)
  BY DEF IInv
<1>6. CASE a = "edits"
  <2>1. Sound(c)'
    BY <1>1, <1>2, <1>5, <1>6 DEF Sound, Stored
  <2>. QED BY <1>1, <1>3, <2>1, CommitStep
<1>7. CASE a = "ok"
  <2>1. \A r \in call[c].body : owner'[r] # Nobody
    BY <1>2, <1>4, <1>5, <1>7 DEF Sound, Stored, Datum
  <2>2. Sound(c)'
    BY <1>1, <1>5, <1>7, <2>1 DEF Sound, Stored
  <2>. QED BY <1>1, <1>3, <2>2, CommitStep
<1>8. CASE a = "500"
  <2>1. Sound(c)'
    BY <1>1, <1>8 DEF Sound
  <2>. QED BY <1>1, <1>3, <2>1, CommitStep
<1>. QED BY <1>6, <1>7, <1>8

(* A statement of the handler ends, well or badly.                         *)
LEMMA StatementSteps ==
  ASSUME IInv, NEW c \in Client,
         \/ InsertUsage(c) \/ InsertEdits(c)
         \/ InsertFails(c, UsageKey) \/ InsertFails(c, EditKey)
  PROVE  IInv'
<1>. hitches \in 0..MaxHitches
  BY DEF IInv, AccessTypeOK
<1>1. CASE InsertUsage(c)
  BY <1>1, StatementStep DEF InsertUsage
<1>2. CASE InsertEdits(c)
  BY <1>2, StatementStep DEF InsertEdits
<1>3. ASSUME NEW R \in {UsageKey, EditKey}, InsertFails(c, R)
      PROVE  IInv'
  <2>1. /\ call[c].at \in {"usage", "edits"} /\ Moves(c, "500")
        /\ UNCHANGED <<keyVars, due>>
    BY <1>3 DEF InsertFails, AfterError
  <2>2. hitches' \in 0..MaxHitches
    BY <1>3, HitchBound DEF InsertFails, IInv
  <2>3. CASE Commit(c, R)
    BY <2>1, <2>2, <2>3, StatementStep
  <2>4. CASE UNCHANGED tableVars
    <3>1. /\ call' \in [Client -> Request] /\ call'[c].at = "500"
          /\ \A d \in Client \ {c} : call'[d] = call[d]
      BY <2>1, MovesTo DEF IInv, Place
    <3>2. AccessTypeOK'
      BY <2>1, <2>2, <2>4, <3>1
      DEF IInv, keyVars, tableVars, AccessTypeOK, Request, Place
    <3>3. Sound(c)'
      BY <3>1 DEF Sound
    <3>. QED BY <2>1, <2>4, <3>1, <3>2, <3>3, QuietStep DEF keyVars
  <2>. QED BY <1>3, <2>3, <2>4 DEF InsertFails
<1>. QED BY <1>1, <1>2, <1>3

(* The invariant is one of the variables of Access alone.                  *)
LEMMA StutterKeepsInvariant ==
  ASSUME IInv, UNCHANGED accessVars
  PROVE  IInv'
<1>. USE DEF accessVars, keyVars, tableVars
<1>1. AccessTypeOK'
  BY DEF IInv, AccessTypeOK
<1>. QED BY <1>1, BesideRequests

(* Every step of operator, watcher and handler keeps the invariant.        *)
LEMMA StepInvariant == IInv /\ [AccessNext]_accessVars => IInv'
<1>. SUFFICES ASSUME IInv, AccessNext PROVE IInv'
  BY StutterKeepsInvariant
<1>1. ASSUME NEW c \in Client,
             \/ Handled(c) \/ ResolveFails(c)
             \/ InsertFails(c, UsageKey) \/ InsertFails(c, EditKey)
      PROVE  IInv'
  BY <1>1, QuietSteps, StatementSteps DEF Handled
<1>. QED BY <1>1, OperatorSteps DEF AccessNext

(* The invariant holds in every reachable state.                           *)
LEMMA InvariantHolds == AccessSpec => []IInv
  BY InitInvariant, StepInvariant, PTL DEF AccessSpec

-----------------------------------------------------------------------------
(* Every reachable state is well-typed: a key that was minted or revoked   *)
(* belongs to a user that exists, and a request works for a user that      *)
(* exists (auth.go:46-70, 106-128, 156-170).                               *)
THEOREM AccessTypeCorrect == AccessSpec => []AccessTypeOK
<1>1. IInv => AccessTypeOK
  BY DEF IInv
<1>. QED BY <1>1, InvariantHolds, PTL

(* However many watchers of however many users bring a record, in whatever *)
(* batches, and however often a statement fails or its commit is not heard *)
(* of, the record counts once, for the user whose request stored it first  *)
(* (store.go:134-139).                                                     *)
THEOREM CountedOnceForOwner == AccessSpec => []CountedForOwner
<1>1. IInv => CountedForOwner
  BY DEF IInv
<1>. QED BY <1>1, InvariantHolds, PTL

(* A 2xx is answered only to requests with everything in them stored, and  *)
(* to none that was made after its key was revoked, however keys are       *)
(* revoked and replaced meanwhile (api.go:51-92).                          *)
THEOREM AnswersAreTrue == AccessSpec => []AnswersTrue
<1>1. IInv => AnswersTrue
  BY DEF IInv, Sound, Stored, AnswersTrue
<1>. QED BY <1>1, InvariantHolds, PTL
=============================================================================
