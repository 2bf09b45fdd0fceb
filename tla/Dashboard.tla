----------------------------- MODULE Dashboard -----------------------------
(***************************************************************************)
(* The dashboard page: a user filter and a range, the cards that show what *)
(* the server answered for them, and loads that overlap. A load asks for   *)
(* /summary and, when that has been answered, for the other cards and for  *)
(* the users, without waiting; nothing is cancelled, and every answer that *)
(* arrives is shown, in whatever order they do.                            *)
(*                                                                         *)
(* An answer is told apart by the selection it was asked for; Nothing is   *)
(* what a card shows at first, and after an answer that is an HTTP error.  *)
(***************************************************************************)
EXTENDS Naturals

CONSTANTS
  User,       \* registered users
  Everybody,  \* no user filter
  RangeOption,\* what the range picker offers
  FirstRange, \* the range it begins with
  HasUsage,   \* the pairs of a user and a range with rows in usage_daily
  Cards,      \* cards by user and range with a request of their own
  MaxLoads,   \* bound on the loads that are open at once
  MaxClicks,  \* bound on what the user does
  MaxMisses,  \* bound on requests that fail
  Nothing

ASSUME DashboardAssumption ==
  /\ Everybody \notin User /\ FirstRange \in RangeOption
  /\ HasUsage \subseteq User \X RangeOption
  /\ {"rows", "activity", "users"} \cap Cards = {}
ASSUME DashboardBounds ==
  MaxLoads \in Nat \ {0} /\ MaxClicks \in Nat /\ MaxMisses \in Nat

Filter     == User \cup {Everybody}
Selection  == [user : Filter, range : RangeOption]
Request    == {"rows", "activity", "users"} \cup Cards

VARIABLES
  sel,     \* state.user and state.rangeDays
  box,     \* the value of the USER dropdown
  shown,   \* state.rows, and what each card of Cards shows
  heat,    \* state.activity: the filter it was asked for
  known,   \* state.users
  loads,   \* the loads: what each was asked for, and its open requests
  clicks,  \* how often the user has chosen something
  misses   \* how many requests have failed

pageVars == <<sel, box, shown, heat, known, loads, clicks, misses>>

Load == 1..MaxLoads
NoLoad == [sel |-> Nothing, act |-> Nothing, open |-> {}]

Miss == misses < MaxMisses /\ misses' = misses + 1

-----------------------------------------------------------------------------
(* Variants of the definitions below, each with a plausible slip.          *)
Everything == Request
OnlyIfChanged(i) ==
  IF shown["rows"] = loads[i].sel THEN {} ELSE Request \ {"rows"}
OnlyWithRows(s, K) ==
  {u \in User : s # Nothing /\ <<u, s.range>> \in HasUsage
                 /\ s.user \in {u, Everybody}}
-----------------------------------------------------------------------------
(* renderUserOptions                                                       *)

(* The users of the dropdown: those in the rows, which were asked for with *)
(* the selection s, and those of /users.                                   *)
Offered(s, K) ==
  K \cup (IF s = Nothing THEN {}
          ELSE {u \in User : <<u, s.range>> \in HasUsage
                               /\ s.user \in {u, Everybody}})

(* The options are made anew: a choice that is not among them is lost, and *)
(* the first option shows.                                                 *)
RenderUserOptions(s, K) ==
  box' = IF box \in Offered(s, K) THEN box ELSE Everybody

-----------------------------------------------------------------------------
(* load()                                                                  *)

(* The request for /summary, with the selection of this moment.            *)
BeginLoad(i) ==
  /\ loads[i].open = {}
  /\ loads' = [loads EXCEPT ![i] =
                 [sel |-> sel', act |-> Nothing, open |-> {"rows"}]]

Background == Request \ {"rows"}

Answers(i, r) ==
  /\ r \in loads[i].open
  /\ loads' = [loads EXCEPT ![i] =
                 IF loads[i].open = {r}
                   THEN NoLoad
                   ELSE [loads[i] EXCEPT !.open = @ \ {r}]]

(* What is asked for when /summary of load i has been answered.            *)
FollowUps(i) == Background

(* state.rows, render(), and the requests for everything else: as /summary *)
(* was asked for, but /activity with the filter of this moment.            *)
SummaryAnswered(i) ==
  /\ "rows" \in loads[i].open
  /\ shown' = [shown EXCEPT !["rows"] = loads[i].sel]
  /\ loads' = [loads EXCEPT ![i].act = sel.user, ![i].open = FollowUps(i)]
  /\ RenderUserOptions(loads[i].sel, known)
  /\ UNCHANGED <<sel, heat, known, clicks, misses>>

(* /summary fails: the load ends.                                          *)
SummaryFails(i) ==
  /\ Answers(i, "rows")
  /\ Miss
  /\ UNCHANGED <<sel, box, shown, heat, known, clicks>>

CardAnswered(i, c) ==
  /\ Answers(i, c)
  /\ shown' = [shown EXCEPT ![c] = loads[i].sel]
  /\ UNCHANGED <<sel, box, heat, known, clicks, misses>>

ActivityAnswered(i) ==
  /\ Answers(i, "activity")
  /\ heat' = loads[i].act
  /\ UNCHANGED <<sel, box, shown, known, clicks, misses>>

UsersAnswered(i) ==
  /\ Answers(i, "users")
  /\ known' = User
  /\ RenderUserOptions(shown["rows"], User)
  /\ UNCHANGED <<sel, shown, heat, clicks, misses>>

(* An HTTP error stands for an empty answer.                               *)
HttpError(i, r) ==
  /\ r \in Background
  /\ Answers(i, r)
  /\ Miss
  /\ shown' = IF r \in Cards THEN [shown EXCEPT ![r] = Nothing] ELSE shown
  /\ heat' = IF r = "activity" THEN Nothing ELSE heat
  /\ known' = IF r = "users" THEN {} ELSE known
  /\ IF r = "users" THEN RenderUserOptions(shown["rows"], {}) ELSE UNCHANGED box
  /\ UNCHANGED <<sel, clicks>>

(* No answer at all leaves what there is.                                  *)
NoAnswer(i, r) ==
  /\ r \in Background
  /\ Answers(i, r)
  /\ Miss
  /\ UNCHANGED <<sel, box, shown, heat, known, clicks>>

-----------------------------------------------------------------------------
(* The handlers of the dropdown and the range buttons, and the timer.      *)

Click == clicks < MaxClicks /\ clicks' = clicks + 1

PickUser(u) ==
  /\ Click
  /\ u \in Offered(shown["rows"], known) \cup {Everybody}
  /\ u # box                         \* there is no change event otherwise
  /\ box' = u
  /\ sel' = [sel EXCEPT !.user = u]
  /\ \E i \in Load : BeginLoad(i)
  /\ UNCHANGED <<shown, heat, known, misses>>

PickRange(d) ==
  /\ Click
  /\ sel' = [sel EXCEPT !.range = d]
  /\ \E i \in Load : BeginLoad(i)
  /\ UNCHANGED <<box, shown, heat, known, misses>>

(* setInterval(load, 30_000)                                               *)
Refresh ==
  /\ UNCHANGED sel
  /\ \E i \in Load : BeginLoad(i)
  /\ UNCHANGED <<box, shown, heat, known, clicks, misses>>

(* The page is opened.                                                     *)
PageInit ==
  /\ sel = [user |-> Everybody, range |-> FirstRange]
  /\ box = Everybody
  /\ shown = [c \in {"rows"} \cup Cards |-> Nothing]
  /\ heat = Nothing
  /\ known = {}
  /\ loads = [i \in Load |-> NoLoad]
  /\ clicks = 0
  /\ misses = 0

Answered(i) ==
  \/ SummaryAnswered(i)
  \/ \E c \in Cards : CardAnswered(i, c)
  \/ ActivityAnswered(i)
  \/ UsersAnswered(i)

Lost(i) == SummaryFails(i) \/ \E r \in Request : HttpError(i, r) \/ NoAnswer(i, r)

PageNext ==
  \/ \E i \in Load : Answered(i) \/ Lost(i)
  \/ \E u \in Filter : PickUser(u)
  \/ \E d \in RangeOption : PickRange(d)
  \/ Refresh

PageSpec == PageInit /\ [][PageNext]_pageVars

(* Every request is answered or fails, and the timer fires.                *)
PageFairness ==
  /\ \A i \in Load : WF_pageVars(Answered(i))
  /\ WF_pageVars(Refresh)

-----------------------------------------------------------------------------
PageTypeOK ==
  /\ sel \in Selection
  /\ box \in Filter
  /\ shown \in [{"rows"} \cup Cards -> Selection \cup {Nothing}]
  /\ heat \in Filter \cup {Nothing}
  /\ known \subseteq User
  /\ loads \in [Load -> [sel : Selection \cup {Nothing},
                      act : Filter \cup {Nothing}, open : SUBSET Request]]
  /\ \A i \in Load : "rows" \in loads[i].open => loads[i].open = {"rows"}
  /\ clicks \in 0..MaxClicks
  /\ misses \in 0..MaxMisses

(* Every card shows the selection.                                         *)
Current ==
  /\ \A c \in {"rows"} \cup Cards : shown[c] = sel
  /\ heat = sel.user
  /\ known = User

(* A late answer to an earlier load overwrites what a later one showed,    *)
(* and a failed one empties a card; both are mended by the refresh: once   *)
(* nobody chooses and nothing fails any more, the page comes to show the   *)
(* selection and stays so (README.md:148, app.js:202-253).                 *)
Settles == <>[]Current

(* As long as /users is known, no answer in any order takes the choice out *)
(* of the dropdown: it goes on naming the filter (app.js:336-350).         *)
BoxIsFilter ==
  [][(box = sel.user /\ known' = User) => box' = sel'.user]_pageVars
=============================================================================
