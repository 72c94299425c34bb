------------------------------ MODULE Profiles ------------------------------
(***************************************************************************)
(* The eligibility profile of one account (routers/profile.py,             *)
(* services/user_profile.py) and the recommendations made from it          *)
(* (routers/recommendations.py).  Requests of the account's devices are    *)
(* transactions that overlap:                                              *)
(*                                                                         *)
(*   Begin   get_or_create's SELECT; what it finds is what the request     *)
(*           works on                                                      *)
(*   Insert  the flush of a row that was not there: the unique index makes *)
(*           it wait for another insert, and fail if that one committed    *)
(*   Serve   the handler; its answer is sent                               *)
(*   Commit  get_session(): an UPDATE of the columns whose value changed,  *)
(*           under the CHECK constraints of the table                      *)
(*                                                                         *)
(* Every request is scoped to the id in its access token, so accounts do   *)
(* not meet.                                                               *)
(***************************************************************************)
EXTENDS Extraction

CONSTANTS
  Reqs,       \* requests in progress at one time
  Storable,   \* what the CHECK constraints and widths of each column admit
  Updates,    \* bodies of PUT requests: an answer, Unanswered (null) or
              \* Untouched (no such key) for each attribute
  Submitted,  \* profiles sent to the public endpoint, of any type
  Vision,     \* what the vision model may answer: values of any type
  Found,      \* the schemes a search returned, most relevant first
  NoRow

ASSUME RequestsAssumption ==
  /\ Storable \in [Attributes -> SUBSET Values]
  /\ Updates \cup Vision \cup Readings \subseteq [Attributes -> Answers \cup {Untouched}]
  /\ Submitted \subseteq Profiles
  /\ Found \in Seq(Schemes) /\ Untouched \notin Answers /\ NoRow \notin Profiles

\* Search finds a scheme once: the fusion of its rankings is a dictionary by
\* scheme (services/search.py:86-91).
ASSUME FoundAssumption ==
  \A i, j \in 1..Len(Found) : Found[i] = Found[j] => i = j

\* ATTRIBUTE_TYPES, and what the columns admit of numbers, flags and codes.
ASSUME TableAssumption ==
  /\ \A k \in Attributes :
       /\ k \in {"age", "annual_income"} => Kind[k] = "numeric"
       /\ k = "state_code" => Kind[k] = "text"
       /\ k \notin {"age", "annual_income", "state_code"} => Kind[k] = "boolean"
       /\ Kind[k] = "boolean" => Storable[k] = Truths
  /\ "age" \in Attributes => Numbers \cap 0..120 \subseteq Storable["age"]
  /\ "annual_income" \in Attributes => Numbers \cap Incomes \subseteq Storable["annual_income"]
  /\ "state_code" \in Attributes => Codes \subseteq Storable["state_code"]
  /\ (0..120 \cup Incomes) \cap (Truths \cup Texts \cup {Unanswered, Untouched}) = {}

VARIABLES
  row,   \* the committed user_profiles row, or NoRow
  req    \* the requests in progress

vars == <<row, req>>

Blank == [k \in Attributes |-> Unanswered]
Asked == [k \in Attributes |-> Untouched]    \* the body of a request without one

\* base: the profile the request read; made: it has inserted the row.
Request == [pc : {"idle", "insert", "serve", "commit"},
            kind : {"none", "get", "put", "mine", "public", "reading", "vision"},
            updates : [Attributes -> Answers \cup {Untouched}],
            base : Profiles, made : BOOLEAN]

Idle == [pc |-> "idle", kind |-> "none", updates |-> Asked, base |-> Blank,
         made |-> FALSE]

End(r) == req' = [req EXCEPT ![r] = Idle]

-----------------------------------------------------------------------------
Init == row = NoRow /\ req = [r \in Reqs |-> Idle]

\* The profile is read before anything else.
Begin(r, kind, updates) ==
  /\ req[r].pc = "idle"
  /\ req' = [req EXCEPT ![r] =
       [pc |-> IF row = NoRow THEN "insert" ELSE "serve", kind |-> kind,
        updates |-> updates, base |-> IF row = NoRow THEN Blank ELSE row,
        made |-> FALSE]]
  /\ UNCHANGED row

\* GET and PUT /me/profile, POST /recommendations/me.
BeginGet(r)    == Begin(r, "get", Asked)
BeginMine(r)   == Begin(r, "mine", Asked)
BeginUpdate(r) == \E u \in Updates : Begin(r, "put", u)

\* POST /profile-automation/* of a signed-in user who asked to save, once the
\* answers are there: read or fetched, or given by the vision model.
BeginReading(r) == \E u \in Readings : Begin(r, "reading", u)
BeginVision(r)  == \E u \in Vision : Begin(r, "vision", u)

\* POST /recommendations: the profile is in the request, the database only read.
BeginPublic(r, p) ==
  /\ req[r].pc = "idle"
  /\ req' = [req EXCEPT ![r] =
       [Idle EXCEPT !.pc = "serve", !.kind = "public", !.base = p]]
  /\ UNCHANGED row

Insert(r) ==
  /\ req[r].pc = "insert" /\ \A q \in Reqs : ~req[q].made
  /\ IF row = NoRow
     THEN req' = [req EXCEPT ![r].pc = "serve", ![r].made = TRUE]
     ELSE End(r)
  /\ UNCHANGED row

Named(q) == {k \in Attributes : q.updates[k] # Untouched}

\* Mutant: a number is accepted for any attribute but a boolean one.
FitsLoosely(k, v) == Kind[k] = "boolean" => v \in Truths \cup {Unanswered}
\* The type tests of apply_partial_update; null clears an answer.
Fits(k, v) == v \in Typed(k) \cup {Unanswered}

\* The handler: a PUT with a value that does not fit is a 422, which rolls back;
\* the public endpoint has nothing to commit.
Serve(r) ==
  /\ req[r].pc = "serve"
  /\ IF \A k \in Named(req[r]) : Fits(k, req[r].updates[k])
     THEN IF req[r].kind # "public" THEN req' = [req EXCEPT ![r].pc = "commit"] ELSE End(r)
     ELSE req[r].kind \notin {"reading", "vision"} /\ End(r)
  /\ UNCHANGED row

\* profile_automation.py answers with saved_to_profile = False when a value does
\* not fit and goes on: what came before that value in the model's answer is
\* committed.
ServeSwallowing(r) ==
  LET q == req[r]  fitting == {k \in Named(q) : Fits(k, q.updates[k])} IN
  /\ q.pc = "serve" /\ q.kind \in {"reading", "vision"} /\ fitting # Named(q)
  /\ \E before \in SUBSET fitting :
       req' = [req EXCEPT ![r].pc = "commit", ![r].updates =
                 [k \in Attributes |-> IF k \in before THEN q.updates[k] ELSE Untouched]]
  /\ UNCHANGED row

\* Mutant: a key that is not in the body is cleared.
AppliedWhole(q) ==
  [k \in Attributes |-> IF k \in Named(q) THEN q.updates[k]
                        ELSE IF q.kind = "put" THEN Unanswered ELSE q.base[k]]
\* The object the handler leaves behind, and the columns an UPDATE sets.
Applied(q) == [k \in Attributes |-> IF k \in Named(q) THEN q.updates[k] ELSE q.base[k]]
Dirty(q)   == {k \in Attributes : Applied(q)[k] # q.base[k]}

Commit(r) ==
  LET q == req[r]
      before == IF q.made THEN Blank ELSE row
      stored == [k \in Attributes |-> IF k \in Dirty(q) THEN Applied(q)[k]
                                                       ELSE before[k]]
  IN /\ q.pc = "commit"
     /\ row' = IF \A k \in Dirty(q) : stored[k] \in Storable[k] \cup {Unanswered}
               THEN stored ELSE row
     /\ End(r)

\* An exception, a lost connection or a crash before the commit: rollback.
Abort(r) == req[r].pc # "idle" /\ End(r) /\ UNCHANGED row

-----------------------------------------------------------------------------
Next == \E r \in Reqs :
  \/ BeginGet(r) \/ BeginMine(r) \/ BeginUpdate(r) \/ BeginReading(r) \/ BeginVision(r)
  \/ \E p \in Submitted : BeginPublic(r, p)
  \/ Insert(r) \/ Serve(r) \/ ServeSwallowing(r) \/ Commit(r) \/ Abort(r)

Spec == Init /\ [][Next]_vars

-----------------------------------------------------------------------------
\* The recommendations being made, and those made from the stored profile.
Recommending == {r \in Reqs : req[r].kind \in {"mine", "public"}}
FromStored   == {r \in Reqs : req[r].kind = "mine"}

TypeOK ==
  /\ row \in Profiles \cup {NoRow}
  /\ row # NoRow => WellTyped(row)
  /\ req \in [Reqs -> Request]
  /\ \A r \in Reqs : req[r].kind # "public" => WellTyped(req[r].base)
  /\ \A r \in Reqs : req[r].pc = "commit" =>
       \A k \in Named(req[r]) : req[r].updates[k] \in Typed(k) \cup {Unanswered}

\* The verdicts mean what they say (eligibility_matcher.py:17-36), about
\* what the source of the scheme asks for (eligibility_translator.py:3-9,
\* :133-154).  "pass" is true of everyone the answers could describe, whatever
\* types the caller of the public endpoint sent; "fail", made from a stored
\* profile, is true of nobody they could describe: what was not answered never
\* disqualifies.
VerdictSound ==
  /\ \A r \in Recommending : \A s \in Schemes : PassEarned(s, req[r].base)
  /\ \A r \in FromStored   : \A s \in Schemes : FailKnown(s, req[r].base)

\* Answering more questions never takes a verdict back: while the answers a
\* recommendation was made from are still there, whatever other devices have
\* added meanwhile, each "pass" and each "fail" in it is what the matcher says
\* now (eligibility_matcher.py:142-163).
VerdictsLast ==
  \A r \in FromStored : row # NoRow /\ Extends(row, req[r].base) =>
    \A s \in Schemes : Verdict(s, req[r].base) \in {"pass", "fail"} =>
      Verdict(s, row) = Verdict(s, req[r].base)

\* The attributes listed as missing are all that is missing
\* (eligibility_matcher.py:337-347): once they are answered the verdict of the
\* scheme is no longer "unknown", whoever answered them.
MissingIsEnough ==
  \A r \in FromStored : row # NoRow /\ Extends(row, req[r].base) =>
    \A s \in Schemes :
      (\A k \in Missing(s, req[r].base) : row[k] # Unanswered)
        => Verdict(s, row) # "unknown"

\* Eligibility ranks and does not filter (recommendation.py:10-29): the list
\* holds what the search found, the known failures behind everything else, and
\* each part in the order of relevance.
RankedNotFiltered ==
  \A r \in Recommending :
    LET p == req[r].base
        list == Ranked(Found, p)
        At(l, s) == CHOOSE i \in 1..Len(l) : l[i] = s
    IN /\ Len(list) = Len(Found)
       /\ \A i \in 1..Len(Found) : \E j \in 1..Len(list) : list[j] = Found[i]
       /\ \A i, j \in 1..Len(list) : i < j =>
            \/ Verdict(list[i], p) # "fail" /\ Verdict(list[j], p) = "fail"
            \/ /\ Verdict(list[i], p) = "fail" <=> Verdict(list[j], p) = "fail"
               /\ At(Found, list[i]) < At(Found, list[j])

\* Devices that answer different questions at once do not undo each other
\* (user_profile.py:23-27, 88-119; repositories/user_profile.py:23-36): the
\* stored profile only ever changes in answers that the committing request
\* named, all of them together, and is never started anew.
NamedKeysOnly ==
  [][row' # row =>
       /\ row' # NoRow
       /\ \E r \in Reqs : LET q == req[r]
                              before == IF row = NoRow THEN Blank ELSE row IN
            /\ q.pc = "commit"
            /\ \A k \in Attributes \ Named(q) : row'[k] = before[k]
            /\ \A k \in Named(q) :
                 \/ row'[k] = q.updates[k]
                 \/ q.updates[k] = q.base[k] /\ row'[k] = before[k]]_vars

\* What was read from a document or fetched for an identity, whatever year or
\* number it shows, is saved whole when it is saved at all: no value is dropped
\* on the way and the table refuses none (profile_automation.py:293-310, the
\* catch at routers/profile_automation.py:84, :115).
ReadingsStored ==
  [][\A r \in Reqs : Commit(r) /\ req[r].kind = "reading" =>
       /\ req[r].updates \in Readings /\ row' # NoRow
       /\ \A k \in Dirty(req[r]) : row'[k] = req[r].updates[k]]_vars

\* "update sets attributes and they are readable afterwards"
\* (tests/test_profile_routes.py:37-54): the commit of an update that was
\* answered stores the answers it was sent.
AnsweredMeansStored ==
  [][\A r \in Reqs : Commit(r) /\ req[r].kind = "put" =>
       /\ row' # NoRow
       /\ \A k \in Dirty(req[r]) : row'[k] = req[r].updates[k]]_vars
=============================================================================
