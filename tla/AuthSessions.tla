---------------------------- MODULE AuthSessions ----------------------------
(***************************************************************************)
(* The server side of signing in: AuthService (services/auth.py) over the  *)
(* users and refresh_tokens tables.  Every HTTP request is a READ          *)
(* COMMITTED transaction of its own session (db/session.py); its           *)
(* statements are separate steps, so the statements of concurrent requests *)
(* interleave, uncommitted rows are invisible to the others, and an UPDATE *)
(* waits for the lock of a row another open transaction has updated.       *)
(*                                                                         *)
(* get_session() commits in the exit code of a dependency with yield; the  *)
(* pinned FastAPI (constraints.txt:41) runs that code once the response is *)
(* on its way, so answering the client (Respond) comes before Commit, and  *)
(* a client may use a refresh token whose row is not yet committed.        *)
(*                                                                         *)
(* A refresh token is a member of Tokens.  Requests that the code refuses  *)
(* without touching the database (wrong password, e-mail taken, unknown or *)
(* expired token) change nothing here: they are stuttering steps.          *)
(***************************************************************************)
EXTENDS Naturals, FiniteSets

CONSTANTS Users,    \* accounts, named by their lower-cased e-mail
          Tokens,   \* refresh tokens that can ever be minted
          Reqs,     \* requests in progress at one time
          NoUser, NoToken

ASSUME NoneAssumption == NoUser \notin Users /\ NoToken \notin Tokens

VARIABLES
  account,    \* committed users rows: absent, active or inactive (is_active)
  issued,     \* tokens with a committed refresh_tokens row
  owner,      \* user_id of the row
  revoked,    \* rows with revoked_at set
  expired,    \* tokens whose expires_at has passed
  next,       \* replaced_by_id of the row
  minted,     \* every token ever drawn; secrets.token_urlsafe never repeats
  delivered,  \* tokens some client has received in an answer
  req,        \* the requests in progress
  parent,     \* history: the token presented by the refresh that made a token
  accused     \* history: tokens a finished reuse detection must have killed

vars == <<account, issued, owner, revoked, expired, next, minted, delivered,
          req, parent, accused>>
rows == <<issued, owner, revoked, next, parent>>

Steps == {"idle", "insertUser", "touch", "checkUser", "issue", "retire",
          "respond", "commit", "sweep", "sweeping"}
Ops   == {"none", "register", "login", "refresh", "logout"}

Request == [pc : Steps, op : Ops, user : Users \cup {NoUser},
            old : Tokens \cup {NoToken}, new : Tokens \cup {NoToken},
            saw : SUBSET Tokens, targets : SUBSET Tokens,
            locked : SUBSET Tokens, at : Tokens \cup {NoToken}]

Idle == [pc |-> "idle", op |-> "none", user |-> NoUser, old |-> NoToken,
         new |-> NoToken, saw |-> {}, targets |-> {}, locked |-> {}, at |-> NoToken]

Goto(r, step) == req' = [req EXCEPT ![r].pc = step]
Finish(r)     == req' = [req EXCEPT ![r] = Idle]

OwnedBy(u) == {t \in issued : owner[t] = u}

-----------------------------------------------------------------------------
(* Row locks, held from the UPDATE or INSERT to the end of the transaction.  *)
(* A sweep is one UPDATE of many rows: it locks them one by one and keeps    *)
(* those it has while it waits for the next.                                 *)

HoldsToken(q, t) ==
  \/ req[q].old = t /\ req[q].pc \in {"respond", "commit"}
  \/ req[q].pc = "sweeping" /\ t \in req[q].locked
\* Mutant: get_by_email already locks the row it reads (FOR SHARE).
HoldsUserFromRead(q, u) == /\ req[q].user = u
                           /\ req[q].op \in {"register", "login"}
                           /\ req[q].pc \in {"touch", "issue", "respond", "commit"}
HoldsUser(q, u)  == /\ req[q].user = u
                    /\ req[q].op \in {"register", "login"}
                    /\ req[q].pc \in {"issue", "respond", "commit"}

TokenFree(r, t) == \A q \in Reqs \ {r} : ~HoldsToken(q, t)
UserFree(r, u)  == \A q \in Reqs \ {r} : ~HoldsUser(q, u)

\* The next step of an open request waits for no lock (nor, a bound of the model, for
\* a token to draw).  The INSERT of a user waits for an open transaction that inserted
\* the same e-mail, the UPDATEs for the rows they change.
Ready(r) ==
  /\ req[r].pc # "idle"
  /\ req[r].pc = "insertUser" /\ account[req[r].user] = "absent"
       => UserFree(r, req[r].user)
  /\ req[r].pc = "touch" => UserFree(r, req[r].user)
  /\ req[r].pc = "issue" => minted # Tokens
  /\ req[r].pc = "retire" => TokenFree(r, req[r].old)
  /\ req[r].pc = "sweeping" => req[r].at = NoToken \/ TokenFree(r, req[r].at)

-----------------------------------------------------------------------------
Init == /\ account = [u \in Users |-> "absent"]
        /\ issued = {} /\ revoked = {} /\ expired = {}
        /\ minted = {} /\ delivered = {} /\ accused = {}
        /\ owner  = [t \in Tokens |-> NoUser]
        /\ next   = [t \in Tokens |-> NoToken]
        /\ parent = [t \in Tokens |-> NoToken]
        /\ req = [r \in Reqs |-> Idle]

\* POST /auth/register: get_by_email finds nobody.
BeginRegister(r, u) ==
  /\ req[r].pc = "idle" /\ account[u] = "absent"
  /\ req' = [req EXCEPT ![r] = [Idle EXCEPT !.pc = "insertUser",
                                            !.op = "register", !.user = u]]
  /\ UNCHANGED <<account, rows, expired, minted, delivered, accused>>

\* The flush of users.create: the unique index makes it wait for an open
\* transaction that inserted the same e-mail, and fail if that one committed.
InsertUser(r) ==
  /\ req[r].pc = "insertUser" /\ Ready(r)
  /\ IF account[req[r].user] = "absent" THEN Goto(r, "issue") ELSE Finish(r)
  /\ UNCHANGED <<account, rows, expired, minted, delivered, accused>>

\* POST /auth/login with the right password of an active account.
BeginLogin(r, u) ==
  /\ req[r].pc = "idle" /\ account[u] = "active"
  /\ req' = [req EXCEPT ![r] = [Idle EXCEPT !.pc = "touch",
                                            !.op = "login", !.user = u]]
  /\ UNCHANGED <<account, rows, expired, minted, delivered, accused>>

\* touch_last_login: an UPDATE of the users row (the time is not modelled).
TouchLastLogin(r) ==
  /\ req[r].pc = "touch" /\ Ready(r)
  /\ Goto(r, "issue")
  /\ UNCHANGED <<account, rows, expired, minted, delivered, accused>>

\* Mutant: revoked_at is not looked at.
TrustRow(t) == "checkUser"
\* Where the row returned by get_by_hash sends the request.
Verdict(t) == IF t \in revoked THEN "sweep" ELSE "checkUser"

\* POST /auth/refresh with a token some client holds: get_by_hash and the
\* tests on the row it returned.  The row is not locked.
BeginRefresh(r, t) ==
  /\ req[r].pc = "idle" /\ t \in delivered /\ t \in issued
  /\ \/ t \in revoked
     \/ t \notin expired
  /\ req' = [req EXCEPT ![r] =
       [Idle EXCEPT !.pc = Verdict(t), !.op = "refresh",
                    !.user = owner[t], !.old = t,
                    !.saw = IF Verdict(t) = "sweep" THEN OwnedBy(owner[t]) ELSE {}]]
  /\ UNCHANGED <<account, rows, expired, minted, delivered, accused>>

\* Mutant: is_active is not checked.
SkipUserCheck(r) ==
  /\ req[r].pc = "checkUser" /\ Goto(r, "issue")
  /\ UNCHANGED <<account, rows, expired, minted, delivered, accused>>

\* users.get_by_id: the account must still be active.
CheckUser(r) ==
  /\ req[r].pc = "checkUser"
  /\ IF account[req[r].user] = "active" THEN Goto(r, "issue") ELSE Finish(r)
  /\ UNCHANGED <<account, rows, expired, minted, delivered, accused>>

\* A token never drawn before; which one is immaterial.
Fresh == CHOOSE t \in Tokens : t \notin minted

\* issue_refresh_token and the INSERT of its row, not yet committed.
Issue(r) ==
  /\ req[r].pc = "issue" /\ Ready(r)
  /\ minted' = minted \cup {Fresh}
  /\ req' = [req EXCEPT ![r].new = Fresh,
               ![r].pc = IF req[r].op = "refresh" THEN "retire" ELSE "respond"]
  /\ UNCHANGED <<account, rows, expired, delivered, accused>>

\* refresh_tokens.revoke: UPDATE ... WHERE id = old, whatever the row holds by
\* now; only a lock makes it wait.
Retire(r) ==
  /\ req[r].pc = "retire" /\ Ready(r)
  /\ Goto(r, IF req[r].op = "refresh" THEN "respond" ELSE "commit")
  /\ UNCHANGED <<account, rows, expired, minted, delivered, accused>>

\* POST /auth/logout; an unknown or revoked token is not an error.
BeginLogout(r, t) ==
  /\ req[r].pc = "idle" /\ t \in delivered /\ t \in issued \ revoked
  /\ req' = [req EXCEPT ![r] = [Idle EXCEPT !.pc = "retire", !.op = "logout",
                                            !.user = owner[t], !.old = t]]
  /\ UNCHANGED <<account, rows, expired, minted, delivered, accused>>

\* The answer carries the new refresh token to the client.
Respond(r) ==
  /\ req[r].pc = "respond"
  /\ delivered' = delivered \cup {req[r].new}
  /\ Goto(r, "commit")
  /\ UNCHANGED <<account, rows, expired, minted, accused>>

\* What a commit publishes: the inserted token and the token it retires.
Kept(q) == IF q.new = NoToken THEN {} ELSE {q.new}
\* Mutant: revoke is called without a token to revoke.
DeadAlways(q) == {q.old}
\* Mutant: the revocation of the presented token is forgotten in a rotation.
DeadOnLogout(q) == IF q.op = "logout" THEN {q.old} ELSE {}
Dead(q) == IF q.old = NoToken THEN {} ELSE {q.old}

\* session.commit() in get_session: the row of new, the revocation of old and
\* the link between them become visible together.
Commit(r) ==
  LET q == req[r] IN
     /\ q.pc = "commit"
     /\ account' = IF q.op = "register"
                   THEN [account EXCEPT ![q.user] = "active"] ELSE account
     /\ issued'  = issued \cup Kept(q)
     /\ revoked' = revoked \cup Dead(q)
     /\ owner'  = [t \in Tokens |-> IF t \in Kept(q) THEN q.user ELSE owner[t]]
     /\ next'   = [t \in Tokens |-> IF t \in Dead(q) /\ q.new # NoToken
                                    THEN q.new ELSE next[t]]
     /\ parent' = [t \in Tokens |-> IF t \in Kept(q) THEN q.old ELSE parent[t]]
     /\ Finish(r)
     /\ UNCHANGED <<expired, minted, delivered, accused>>

\* The row a sweep comes to next, if one is left: SQL promises no order.
NextRow(left) == IF left = {} THEN {NoToken} ELSE left

\* revoke_all_for_user: the UPDATE picks its rows from a snapshot, ...
SweepStart(r) ==
  LET picked == OwnedBy(req[r].user) \ revoked IN
  /\ req[r].pc = "sweep"
  /\ \E t \in NextRow(picked) :
       req' = [req EXCEPT ![r].pc = "sweeping", ![r].targets = picked, ![r].at = t]
  /\ UNCHANGED <<account, rows, expired, minted, delivered, accused>>

\* ... waits for the one it has come to, and keeps its lock even if it was revoked
\* meanwhile.
SweepRow(r) ==
  LET locked == req[r].locked \cup {req[r].at} IN
  /\ req[r].pc = "sweeping" /\ req[r].at # NoToken /\ Ready(r)
  /\ \E t \in NextRow(req[r].targets \ locked) :
       req' = [req EXCEPT ![r].locked = locked, ![r].at = t]
  /\ UNCHANGED <<account, rows, expired, minted, delivered, accused>>

\* Mutant: the 401 rolls the revocation back, as if auth.py:136 were missing.
SweepRolledBack(r) ==
  /\ req[r].pc = "sweeping" /\ req[r].at = NoToken
  /\ accused' = accused \cup req[r].saw
  /\ Finish(r)
  /\ UNCHANGED <<account, rows, expired, minted, delivered>>

\* The revocation is committed before the 401 is raised.
SweepEnd(r) ==
  /\ req[r].pc = "sweeping" /\ req[r].at = NoToken
  /\ revoked' = revoked \cup req[r].targets
  /\ accused' = accused \cup req[r].saw
  /\ Finish(r)
  /\ UNCHANGED <<account, issued, owner, next, parent, expired, minted, delivered>>

\* Any exception, a lost connection or a crash before the commit: rollback.  So does
\* PostgreSQL end one of several requests that wait for each other.
Abort(r) ==
  /\ req[r].pc # "idle"
  /\ Finish(r)
  /\ UNCHANGED <<account, rows, expired, minted, delivered, accused>>

\* expires_at passes.
Expire(t) ==
  /\ t \in issued \ expired
  /\ expired' = expired \cup {t}
  /\ UNCHANGED <<account, rows, minted, delivered, req, accused>>

\* is_active is cleared by an operator, outside the program; the UPDATE waits
\* for the row lock of a login in progress.
Deactivate(u) ==
  /\ account[u] = "active" /\ \A q \in Reqs : ~HoldsUser(q, u)
  /\ account' = [account EXCEPT ![u] = "inactive"]
  /\ UNCHANGED <<rows, expired, minted, delivered, req, accused>>

-----------------------------------------------------------------------------
\* What a request does once it has begun.
Progress(r) ==
  \/ InsertUser(r) \/ TouchLastLogin(r) \/ CheckUser(r)
  \/ Issue(r) \/ Retire(r) \/ Respond(r) \/ Commit(r)
  \/ SweepStart(r) \/ SweepRow(r) \/ SweepEnd(r)

\* Bound: no request begins unless Tokens still holds one for each request
\* that may yet draw one.
Drawing == {q \in Reqs : req[q].pc \in {"insertUser", "touch", "checkUser", "issue"}}
Room == Cardinality(minted) + Cardinality(Drawing) < Cardinality(Tokens)

Begin(r) ==
  \/ \E u \in Users  : Room /\ (BeginRegister(r, u) \/ BeginLogin(r, u))
  \/ \E t \in Tokens : \/ (Room \/ t \in revoked) /\ BeginRefresh(r, t)
                       \/ BeginLogout(r, t)

Next ==
  \/ \E r \in Reqs   : Begin(r) \/ Progress(r) \/ Abort(r)
  \/ \E t \in Tokens : Expire(t)
  \/ \E u \in Users  : Deactivate(u)

Spec == Init /\ [][Next]_vars

-----------------------------------------------------------------------------
TypeOK ==
  /\ account \in [Users -> {"absent", "active", "inactive"}]
  /\ issued \subseteq minted /\ revoked \subseteq issued
  /\ expired \subseteq issued /\ delivered \subseteq minted
  /\ accused \subseteq issued /\ minted \subseteq Tokens
  /\ owner \in [Tokens -> Users \cup {NoUser}]
  /\ next \in [Tokens -> Tokens \cup {NoToken}]
  /\ parent \in [Tokens -> Tokens \cup {NoToken}]
  /\ req \in [Reqs -> Request]

\* Rotation is all or nothing, whatever was interleaved, aborted or retried
\* (auth.py:145-155): a token that replaces another exists only with the other
\* one revoked, both belong to one account, and replaced_by_id always names a
\* stored token that was minted in exchange for the row that names it.
ChainSound ==
  \A t \in issued :
    /\ parent[t] # NoToken =>
         parent[t] \in revoked /\ owner[parent[t]] = owner[t]
    /\ next[t] # NoToken =>
         t \in revoked /\ next[t] \in issued /\ parent[next[t]] = t

\* Reuse detection lasts (auth.py:130-137): once a request was told "token
\* already used", every refresh token its account had when it presented the
\* used one stays revoked, although the request itself ended in an exception
\* and others were rotating those tokens meanwhile.
ReuseKillsAll == accused \subseteq revoked

\* A request past the account check of auth.py:104 or :142.
Admitted(r, u) == /\ req[r].user = u /\ req[r].op # "logout"
                  /\ req[r].pc \in {"touch", "insertUser", "issue", "retire",
                                    "respond", "commit"}

\* A deactivated account runs dry (auth.py:104-109, 142-143): no request is
\* admitted any more, and once those admitted earlier have ended the account
\* gets no further refresh token.
DeactivationCloses ==
  [][\A u \in Users : account[u] = "inactive" =>
       /\ \A r \in Reqs : Admitted(r, u)' => Admitted(r, u)
       /\ (\A r \in Reqs : ~Admitted(r, u)) => OwnedBy(u)' = OwnedBy(u)]_vars

\* The row of refresh_tokens that the next statement of a request changes.
Wanted(r) == IF req[r].pc = "sweeping" THEN req[r].at ELSE req[r].old

\* Only sweeps can lock each other out (refresh_tokens.py:54, :64, users.py:45): when
\* no open request can go on, each of them waits for a row that a sweep of its own
\* account has locked.  Sign-ins, rotations and logouts alone never wait in a circle,
\* no account's requests are stuck on another's, and nobody is stuck on a users row.
StallsAreSweeps ==
  (\A r \in Reqs : ~Ready(r)) =>
    \A r \in Reqs : req[r].pc # "idle" =>
      \E q \in Reqs \ {r} : /\ req[q].pc = "sweeping" /\ req[q].user = req[r].user
                           /\ Wanted(r) \in req[q].locked

-----------------------------------------------------------------------------
\* The tokens a refresh would exchange, and what a request in progress may obtain one
\* for: it has passed for a sign-in, or the token it presented for one of them.
Live == issued \ (revoked \cup expired)
Entitled(r) == req[r].op # "logout" /\ req[r].pc \notin {"idle", "sweep", "sweeping"}
Claimed(r) == IF Entitled(r) THEN [user |-> req[r].user, old |-> req[r].old]
                             ELSE [user |-> NoUser, old |-> NoToken]

\* The tables and transactions implement the promise of Sessions (auth.py:94-171):
\* a token buys another only in a request that presented it while it was honoured,
\* each request obtains one and no token is honoured twice, so that a token has two
\* successors only if refreshes overlapped.
Promise == INSTANCE Sessions WITH
  live   <- Live,
  dead   <- issued \ Live,
  holder <- owner,
  claim  <- [r \in Reqs |-> Claimed(r)]
SessionsImplemented == Promise!Spec
=============================================================================
