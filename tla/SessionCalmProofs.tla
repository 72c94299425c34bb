-------------------------- MODULE SessionCalmProofs --------------------------
(***************************************************************************)
(* A session used calmly: one flow at a time (a sign-in, a refresh or a    *)
(* sign-out, each begun when the one before has ended on the device and at *)
(* the server) and no fault, for any accounts, tokens and open API calls.  *)
(*                                                                         *)
(* CalmSessionSound says what such a session is like at rest.  OneFlow     *)
(* follows the flow through every await: there is one slot in which it     *)
(* runs, and at each of its steps the tokens the server still honours are  *)
(* at most the one that the flow is about to leave on the device.          *)
(***************************************************************************)
EXTENDS SessionClientProofs

\* The tokens the server would exchange (Live) are t, or none.
Standing(t) == Live \subseteq {t} /\ (t # NoToken => t \in issued \ revoked)

\* Once the request of slot r has ended, n stands: it has ended, or what is left of
\* it publishes n and retires what stood before.
Coming(r, n) ==
  \/ req[r].pc = "idle" /\ Standing(n)
  \/ /\ req[r].pc = "commit" \/ (req[r].pc = "retire" /\ req[r].op = "logout")
     /\ req[r].new = n /\ Live \subseteq {req[r].old}

\* Nothing is under way but in slot r.
Alone(r) ==
  /\ \A q \in Reqs \ {r} : req[q].pc = "idle"
  /\ \A c \in Calls \ {r} : ~Renewing(c)
  /\ r # Auth => auth = "idle" /\ (Renewing(r) => ui # "signedOut")

\* Where the one flow is: nobody on the device waits, ...
AtRest(r) ==
  /\ DeviceQuiet /\ cache = stored /\ (ui = "signedOut" => cache = NoToken)
  /\ Coming(r, cache)
\* ... a request is out and has not been answered, was refused or was granted, ...
Unanswered(r) ==
  /\ inbox[r] = NoAnswer /\ req[r].old = cache /\ Standing(cache)
  /\ IF r = Auth
     THEN /\ req[r].op \in {"register", "login"}
          /\ req[r].pc \in {"insertUser", "touch", "issue", "respond"}
     ELSE req[r].op = "refresh" /\ req[r].pc \in {"checkUser", "issue", "retire", "respond"}
Refused(r) == inbox[r] = Refusal /\ req[r].pc = "idle" /\ Standing(NoToken)
Granted(r) == inbox[r] \in Tokens /\ Coming(r, inbox[r])
Waiting(r) ==
  /\ Awaited(r) /\ cache = stored /\ (r = Auth <=> cache = NoToken)
  /\ Unanswered(r) \/ Refused(r) \/ Granted(r)
\* ... the pair received is being stored, or the one given up removed.
Storing(r) ==
  /\ r = Auth /\ auth = "persist" /\ cache = held /\ held # NoToken /\ Coming(r, cache)
Leaving(r) ==
  /\ r = Auth /\ auth = "clear" /\ cache = NoToken
  /\ req[r].pc = "idle" /\ Standing(held)
Renewed(r) ==
  /\ r # Auth /\ Coming(r, cache) /\ cache # NoToken
  /\ \/ call[r] = "reading" /\ sent[r] = cache /\ stored # NoToken
     \/ call[r] = "writing" /\ sent[r] = cache
     \/ call[r] = "retry" /\ stored = cache
Clearing(r) ==
  /\ r # Auth /\ call[r] = "clearing" /\ cache = NoToken
  /\ req[r].pc = "idle" /\ Standing(NoToken)

Flow(r) ==
  /\ Alone(r)
  /\ AtRest(r) \/ Waiting(r) \/ Storing(r) \/ Leaving(r) \/ Renewed(r) \/ Clearing(r)

OneFlow == calm => \E r \in Reqs : Flow(r)

\* An answer is only where it is awaited.
Prompted == \A r \in Reqs : inbox[r] # NoAnswer => Awaited(r)

\* No account is closed in the life of this device's session: those that tokens
\* were issued to are active, and so is the one a login was admitted to.
ActiveOwners ==
  /\ \A t \in issued : account[owner[t]] = "active"
  /\ \A r \in Reqs : req[r].op = "login" =>
       req[r].user \in Users /\ account[req[r].user] = "active"

CalmInv == ClientInv /\ Prompted /\ ActiveOwners /\ OneFlow

-----------------------------------------------------------------------------
(* Answers and accounts, calm or not *)

LEMMA Slotted ==
  ASSUME ClientInv
  PROVE  /\ Auth \in Reqs /\ Auth \notin Calls /\ Calls \subseteq Reqs
         /\ Reqs = Calls \cup {Auth}
         /\ req \in [Reqs -> Request] /\ inbox \in [Reqs -> Tokens \cup {NoAnswer, Refusal}]
         /\ sent \in [Calls -> Tokens \cup {NoToken}]
         /\ call \in [Calls -> {"idle", "sent", "refresh", "reading", "writing",
                                "retry", "clearing"}]
BY SlotAssumption DEF ClientInv, IInv, TypeOK, ClientTypeOK

\* What a step of call c does to the other slots, and to the server.
LEMMA CallElsewhere ==
  ASSUME ClientInv, NEW c \in Calls, StartCall(c) \/ CallStep(c)
  PROVE  /\ \A d \in Calls \ {c} : call'[d] = call[d] /\ sent'[d] = sent[d]
         /\ \A q \in Reqs \ {c} : inbox'[q] = inbox[q]
         /\ auth' = auth /\ ui' = ui /\ held' = held
         /\ Unauthorized(c) \/ UNCHANGED server
<1>1. CASE Unauthorized(c)
  BY <1>1, Slotted DEF Unauthorized
<1>2. CASE StartCall(c) \/ CallDone(c) \/ RetryDone(c) \/ ClearStored(c)
  BY <1>2, Slotted DEF StartCall, CallDone, RetryDone, ClearStored, EndCall
<1>3. CASE Refreshed(c) \/ ReadStored(c) \/ WriteStored(c)
  BY <1>3, Slotted DEF Refreshed, ReadStored, WriteStored
<1>4. CASE RefreshFailed(c) \/ RetryFailed(c)
  BY <1>4, Slotted DEF RefreshFailed, RetryFailed, GiveUp
<1> QED
  BY <1>1, <1>2, <1>3, <1>4 DEF CallStep

LEMMA PromptedInit == ClientInit => Prompted
BY DEF ClientInit, Prompted

LEMMA PromptedStep ==
  ASSUME ClientInv, Prompted, ClientNext
  PROVE  Prompted'
<1> USE Slotted
<1>1. ASSUME NEW r \in Reqs, ServerStep(r) \/ ServerAbort(r) PROVE Prompted'
  <2>1. Reply(r) /\ auth' = auth /\ call' = call
    BY <1>1 DEF ServerStep, ServerAbort
  <2>2. \A q \in Reqs : inbox'[q] = inbox[q] \/ Awaited(q)
    BY <2>1 DEF Reply
  <2> QED
    BY <2>1, <2>2 DEF Prompted, Awaited
<1>2. ASSUME NEW u \in Users, SignIn(u) PROVE Prompted'
  BY <1>2 DEF SignIn, Prompted, Awaited
<1>3. CASE SignInAnswered
  BY <1>3 DEF SignInAnswered, Prompted, Awaited
<1>4. CASE SignInLost \/ SignInStored \/ SignOut \/ SignOutDone \/ Restored
  BY <1>4 DEF SignInLost, SignInStored, SignOut, SignOutDone, Restored, Prompted, Awaited
<1>5. CASE Restart
  BY <1>5 DEF Restart, Prompted
<1>6. ASSUME NEW c \in Calls, StartCall(c) \/ CallStep(c) PROVE Prompted'
  <2>1. \A q \in Reqs \ {c} : inbox'[q] # NoAnswer => Awaited(q)'
    BY <1>6, CallElsewhere DEF Prompted, Awaited
  <2>2. inbox'[c] # NoAnswer => call'[c] = "refresh"
    <3>1. CASE Unauthorized(c)
      BY <3>1 DEF Unauthorized
    <3>2. CASE StartCall(c) \/ CallDone(c) \/ RetryDone(c) \/ ClearStored(c)
      BY <3>2 DEF StartCall, CallDone, RetryDone, ClearStored, Prompted, Awaited
    <3>3. CASE Refreshed(c) \/ ReadStored(c) \/ WriteStored(c)
      BY <3>3 DEF Refreshed, ReadStored, WriteStored, Prompted, Awaited
    <3>4. CASE RefreshFailed(c) \/ RetryFailed(c)
      BY <3>4 DEF RefreshFailed, RetryFailed, GiveUp
    <3> QED
      BY <1>6, <3>1, <3>2, <3>3, <3>4 DEF CallStep
  <2> QED
    BY <2>1, <2>2 DEF Prompted, Awaited
<1>7. ASSUME NEW t \in Tokens, AccessExpires(t) \/ RefreshExpires(t) PROVE Prompted'
  BY <1>7 DEF AccessExpires, RefreshExpires, Prompted, Awaited
<1> QED
  BY <1>1, <1>2, <1>3, <1>4, <1>5, <1>6, <1>7 DEF ClientNext, AuthStep

LEMMA OwnersInit == ClientInit => ActiveOwners
BY DEF ClientInit, Init, Idle, ActiveOwners

\* A commit gives its token to the account it works for, which is active by then.
LEMMA OwnersCommit ==
  ASSUME ClientInv, ActiveOwners, NEW r \in Reqs, Commit(r)
  PROVE  ActiveOwners'
<1> DEFINE q == req[r]
<1>1. /\ IInv /\ q \in Request /\ q.pc = "commit"
      /\ account \in [Users -> {"absent", "active", "inactive"}]
      /\ owner \in [Tokens -> Users \cup {NoUser}] /\ issued \subseteq Tokens
  BY Slotted DEF ClientInv, IInv, TypeOK, Commit
<1>2. /\ account' = IF q.op = "register" THEN [account EXCEPT ![q.user] = "active"] ELSE account
      /\ issued' = issued \cup Kept(q)
      /\ owner' = [t \in Tokens |-> IF t \in Kept(q) THEN q.user ELSE owner[t]]
      /\ req' = [req EXCEPT ![r] = Idle]
  BY DEF Commit, Finish
<1>3. /\ q.user \in Users /\ q.op # "none"
      /\ q.op = "logout" => q.new = NoToken
      /\ q.op = "refresh" => q.old \in issued /\ owner[q.old] = q.user
  BY <1>1 DEF IInv, RequestsOK, LocalsOK
<1>4. q.op = "login" => account[q.user] = "active"
  BY DEF ActiveOwners
<1>5. q.op \in {"none", "register", "login", "refresh", "logout"} /\ q.new \in Tokens \cup {NoToken}
  BY <1>1 DEF Request, Ops
<1> HIDE DEF q
<1>6. \A u \in Users : account[u] = "active" => account'[u] = "active"
  BY <1>1, <1>2
<1>7. q.new # NoToken => account'[q.user] = "active"
  BY <1>1, <1>2, <1>3, <1>4, <1>5 DEF ActiveOwners
<1>8. \A t \in issued' : account'[owner'[t]] = "active"
  <2> SUFFICES ASSUME NEW t \in issued' PROVE account'[owner'[t]] = "active"
    OBVIOUS
  <2>1. CASE t \in Kept(q)
    BY <1>2, <1>5, <1>7, <2>1, NoneAssumption DEF Kept
  <2>2. CASE t \notin Kept(q)
    <3>1. t \in issued /\ owner'[t] = owner[t] /\ owner[t] \in Users
      BY <1>1, <1>2, <2>2 DEF IInv, OwnerKnown
    <3> QED
      BY <1>6, <3>1 DEF ActiveOwners
  <2> QED
    BY <2>1, <2>2
<1>9. \A p \in Reqs : req'[p].op = "login" =>
        req'[p].user \in Users /\ account'[req'[p].user] = "active"
  <2>1. \A p \in Reqs : req'[p].op = "login" => req'[p] = req[p]
    BY <1>2, Slotted DEF Idle
  <2> QED
    BY <1>6, <2>1 DEF ActiveOwners
<1> QED
  BY <1>8, <1>9 DEF ActiveOwners

LEMMA OwnersStep ==
  ASSUME ClientInv, ActiveOwners, ClientNext
  PROVE  ActiveOwners'
<1> USE Slotted DEF ActiveOwners
<1>1. ASSUME NEW r \in Reqs, Progress(r) \/ Abort(r) PROVE ActiveOwners'
  <2>1. CASE Commit(r)
    BY <2>1, OwnersCommit
  <2>2. ASSUME ~Commit(r)
        PROVE  /\ account' = account /\ issued' = issued /\ owner' = owner
               /\ \A q \in Reqs : req'[q].op = "login" =>
                    req[q].op = "login" /\ req'[q].user = req[q].user
    <3>1. CASE Finish(r) /\ UNCHANGED <<account, issued, owner>>
      BY <3>1 DEF Finish, Idle
    <3>2. CASE (\E s : Goto(r, s)) /\ UNCHANGED <<account, issued, owner>>
      BY <3>2 DEF Goto, Request
    <3>3. CASE Issue(r)
      BY <3>3 DEF Issue, rows, Request
    <3>4. CASE SweepStart(r) \/ SweepRow(r)
      BY <3>4 DEF SweepStart, SweepRow, rows, Request
    <3> QED
      BY <1>1, <2>2, <3>1, <3>2, <3>3, <3>4 DEF Progress, Abort, InsertUser, TouchLastLogin,
         CheckUser, Retire, Respond, SweepEnd, rows
  <2> QED
    BY <2>1, <2>2
<1>2. ASSUME UNCHANGED <<account, issued, owner, req>> PROVE ActiveOwners'
  BY <1>2
<1>3. ASSUME NEW r \in Reqs, NEW u \in Users, BeginRegister(r, u) \/ BeginLogin(r, u)
      PROVE  ActiveOwners'
  BY <1>3 DEF BeginRegister, BeginLogin, rows, Idle
<1>4. ASSUME NEW r \in Reqs, NEW t, BeginLogout(r, t) PROVE ActiveOwners'
  BY <1>4 DEF BeginLogout, rows, Idle
<1>5. ASSUME NEW r \in Reqs, NEW t, BeginRefresh(r, t) PROVE ActiveOwners'
  <2> DEFINE saw == IF Verdict(t) = "sweep" THEN OwnedBy(owner[t])
                    ELSE {}
             begun == [Idle EXCEPT !.pc = Verdict(t), !.op = "refresh",
                                   !.user = owner[t], !.old = t, !.saw = saw]
  <2>1. req' = [req EXCEPT ![r] = begun] /\ UNCHANGED <<account, issued, owner>>
    BY <1>5 DEF BeginRefresh, rows
  <2>2. begun.op = "refresh"
    BY DEF Idle
  <2> HIDE DEF begun
  <2> QED
    BY <2>1, <2>2
<1>6. ASSUME NEW u \in Users, SignIn(u) PROVE ActiveOwners'
  BY <1>3, <1>6 DEF SignIn
<1>7. CASE SignOut \/ AuthStep \/ Restart
  BY <1>2, <1>4, <1>7 DEF SignOut, AuthStep, SignInAnswered, SignInLost, SignInStored, SignOutDone, Restored,
     Restart, server
<1>8. ASSUME NEW c \in Calls, StartCall(c) \/ CallStep(c) PROVE ActiveOwners'
  BY <1>2, <1>5, <1>8, CallElsewhere DEF Unauthorized, server
<1>9. ASSUME NEW r \in Reqs, ServerStep(r) \/ ServerAbort(r) PROVE ActiveOwners'
  BY <1>1, <1>9 DEF ServerStep, ServerAbort
<1>10. ASSUME NEW t \in Tokens, AccessExpires(t) \/ RefreshExpires(t) PROVE ActiveOwners'
  BY <1>2, <1>10 DEF AccessExpires, RefreshExpires, Expire, server, rows
<1> QED
  BY <1>6, <1>7, <1>8, <1>9, <1>10 DEF ClientNext

-----------------------------------------------------------------------------
(* The server's part of the flow *)

\* What is left of a request that has answered leaves n standing.
LEMMA CommitLands ==
  ASSUME ClientInv, NEW r \in Reqs, NEW n, Coming(r, n), Commit(r)
  PROVE  req'[r].pc = "idle" /\ Standing(n)'
<1> DEFINE q == req[r]
<1>1. /\ q.pc = "commit" /\ q.new = n /\ Live \subseteq {q.old}
      /\ issued' = issued \cup Kept(q) /\ revoked' = revoked \cup Dead(q)
      /\ expired' = expired /\ req' = [req EXCEPT ![r] = Idle]
  BY DEF Coming, Commit, Finish
<1>2. /\ revoked \subseteq issued /\ NoToken \notin issued
      /\ n # NoToken => n \notin issued
      /\ n # NoToken => q.old \in issued \cup {NoToken}
  BY <1>1, Slotted, NoneAssumption DEF ClientInv, IInv, TypeOK, NewIsPrivate, RequestsOK,
     LocalsOK, Request, Ops
<1> HIDE DEF q
<1>3. Live' \subseteq {n}
  BY <1>1, <1>2 DEF Live, Kept, Dead
<1>4. n # NoToken => n \in issued' \ revoked'
  BY <1>1, <1>2 DEF Kept, Dead
<1> QED
  BY <1>1, <1>3, <1>4, Slotted DEF Standing, Idle

LEMMA ComingStep ==
  ASSUME ClientInv, NEW r \in Reqs, NEW n, Coming(r, n), Progress(r)
  PROVE  Coming(r, n)'
<1>1. req[r] \in Request
  BY Slotted
<1>2. CASE Commit(r)
  BY <1>2, CommitLands DEF Coming
<1>3. CASE Retire(r)
  <2>1. req[r].pc = "retire" /\ req[r].op = "logout"
    BY <1>3 DEF Coming, Retire
  <2>2. /\ req'[r].pc = "commit" /\ req'[r].old = req[r].old /\ req'[r].new = req[r].new
        /\ Live' = Live
    BY <1>1, <1>3, <2>1, Slotted DEF Retire, Goto, rows, Live, Request
  <2> QED
    BY <2>1, <2>2 DEF Coming
<1> QED
  BY <1>2, <1>3 DEF Coming, Progress, InsertUser, TouchLastLogin, CheckUser, Issue, Respond,
     SweepStart, SweepRow, SweepEnd

\* A request that is out is refused by none but another sign-up, and is answered
\* with the token that its commit will leave standing.
LEMMA UnansweredStep ==
  ASSUME ClientInv, ActiveOwners, NEW r \in Reqs, Unanswered(r), Awaited(r),
         r = Auth => cache = NoToken, Progress(r), Reply(r), cache' = cache
  PROVE  (Unanswered(r) \/ Refused(r) \/ Granted(r))'
<1>1. /\ req[r] \in Request /\ req \in [Reqs -> Request]
      /\ inbox \in [Reqs -> Tokens \cup {NoAnswer, Refusal}]
  BY Slotted
<1>2. /\ inbox[r] = NoAnswer /\ req[r].old = cache /\ Standing(cache)
      /\ req[r].pc \notin {"idle", "commit", "sweep", "sweeping"}
  BY DEF Unanswered
<1>3. ASSUME Standing(cache)', req'[r].old = cache, req'[r].op = req[r].op,
             IF r = Auth THEN req'[r].pc \in {"issue", "respond"}
             ELSE req'[r].pc \in {"issue", "retire", "respond"}
      PROVE  Unanswered(r)'
  <2>1. inbox'[r] = NoAnswer
    BY <1>2, <1>3 DEF Reply
  <2> QED
    BY <1>2, <1>3, <2>1 DEF Unanswered
<1>4. CASE InsertUser(r)
  <2>1. r = Auth /\ Standing(cache)' /\ Standing(NoToken)'
    BY <1>2, <1>4 DEF InsertUser, rows, Unanswered, Standing, Live
  <2>2. CASE Goto(r, "issue")
    BY <1>1, <1>2, <1>3, <2>1, <2>2 DEF Goto, Request
  <2>3. CASE Finish(r)
    <3>1. req'[r].pc = "idle"
      BY <1>1, <2>3 DEF Finish, Idle
    <3>2. inbox'[r] = Refusal
      BY <1>1, <1>2, <3>1 DEF Reply
    <3> QED
      BY <2>1, <3>1, <3>2 DEF Refused
  <2> QED
    BY <1>4, <2>2, <2>3 DEF InsertUser
<1>5. CASE TouchLastLogin(r)
  <2>1. Standing(cache)' /\ Goto(r, "issue")
    BY <1>2, <1>5 DEF TouchLastLogin, rows, Standing, Live
  <2> QED
    BY <1>1, <1>2, <1>3, <2>1 DEF Goto, Request
<1>6. CASE CheckUser(r)
  <2>1. req[r].op = "refresh"
    BY <1>6 DEF CheckUser, Unanswered
  <2>2. account[req[r].user] = "active"
    BY <2>1 DEF ClientInv, IInv, RequestsOK, LocalsOK, ActiveOwners
  <2>3. Standing(cache)' /\ Goto(r, "issue")
    BY <1>2, <1>6, <2>2 DEF CheckUser, rows, Standing, Live
  <2> QED
    BY <1>1, <1>2, <1>3, <2>3 DEF Goto, Request
<1>7. CASE Issue(r)
  <2>1. /\ Standing(cache)'
        /\ req'[r].old = req[r].old /\ req'[r].op = req[r].op
        /\ req'[r].pc = IF req[r].op = "refresh" THEN "retire" ELSE "respond"
    BY <1>1, <1>2, <1>7 DEF Issue, rows, Standing, Live, Request
  <2>2. IF r = Auth THEN req'[r].pc = "respond" ELSE req'[r].pc = "retire"
    BY <2>1 DEF Unanswered
  <2> QED
    BY <1>2, <1>3, <2>1, <2>2
<1>8. CASE Retire(r)
  <2>1. r # Auth /\ req[r].op = "refresh"
    BY <1>8 DEF Retire, Unanswered
  <2>2. Standing(cache)' /\ Goto(r, "respond")
    BY <1>2, <1>8, <2>1 DEF Retire, rows, Standing, Live
  <2> QED
    BY <1>1, <1>2, <1>3, <2>1, <2>2 DEF Goto, Request
<1>9. CASE Respond(r)
  <2>1. /\ req[r].pc = "respond" /\ req'[r].pc = "commit"
        /\ req'[r].new = req[r].new /\ req'[r].old = req[r].old /\ Live' = Live
    BY <1>1, <1>9 DEF Respond, Goto, rows, Live, Request
  <2>2. req[r].new \in Tokens
    BY <1>1, <2>1 DEF ClientInv, IInv, RequestsOK, LocalsOK, Request
  <2>3. inbox'[r] = req[r].new
    BY <1>1, <2>1 DEF Reply
  <2> QED
    BY <1>2, <2>1, <2>2, <2>3 DEF Granted, Coming, Standing
<1> QED
  BY <1>2, <1>4, <1>5, <1>6, <1>7, <1>8, <1>9 DEF Progress, Commit, SweepStart, SweepRow,
     SweepEnd

LEMMA FlowServer ==
  ASSUME CalmInv, calm, NEW r \in Reqs, ServerStep(r)
  PROVE  \E p \in Reqs : Flow(p)'
<1>1. /\ Progress(r) /\ Reply(r)
      /\ UNCHANGED <<cache, stored, ui, auth, held, call, sent>>
  BY DEF ServerStep
<1>2. req[r].pc # "idle"
  BY <1>1 DEF Progress, InsertUser, TouchLastLogin, CheckUser, Issue, Retire, Respond, Commit,
     SweepStart, SweepRow, SweepEnd
<1>3. ClientInv /\ ActiveOwners /\ Flow(r)
  BY <1>2 DEF CalmInv, OneFlow, Flow, Alone
<1>4. \A q \in Reqs \ {r} : req'[q] = req[q]
  BY <1>1, <1>3, ProgressFacts DEF ClientInv
<1>5. Alone(r)'
  BY <1>1, <1>3, <1>4 DEF Flow, Alone, Renewing
<1>6. \A n : Coming(r, n) => Coming(r, n)'
  BY <1>1, <1>3, ComingStep
<1>7. CASE AtRest(r)
  BY <1>1, <1>5, <1>6, <1>7 DEF AtRest, Flow, DeviceQuiet, Renewing
<1>8. CASE Waiting(r)
  <2>1. (Unanswered(r) \/ Refused(r) \/ Granted(r))'
    <3>1. CASE Unanswered(r)
      BY <1>1, <1>3, <1>8, <3>1, UnansweredStep DEF Waiting
    <3>2. CASE Granted(r)
      <4>1. req[r].pc = "commit"
        BY <1>2, <1>3, <3>2, NoneAssumption DEF Granted, Coming, ClientInv, IInv, RequestsOK,
           LocalsOK
      <4>2. inbox'[r] = inbox[r]
        BY <1>1, <4>1 DEF Reply
      <4> QED
        BY <1>6, <3>2, <4>2 DEF Granted, Coming
    <3> QED
      BY <1>2, <1>8, <3>1, <3>2 DEF Waiting, Refused
  <2> QED
    BY <1>1, <1>5, <1>8, <2>1 DEF Waiting, Flow, Awaited
<1>9. CASE Storing(r) \/ Renewed(r)
  BY <1>1, <1>5, <1>6, <1>9 DEF Storing, Renewed, Flow, Coming
<1> QED
  BY <1>2, <1>3, <1>7, <1>8, <1>9 DEF Flow, Leaving, Clearing

-----------------------------------------------------------------------------
(* The device's part of the flow *)

Tables == <<issued, revoked, expired>>

\* At rest with the server quiet, one token stands and is in both stores.
LEMMA Quiet ==
  ASSUME CalmInv, calm, DeviceQuiet, ServerQuiet
  PROVE  cache = stored /\ Standing(cache) /\ (ui = "signedOut" => cache = NoToken)
<1>1. PICK r \in Reqs : Flow(r)
  BY DEF CalmInv, OneFlow
<1>2. AtRest(r)
  BY <1>1, Slotted DEF Flow, CalmInv, DeviceQuiet, Waiting, Awaited, Storing, Leaving, Renewed,
     Clearing, Renewing
<1> QED
  BY <1>2 DEF AtRest, Coming, ServerQuiet

\* The slots of the device that are not in the flow come and go.
LEMMA FlowKept ==
  ASSUME CalmInv, NEW r \in Reqs, Flow(r),
         UNCHANGED <<Tables, req, inbox, cache, stored, ui, auth, held>>,
         \A c \in Calls : Renewing(c)' <=> Renewing(c),
         \A c \in Calls : Renewing(c) => call'[c] = call[c] /\ sent'[c] = sent[c]
  PROVE  Flow(r)'
<1>1. /\ Live' = Live /\ \A n : Standing(n)' <=> Standing(n)
      /\ \A n : Coming(r, n)' <=> Coming(r, n)
  BY DEF Tables, Live, Standing, Coming
<1>2. Alone(r)'
  BY Slotted DEF CalmInv, Flow, Alone
<1>3. CASE AtRest(r)
  BY <1>1, <1>2, <1>3 DEF AtRest, Flow, DeviceQuiet
<1>4. CASE Waiting(r)
  <2>1. Awaited(r)'
    BY <1>4, Slotted DEF CalmInv, Waiting, Awaited, Renewing
  <2> QED
    BY <1>1, <1>2, <1>4, <2>1 DEF Waiting, Unanswered, Refused, Granted, Flow
<1>5. CASE Storing(r) \/ Leaving(r)
  BY <1>1, <1>2, <1>5 DEF Storing, Leaving, Flow
<1>6. CASE Renewed(r) \/ Clearing(r)
  <2>1. call'[r] = call[r] /\ sent'[r] = sent[r]
    BY <1>6, Slotted DEF CalmInv, Renewed, Clearing, Renewing
  <2> QED
    BY <1>1, <1>2, <1>6, <2>1 DEF Renewed, Clearing, Flow
<1> QED
  BY <1>3, <1>4, <1>5, <1>6 DEF Flow

\* A flow begins: with a request of slot r, or with what sets out without one.
LEMMA FlowSignIn ==
  ASSUME CalmInv, calm', NEW u \in Users, SignIn(u)
  PROVE  Flow(Auth)'
<1>1. /\ calm /\ DeviceQuiet /\ ServerQuiet /\ ui = "signedOut" /\ auth' = "login"
      /\ UNCHANGED <<cache, stored, held, call, sent, inbox>>
      /\ BeginRegister(Auth, u) \/ BeginLogin(Auth, u)
  BY DEF SignIn, Opening
<1>2. /\ cache = stored /\ cache = NoToken /\ Standing(cache)
      /\ inbox[Auth] = NoAnswer
  BY <1>1, Quiet, Slotted DEF CalmInv, Prompted, Awaited, DeviceQuiet
<1>3. /\ UNCHANGED Tables
      /\ \A q \in Reqs \ {Auth} : req'[q].pc = "idle"
      /\ req'[Auth].old = NoToken /\ req'[Auth].op \in {"register", "login"}
      /\ req'[Auth].pc \in {"insertUser", "touch"}
  <2>1. UNCHANGED Tables /\ \A q \in Reqs \ {Auth} : req'[q].pc = "idle"
    BY <1>1, Slotted DEF CalmInv, BeginRegister, BeginLogin, rows, Tables, ServerQuiet
  <2>2. CASE BeginRegister(Auth, u)
    BY <2>1, <2>2, Slotted DEF CalmInv, BeginRegister, Idle
  <2>3. CASE BeginLogin(Auth, u)
    BY <2>1, <2>3, Slotted DEF CalmInv, BeginLogin, Idle
  <2> QED
    BY <1>1, <2>2, <2>3
<1>4. Alone(Auth)'
  BY <1>1, <1>3 DEF Alone, DeviceQuiet, Renewing
<1>5. Unanswered(Auth)'
  BY <1>1, <1>2, <1>3 DEF Unanswered, Standing, Live, Tables
<1> QED
  BY <1>1, <1>2, <1>4, <1>5 DEF Flow, Waiting, Awaited

LEMMA FlowSignOut ==
  ASSUME CalmInv, calm', SignOut
  PROVE  Flow(Auth)'
<1>1. /\ calm /\ DeviceQuiet /\ ServerQuiet /\ auth' = "clear"
      /\ held' = cache /\ cache' = NoToken /\ UNCHANGED <<server, call>>
  BY DEF SignOut, Opening
<1>2. Standing(cache)
  BY <1>1, Quiet
<1> QED
  BY <1>1, <1>2, Slotted DEF CalmInv, Flow, Alone, Leaving, DeviceQuiet, ServerQuiet, Renewing,
     server, Standing, Live

LEMMA FlowRefresh ==
  ASSUME CalmInv, calm', NEW c \in Calls, Unauthorized(c)
  PROVE  Flow(c)'
<1>1. /\ calm /\ DeviceQuiet /\ ServerQuiet /\ cache # NoToken
      /\ call' = [call EXCEPT ![c] = "refresh"]
      /\ UNCHANGED <<cache, stored, ui, auth>>
      /\ \/ BeginRefresh(c, cache) /\ UNCHANGED inbox
         \/ /\ cache \notin issued \/ cache \in expired \ revoked
            /\ inbox' = [inbox EXCEPT ![c] = Refusal] /\ UNCHANGED server
  BY DEF Unauthorized, Opening, Fault
<1>2. /\ cache = stored /\ Standing(cache) /\ ui # "signedOut" /\ c \in Reqs /\ c # Auth
      /\ inbox[c] = NoAnswer
  BY <1>1, Quiet, Slotted DEF CalmInv, Prompted, Awaited, DeviceQuiet, Renewing
<1>3. Awaited(c)' /\ \A d \in Calls \ {c} : ~Renewing(d)'
  BY <1>1, <1>2, Slotted DEF CalmInv, Awaited, DeviceQuiet, Renewing
<1>4. CASE BeginRefresh(c, cache) /\ UNCHANGED inbox
  <2> DEFINE saw == IF Verdict(cache) = "sweep" THEN OwnedBy(owner[cache])
                    ELSE {}
             begun == [Idle EXCEPT !.pc = Verdict(cache), !.op = "refresh",
                                   !.user = owner[cache], !.old = cache, !.saw = saw]
  <2>1. req' = [req EXCEPT ![c] = begun] /\ UNCHANGED Tables
    BY <1>4 DEF BeginRefresh, rows, Tables
  <2>2. begun.pc = "checkUser" /\ begun.op = "refresh" /\ begun.old = cache
    BY <1>1, <1>2 DEF Verdict, Standing, Idle
  <2> HIDE DEF begun
  <2>3. /\ \A q \in Reqs \ {c} : req'[q].pc = "idle"
        /\ req'[c].pc = "checkUser" /\ req'[c].op = "refresh" /\ req'[c].old = cache
    BY <1>1, <1>2, <2>1, <2>2, Slotted DEF CalmInv, ServerQuiet
  <2>4. Unanswered(c)'
    BY <1>1, <1>2, <1>4, <2>1, <2>3 DEF Unanswered, Standing, Live, Tables
  <2> QED
    BY <1>1, <1>2, <1>3, <2>3, <2>4 DEF Flow, Alone, Waiting, DeviceQuiet
<1>5. CASE /\ cache \notin issued \/ cache \in expired \ revoked
           /\ inbox' = [inbox EXCEPT ![c] = Refusal] /\ UNCHANGED server
  <2>1. Standing(NoToken)' /\ inbox'[c] = Refusal /\ req' = req
    BY <1>1, <1>2, <1>5, Slotted DEF CalmInv, Standing, Live, server
  <2> QED
    BY <1>1, <1>2, <1>3, <2>1 DEF Flow, Alone, Waiting, Refused, DeviceQuiet, ServerQuiet
<1> QED
  BY <1>1, <1>4, <1>5

\* What the flow's own continuations on the device leave for it.
LEMMA FlowAuth ==
  ASSUME CalmInv, calm', AuthStep
  PROVE  Flow(Auth)'
<1>0. calm /\ auth # "idle" /\ Auth \in Reqs /\ call' = call
  BY Slotted DEF CalmInv, AuthStep, SignInAnswered, SignInLost, SignInStored, SignOutDone, Restored,
     NoFault, Fault
<1>1. Flow(Auth)
  <2>1. PICK p \in Reqs : Flow(p)
    BY <1>0 DEF CalmInv, OneFlow
  <2> QED
    BY <1>0, <2>1 DEF Flow, Alone
<1>2. \A q \in Reqs \ {Auth} : req'[q] = req[q]
  BY <1>0, BeginSignOut DEF CalmInv, ClientInv, Begun, AuthStep, SignInAnswered, SignInLost,
     SignInStored, SignOutDone, Restored, server
<1>3. Alone(Auth)'
  BY <1>0, <1>1, <1>2 DEF Flow, Alone, Renewing
<1>4. \A c \in Calls : ~Renewing(c)'
  BY <1>0, <1>1, <1>3, Slotted DEF CalmInv, Alone
<1>5. ASSUME UNCHANGED server
      PROVE  /\ \A n : Standing(n)' <=> Standing(n)
             /\ \A n : Coming(Auth, n)' <=> Coming(Auth, n)
  BY <1>5 DEF server, Live, Standing, Coming
<1>6. CASE SignInAnswered
  <2>1. Waiting(Auth) /\ cache = NoToken /\ ~Unanswered(Auth) /\ UNCHANGED <<server, stored>>
    BY <1>1, <1>6 DEF SignInAnswered, Flow, AtRest, DeviceQuiet, Storing, Leaving, Renewed,
       Clearing, Waiting, Unanswered
  <2>2. CASE Refused(Auth)
    <3>1. /\ auth' = "idle" /\ cache' = NoToken /\ stored' = NoToken /\ req'[Auth].pc = "idle"
      BY <1>6, <2>1, <2>2 DEF SignInAnswered, Refused, Waiting, server
    <3>2. Standing(NoToken)'
      BY <1>5, <2>1, <2>2 DEF Refused
    <3> QED
      BY <1>3, <1>4, <3>1, <3>2 DEF Flow, AtRest, DeviceQuiet, Coming
  <2>3. CASE Granted(Auth)
    <3>1. /\ auth' = "persist" /\ cache' = inbox[Auth] /\ held' = inbox[Auth]
          /\ inbox[Auth] # NoToken
      BY <1>6, <2>3, AnswerAssumption, NoneAssumption DEF SignInAnswered, Granted
    <3>2. Coming(Auth, cache)'
      BY <1>5, <2>1, <2>3, <3>1 DEF Granted, Coming, Standing, Live, server
    <3> QED
      BY <1>3, <3>1, <3>2 DEF Flow, Storing
  <2> QED
    BY <2>1, <2>2, <2>3 DEF Waiting
<1>7. CASE SignInStored
  <2>1. /\ Storing(Auth) /\ stored' = held /\ UNCHANGED <<server, cache>>
        /\ ui' = "signedIn" /\ auth' = "idle"
    BY <1>0, <1>1, <1>7 DEF SignInStored, Fault, Flow, AtRest, DeviceQuiet, Waiting, Awaited,
       Leaving, Renewed, Clearing
  <2>2. Coming(Auth, cache)'
    BY <1>5, <2>1 DEF Storing, Coming, Standing, Live, server
  <2> QED
    BY <1>3, <1>4, <2>1, <2>2 DEF Flow, AtRest, DeviceQuiet, Storing
<1>8. CASE SignOutDone
  <2>1. /\ Leaving(Auth) /\ stored' = NoToken /\ cache' = cache /\ auth' = "idle"
        /\ IF held \in issued \ revoked THEN BeginLogout(Auth, held) ELSE UNCHANGED server
    BY <1>0, <1>1, <1>8 DEF SignOutDone, Fault, Flow, AtRest, DeviceQuiet, Waiting, Awaited,
       Storing, Renewed, Clearing
  <2>2. Coming(Auth, NoToken)'
    <3>1. CASE held \in issued \ revoked
      <4>1. /\ req'[Auth].pc = "retire" /\ req'[Auth].op = "logout"
            /\ req'[Auth].old = held /\ req'[Auth].new = NoToken /\ UNCHANGED Tables
        <5> DEFINE out == [Idle EXCEPT !.pc = "retire", !.op = "logout",
                                       !.user = owner[held], !.old = held]
        <5>1. req' = [req EXCEPT ![Auth] = out] /\ UNCHANGED Tables
          BY <2>1, <3>1 DEF BeginLogout, rows, Tables
        <5>2. out.pc = "retire" /\ out.op = "logout" /\ out.old = held /\ out.new = NoToken
          BY DEF Idle
        <5> HIDE DEF out
        <5> QED
          BY <1>0, <5>1, <5>2, Slotted DEF CalmInv
      <4> QED
        BY <2>1, <4>1 DEF Leaving, Standing, Coming, Live, Tables
    <3>2. CASE held \notin issued \ revoked
      <4>1. held = NoToken /\ UNCHANGED server /\ req[Auth].pc = "idle" /\ Standing(NoToken)
        BY <2>1, <3>2 DEF Leaving, Standing
      <4> QED
        BY <4>1 DEF Coming, Standing, Live, server
    <3> QED
      BY <3>1, <3>2
  <2> QED
    BY <1>3, <1>4, <2>1, <2>2 DEF Flow, AtRest, DeviceQuiet, Leaving, Coming
<1>9. ~SignInLost /\ ~Restored
  BY <1>1 DEF SignInLost, Restored, Fault, Flow, AtRest, DeviceQuiet, Waiting, Awaited, Storing,
     Leaving, Renewed, Clearing
<1> QED
  BY <1>6, <1>7, <1>8, <1>9 DEF AuthStep

LEMMA FlowCall ==
  ASSUME CalmInv, calm', NEW c \in Calls, CallStep(c), Renewing(c)
  PROVE  Flow(c)'
<1>0. ~CallDone(c) /\ ~Unauthorized(c)
  BY DEF Renewing, CallDone, Unauthorized
<1>1. /\ calm /\ c \in Reqs /\ c # Auth /\ UNCHANGED <<server, auth, ui>>
      /\ \A d \in Calls \ {c} : call'[d] = call[d]
  <2>1. calm
    BY <1>0 DEF CallStep, Refreshed, RefreshFailed, ReadStored, WriteStored, RetryDone,
       RetryFailed, ClearStored, NoFault, Fault
  <2> QED
    BY <1>0, <2>1, Slotted, CallElsewhere DEF CalmInv, server
<1>2. Flow(c)
  <2>1. PICK p \in Reqs : Flow(p)
    BY <1>1 DEF CalmInv, OneFlow
  <2> QED
    BY <1>1, <2>1 DEF Flow, Alone
<1>3. Alone(c)'
  BY <1>1, <1>2 DEF Flow, Alone, Renewing, server
<1>4. Waiting(c) \/ Renewed(c) \/ Clearing(c)
  BY <1>1, <1>2 DEF Flow, AtRest, DeviceQuiet, Storing, Leaving
<1>5. /\ \A n : Standing(n) => Live' \subseteq {n} /\ (n # NoToken => n \in issued' \ revoked')
      /\ \A n : Coming(c, n) =>
           \/ req'[c].pc = "idle" /\ Live' \subseteq {n} /\ (n # NoToken => n \in issued' \ revoked')
           \/ /\ req'[c].pc = "commit" \/ (req'[c].pc = "retire" /\ req'[c].op = "logout")
              /\ req'[c].new = n /\ Live' \subseteq {req'[c].old}
  BY <1>1 DEF server, Standing, Coming, Live
<1>6. \A d \in Calls \ {c} : ~Renewing(d)'
  BY <1>3 DEF Alone
<1>7. CASE Refreshed(c)
  <2>1. Waiting(c) /\ Granted(c) /\ stored # NoToken
    BY <1>1, <1>4, <1>7, AnswerAssumption DEF Refreshed, Renewed, Clearing, Waiting, Unanswered,
       Refused
  <2>2. /\ cache' = inbox[c] /\ sent'[c] = inbox[c] /\ call'[c] = "reading" /\ stored' = stored
        /\ inbox[c] # NoToken
    BY <1>1, <1>7, Slotted, NoneAssumption DEF CalmInv, Refreshed
  <2>3. Coming(c, cache)'
    BY <1>5, <2>1, <2>2 DEF Granted, Coming, Standing
  <2> QED
    BY <1>1, <1>3, <2>1, <2>2, <2>3 DEF Flow, Renewed
<1>8. CASE RefreshFailed(c)
  <2>1. Waiting(c) /\ inbox[c] = Refusal
    BY <1>1, <1>4, <1>8 DEF RefreshFailed, Fault, Renewed, Clearing
  <2>2. req[c].pc = "idle" /\ Standing(NoToken)
    BY <2>1, AnswerAssumption DEF Waiting, Unanswered, Refused, Granted, NoAnswer, Refusal
  <2>3. cache' = NoToken /\ call'[c] = "clearing" /\ req' = req
    BY <1>1, <1>8, Slotted DEF CalmInv, RefreshFailed, GiveUp, server
  <2>4. Standing(NoToken)'
    BY <1>5, <2>2 DEF Standing
  <2> QED
    BY <1>1, <1>3, <2>2, <2>3, <2>4 DEF Flow, Clearing
<1>9. CASE ReadStored(c) \/ WriteStored(c)
  <2>1. /\ Renewed(c) /\ UNCHANGED <<cache, sent>>
        /\ \/ call[c] = "reading" /\ call'[c] = "writing" /\ stored # NoToken
           \/ call[c] = "writing" /\ call'[c] = "retry" /\ stored' = sent[c]
    BY <1>1, <1>4, <1>9, Slotted DEF CalmInv, ReadStored, WriteStored, Fault, Waiting, Awaited,
       Renewed, Clearing
  <2>2. Coming(c, cache)'
    BY <1>5, <2>1 DEF Renewed, Coming, Standing
  <2> QED
    BY <1>1, <1>3, <2>1, <2>2 DEF Flow, Renewed
<1>10. CASE RetryDone(c)
  <2>1. Renewed(c) /\ cache = stored /\ ui # "signedOut" /\ auth = "idle"
        /\ UNCHANGED <<cache, stored>> /\ call'[c] = "idle"
    BY <1>1, <1>2, <1>4, <1>10, Slotted DEF CalmInv, RetryDone, EndCall, Waiting, Awaited,
       Renewed, Clearing, Flow, Alone
  <2>2. Coming(c, cache)'
    BY <1>5, <2>1 DEF Renewed, Coming, Standing
  <2>3. DeviceQuiet'
    BY <1>1, <1>6, <2>1 DEF DeviceQuiet, Renewing
  <2> QED
    BY <1>1, <1>3, <2>1, <2>2, <2>3 DEF Flow, AtRest
<1>11. CASE ClearStored(c)
  <2>1. Clearing(c) /\ stored' = NoToken /\ cache' = NoToken /\ call'[c] = "idle"
        /\ auth = "idle"
    BY <1>1, <1>2, <1>4, <1>11, Slotted DEF CalmInv, ClearStored, EndCall, Fault, Waiting,
       Awaited, Renewed, Clearing, Flow, Alone
  <2>2. Coming(c, cache)'
    BY <1>1, <1>5, <2>1 DEF Clearing, Coming, Standing, server
  <2>3. DeviceQuiet'
    BY <1>1, <1>6, <2>1 DEF DeviceQuiet, Renewing
  <2> QED
    BY <1>3, <2>1, <2>2, <2>3 DEF Flow, AtRest
<1> QED
  BY <1>0, <1>7, <1>8, <1>9, <1>10, <1>11 DEF CallStep, RetryFailed, Fault

-----------------------------------------------------------------------------
LEMMA CalmInit == ClientInit => CalmInv
<1> SUFFICES ASSUME ClientInit PROVE CalmInv
  OBVIOUS
<1>1. ClientInv /\ Prompted /\ ActiveOwners
  BY ClientInitInv, PromptedInit, OwnersInit
<1>2. /\ issued = {} /\ cache = NoToken /\ stored = NoToken /\ auth = "idle"
      /\ \A c \in Calls : ~Renewing(c)
      /\ \A r \in Reqs : req[r].pc = "idle"
  BY DEF ClientInit, Init, Idle, Renewing
<1>3. Flow(Auth)
  BY <1>1, <1>2, Slotted DEF Flow, Alone, AtRest, DeviceQuiet, Coming, Standing, Live
<1> QED
  BY <1>1, <1>3, Slotted DEF CalmInv, OneFlow

LEMMA FlowNext ==
  ASSUME CalmInv, ClientNext
  PROVE  OneFlow'
<1> SUFFICES ASSUME calm' PROVE \E r \in Reqs : Flow(r)'
  BY DEF OneFlow
<1>0. Auth \in Reqs /\ Calls \subseteq Reqs
  BY Slotted DEF CalmInv
<1>1. CASE (\E u \in Users : SignIn(u)) \/ SignOut \/ AuthStep
  BY <1>0, <1>1, FlowSignIn, FlowSignOut, FlowAuth
<1>2. ASSUME NEW c \in Calls, StartCall(c) \/ CallStep(c) PROVE \E r \in Reqs : Flow(r)'
  <2>1. CASE Unauthorized(c)
    BY <1>0, <2>1, FlowRefresh
  <2>2. CASE StartCall(c) \/ CallDone(c)
    <3>1. PICK p \in Reqs : Flow(p)
      BY <2>2 DEF StartCall, CallDone, NoFault, CalmInv, OneFlow
    <3>2. /\ UNCHANGED <<Tables, req, inbox, cache, stored, ui, auth, held>>
          /\ ~Renewing(c) /\ ~Renewing(c)'
      BY <2>2, Slotted DEF CalmInv, StartCall, CallDone, EndCall, Renewing, server, Tables
    <3>3. \A d \in Calls \ {c} : call'[d] = call[d] /\ sent'[d] = sent[d]
      BY <2>2, CallElsewhere DEF CalmInv, CallStep
    <3> QED
      BY <3>1, <3>2, <3>3, FlowKept DEF Renewing
  <2>3. CASE CallStep(c) /\ ~Unauthorized(c) /\ ~CallDone(c)
    <3>1. Renewing(c)
      BY <2>3 DEF CallStep, Refreshed, RefreshFailed, ReadStored, WriteStored, RetryDone,
         RetryFailed, ClearStored, Renewing
    <3> QED
      BY <1>0, <2>3, <3>1, FlowCall
  <2> QED
    BY <1>2, <2>1, <2>2, <2>3
<1>3. ASSUME NEW r \in Reqs, ServerStep(r) \/ ServerAbort(r) PROVE \E p \in Reqs : Flow(p)'
  BY <1>3, FlowServer DEF ServerStep, ServerAbort, NoFault, Fault
<1>4. CASE Restart
  BY <1>4 DEF Restart, Fault
<1>5. ASSUME NEW t \in Tokens, AccessExpires(t) PROVE \E p \in Reqs : Flow(p)'
  <2>1. PICK p \in Reqs : Flow(p)
    BY <1>5 DEF AccessExpires, NoFault, CalmInv, OneFlow
  <2> QED
    BY <1>5, <2>1, FlowKept DEF AccessExpires, Tables, server, Renewing
<1>6. ASSUME NEW t \in Tokens, RefreshExpires(t) PROVE \E p \in Reqs : Flow(p)'
  <2>1. /\ calm /\ DeviceQuiet /\ ServerQuiet /\ expired' = expired \cup {t}
        /\ UNCHANGED <<issued, revoked, req, cache, stored, ui, auth, call>>
    BY <1>6 DEF RefreshExpires, Expire, rows
  <2>2. cache = stored /\ Standing(cache) /\ (ui = "signedOut" => cache = NoToken)
    BY <2>1, Quiet
  <2>3. Alone(Auth)'
    BY <2>1 DEF Alone, DeviceQuiet, ServerQuiet, Renewing
  <2>4. Coming(Auth, cache)'
    BY <1>0, <2>1, <2>2 DEF Coming, Standing, Live, ServerQuiet
  <2> QED
    BY <1>0, <2>1, <2>2, <2>3, <2>4 DEF Flow, AtRest, DeviceQuiet, Renewing
<1> QED
  BY <1>1, <1>2, <1>3, <1>4, <1>5, <1>6 DEF ClientNext

LEMMA CalmNext == CalmInv /\ [ClientNext]_allVars => CalmInv'
<1> SUFFICES ASSUME CalmInv, [ClientNext]_allVars PROVE CalmInv'
  OBVIOUS
<1>1. ClientInv'
  BY ClientNextInv DEF CalmInv
<1>2. CASE ClientNext
  BY <1>1, <1>2, PromptedStep, OwnersStep, FlowNext DEF CalmInv
<1>3. CASE UNCHANGED allVars
  <2>1. Prompted' /\ ActiveOwners'
    BY <1>3 DEF allVars, server, client, CalmInv, Prompted, Awaited, ActiveOwners
  <2>2. OneFlow'
    <3> SUFFICES ASSUME calm' PROVE \E r \in Reqs : Flow(r)'
      BY DEF OneFlow
    <3>1. PICK r \in Reqs : Flow(r)
      BY <1>3 DEF allVars, client, CalmInv, OneFlow
    <3> QED
      BY <1>3, <3>1, FlowKept DEF allVars, server, client, Tables, Renewing
  <2> QED
    BY <1>1, <2>1, <2>2 DEF CalmInv
<1> QED
  BY <1>2, <1>3

\* What a calm session is like at rest follows from where its one flow is.
LEMMA CalmRest == CalmInv => CalmSessionSound
<1> SUFFICES ASSUME CalmInv, calm
             PROVE  /\ \A r \in Reqs : req[r].pc \notin {"sweep", "sweeping"}
                    /\ DeviceQuiet /\ ServerQuiet =>
                         /\ cache = stored
                         /\ ui = "signedOut" => cache = NoToken
                         /\ issued \ (revoked \cup expired) = {cache} \ (expired \cup {NoToken})
  BY DEF CalmSessionSound
<1>1. PICK r \in Reqs : Flow(r)
  BY DEF CalmInv, OneFlow
<1>2. req[r].pc \notin {"sweep", "sweeping"}
  BY <1>1 DEF Flow, AtRest, Waiting, Unanswered, Refused, Granted, Storing, Leaving, Renewed,
     Clearing, Coming
<1>3. \A q \in Reqs : req[q].pc \notin {"sweep", "sweeping"}
  BY <1>1, <1>2 DEF Flow, Alone
<1>4. NoToken \notin issued
  BY NoneAssumption DEF CalmInv, ClientInv, IInv, TypeOK
<1>5. DeviceQuiet /\ ServerQuiet =>
        /\ cache = stored /\ (ui = "signedOut" => cache = NoToken)
        /\ issued \ (revoked \cup expired) = {cache} \ (expired \cup {NoToken})
  BY <1>4, Quiet DEF Standing, Live
<1> QED
  BY <1>3, <1>5

\* Used one flow at a time and without faults, the session is one token in memory, in
\* storage and at the server, and reuse detection never goes off
\* (auth_controller.dart:55-104, api_client.dart:237-257, auth.py:126-155).
THEOREM CalmSessionsAgree == ClientSpec => []CalmSessionSound
<1>1. ClientSpec => []CalmInv
  BY CalmInit, CalmNext, PTL DEF ClientSpec
<1> QED
  BY <1>1, CalmRest, PTL
=============================================================================
