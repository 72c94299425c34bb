------------------------- MODULE SessionClientProofs ------------------------
(***************************************************************************)
(* The device's session for any number of accounts, tokens, open API calls *)
(* and faults.  The composition never leaves the server's specification,   *)
(* so what AuthSessionsProofs shows of the tables holds here; of the       *)
(* device, that nobody waits in vain and that a token in an answer not yet *)
(* taken up is nowhere else, least of all among those already exchanged.   *)
(***************************************************************************)
EXTENDS SessionClient, AuthSessionsProofs

\* A slot that awaits an answer has a request that is going to give one.
Owing == \A r \in Reqs : Awaited(r) /\ inbox[r] = NoAnswer =>
  req[r].pc \notin {"idle", "commit"} /\ (req[r].pc = "retire" => req[r].op = "refresh")

OnDevice == {cache, stored, held} \cup {sent[c] : c \in Calls}

\* Nobody has got the token of a request that is yet to answer, and only what
\* was got is on the device or has been presented.
OnlyDelivered ==
  /\ OnDevice \subseteq delivered \cup {NoToken}
  /\ \A q \in Reqs : req[q].old \in delivered \cup {NoToken}
  /\ \A t \in Tokens : parent[t] \in delivered \cup {NoToken}
  /\ \A q \in Reqs : req[q].pc # "commit" => req[q].new \notin delivered

\* The token in an inbox is in no other place and was never presented.
Unspent == \A r \in Reqs : inbox[r] \in Tokens =>
  /\ inbox[r] \in delivered \ OnDevice
  /\ \A q \in Reqs : req[q].old # inbox[r] /\ (q # r => inbox[q] # inbox[r])
  /\ \A t \in Tokens : parent[t] # inbox[r]

\* While build() awaits the storage nothing on the device has a token.
Starting == auth = "restore" => cache = NoToken /\ \A c \in Calls : ~Renewing(c)

ClientInv == IInv /\ ClientTypeOK /\ Owing /\ OnlyDelivered /\ Unspent /\ Starting

-----------------------------------------------------------------------------
(* The server's part of a step *)

LEMMA TokensKnown ==
  ASSUME IInv
  PROVE  delivered \subseteq minted /\ issued \subseteq Tokens /\ minted \subseteq Tokens
         /\ NoToken \notin delivered
BY NoneAssumption DEF IInv, TypeOK

LEMMA ServerPart ==
  ASSUME IInv, ClientTypeOK, ClientNext
  PROVE  [Next]_vars
<1> USE SlotAssumption
<1>0. Auth \in Reqs /\ Calls \subseteq Reqs
  OBVIOUS
<1>1. ASSUME NEW u \in Users, SignIn(u) PROVE Next
  BY <1>0, <1>1 DEF SignIn, Next, Begin
<1>2. CASE SignOutDone
  <2>1. CASE BeginLogout(Auth, held)
    BY <1>0, <2>1, TokensKnown DEF BeginLogout, Next, Begin
  <2> QED
    BY <1>2, <2>1 DEF SignOutDone, server, vars
<1>3. ASSUME NEW c \in Calls, CallStep(c) PROVE [Next]_vars
  <2>1. CASE Unauthorized(c)
    <3>1. CASE (Room \/ cache \in revoked) /\ BeginRefresh(c, cache)
      BY <1>0, <3>1, TokensKnown DEF BeginRefresh, Next, Begin
    <3> QED
      BY <2>1, <3>1 DEF Unauthorized, server, vars
  <2> QED
    BY <1>3, <2>1 DEF CallStep, CallDone, Refreshed, RefreshFailed, GiveUp, ReadStored,
       WriteStored, RetryDone, RetryFailed, ClearStored, server, vars
<1>4. ASSUME NEW r \in Reqs, ServerStep(r) \/ ServerAbort(r) PROVE Next
  BY <1>4 DEF ServerStep, ServerAbort, Next
<1>5. ASSUME NEW t \in Tokens, AccessExpires(t) \/ RefreshExpires(t) PROVE [Next]_vars
  BY <1>5 DEF AccessExpires, RefreshExpires, Next, server, vars
<1>6. CASE SignInAnswered \/ SignInLost \/ SignInStored \/ SignOut \/ Restart \/ Restored
  BY <1>6 DEF SignInAnswered, SignInLost, SignInStored, SignOut, Restart, Restored, server, vars
<1>7. ASSUME NEW c \in Calls, StartCall(c) PROVE [Next]_vars
  BY <1>7 DEF StartCall, server, vars
<1> QED
  BY <1>1, <1>2, <1>3, <1>4, <1>5, <1>6, <1>7 DEF ClientNext, AuthStep

\* What the device's requests are like when they begin: t is what is presented.
Begun(r, t) ==
  /\ \A q \in Reqs \ {r} : req'[q] = req[q]
  /\ req'[r].old = t /\ req'[r].new = NoToken
  /\ delivered' = delivered /\ parent' = parent

LEMMA BeginSession ==
  ASSUME IInv, NEW r \in Reqs, NEW u \in Users, BeginRegister(r, u) \/ BeginLogin(r, u)
  PROVE  Begun(r, NoToken) /\ req'[r].pc \notin {"idle", "commit", "retire"}
<1>1. req \in [Reqs -> Request]
  BY DEF IInv, TypeOK
<1>2. CASE BeginRegister(r, u)
  BY <1>1, <1>2 DEF BeginRegister, Begun, Idle, rows
<1>3. CASE BeginLogin(r, u)
  BY <1>1, <1>3 DEF BeginLogin, Begun, Idle, rows
<1> QED
  BY <1>2, <1>3

LEMMA BeginExchange ==
  ASSUME IInv, NEW r \in Reqs, NEW t, BeginRefresh(r, t)
  PROVE  Begun(r, t) /\ req'[r].pc \notin {"idle", "commit", "retire"}
<1> DEFINE saw == IF Verdict(t) = "sweep" THEN OwnedBy(owner[t])
                  ELSE {}
<1>1. req' = [req EXCEPT ![r] = [Idle EXCEPT !.pc = Verdict(t), !.op = "refresh",
                                   !.user = owner[t], !.old = t, !.saw = saw]]
      /\ delivered' = delivered /\ parent' = parent /\ req \in [Reqs -> Request]
  BY DEF BeginRefresh, rows, IInv, TypeOK
<1> HIDE DEF saw
<1> QED
  BY <1>1 DEF Begun, Verdict, Idle

LEMMA BeginSignOut ==
  ASSUME IInv, NEW r \in Reqs, NEW t, BeginLogout(r, t)
  PROVE  Begun(r, t) /\ req'[r].pc = "retire"
<1>1. req \in [Reqs -> Request]
  BY DEF IInv, TypeOK
<1> QED
  BY <1>1 DEF BeginLogout, Begun, Idle, rows

\* What one step of a request does to it, and to the others.
LEMMA ProgressFacts ==
  ASSUME IInv, NEW r \in Reqs, Progress(r) \/ Abort(r)
  PROVE  /\ \A q \in Reqs \ {r} : req'[q] = req[q]
         /\ req'[r].old \in {req[r].old, NoToken}
         /\ \A t \in Tokens : parent'[t] \in {parent[t], req[r].old}
         /\ delivered' = delivered \/ Respond(r)
         /\ req'[r].pc # "commit" =>
              \/ req'[r].new = NoToken
              \/ req'[r].new = req[r].new /\ req[r].pc # "commit"
              \/ req'[r].new \notin minted
         /\ req'[r].pc = "commit" =>
              Respond(r) \/ (req[r].pc = "retire" /\ req[r].op # "refresh")
         /\ req'[r].pc = "retire" => req'[r].op = "refresh"
<1> DEFINE Goal ==
         /\ \A q \in Reqs \ {r} : req'[q] = req[q]
         /\ req'[r].old \in {req[r].old, NoToken}
         /\ \A t \in Tokens : parent'[t] \in {parent[t], req[r].old}
         /\ delivered' = delivered \/ Respond(r)
         /\ req'[r].pc # "commit" =>
              \/ req'[r].new = NoToken
              \/ req'[r].new = req[r].new /\ req[r].pc # "commit"
              \/ req'[r].new \notin minted
         /\ req'[r].pc = "commit" =>
              Respond(r) \/ (req[r].pc = "retire" /\ req[r].op # "refresh")
         /\ req'[r].pc = "retire" => req'[r].op = "refresh"
<1>1. req \in [Reqs -> Request] /\ req[r] \in Request
  BY DEF IInv, TypeOK
<1>2. Idle.old = NoToken /\ Idle.new = NoToken /\ Idle.pc = "idle"
  BY DEF Idle
<1>3. ASSUME Finish(r), parent' = parent, delivered' = delivered PROVE Goal
  BY <1>1, <1>2, <1>3 DEF Finish
<1>4. ASSUME NEW step, Goto(r, step), step \notin {"commit", "retire"},
             req[r].pc # "commit", parent' = parent, delivered' = delivered
      PROVE  Goal
  BY <1>1, <1>4 DEF Goto, Request
<1>5. CASE InsertUser(r)
  BY <1>3, <1>4, <1>5 DEF InsertUser, rows
<1>6. CASE TouchLastLogin(r)
  BY <1>4, <1>6 DEF TouchLastLogin, rows
<1>7. CASE CheckUser(r)
  BY <1>3, <1>4, <1>7 DEF CheckUser, rows
<1>8. CASE Issue(r)
  <2>1. Fresh \notin minted
    BY <1>8 DEF Issue, Ready, Fresh, IInv, TypeOK
  <2> QED
    BY <1>1, <1>8, <2>1 DEF Issue, rows, Request
<1>9. CASE Retire(r)
  BY <1>1, <1>9 DEF Retire, Goto, rows, Request
<1>10. CASE Respond(r)
  BY <1>1, <1>10 DEF Respond, Goto, rows, Request
<1>11. CASE Commit(r)
  BY <1>1, <1>2, <1>11 DEF Commit, Finish
<1>12. CASE SweepStart(r) \/ SweepRow(r)
  <2>1. /\ req'[r].pc = "sweeping" /\ req'[r].old = req[r].old /\ req'[r].new = req[r].new
        /\ req[r].pc # "commit" /\ \A q \in Reqs \ {r} : req'[q] = req[q]
        /\ delivered' = delivered /\ parent' = parent
    BY <1>1, <1>12 DEF SweepStart, SweepRow, rows, Request
  <2> QED
    BY <2>1
<1>13. CASE SweepEnd(r)
  BY <1>3, <1>13 DEF SweepEnd
<1>14. CASE Abort(r)
  BY <1>3, <1>14 DEF Abort, rows
<1> QED
  BY <1>5, <1>6, <1>7, <1>8, <1>9, <1>10, <1>11, <1>12, <1>13, <1>14 DEF Progress

-----------------------------------------------------------------------------
(* Answers: nobody waits in vain *)

LEMMA OwingStep ==
  ASSUME Owing,
         \A q \in Reqs : Awaited(q)' /\ inbox'[q] = NoAnswer =>
           Awaited(q) /\ inbox[q] = NoAnswer /\ req'[q] = req[q]
  PROVE  Owing'
BY DEF Owing

LEMMA OwingInit == ClientInit => Owing
BY SlotAssumption DEF ClientInit, Owing, Awaited

\* A step of the server gives the answer that it owes.
LEMMA OwingServer ==
  ASSUME ClientInv, NEW r \in Reqs, ServerStep(r) \/ ServerAbort(r)
  PROVE  Owing'
<1>1. /\ Progress(r) \/ Abort(r)
      /\ Reply(r) /\ UNCHANGED <<auth, call>>
  BY DEF ServerStep, ServerAbort
<1>2. /\ \A q \in Reqs \ {r} : req'[q] = req[q] /\ inbox'[q] = inbox[q]
      /\ \A q \in Reqs : Awaited(q)' <=> Awaited(q)
  BY <1>1, ProgressFacts DEF ClientInv, ClientTypeOK, Reply, Awaited
<1>3. ASSUME Awaited(r), inbox'[r] = NoAnswer
      PROVE  /\ req'[r].pc \notin {"idle", "commit"}
             /\ req'[r].pc = "retire" => req'[r].op = "refresh"
  <2>1. CASE req[r].pc = "respond" /\ req'[r].pc = "commit"
    <3>1. req[r].new \in Tokens
      BY <2>1 DEF ClientInv, IInv, TypeOK, RequestsOK, LocalsOK, Request
    <3>2. inbox'[r] = req[r].new
      BY <1>1, <1>3, <2>1 DEF Reply, ClientInv, ClientTypeOK
    <3> QED
      BY <1>3, <3>1, <3>2, AnswerAssumption
  <2>2. CASE req[r].pc # "commit" /\ req'[r].pc = "idle"
    BY <1>1, <1>3, <2>2 DEF Reply, ClientInv, ClientTypeOK, NoAnswer, Refusal
  <2>3. CASE /\ ~(req[r].pc = "respond" /\ req'[r].pc = "commit")
             /\ ~(req[r].pc # "commit" /\ req'[r].pc = "idle")
    <3>1. inbox[r] = NoAnswer
      BY <1>1, <1>3, <2>3 DEF Reply
    <3>2. req[r].pc # "commit" /\ (req[r].pc = "retire" => req[r].op = "refresh")
      BY <1>3, <3>1 DEF ClientInv, Owing
    <3> QED
      BY <1>1, <2>3, <3>2, ProgressFacts DEF ClientInv, Respond
  <2> QED
    BY <2>1, <2>2, <2>3
<1> QED
  BY <1>2, <1>3 DEF ClientInv, Owing

\* A step of the device awaits nothing that it has not asked for.
LEMMA OwingDevice ==
  ASSUME ClientInv,
         \/ \E u \in Users : SignIn(u)
         \/ SignOut \/ AuthStep \/ Restart
         \/ \E c \in Calls : StartCall(c) \/ CallStep(c)
         \/ \E t \in Tokens : AccessExpires(t) \/ RefreshExpires(t)
  PROVE  Owing'
<1> USE SlotAssumption DEF ClientInv, ClientTypeOK, IInv, TypeOK
<1>1. ASSUME NEW u \in Users, SignIn(u) PROVE Owing'
  <2>1. Begun(Auth, NoToken) /\ req'[Auth].pc \notin {"idle", "commit", "retire"}
    BY <1>1, BeginSession DEF SignIn
  <2> QED
    BY <1>1, <2>1 DEF SignIn, Owing, Awaited, Begun
<1>2. CASE SignInAnswered \/ SignInLost \/ SignInStored \/ SignOut \/ Restored
  <2>1. /\ req' = req /\ call' = call /\ auth' # "login"
        /\ \A q \in Reqs \ {Auth} : inbox'[q] = inbox[q]
    <3>1. CASE SignInAnswered
      BY <3>1 DEF SignInAnswered, server
    <3>2. CASE SignInStored
      BY <3>2 DEF SignInStored, server
    <3>3. CASE SignOut
      BY <3>3 DEF SignOut, server
    <3>4. CASE SignInLost \/ Restored
      BY <3>4 DEF SignInLost, Restored, server
    <3> QED
      BY <1>2, <3>1, <3>2, <3>3, <3>4
  <2> QED
    BY <2>1, OwingStep DEF Awaited
<1>3. CASE SignOutDone
  <2>1. \A q \in Reqs \ {Auth} : req'[q] = req[q]
    BY <1>3, BeginSignOut DEF SignOutDone, Begun, server
  <2> QED
    BY <1>3, <2>1, OwingStep DEF SignOutDone, Awaited
<1>4. CASE Restart
  BY <1>4 DEF Restart, Owing, Awaited
<1>5. ASSUME NEW c \in Calls, StartCall(c) \/ CallStep(c) PROVE Owing'
  <2>1. CASE Unauthorized(c)
    <3>1. \A q \in Reqs \ {c} : req'[q] = req[q] /\ inbox'[q] = inbox[q]
                                /\ (Awaited(q)' <=> Awaited(q))
      BY <2>1, BeginExchange DEF Unauthorized, Begun, server, Awaited
    <3>2. inbox'[c] = Refusal \/ req'[c].pc \notin {"idle", "commit", "retire"}
      BY <2>1, BeginExchange DEF Unauthorized, Begun
    <3> QED
      BY <3>1, <3>2 DEF Owing, NoAnswer, Refusal
  <2>2. CASE StartCall(c) \/ (CallStep(c) /\ ~Unauthorized(c))
    <3>1. UNCHANGED <<server, auth>>
      BY <2>2 DEF StartCall, CallStep, CallDone, Refreshed, RefreshFailed, GiveUp, ReadStored,
         WriteStored, RetryDone, RetryFailed, ClearStored
    <3>3. \A q \in Calls \ {c} : call'[q] = call[q]
      BY <2>2 DEF StartCall, CallStep, CallDone, Refreshed, RefreshFailed, GiveUp, ReadStored,
         WriteStored, RetryDone, RetryFailed, ClearStored, EndCall
    <3>4. \A q \in Reqs \ {c} : inbox'[q] = inbox[q]
      BY <2>2 DEF StartCall, CallStep, CallDone, Refreshed, RefreshFailed, GiveUp, ReadStored,
         WriteStored, RetryDone, RetryFailed, ClearStored
    <3>2. call'[c] # "refresh"
      BY <2>2 DEF StartCall, CallStep, CallDone, Refreshed, RefreshFailed, GiveUp, ReadStored,
         WriteStored, RetryDone, RetryFailed, ClearStored, EndCall, server
    <3> QED
      BY <3>1, <3>2, <3>3, <3>4, OwingStep DEF Awaited, server
  <2> QED
    BY <1>5, <2>1, <2>2
<1>6. ASSUME NEW t \in Tokens, AccessExpires(t) \/ RefreshExpires(t) PROVE Owing'
  BY <1>6, OwingStep DEF AccessExpires, RefreshExpires, Expire, Awaited, server
<1> QED
  BY <1>1, <1>2, <1>3, <1>4, <1>5, <1>6 DEF AuthStep

-----------------------------------------------------------------------------
(* Types *)

LEMMA DeliveredGrows ==
  ASSUME IInv, ClientTypeOK, ClientNext
  PROVE  delivered \subseteq delivered'
<1>1. [Next]_vars
  BY ServerPart
<1>2. ASSUME NEW r \in Reqs, Begin(r) PROVE delivered' = delivered
  BY <1>2 DEF Begin, BeginRegister, BeginLogin, BeginRefresh, BeginLogout
<1>3. ASSUME NEW r \in Reqs, Progress(r) \/ Abort(r) PROVE delivered \subseteq delivered'
  BY <1>3, ProgressFacts DEF Respond
<1> QED
  BY <1>1, <1>2, <1>3 DEF Next, Expire, Deactivate, vars

Counted == faults \in 0..Faults /\ calm \in BOOLEAN

LEMMA CountedStep ==
  ASSUME Counted, Fault \/ NoFault \/ Opening
  PROVE  Counted'
<1>1. faults' \in 0..Faults
  BY FaultsAssumption DEF Counted, Fault, NoFault, Opening
<1>2. calm' \in BOOLEAN
  BY DEF Counted, Fault, NoFault, Opening
<1> QED
  BY <1>1, <1>2 DEF Counted

LEMMA ClientCounted ==
  ASSUME Counted, ClientNext
  PROVE  Counted'
<1>1. ASSUME NEW t \in Tokens, RefreshExpires(t) PROVE Counted'
  BY <1>1, FaultsAssumption DEF RefreshExpires, Counted
<1>2. (\E u \in Users : SignIn(u)) \/ SignOut => Opening
  BY DEF SignIn, SignOut
<1>3. AuthStep \/ Restart => Fault \/ NoFault
  BY DEF AuthStep, SignInAnswered, SignInLost, SignInStored, SignOutDone, Restart, Restored
<1>4. ASSUME NEW c \in Calls, StartCall(c) \/ CallStep(c) PROVE Fault \/ NoFault \/ Opening
  BY <1>4 DEF StartCall, CallStep, CallDone, Unauthorized, Refreshed, RefreshFailed, ReadStored,
     WriteStored, RetryDone, RetryFailed, ClearStored
<1>5. (\E r \in Reqs : ServerStep(r) \/ ServerAbort(r)) => Fault \/ NoFault
  BY DEF ServerStep, ServerAbort
<1>6. (\E t \in Tokens : AccessExpires(t)) => NoFault
  BY DEF AccessExpires
<1> QED
  BY <1>1, <1>2, <1>3, <1>4, <1>5, <1>6, CountedStep DEF ClientNext

\* The rest of ClientTypeOK: the two stores, the slots, and what has expired.
Stores == /\ cache \in Tokens \cup {NoToken} /\ stored \in Tokens \cup {NoToken}
          /\ held \in Tokens \cup {NoToken}
          /\ ui \in {"signedOut", "loading", "signedIn"}
          /\ auth \in {"idle", "login", "persist", "clear", "restore"}
Slots  == /\ call \in [Calls -> {"idle", "sent", "refresh", "reading", "writing",
                                 "retry", "clearing"}]
          /\ sent \in [Calls -> Tokens \cup {NoToken}]
          /\ inbox \in [Reqs -> Tokens \cup {NoAnswer, Refusal}]

LEMMA TypeParts == ClientTypeOK <=> Stores /\ Slots /\ Counted /\ stale \subseteq delivered
BY DEF ClientTypeOK, Stores, Slots, Counted

LEMMA CallTypes ==
  ASSUME Stores, Slots, NEW c \in Calls, StartCall(c) \/ CallStep(c)
  PROVE  Stores' /\ Slots' /\ stale' = stale
<1>0. c \in Reqs
  BY SlotAssumption
<1>1. CASE StartCall(c) \/ CallDone(c) \/ RetryDone(c)
  BY <1>1 DEF StartCall, CallDone, RetryDone, EndCall, Stores, Slots
<1>2. CASE ClearStored(c)
  BY <1>2 DEF ClearStored, EndCall, Stores, Slots
<1>3. CASE Unauthorized(c)
  <2>1. /\ call' = [call EXCEPT ![c] = "refresh"] /\ sent' = [sent EXCEPT ![c] = cache]
        /\ inbox' = inbox \/ inbox' = [inbox EXCEPT ![c] = Refusal]
        /\ UNCHANGED <<cache, stored, ui, auth, held, stale>>
    BY <1>3 DEF Unauthorized
  <2> QED
    BY <1>0, <2>1 DEF Stores, Slots
<1>4. CASE Refreshed(c)
  BY <1>0, <1>4 DEF Refreshed, Stores, Slots
<1>5. CASE RefreshFailed(c) \/ RetryFailed(c)
  <2>1. GiveUp(c)
    BY <1>5 DEF RefreshFailed, RetryFailed
  <2> QED
    BY <1>0, <2>1 DEF GiveUp, Stores, Slots
<1>6. CASE ReadStored(c)
  BY <1>6 DEF ReadStored, Stores, Slots
<1>7. CASE WriteStored(c)
  BY <1>7 DEF WriteStored, Stores, Slots
<1> QED
  BY <1>1, <1>2, <1>3, <1>4, <1>5, <1>6, <1>7 DEF CallStep

LEMMA ServerTypes ==
  ASSUME ClientInv, NEW r \in Reqs, ServerStep(r) \/ ServerAbort(r)
  PROVE  Stores' /\ Slots' /\ stale' = stale
<1>1. req[r].pc = "respond" => req[r].new \in Tokens
  BY DEF ClientInv, IInv, TypeOK, RequestsOK, LocalsOK, Request
<1>2. Reply(r) /\ UNCHANGED <<cache, stored, ui, auth, held, call, sent, stale>>
  BY DEF ServerStep, ServerAbort
<1>3. Stores /\ Slots
  BY TypeParts DEF ClientInv
<1>4. \/ inbox' = inbox
      \/ inbox' = [inbox EXCEPT ![r] = Refusal]
      \/ req[r].pc = "respond" /\ inbox' = [inbox EXCEPT ![r] = req[r].new]
  BY <1>2 DEF Reply
<1>5. inbox' \in [Reqs -> Tokens \cup {NoAnswer, Refusal}]
  BY <1>1, <1>3, <1>4 DEF Slots
<1> QED
  BY <1>2, <1>3, <1>5 DEF Stores, Slots

TypesKept == Stores' /\ Slots' /\ stale' \subseteq delivered'

LEMMA ClientTypeStep ==
  ASSUME ClientInv, ClientNext
  PROVE  ClientTypeOK'
<1>0. /\ Stores /\ Slots /\ Counted' /\ stale \subseteq delivered
      /\ delivered \subseteq delivered' /\ Auth \in Reqs
  BY DeliveredGrows, TypeParts, ClientCounted, SlotAssumption DEF ClientInv
<1> SUFFICES TypesKept
  BY <1>0 DEF TypesKept, Stores, Slots, Counted, ClientTypeOK
<1>1. ASSUME NEW u \in Users, SignIn(u) PROVE TypesKept
  <2>1. UNCHANGED <<cache, stored, held, call, sent, inbox, stale>>
        /\ ui' = "loading" /\ auth' = "login"
    BY <1>1 DEF SignIn
  <2> QED
    BY <1>0, <2>1 DEF Stores, Slots, TypesKept
<1>2. CASE SignInAnswered
  <2>1. inbox[Auth] # Refusal => inbox[Auth] \in Tokens
    BY <1>0, <1>2 DEF SignInAnswered, Slots
  <2> QED
    BY <1>0, <1>2, <2>1 DEF SignInAnswered, Stores, Slots, TypesKept
<1>3. CASE SignInStored \/ SignInLost \/ Restored
  BY <1>0, <1>3 DEF SignInStored, SignInLost, Restored, Stores, Slots, TypesKept
<1>4. CASE SignOut
  BY <1>0, <1>4 DEF SignOut, Stores, Slots, TypesKept
<1>5. CASE SignOutDone
  <2>1. /\ ui' = "signedOut" /\ auth' = "idle" /\ held' = NoToken
        /\ stored' \in {stored, NoToken} /\ UNCHANGED <<cache, call, sent, inbox, stale>>
    BY <1>5 DEF SignOutDone
  <2> QED
    BY <1>0, <2>1 DEF Stores, Slots, TypesKept
<1>6. ASSUME NEW c \in Calls, StartCall(c) \/ CallStep(c) PROVE TypesKept
  BY <1>0, <1>6, CallTypes DEF TypesKept
<1>7. ASSUME NEW r \in Reqs, ServerStep(r) \/ ServerAbort(r) PROVE TypesKept
  BY <1>0, <1>7, ServerTypes DEF TypesKept
<1>8. CASE Restart
  BY <1>0, <1>8 DEF Restart, Stores, Slots, TypesKept
<1>9. ASSUME NEW t \in Tokens, AccessExpires(t) PROVE TypesKept
  BY <1>0, <1>9 DEF AccessExpires, Stores, Slots, TypesKept
<1>10. ASSUME NEW t \in Tokens, RefreshExpires(t) PROVE TypesKept
  BY <1>0, <1>10 DEF RefreshExpires, Stores, Slots, TypesKept
<1> QED
  BY <1>1, <1>2, <1>3, <1>4, <1>5, <1>6, <1>7, <1>8, <1>9, <1>10 DEF ClientNext, AuthStep

-----------------------------------------------------------------------------
(* Tokens not yet taken up *)

\* A step that delivers nothing: what it presents was on the device, what comes
\* to the device was delivered, and what is left in an inbox stays out of it.
LEMMA UnspentStep ==
  ASSUME ClientInv, delivered' = delivered,
         \A q \in Reqs : req'[q].old \in {req[q].old, NoToken} \cup OnDevice,
         \A q \in Reqs : req'[q].pc # "commit" => req'[q].new \notin delivered,
         \A t \in Tokens : parent'[t] = parent[t] \/ \E q \in Reqs : parent'[t] = req[q].old,
         OnDevice' \subseteq delivered \cup {NoToken},
         \A q \in Reqs : inbox'[q] \in Tokens => inbox'[q] = inbox[q] /\ inbox[q] \notin OnDevice'
  PROVE  OnlyDelivered' /\ Unspent'
<1>1. OnlyDelivered /\ Unspent
  BY DEF ClientInv
<1>2. OnlyDelivered'
  BY <1>1 DEF OnlyDelivered
<1>3. ASSUME NEW r \in Reqs, inbox'[r] \in Tokens
      PROVE  /\ inbox'[r] \in delivered' \ OnDevice'
             /\ \A q \in Reqs : req'[q].old # inbox'[r] /\ (q # r => inbox'[q] # inbox'[r])
             /\ \A t \in Tokens : parent'[t] # inbox'[r]
  <2>1. /\ inbox'[r] = inbox[r] /\ inbox[r] \notin OnDevice'
        /\ inbox[r] \in delivered \ OnDevice /\ inbox[r] \in Tokens /\ inbox[r] # NoToken
        /\ \A q \in Reqs : req[q].old # inbox[r] /\ (q # r => inbox[q] # inbox[r])
        /\ \A t \in Tokens : parent[t] # inbox[r]
    BY <1>1, <1>3, NoneAssumption DEF Unspent
  <2>2. \A q \in Reqs : q # r => inbox'[q] # inbox'[r]
    BY <1>3, <2>1
  <2> QED
    BY <2>1, <2>2
<1> QED
  BY <1>2, <1>3 DEF Unspent

\* The same for a step that leaves the server alone.
LEMMA UnspentOnDevice ==
  ASSUME ClientInv, UNCHANGED <<delivered, req, parent>>,
         OnDevice' \subseteq delivered \cup {NoToken},
         \A q \in Reqs : inbox'[q] \in Tokens => inbox'[q] = inbox[q] /\ inbox[q] \notin OnDevice'
  PROVE  OnlyDelivered' /\ Unspent'
BY UnspentStep DEF ClientInv, OnlyDelivered

\* The same for a step that begins a request with what is on the device.
LEMMA UnspentBegun ==
  ASSUME ClientInv, NEW r \in Reqs, NEW t \in OnDevice \cup {NoToken}, Begun(r, t),
         OnDevice' \subseteq OnDevice \cup {NoToken},
         \A q \in Reqs : inbox'[q] \in Tokens => inbox'[q] = inbox[q]
  PROVE  OnlyDelivered' /\ Unspent'
<1>1. OnDevice' \subseteq delivered \cup {NoToken}
  BY DEF ClientInv, OnlyDelivered
<1>2. \A q \in Reqs : inbox'[q] \in Tokens => inbox'[q] = inbox[q] /\ inbox[q] \notin OnDevice'
  BY NoneAssumption DEF ClientInv, Unspent
<1>3. \A q \in Reqs : req'[q].pc # "commit" => req'[q].new \notin delivered
  BY TokensKnown DEF ClientInv, OnlyDelivered, Begun
<1>4. \A q \in Reqs : req'[q].old \in {req[q].old, NoToken} \cup OnDevice
  BY DEF Begun
<1> QED
  BY <1>1, <1>2, <1>3, <1>4, UnspentStep DEF Begun

LEMMA UnspentServer ==
  ASSUME ClientInv, NEW r \in Reqs, ServerStep(r) \/ ServerAbort(r)
  PROVE  OnlyDelivered' /\ Unspent'
<1>1. /\ Progress(r) \/ Abort(r)
      /\ Reply(r) /\ UNCHANGED <<cache, stored, held, sent>>
  BY DEF ServerStep, ServerAbort
<1>2. /\ IInv /\ OnlyDelivered /\ Unspent /\ inbox \in [Reqs -> Tokens \cup {NoAnswer, Refusal}]
      /\ OnDevice' = OnDevice
  BY <1>1 DEF ClientInv, ClientTypeOK, OnDevice
<1>3. \A q \in Reqs : inbox'[q] \in Tokens =>
        inbox'[q] = inbox[q] \/ (q = r /\ Respond(r) /\ inbox'[q] = req[r].new)
  BY <1>1, <1>2, ProgressFacts, AnswerAssumption DEF Reply, Respond
<1>4. CASE ~Respond(r)
  <2>1. delivered' = delivered
    BY <1>1, <1>2, <1>4, ProgressFacts
  <2>2. \A q \in Reqs : req'[q].pc # "commit" => req'[q].new \notin delivered
    <3>1. req'[r].pc # "commit" => req'[r].new \notin delivered
      BY <1>1, <1>2, ProgressFacts, TokensKnown DEF OnlyDelivered
    <3> QED
      BY <1>1, <1>2, <3>1, ProgressFacts DEF OnlyDelivered
  <2>3. \A q \in Reqs : req'[q].old \in {req[q].old, NoToken}
    BY <1>1, <1>2, ProgressFacts
  <2>4. \A t \in Tokens : parent'[t] = parent[t] \/ parent'[t] = req[r].old
    BY <1>1, <1>2, ProgressFacts
  <2> QED
    BY <1>2, <1>3, <1>4, <2>1, <2>2, <2>3, <2>4, UnspentStep DEF OnlyDelivered, Unspent
<1>5. CASE Respond(r)
  <2> DEFINE new == req[r].new
  <2>1. /\ new \in Tokens \ delivered /\ delivered' = delivered \cup {new} /\ parent' = parent
        /\ req' = [req EXCEPT ![r].pc = "commit"] /\ req \in [Reqs -> Request]
    <3>1. req[r].pc = "respond"
      BY <1>5 DEF Respond
    <3>2. new \in Tokens
      BY <1>2, <3>1 DEF IInv, TypeOK, RequestsOK, LocalsOK, Request
    <3> QED
      BY <1>2, <1>5, <3>1, <3>2 DEF Respond, Goto, rows, OnlyDelivered, IInv, TypeOK
  <2>2. \A q \in Reqs : req'[q].old = req[q].old /\ req'[q].new = req[q].new
                        /\ (q # r => req'[q] = req[q]) /\ req'[r].pc = "commit"
    BY <2>1 DEF Request
  <2>3. \A q \in Reqs \ {r} : req[q].new # new
    BY <1>2, <2>1, NoneAssumption DEF IInv, NewIsPrivate
  <2> HIDE DEF new
  <2>4. OnlyDelivered'
    BY <1>2, <2>1, <2>2, <2>3 DEF OnlyDelivered
  <2>5. /\ new \notin OnDevice /\ \A q \in Reqs : req[q].old # new /\ inbox[q] # new
        /\ \A t \in Tokens : parent[t] # new
    BY <1>2, <2>1, NoneAssumption DEF OnlyDelivered, Unspent
  <2>6. Unspent'
    <3> SUFFICES ASSUME NEW p \in Reqs, inbox'[p] \in Tokens
                 PROVE  /\ inbox'[p] \in delivered' \ OnDevice'
                        /\ \A q \in Reqs : req'[q].old # inbox'[p]
                                           /\ (q # p => inbox'[q] # inbox'[p])
                        /\ \A t \in Tokens : parent'[t] # inbox'[p]
      BY DEF Unspent
    <3>1. \A q \in Reqs : inbox'[q] \in Tokens =>
            inbox'[q] = inbox[q] \/ (q = r /\ inbox'[q] = new)
      BY <1>3 DEF new
    <3>2. CASE inbox'[p] = inbox[p]
      BY <1>2, <2>1, <2>2, <2>5, <3>1, <3>2 DEF Unspent
    <3>3. CASE p = r /\ inbox'[p] = new
      BY <1>2, <2>1, <2>2, <2>5, <3>1, <3>3
    <3> QED
      BY <3>1, <3>2, <3>3
  <2> QED
    BY <2>4, <2>6
<1> QED
  BY <1>4, <1>5

\* A step of the device that takes up no answer.
LEMMA UnspentMoved ==
  ASSUME ClientInv, UNCHANGED <<delivered, req, parent>>,
         OnDevice' \subseteq OnDevice \cup {NoToken},
         \A q \in Reqs : inbox'[q] \in Tokens => inbox'[q] = inbox[q]
  PROVE  OnlyDelivered' /\ Unspent'
<1>1. OnDevice' \subseteq delivered \cup {NoToken}
  BY DEF ClientInv, OnlyDelivered
<1>2. \A q \in Reqs : inbox'[q] \in Tokens => inbox'[q] = inbox[q] /\ inbox[q] \notin OnDevice'
  BY NoneAssumption DEF ClientInv, Unspent
<1> QED
  BY <1>1, <1>2, UnspentOnDevice

\* A step of the device that takes up the answer of slot r.
LEMMA UnspentTaken ==
  ASSUME ClientInv, NEW r \in Reqs, UNCHANGED <<delivered, req, parent>>,
         inbox[r] \in Tokens, inbox' = [inbox EXCEPT ![r] = NoAnswer],
         OnDevice' \subseteq OnDevice \cup {inbox[r], NoToken}
  PROVE  OnlyDelivered' /\ Unspent'
<1>1. inbox \in [Reqs -> Tokens \cup {NoAnswer, Refusal}]
  BY DEF ClientInv, ClientTypeOK
<1>2. OnDevice' \subseteq delivered \cup {NoToken}
  BY DEF ClientInv, OnlyDelivered, Unspent
<1>3. \A q \in Reqs : inbox'[q] \in Tokens => inbox'[q] = inbox[q] /\ inbox[q] \notin OnDevice'
  BY <1>1, NoneAssumption, AnswerAssumption DEF ClientInv, Unspent
<1> QED
  BY <1>2, <1>3, UnspentOnDevice

LEMMA UnspentCall ==
  ASSUME ClientInv, NEW c \in Calls, StartCall(c) \/ CallStep(c)
  PROVE  OnlyDelivered' /\ Unspent'
<1> USE DEF server, rows
<1>0. /\ c \in Reqs /\ sent \in [Calls -> Tokens \cup {NoToken}]
      /\ inbox \in [Reqs -> Tokens \cup {NoAnswer, Refusal}]
  BY SlotAssumption DEF ClientInv, ClientTypeOK
<1>1. CASE StartCall(c)
  BY <1>0, <1>1, UnspentMoved DEF StartCall, OnDevice
<1>2. CASE CallDone(c) \/ RetryDone(c)
  BY <1>0, <1>2, UnspentMoved DEF CallDone, RetryDone, EndCall, OnDevice
<1>3. CASE ClearStored(c)
  BY <1>0, <1>3, UnspentMoved DEF ClearStored, EndCall, OnDevice
<1>4. CASE Unauthorized(c)
  <2>1. sent' = [sent EXCEPT ![c] = cache] /\ UNCHANGED <<cache, stored, held>>
        /\ (inbox' = inbox \/ inbox' = [inbox EXCEPT ![c] = Refusal])
        /\ (BeginRefresh(c, cache) \/ UNCHANGED server)
    BY <1>4 DEF Unauthorized
  <2>2. OnDevice' \subseteq OnDevice
    BY <1>0, <2>1 DEF OnDevice
  <2>3. \A q \in Reqs : inbox'[q] \in Tokens => inbox'[q] = inbox[q]
    BY <1>0, <2>1, AnswerAssumption
  <2>4. CASE BeginRefresh(c, cache)
    BY <1>0, <2>2, <2>3, <2>4, BeginExchange, UnspentBegun DEF ClientInv, OnDevice
  <2>5. CASE UNCHANGED server
    BY <2>2, <2>3, <2>5, UnspentMoved
  <2> QED
    BY <2>1, <2>4, <2>5
<1>5. CASE Refreshed(c)
  <2>1. OnDevice' \subseteq OnDevice \cup {inbox[c], NoToken}
    BY <1>0, <1>5 DEF Refreshed, OnDevice
  <2> QED
    BY <1>0, <1>5, <2>1, UnspentTaken DEF Refreshed
<1>6. CASE RefreshFailed(c) \/ RetryFailed(c)
  <2>1. GiveUp(c)
    BY <1>6 DEF RefreshFailed, RetryFailed
  <2> QED
    BY <1>0, <2>1, UnspentMoved, AnswerAssumption DEF GiveUp, OnDevice
<1>7. CASE ReadStored(c)
  BY <1>7, UnspentMoved DEF ReadStored, OnDevice
<1>8. CASE WriteStored(c)
  BY <1>8, UnspentMoved DEF WriteStored, OnDevice
<1> QED
  BY <1>1, <1>2, <1>3, <1>4, <1>5, <1>6, <1>7, <1>8 DEF CallStep

LEMMA UnspentAuth ==
  ASSUME ClientInv, (\E u \in Users : SignIn(u)) \/ SignOut \/ AuthStep \/ Restart
  PROVE  OnlyDelivered' /\ Unspent'
<1> USE DEF server, rows
<1>0. /\ Auth \in Reqs /\ sent \in [Calls -> Tokens \cup {NoToken}]
      /\ inbox \in [Reqs -> Tokens \cup {NoAnswer, Refusal}]
  BY SlotAssumption DEF ClientInv, ClientTypeOK
<1>1. ASSUME NEW u \in Users, SignIn(u) PROVE OnlyDelivered' /\ Unspent'
  BY <1>0, <1>1, BeginSession, UnspentBegun DEF SignIn, ClientInv, OnDevice
<1>2. CASE SignInAnswered
  <2>1. CASE inbox[Auth] = Refusal
    BY <1>0, <1>2, <2>1, UnspentMoved, AnswerAssumption DEF SignInAnswered, OnDevice
  <2>2. CASE inbox[Auth] # Refusal
    BY <1>0, <1>2, <2>2, UnspentTaken DEF SignInAnswered, OnDevice
  <2> QED
    BY <2>1, <2>2
<1>3. CASE SignInStored \/ Restored
  BY <1>3, UnspentMoved DEF SignInStored, Restored, OnDevice
<1>4. CASE SignOut
  BY <1>4, UnspentMoved DEF SignOut, OnDevice
<1>5. CASE SignOutDone
  <2>1. /\ held' = NoToken /\ stored' \in {stored, NoToken} /\ UNCHANGED <<cache, sent, inbox>>
        /\ BeginLogout(Auth, held) \/ UNCHANGED server
    BY <1>5 DEF SignOutDone
  <2>2. OnDevice' \subseteq OnDevice \cup {NoToken}
    BY <2>1 DEF OnDevice
  <2>3. CASE BeginLogout(Auth, held)
    BY <1>0, <2>1, <2>2, <2>3, BeginSignOut, UnspentBegun DEF ClientInv, OnDevice
  <2>4. CASE UNCHANGED server
    BY <2>1, <2>2, <2>4, UnspentMoved
  <2> QED
    BY <2>1, <2>3, <2>4
<1>6. CASE Restart
  BY <1>6, UnspentMoved, AnswerAssumption DEF Restart, OnDevice
<1>7. CASE SignInLost
  BY <1>0, <1>7, UnspentMoved, AnswerAssumption DEF SignInLost, OnDevice
<1> QED
  BY <1>1, <1>2, <1>3, <1>4, <1>5, <1>6, <1>7 DEF AuthStep

\* A call cannot begin to renew before the cache is set.
LEMMA StartingStep ==
  ASSUME ClientInv, ClientNext
  PROVE  Starting'
<1> USE DEF Starting, Renewing
<1>1. CASE Restart
  BY <1>1 DEF Restart
<1>2. ASSUME NEW u \in Users, SignIn(u) PROVE Starting'
  BY <1>2 DEF SignIn
<1>3. CASE SignOut \/ AuthStep
  BY <1>3 DEF SignOut, AuthStep, SignInAnswered, SignInLost, SignInStored, SignOutDone, Restored
<1>4. ASSUME NEW c \in Calls, StartCall(c) \/ CallStep(c) PROVE Starting'
  <2> SUFFICES ASSUME auth' = "restore" PROVE cache' = NoToken /\ \A d \in Calls : ~Renewing(d)'
    OBVIOUS
  <2>1. auth' = auth
    BY <1>4 DEF StartCall, CallStep, CallDone, Unauthorized, Refreshed, RefreshFailed, GiveUp,
       ReadStored, WriteStored, RetryDone, RetryFailed, ClearStored
  <2>2. cache = NoToken /\ \A d \in Calls : ~Renewing(d)
    BY <2>1 DEF ClientInv
  <2>3. StartCall(c) \/ CallDone(c)
    BY <1>4, <2>2 DEF CallStep, Unauthorized, Refreshed, RefreshFailed, GiveUp, ReadStored,
       WriteStored, RetryDone, RetryFailed, ClearStored
  <2>4. call \in [Calls -> {"idle", "sent", "refresh", "reading", "writing", "retry", "clearing"}]
    BY DEF ClientInv, ClientTypeOK
  <2> QED
    BY <2>2, <2>3, <2>4 DEF StartCall, CallDone, EndCall
<1>5. ASSUME UNCHANGED <<auth, cache, call>> PROVE Starting'
  BY <1>5 DEF ClientInv
<1> QED
  BY <1>1, <1>2, <1>3, <1>4, <1>5 DEF ClientNext, ServerStep, ServerAbort, AccessExpires,
     RefreshExpires

-----------------------------------------------------------------------------
LEMMA ClientInitInv == ClientInit => ClientInv
<1> SUFFICES ASSUME ClientInit PROVE ClientInv
  OBVIOUS
<1>1. Init /\ delivered = {}
  BY DEF ClientInit, Init
<1>2. ClientTypeOK
  BY FaultsAssumption DEF ClientInit, ClientTypeOK
<1>3. OnlyDelivered /\ Unspent
  <2>1. /\ \A q \in Reqs : req[q].old = NoToken /\ inbox[q] = NoAnswer
        /\ \A t \in Tokens : parent[t] = NoToken
        /\ OnDevice \subseteq {NoToken}
    BY <1>1 DEF ClientInit, Init, Idle, OnDevice
  <2> QED
    BY <1>1, <2>1, AnswerAssumption DEF OnlyDelivered, Unspent
<1>4. Starting
  BY DEF ClientInit, Starting
<1> QED
  BY <1>1, <1>2, <1>3, <1>4, InitInv, OwingInit DEF ClientInv

LEMMA ClientNextInv == ClientInv /\ [ClientNext]_allVars => ClientInv'
<1> SUFFICES ASSUME ClientInv, [ClientNext]_allVars PROVE ClientInv'
  OBVIOUS
<1>1. CASE ClientNext
  <2>1. IInv'
    BY <1>1, ServerPart, NextInv DEF ClientInv
  <2>2. ClientTypeOK'
    BY <1>1, ClientTypeStep
  <2>3. Owing'
    BY <1>1, OwingDevice, OwingServer DEF ClientNext
  <2>4. OnlyDelivered' /\ Unspent'
    <3>1. ASSUME NEW t \in Tokens, AccessExpires(t) \/ RefreshExpires(t)
          PROVE  OnlyDelivered' /\ Unspent'
      BY <3>1, UnspentMoved DEF AccessExpires, RefreshExpires, Expire, OnDevice, server, rows
    <3> QED
      BY <1>1, <3>1, UnspentAuth, UnspentCall, UnspentServer DEF ClientNext
  <2>5. Starting'
    BY <1>1, StartingStep
  <2> QED
    BY <2>1, <2>2, <2>3, <2>4, <2>5 DEF ClientInv
<1>2. CASE UNCHANGED allVars
  <2>1. IInv'
    BY <1>2, NextInv DEF ClientInv, allVars, server, vars
  <2>2. ClientTypeOK' /\ Owing'
    BY <1>2 DEF ClientInv, allVars, server, client, ClientTypeOK, Owing, Awaited
  <2>3. OnlyDelivered' /\ Unspent'
    BY <1>2, UnspentMoved DEF allVars, server, client, OnDevice
  <2>4. Starting'
    BY <1>2 DEF ClientInv, allVars, client, Starting, Renewing
  <2> QED
    BY <2>1, <2>2, <2>3, <2>4 DEF ClientInv
<1> QED
  BY <1>1, <1>2

LEMMA ClientInvariance == ClientSpec => []ClientInv
BY ClientInitInv, ClientNextInv, PTL DEF ClientSpec

\* Whatever the device does, crashes and lost answers included, the server sees
\* a behaviour of AuthSessions: what is proved of the tables and the reuse
\* detection there holds in the composition (api_client.dart:210-263).
THEOREM DeviceIsAClient == ClientSpec => Spec
<1>1. ClientInit => Init
  BY DEF ClientInit
<1>2. ClientInv /\ [ClientNext]_allVars => [Next]_vars
  BY ServerPart DEF ClientInv, allVars, server, vars
<1> QED
  BY <1>1, <1>2, ClientInvariance, PTL DEF ClientSpec, Spec

\* Every variable of the device keeps its type.
THEOREM ClientTypeCorrect == ClientSpec => []ClientTypeOK
<1>1. ClientInv => ClientTypeOK
  BY DEF ClientInv
<1> QED
  BY <1>1, ClientInvariance, PTL

\* No sign-in and no API call waits for an answer that will not come
\* (api_client.dart:238, auth_controller.dart:58).
THEOREM NobodyWaitsInVain == ClientSpec => []AnswerWillCome
<1>1. ClientInv => AnswerWillCome
  BY DEF ClientInv, Owing, AnswerWillCome
<1> QED
  BY <1>1, ClientInvariance, PTL

\* An answer taken up late never puts an exchanged token back into the cache
\* (api_client.dart:245, auth_controller.dart:92-97).
THEOREM CacheNeverReverts == ClientSpec => CacheMovesForward
<1>1. ASSUME ClientInv, ClientNext, faults' = faults, cache # NoToken,
             cache' \notin {NoToken, cache}
      PROVE  parent[cache] # cache'
  <2>1. \E r \in Reqs : inbox[r] \in Tokens /\ cache' = inbox[r]
    <3>1. /\ Auth \in Reqs /\ Calls \subseteq Reqs
          /\ inbox \in [Reqs -> Tokens \cup {NoAnswer, Refusal}] /\ faults \in 0..Faults
      BY <1>1, SlotAssumption DEF ClientInv, ClientTypeOK
    <3>2. ~Restart
      BY <1>1, <3>1, FaultsAssumption DEF Restart, Fault
    <3>3. CASE SignInAnswered
      BY <1>1, <3>1, <3>3 DEF SignInAnswered
    <3>4. ASSUME NEW c \in Calls, Refreshed(c)
          PROVE  \E r \in Reqs : inbox[r] \in Tokens /\ cache' = inbox[r]
      BY <3>1, <3>4 DEF Refreshed
    <3>5. ASSUME NEW c \in Calls, StartCall(c) \/ (CallStep(c) /\ ~Refreshed(c)) PROVE FALSE
      BY <1>1, <3>5 DEF StartCall, CallStep, CallDone, Unauthorized, RefreshFailed, GiveUp,
         ReadStored, WriteStored, RetryDone, RetryFailed, ClearStored
    <3>6. ~Restored
      BY <1>1 DEF Restored, ClientInv, Starting
    <3> QED
      BY <1>1, <3>2, <3>3, <3>4, <3>5, <3>6 DEF ClientNext, AuthStep, SignIn, SignOut, SignInLost,
         SignInStored, SignOutDone, ServerStep, ServerAbort, AccessExpires, RefreshExpires
  <2>2. cache \in Tokens
    BY <1>1 DEF ClientInv, ClientTypeOK
  <2> QED
    BY <1>1, <2>1, <2>2 DEF ClientInv, Unspent
<1>2. ClientInv /\ [ClientNext]_allVars =>
        [faults' = faults /\ cache # NoToken /\ cache' \notin {NoToken, cache}
           => parent[cache] # cache']_allVars
  BY <1>1
<1> QED
  BY <1>2, ClientInvariance, PTL DEF ClientSpec, CacheMovesForward
=============================================================================
