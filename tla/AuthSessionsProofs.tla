------------------------- MODULE AuthSessionsProofs -------------------------
(***************************************************************************)
(* The safety of AuthSessions for any set of accounts, tokens and          *)
(* concurrent requests.  The invariants of the tables are not inductive by *)
(* themselves: what a commit will publish depends on what its request read *)
(* and inserted before, so IInv adds what is known of open requests.       *)
(***************************************************************************)
EXTENDS AuthSessions, FiniteSetTheorems, TLAPS

\* The token a request is about to publish is nobody else's, not stored yet,
\* and no stored row mentions it.
NewIsPrivate ==
  /\ \A r \in Reqs : req[r].new # NoToken => req[r].new \in minted \ issued
  /\ \A q, r \in Reqs : q # r /\ req[q].new = req[r].new => req[r].new = NoToken
  /\ \A t \in Tokens \ issued : parent[t] = NoToken /\ next[t] = NoToken

OwnerKnown == \A t \in issued : owner[t] \in Users

\* What the operation and the step of a request say of its local variables.
LocalsOK(q) ==
  /\ q.pc # "idle" => q.user \in Users /\ q.op # "none"
  /\ q.op = "logout" => q.new = NoToken
  /\ q.op \in {"register", "login"} => q.old = NoToken
  /\ q.op \in {"refresh", "logout"} => q.old \in issued /\ owner[q.old] = q.user
  /\ q.pc \in {"retire", "respond", "commit"} /\ q.op # "logout" => q.new # NoToken
  /\ q.op = "logout" => q.pc \in {"retire", "commit"}
  /\ q.pc = "retire" => q.op \in {"refresh", "logout"}

\* A sweep is about to cover what its request saw, all of one account.
SawOK(q) ==
  /\ q.pc \notin {"sweep", "sweeping"} => q.saw = {}
  /\ q.pc = "sweep" => q.saw \subseteq OwnedBy(q.user)
  /\ q.pc = "sweeping" => q.saw \subseteq revoked \cup q.targets
  /\ q.targets \subseteq OwnedBy(q.user)
  /\ q.pc # "sweeping" => q.locked = {}
  /\ q.locked \subseteq q.targets /\ q.at \in q.targets \cup {NoToken}

RequestsOK == \A r \in Reqs : LocalsOK(req[r]) /\ SawOK(req[r])

IInv == /\ TypeOK /\ NewIsPrivate /\ OwnerKnown /\ RequestsOK
        /\ ChainSound /\ ReuseKillsAll

-----------------------------------------------------------------------------
\* A step that moves one request and leaves the tables and the pool alone keeps
\* the invariant if the request's new locals are right and it draws no token.
LEMMA RequestStep ==
  ASSUME IInv, NEW r \in Reqs, NEW q \in Request,
         req' = [req EXCEPT ![r] = q],
         UNCHANGED <<account, rows, expired, minted, accused>>,
         delivered' \subseteq minted,
         q.new \in {NoToken, req[r].new},
         LocalsOK(q), SawOK(q)
  PROVE  IInv'
<1> USE DEF IInv, rows
<1>1. TypeOK'
  BY DEF TypeOK
<1>2. \A p \in Reqs : req'[p] = IF p = r THEN q ELSE req[p]
  BY DEF TypeOK
<1>3. NewIsPrivate'
  BY <1>2 DEF NewIsPrivate
<1>4. RequestsOK'
  BY <1>2 DEF RequestsOK, LocalsOK, SawOK, OwnedBy
<1>5. OwnerKnown' /\ ChainSound' /\ ReuseKillsAll'
  BY DEF OwnerKnown, ChainSound, ReuseKillsAll
<1> QED
  BY <1>1, <1>3, <1>4, <1>5

LEMMA InitInv == Init => IInv
BY NoneAssumption DEF Init, IInv, TypeOK, Idle, Request, Steps, Ops, NewIsPrivate,
   RequestsOK, LocalsOK, SawOK, OwnerKnown, ChainSound, ReuseKillsAll

LEMMA FinishInv ==
  ASSUME IInv, NEW r \in Reqs, Finish(r),
         UNCHANGED <<account, rows, expired, minted, accused, delivered>>
  PROVE  IInv'
<1>1. Idle \in Request /\ LocalsOK(Idle) /\ SawOK(Idle) /\ Idle.new = NoToken
  BY DEF Idle, Request, Steps, Ops, LocalsOK, SawOK
<1>2. delivered' \subseteq minted
  BY DEF IInv, TypeOK
<1> QED
  BY <1>1, <1>2, RequestStep DEF Finish

LEMMA GotoInv ==
  ASSUME IInv, NEW r \in Reqs, NEW step \in Steps, Goto(r, step),
         req[r].pc \notin {"idle", "sweep", "sweeping"},
         step \notin {"idle", "sweep", "sweeping", "retire"},
         req[r].op = "logout" => step = "commit",
         step \in {"respond", "commit"} /\ req[r].op # "logout"
           => req[r].new # NoToken,
         UNCHANGED <<account, rows, expired, minted, accused>>,
         delivered' \subseteq minted
  PROVE  IInv'
<1> DEFINE q == [req[r] EXCEPT !.pc = step]
<1>1. q \in Request /\ req[r] \in Request
  BY DEF IInv, TypeOK, Request
<1>2. req' = [req EXCEPT ![r] = q]
  BY DEF Goto
<1>3. LocalsOK(q) /\ SawOK(q)
  BY <1>1 DEF IInv, RequestsOK, LocalsOK, SawOK, Request
<1>4. q.new = req[r].new
  BY <1>1 DEF Request
<1> QED
  BY <1>1, <1>2, <1>3, <1>4, RequestStep

LEMMA BeginInv ==
  ASSUME IInv, NEW r \in Reqs, Begin(r)
  PROVE  IInv'
<1> USE DEF IInv
<1>d. delivered \subseteq minted
  BY DEF TypeOK
<1>1. ASSUME NEW u \in Users, BeginRegister(r, u) PROVE IInv'
  <2> DEFINE q == [Idle EXCEPT !.pc = "insertUser", !.op = "register", !.user = u]
  <2>1. q \in Request /\ LocalsOK(q) /\ SawOK(q) /\ q.new = NoToken
    BY DEF Idle, Request, Steps, Ops, LocalsOK, SawOK
  <2> QED
    BY <1>1, <1>d, <2>1, RequestStep DEF BeginRegister
<1>2. ASSUME NEW u \in Users, BeginLogin(r, u) PROVE IInv'
  <2> DEFINE q == [Idle EXCEPT !.pc = "touch", !.op = "login", !.user = u]
  <2>1. q \in Request /\ LocalsOK(q) /\ SawOK(q) /\ q.new = NoToken
    BY DEF Idle, Request, Steps, Ops, LocalsOK, SawOK
  <2> QED
    BY <1>2, <1>d, <2>1, RequestStep DEF BeginLogin
<1>3. ASSUME NEW t \in Tokens, BeginRefresh(r, t) PROVE IInv'
  <2> DEFINE saw == IF t \in revoked THEN OwnedBy(owner[t])
                    ELSE {}
             q == [Idle EXCEPT !.pc = Verdict(t),
                               !.op = "refresh", !.user = owner[t], !.old = t,
                               !.saw = saw]
  <2>1. t \in issued /\ owner[t] \in Users
    BY <1>3 DEF BeginRefresh, Verdict, OwnerKnown
  <2>2. saw \subseteq Tokens
    BY DEF OwnedBy, TypeOK
  <2>3. q \in Request
    BY <2>1, <2>2 DEF Idle, Request, Steps, Ops, Verdict
  <2>4. LocalsOK(q) /\ SawOK(q) /\ q.new = NoToken
    BY <2>1, <2>2 DEF Idle, LocalsOK, SawOK, Verdict
  <2>5. req' = [req EXCEPT ![r] = q]
    BY <1>3 DEF BeginRefresh, Verdict
  <2> QED
    BY <1>3, <1>d, <2>3, <2>4, <2>5, RequestStep DEF BeginRefresh, Verdict
<1>4. ASSUME NEW t \in Tokens, BeginLogout(r, t) PROVE IInv'
  <2> DEFINE q == [Idle EXCEPT !.pc = "retire", !.op = "logout",
                               !.user = owner[t], !.old = t]
  <2>1. t \in issued /\ owner[t] \in Users
    BY <1>4 DEF BeginLogout, OwnerKnown
  <2>2. q \in Request /\ LocalsOK(q) /\ SawOK(q) /\ q.new = NoToken
    BY <2>1 DEF Idle, Request, Steps, Ops, LocalsOK, SawOK
  <2> QED
    BY <1>4, <1>d, <2>2, RequestStep DEF BeginLogout
<1> QED
  BY <1>1, <1>2, <1>3, <1>4 DEF Begin

LEMMA IssueInv ==
  ASSUME IInv, NEW r \in Reqs, Issue(r)
  PROVE  IInv'
<1> USE DEF IInv, rows
<1>1. Fresh \in Tokens \ minted
  BY DEF Issue, Ready, Fresh, TypeOK
<1>2. req' = [req EXCEPT ![r].new = Fresh,
                ![r].pc = IF req[r].op = "refresh" THEN "retire" ELSE "respond"]
      /\ minted' = minted \cup {Fresh} /\ req[r].pc = "issue"
      /\ UNCHANGED <<account, rows, expired, delivered, accused>>
  BY DEF Issue
<1>3. req[r] \in Request
  BY DEF TypeOK
<1>4. TypeOK'
  BY <1>1, <1>2, <1>3 DEF TypeOK, Request, Steps
<1>5. NewIsPrivate'
  BY <1>1, <1>2, <1>3, NoneAssumption DEF TypeOK, NewIsPrivate, Request
<1>6. RequestsOK'
  <2>1. Fresh # NoToken
    BY <1>1, NoneAssumption
  <2>2. ASSUME NEW p \in Reqs PROVE LocalsOK(req[p])' /\ SawOK(req[p])'
    <3>1. CASE p = r
      BY <3>1, <2>1, <1>2, <1>3 DEF TypeOK, RequestsOK, LocalsOK, SawOK, Request
    <3>2. CASE p # r
      BY <3>2, <1>2 DEF TypeOK, RequestsOK, LocalsOK, SawOK, OwnedBy
    <3> QED
      BY <3>1, <3>2
  <2> QED
    BY <2>2 DEF RequestsOK
<1>7. OwnerKnown' /\ ChainSound' /\ ReuseKillsAll'
  BY <1>2 DEF OwnerKnown, ChainSound, ReuseKillsAll
<1> QED
  BY <1>4, <1>5, <1>6, <1>7

LEMMA CommitInv ==
  ASSUME IInv, NEW r \in Reqs, Commit(r)
  PROVE  IInv'
<1> USE DEF IInv
<1> DEFINE q    == req[r]
           kept == IF q.new = NoToken THEN {} ELSE {q.new}
           dead == IF q.old = NoToken THEN {} ELSE {q.old}
<1>1. /\ q.pc = "commit"
      /\ account' = IF q.op = "register"
                    THEN [account EXCEPT ![q.user] = "active"] ELSE account
      /\ issued' = issued \cup kept /\ revoked' = revoked \cup dead
      /\ owner' = [t \in Tokens |-> IF t \in kept THEN q.user ELSE owner[t]]
      /\ next' = [t \in Tokens |-> IF t \in dead /\ q.new # NoToken
                                    THEN q.new ELSE next[t]]
      /\ parent' = [t \in Tokens |-> IF t \in kept THEN q.old ELSE parent[t]]
      /\ req' = [req EXCEPT ![r] = Idle]
      /\ UNCHANGED <<expired, minted, delivered, accused>>
  BY DEF Commit, Finish, Kept, Dead
<1> HIDE DEF kept, dead
<1>2. q \in Request /\ LocalsOK(q) /\ SawOK(q)
  BY DEF TypeOK, RequestsOK
<1>3. q.user \in Users /\ q.saw = {} /\ q.op # "none"
  BY <1>1, <1>2 DEF LocalsOK, SawOK
<1>4. /\ kept \subseteq minted \ issued /\ dead \subseteq issued
      /\ \A t \in kept : t = q.new /\ t # NoToken
      /\ \A t \in dead : t = q.old /\ t # NoToken /\ owner[t] = q.user
      /\ q.old # NoToken => dead = {q.old}
      /\ q.new # NoToken => kept = {q.new}
  <2>1. q.new # NoToken => q.new \in minted \ issued
    BY DEF NewIsPrivate
  <2>2. q.old # NoToken => q.old \in issued /\ owner[q.old] = q.user
    BY <1>2, <1>3 DEF LocalsOK, Request, Ops
  <2> QED
    BY <2>1, <2>2 DEF kept, dead
<1>5. TypeOK'
  <2>1. account' \in [Users -> {"absent", "active", "inactive"}]
    BY <1>1, <1>3 DEF TypeOK
  <2>2. req' \in [Reqs -> Request]
    BY <1>1 DEF TypeOK, Idle, Request, Steps, Ops
  <2>3. /\ owner' \in [Tokens -> Users \cup {NoUser}]
        /\ next' \in [Tokens -> Tokens \cup {NoToken}]
        /\ parent' \in [Tokens -> Tokens \cup {NoToken}]
    BY <1>1, <1>2, <1>3 DEF TypeOK, Request
  <2> QED
    BY <1>1, <1>4, <2>1, <2>2, <2>3 DEF TypeOK
<1>6. NewIsPrivate'
  <2>1. \A p \in Reqs : req'[p] = IF p = r THEN Idle ELSE req[p]
    BY <1>1 DEF TypeOK
  <2>2. Idle.new = NoToken
    BY DEF Idle
  <2>3. \A p \in Reqs : req'[p].new # NoToken => req'[p].new \in minted' \ issued'
    BY <1>1, <1>4, <2>1, <2>2 DEF NewIsPrivate
  <2>4. \A p, s \in Reqs : p # s /\ req'[p].new = req'[s].new => req'[s].new = NoToken
    BY <2>1, <2>2 DEF NewIsPrivate
  <2>5. \A t \in Tokens \ issued' : parent'[t] = NoToken /\ next'[t] = NoToken
    BY <1>1, <1>4 DEF NewIsPrivate, TypeOK
  <2> QED
    BY <2>3, <2>4, <2>5 DEF NewIsPrivate
<1>7. OwnerKnown' /\ \A t \in issued : owner'[t] = owner[t]
  BY <1>1, <1>3, <1>4, <1>5 DEF OwnerKnown, TypeOK
<1>s. issued \subseteq issued'
  BY <1>1
<1>8. RequestsOK'
  <2>1. ASSUME NEW p \in Reqs, p # r PROVE LocalsOK(req[p])' /\ SawOK(req[p])'
    <3>1. req'[p] = req[p] /\ req[p] \in Request
      BY <1>1, <2>1 DEF TypeOK
    <3>2. LocalsOK(req[p])'
      <4>1. LocalsOK(req[p])
        BY DEF RequestsOK
      <4> QED
        BY <1>7, <1>s, <3>1, <4>1 DEF LocalsOK
    <3>3. SawOK(req[p])'
      <4>1. OwnedBy(req[p].user) \subseteq OwnedBy(req[p].user)'
        BY <1>1, <1>7, <3>1 DEF OwnedBy
      <4> QED
        BY <1>1, <3>1, <4>1 DEF RequestsOK, SawOK
    <3> QED
      BY <3>2, <3>3
  <2>2. LocalsOK(req[r])' /\ SawOK(req[r])'
    <3>1. req'[r] = Idle
      BY <1>1 DEF TypeOK
    <3> QED
      BY <3>1 DEF Idle, LocalsOK, SawOK
  <2> QED
    BY <2>1, <2>2 DEF RequestsOK
<1>9. ChainSound'
  <2> SUFFICES ASSUME NEW t \in issued'
               PROVE  /\ parent'[t] # NoToken =>
                           /\ parent'[t] \in revoked'
                           /\ owner'[parent'[t]] = owner'[t]
                      /\ next'[t] # NoToken =>
                           /\ t \in revoked' /\ next'[t] \in issued'
                           /\ parent'[next'[t]] = t
    BY DEF ChainSound
  <2>t. t \in Tokens
    BY <1>5 DEF TypeOK
  <2>1. CASE t \in kept
    <3>1. parent'[t] = q.old /\ owner'[t] = q.user /\ next'[t] = NoToken
      BY <1>1, <1>4, <2>1, <2>t DEF NewIsPrivate
    <3> QED
      BY <1>1, <1>4, <1>7, <3>1
  <2>2. CASE t \notin kept
    <3>1. t \in issued /\ parent'[t] = parent[t] /\ owner'[t] = owner[t]
      BY <1>1, <2>2, <2>t
    <3>2. parent[t] # NoToken => parent[t] \in revoked /\ owner[parent[t]] = owner[t]
                                 /\ parent[t] \in issued
      BY <3>1 DEF ChainSound, TypeOK
    <3>3. parent'[t] # NoToken => /\ parent'[t] \in revoked'
                                  /\ owner'[parent'[t]] = owner'[t]
      BY <1>1, <1>7, <3>1, <3>2
    <3>4. CASE t \in dead /\ q.new # NoToken
      <4>1. next'[t] = q.new /\ q.new \in kept /\ t = q.old
        BY <1>1, <1>4, <2>t, <3>4
      <4>2. parent'[q.new] = q.old
        BY <1>1, <1>4, <4>1 DEF TypeOK
      <4> QED
        BY <1>1, <3>3, <3>4, <4>1, <4>2
    <3>5. CASE ~(t \in dead /\ q.new # NoToken)
      <4>1. next'[t] = next[t]
        BY <1>1, <2>t, <3>5
      <4>2. next[t] # NoToken => t \in revoked /\ next[t] \in issued
                                 /\ parent[next[t]] = t
        BY <3>1 DEF ChainSound
      <4>3. next[t] # NoToken => parent'[next[t]] = parent[next[t]]
        BY <1>1, <1>4, <4>2 DEF TypeOK
      <4> QED
        BY <1>1, <3>3, <4>1, <4>2, <4>3
    <3> QED
      BY <3>4, <3>5
  <2> QED
    BY <2>1, <2>2
<1>10. ReuseKillsAll'
  BY <1>1 DEF ReuseKillsAll
<1> QED
  BY <1>5, <1>6, <1>7, <1>8, <1>9, <1>10

LEMMA SweepEndInv ==
  ASSUME IInv, NEW r \in Reqs, SweepEnd(r)
  PROVE  IInv'
<1> USE DEF IInv
<1>1. /\ req[r].pc = "sweeping" /\ revoked' = revoked \cup req[r].targets
      /\ accused' = accused \cup req[r].saw /\ req' = [req EXCEPT ![r] = Idle]
      /\ UNCHANGED <<account, issued, owner, next, parent, expired,
                     minted, delivered>>
  BY DEF SweepEnd, Finish
<1>2. req[r] \in Request /\ SawOK(req[r])
  BY DEF TypeOK, RequestsOK
<1>3. req[r].targets \subseteq issued /\ req[r].saw \subseteq revoked \cup req[r].targets
  BY <1>1, <1>2 DEF SawOK, OwnedBy
<1>4. TypeOK' /\ OwnerKnown'
  BY <1>1, <1>3 DEF TypeOK, OwnerKnown, Idle, Request, Steps, Ops
<1>5. \A p \in Reqs : req'[p] = IF p = r THEN Idle ELSE req[p]
  BY <1>1 DEF TypeOK
<1>6. NewIsPrivate'
  BY <1>1, <1>5 DEF NewIsPrivate, Idle
<1>7. RequestsOK'
  <2>1. LocalsOK(req[r])' /\ SawOK(req[r])'
    BY <1>5 DEF Idle, LocalsOK, SawOK
  <2>2. ASSUME NEW p \in Reqs, p # r PROVE LocalsOK(req[p])' /\ SawOK(req[p])'
    BY <1>1, <1>5, <2>2 DEF RequestsOK, LocalsOK, SawOK, OwnedBy
  <2> QED
    BY <2>1, <2>2 DEF RequestsOK
<1>8. ChainSound' /\ ReuseKillsAll'
  BY <1>1, <1>3 DEF ChainSound, ReuseKillsAll
<1> QED
  BY <1>4, <1>6, <1>7, <1>8

LEMMA ProgressInv ==
  ASSUME IInv, NEW r \in Reqs, Progress(r)
  PROVE  IInv'
<1> USE DEF IInv
<1>l. LocalsOK(req[r]) /\ SawOK(req[r]) /\ req[r] \in Request
  BY DEF RequestsOK, TypeOK
<1>d. delivered \subseteq minted
  BY DEF TypeOK
<1>1. CASE InsertUser(r)
  BY <1>1, <1>l, <1>d, FinishInv, GotoInv DEF InsertUser, LocalsOK, Steps
<1>2. CASE TouchLastLogin(r)
  BY <1>2, <1>l, <1>d, GotoInv DEF TouchLastLogin, LocalsOK, Steps
<1>3. CASE CheckUser(r)
  BY <1>3, <1>l, <1>d, FinishInv, GotoInv DEF CheckUser, LocalsOK, Steps
<1>4. CASE Issue(r)
  BY <1>4, IssueInv
<1>5. CASE Retire(r)
  <2>1. req[r].pc = "retire" /\ (req[r].op # "logout" => req[r].new # NoToken)
    BY <1>5, <1>l DEF Retire, LocalsOK
  <2> QED
    BY <1>5, <1>d, <2>1, GotoInv DEF Retire, Steps
<1>6. CASE Respond(r)
  <2>1. req[r].pc = "respond" /\ req[r].op # "logout"
    BY <1>6, <1>l DEF Respond, LocalsOK
  <2>2. req[r].new # NoToken
    BY <1>l, <2>1 DEF LocalsOK
  <2>3. delivered' \subseteq minted
    BY <1>6, <1>d, <2>2 DEF Respond, NewIsPrivate
  <2>4. /\ Goto(r, "commit") /\ "commit" \in Steps
        /\ UNCHANGED <<account, rows, expired, minted, accused>>
    BY <1>6 DEF Respond, Steps
  <2> HIDE DEF IInv
  <2> QED
    BY <2>1, <2>2, <2>3, <2>4, GotoInv
<1>7. CASE Commit(r)
  BY <1>7, CommitInv
<1>8. CASE SweepStart(r)
  <2> DEFINE picked == OwnedBy(req[r].user) \ revoked
  <2>1. PICK t \in NextRow(picked) :
          req' = [req EXCEPT ![r].pc = "sweeping", ![r].targets = picked, ![r].at = t]
    BY <1>8 DEF SweepStart
  <2> DEFINE q == [req[r] EXCEPT !.pc = "sweeping", !.targets = picked, !.at = t]
  <2>2. /\ req[r].pc = "sweep" /\ req' = [req EXCEPT ![r] = q]
        /\ UNCHANGED <<account, rows, expired, minted, delivered, accused>>
    BY <1>8, <2>1 DEF SweepStart
  <2>3. picked \subseteq Tokens /\ t \in picked \cup {NoToken}
    BY <2>1 DEF OwnedBy, TypeOK, NextRow
  <2>4. q \in Request
    BY <1>l, <2>3 DEF Request, Steps
  <2>5. LocalsOK(q) /\ SawOK(q) /\ q.new = req[r].new
    <3>1. picked \subseteq OwnedBy(req[r].user) /\ OwnedBy(req[r].user) \subseteq revoked \cup picked
      OBVIOUS
    <3> HIDE DEF picked
    <3>2. /\ q.pc = "sweeping" /\ q.saw = req[r].saw /\ q.targets = picked /\ q.at = t
          /\ q.locked = req[r].locked /\ q.user = req[r].user /\ q.op = req[r].op
          /\ q.old = req[r].old /\ q.new = req[r].new
      BY <1>l DEF Request
    <3> HIDE DEF q
    <3>3. req[r].locked = {} /\ req[r].saw \subseteq OwnedBy(req[r].user)
      BY <1>l, <2>2 DEF SawOK
    <3>4. LocalsOK(q)
      BY <1>l, <2>2, <3>2 DEF LocalsOK
    <3>5. SawOK(q)
      BY <2>3, <3>1, <3>2, <3>3 DEF SawOK
    <3> QED
      BY <3>2, <3>4, <3>5
  <2> QED
    BY <1>d, <2>2, <2>4, <2>5, RequestStep
<1>9. CASE SweepRow(r)
  <2> DEFINE locked == req[r].locked \cup {req[r].at}
  <2>1. PICK t \in NextRow(req[r].targets \ locked) :
          req' = [req EXCEPT ![r].locked = locked, ![r].at = t]
    BY <1>9 DEF SweepRow
  <2> DEFINE q == [req[r] EXCEPT !.locked = locked, !.at = t]
  <2>2. /\ req[r].pc = "sweeping" /\ req' = [req EXCEPT ![r] = q] /\ req[r].at # NoToken
        /\ UNCHANGED <<account, rows, expired, minted, delivered, accused>>
    BY <1>9, <2>1 DEF SweepRow
  <2>3. locked \subseteq req[r].targets /\ t \in req[r].targets \cup {NoToken}
    BY <1>l, <2>1, <2>2 DEF NextRow, SawOK
  <2>4. q \in Request
    BY <1>l, <2>3 DEF Request
  <2>5. LocalsOK(q) /\ SawOK(q) /\ q.new = req[r].new
    BY <1>l, <2>2, <2>3 DEF Request, LocalsOK, SawOK
  <2> QED
    BY <1>d, <2>2, <2>4, <2>5, RequestStep
<1>10. CASE SweepEnd(r)
  BY <1>10, SweepEndInv
<1> QED
  BY <1>1, <1>2, <1>3, <1>4, <1>5, <1>6, <1>7, <1>8, <1>9, <1>10 DEF Progress

\* IInv is inductive.
LEMMA NextInv == IInv /\ [Next]_vars => IInv'
<1> SUFFICES ASSUME IInv, [Next]_vars PROVE IInv'
  OBVIOUS
<1> USE DEF IInv
<1>1. ASSUME NEW r \in Reqs, Begin(r) PROVE IInv'
  BY <1>1, BeginInv
<1>2. ASSUME NEW r \in Reqs, Progress(r) PROVE IInv'
  BY <1>2, ProgressInv
<1>3. ASSUME NEW r \in Reqs, Abort(r) PROVE IInv'
  BY <1>3, FinishInv DEF Abort
<1>4. ASSUME NEW t \in Tokens, Expire(t) PROVE IInv'
  BY <1>4 DEF Expire, rows, TypeOK, NewIsPrivate, OwnerKnown, RequestsOK,
     LocalsOK, SawOK, OwnedBy, ChainSound, ReuseKillsAll
<1>5. ASSUME NEW u \in Users, Deactivate(u) PROVE IInv'
  BY <1>5 DEF Deactivate, rows, TypeOK, NewIsPrivate, OwnerKnown, RequestsOK,
     LocalsOK, SawOK, OwnedBy, ChainSound, ReuseKillsAll
<1>6. CASE UNCHANGED vars
  BY <1>6 DEF vars, TypeOK, NewIsPrivate, OwnerKnown, RequestsOK,
     LocalsOK, SawOK, OwnedBy, ChainSound, ReuseKillsAll
<1> QED
  BY <1>1, <1>2, <1>3, <1>4, <1>5, <1>6 DEF Next

LEMMA Invariance == Spec => []IInv
BY InitInv, NextInv, PTL DEF Spec

-----------------------------------------------------------------------------
\* The tables and the open requests are well formed (AuthService, auth.py).
THEOREM TypeCorrect == Spec => []TypeOK
BY Invariance, PTL DEF IInv

\* Rotation is all or nothing and its chain is consistent (auth.py:145-155).
THEOREM RotationSound == Spec => []ChainSound
BY Invariance, PTL DEF IInv

\* What a reuse detection killed stays dead (auth.py:130-137).
THEOREM ReuseDetectionLasts == Spec => []ReuseKillsAll
BY Invariance, PTL DEF IInv

\* One step under IInv neither admits a request of an inactive account nor
\* gives it a token unless an admitted request is open.
LEMMA ClosedStep ==
  ASSUME IInv, [Next]_vars, NEW u \in Users, account[u] = "inactive"
  PROVE  /\ \A r \in Reqs : Admitted(r, u)' => Admitted(r, u)
         /\ (\A r \in Reqs : ~Admitted(r, u)) => OwnedBy(u)' = OwnedBy(u)
<1>t. TypeOK /\ \A r \in Reqs : LocalsOK(req[r])
  BY DEF IInv, RequestsOK
<1>1. ASSUME NEW r \in Reqs, Admitted(r, u)' PROVE Admitted(r, u)
  <2>1. ASSUME NEW q \in Reqs, Begin(q) PROVE Admitted(r, u)
    <3>1. CASE q = r
      <4>1. ASSUME NEW v \in Users, BeginRegister(q, v) \/ BeginLogin(q, v)
            PROVE  Admitted(r, u)
        BY <1>1, <1>t, <3>1, <4>1 DEF BeginRegister, BeginLogin, Admitted,
           TypeOK, Idle
      <4>2. ASSUME NEW t \in Tokens, BeginRefresh(q, t) PROVE Admitted(r, u)
        <5>1. req'[r].pc \in {"sweep", "checkUser"}
          BY <1>t, <3>1, <4>2 DEF BeginRefresh, Verdict, TypeOK, Idle
        <5> QED
          BY <1>1, <5>1 DEF Admitted
      <4>3. ASSUME NEW t \in Tokens, BeginLogout(q, t) PROVE Admitted(r, u)
        <5>1. req'[r].op = "logout"
          BY <1>t, <3>1, <4>3 DEF BeginLogout, TypeOK, Idle
        <5> QED
          BY <1>1, <5>1 DEF Admitted
      <4> QED
        BY <2>1, <4>1, <4>2, <4>3 DEF Begin
    <3>2. CASE q # r
      <4>1. req'[r] = req[r]
        BY <1>t, <2>1, <3>2 DEF Begin, BeginRegister, BeginLogin, BeginRefresh,
           BeginLogout, TypeOK
      <4> QED
        BY <1>1, <4>1 DEF Admitted
    <3> QED
      BY <3>1, <3>2
  <2>2. ASSUME NEW q \in Reqs, Progress(q) PROVE Admitted(r, u)
    <3>1. CASE q # r
      BY <1>1, <1>t, <2>2, <3>1 DEF Progress, InsertUser, TouchLastLogin,
         CheckUser, Issue, Retire, Respond, Commit, SweepStart, SweepRow, SweepEnd,
         Goto, Finish, Admitted, TypeOK
    <3>2. CASE q = r
      BY <1>1, <1>t, <2>2, <3>2 DEF Progress, InsertUser, TouchLastLogin,
         CheckUser, Issue, Retire, Respond, Commit, SweepStart, SweepRow, SweepEnd,
         Goto, Finish, Admitted, TypeOK, Idle, Request
    <3> QED
      BY <3>1, <3>2
  <2>3. ASSUME NEW q \in Reqs, Abort(q) PROVE Admitted(r, u)
    BY <1>1, <1>t, <2>3 DEF Abort, Finish, Admitted, TypeOK, Idle
  <2>4. CASE UNCHANGED req
    BY <1>1, <2>4 DEF Admitted
  <2> QED
    BY <2>1, <2>2, <2>3, <2>4 DEF Next, vars, Expire, Deactivate
<1>2. ASSUME \A r \in Reqs : ~Admitted(r, u) PROVE OwnedBy(u)' = OwnedBy(u)
  <2>1. ASSUME NEW r \in Reqs, Commit(r) PROVE OwnedBy(u)' = OwnedBy(u)
    <3>1. req[r].pc = "commit" /\ (req[r].op = "logout" => req[r].new = NoToken)
      BY <1>t, <2>1 DEF Commit, LocalsOK
    <3>2. CASE req[r].new = NoToken
      BY <1>t, <2>1, <3>2 DEF Commit, Kept, OwnedBy, TypeOK
    <3>3. CASE req[r].new # NoToken
      <4>1. req[r].user # u
        BY <1>2, <3>1, <3>3 DEF Admitted
      <4>2. req[r].new \notin issued
        BY <3>3 DEF IInv, NewIsPrivate
      <4>3. /\ issued' = issued \cup {req[r].new}
            /\ owner' = [t \in Tokens |-> IF t \in {req[r].new}
                                           THEN req[r].user ELSE owner[t]]
            /\ issued \subseteq Tokens /\ req[r].new \in Tokens
        BY <1>t, <2>1, <3>3 DEF Commit, Kept, TypeOK, Request
      <4> QED
        BY <4>1, <4>2, <4>3 DEF OwnedBy
    <3> QED
      BY <3>2, <3>3
  <2>2. CASE UNCHANGED <<issued, owner>>
    BY <2>2 DEF OwnedBy
  <2> QED
    BY <2>1, <2>2 DEF Next, vars, rows, Begin, BeginRegister, BeginLogin,
       BeginRefresh, BeginLogout, Progress, InsertUser, TouchLastLogin,
       CheckUser, Issue, Retire, Respond, SweepStart, SweepRow, SweepEnd, Abort, Expire,
       Deactivate
<1> QED
  BY <1>1, <1>2

\* A deactivated account runs dry (auth.py:104-109, 142-143).
THEOREM DeactivationRunsDry == Spec => DeactivationCloses
<1>1. IInv /\ [Next]_vars =>
        [\A u \in Users : account[u] = "inactive" =>
           /\ \A r \in Reqs : Admitted(r, u)' => Admitted(r, u)
           /\ (\A r \in Reqs : ~Admitted(r, u)) => OwnedBy(u)' = OwnedBy(u)]_vars
  BY ClosedStep
<1> QED
  BY <1>1, Invariance, PTL DEF Spec, DeactivationCloses

-----------------------------------------------------------------------------
(* Nobody waits for ever.  For a finite pool, which is the model's and not the *)
(* code's, every request that is to draw a token has one left.               *)

PoolLasts ==
  /\ IsFiniteSet(Tokens) /\ IsFiniteSet(Reqs)
  /\ Cardinality(minted) + Cardinality(Drawing) <= Cardinality(Tokens)

LEMMA PoolSizes ==
  ASSUME IInv, PoolLasts
  PROVE  /\ IsFiniteSet(minted) /\ IsFiniteSet(Drawing)
         /\ Cardinality(minted) \in Nat /\ Cardinality(Drawing) \in Nat
         /\ Cardinality(Tokens) \in Nat
<1>1. minted \in SUBSET Tokens /\ Drawing \in SUBSET Reqs
  BY DEF IInv, TypeOK, Drawing
<1> QED
  BY <1>1, FS_Subset, FS_CardinalityType DEF PoolLasts

\* A step that draws nothing, and begins nothing that will.
LEMMA PoolKept ==
  ASSUME IInv, PoolLasts, minted' = minted, Drawing' \subseteq Drawing
  PROVE  PoolLasts'
<1>1. /\ IsFiniteSet(Drawing) /\ Cardinality(minted) \in Nat /\ Cardinality(Drawing) \in Nat
      /\ Cardinality(Tokens) \in Nat
  BY PoolSizes
<1>2. Drawing' \in SUBSET Drawing
  OBVIOUS
<1>3. Cardinality(Drawing') <= Cardinality(Drawing) /\ Cardinality(Drawing') \in Nat
  BY <1>1, <1>2, FS_Subset, FS_CardinalityType
<1> QED
  BY <1>1, <1>3 DEF PoolLasts

LEMMA PoolBegin ==
  ASSUME IInv, PoolLasts, NEW r \in Reqs, Begin(r)
  PROVE  PoolLasts'
<1>1. req \in [Reqs -> Request] /\ minted' = minted
  BY DEF IInv, TypeOK, Begin, BeginRegister, BeginLogin, BeginRefresh, BeginLogout
<1>2. \A q \in Reqs \ {r} : req'[q] = req[q]
  BY <1>1 DEF Begin, BeginRegister, BeginLogin, BeginRefresh, BeginLogout
<1>3. CASE Room
  <2>1. /\ IsFiniteSet(Drawing) /\ Cardinality(minted) \in Nat /\ Cardinality(Drawing) \in Nat
        /\ Cardinality(Tokens) \in Nat
    BY PoolSizes
  <2>2. /\ IsFiniteSet(Drawing \cup {r})
        /\ Cardinality(Drawing \cup {r}) <= Cardinality(Drawing) + 1
        /\ Cardinality(Drawing \cup {r}) \in Nat
    <3>1. /\ IsFiniteSet(Drawing \cup {r})
          /\ \/ Cardinality(Drawing \cup {r}) = Cardinality(Drawing)
             \/ Cardinality(Drawing \cup {r}) = Cardinality(Drawing) + 1
      BY <2>1, FS_AddElement
    <3>2. Cardinality(Drawing \cup {r}) \in Nat
      BY <3>1, FS_CardinalityType
    <3> QED
      BY <2>1, <3>1, <3>2
  <2>3. Drawing' \in SUBSET (Drawing \cup {r})
    BY <1>2 DEF Drawing
  <2>4. Cardinality(Drawing') <= Cardinality(Drawing \cup {r}) /\ Cardinality(Drawing') \in Nat
    BY <2>2, <2>3, FS_Subset, FS_CardinalityType
  <2> QED
    BY <1>1, <1>3, <2>1, <2>2, <2>4 DEF Room, PoolLasts
<1>4. CASE ~Room
  <2>1. req'[r].pc \notin {"insertUser", "touch", "checkUser", "issue"}
    <3>1. ASSUME NEW t \in Tokens, BeginLogout(r, t)
          PROVE  req'[r].pc = "retire"
      BY <1>1, <3>1 DEF BeginLogout, Idle
    <3>2. ASSUME NEW t \in Tokens, t \in revoked, BeginRefresh(r, t)
          PROVE  req'[r].pc = "sweep"
      <4> DEFINE saw == IF Verdict(t) = "sweep" THEN OwnedBy(owner[t])
                        ELSE {}
                 begun == [Idle EXCEPT !.pc = Verdict(t), !.op = "refresh",
                                       !.user = owner[t], !.old = t, !.saw = saw]
      <4>1. req' = [req EXCEPT ![r] = begun]
        BY <3>2 DEF BeginRefresh
      <4>2. begun.pc = "sweep"
        BY <3>2 DEF Verdict, Idle
      <4> HIDE DEF begun
      <4> QED
        BY <1>1, <4>1, <4>2
    <3> QED
      BY <1>4, <3>1, <3>2 DEF Begin
  <2>2. Drawing' \subseteq Drawing
    BY <1>2, <2>1 DEF Drawing
  <2> QED
    BY <1>1, <2>2, PoolKept
<1> QED
  BY <1>3, <1>4

LEMMA PoolIssue ==
  ASSUME IInv, PoolLasts, NEW r \in Reqs, Issue(r)
  PROVE  PoolLasts'
<1>1. /\ IsFiniteSet(minted) /\ IsFiniteSet(Drawing)
      /\ Cardinality(minted) \in Nat /\ Cardinality(Drawing) \in Nat
      /\ Cardinality(Tokens) \in Nat
  BY PoolSizes
<1>2. Fresh \notin minted /\ minted' = minted \cup {Fresh}
  BY DEF Issue, Ready, Fresh, IInv, TypeOK
<1>3. Cardinality(minted') = Cardinality(minted) + 1
  BY <1>1, <1>2, FS_AddElement
<1>4. req[r].pc = "issue" /\ req'[r].pc \in {"retire", "respond"}
      /\ \A q \in Reqs \ {r} : req'[q] = req[q]
  BY DEF Issue, IInv, TypeOK, Request
<1>5. r \in Drawing /\ Drawing' = Drawing \ {r}
  BY <1>4 DEF Drawing
<1>6. Cardinality(Drawing') = Cardinality(Drawing) - 1
  BY <1>1, <1>5, FS_RemoveElement
<1> QED
  BY <1>1, <1>3, <1>6 DEF PoolLasts

LEMMA PoolStep == IInv /\ PoolLasts /\ [Next]_vars => PoolLasts'
<1> SUFFICES ASSUME IInv, PoolLasts, [Next]_vars PROVE PoolLasts'
  OBVIOUS
<1>0. req \in [Reqs -> Request]
  BY DEF IInv, TypeOK
<1>1. ASSUME NEW r \in Reqs, Progress(r) \/ Abort(r), ~Issue(r) PROVE PoolLasts'
  <2>1. minted' = minted
    BY <1>1 DEF Progress, Abort, InsertUser, TouchLastLogin, CheckUser, Retire, Respond, Commit,
       SweepStart, SweepRow, SweepEnd
  <2>2. \A q \in Reqs \ {r} : req'[q] = req[q]
    BY <1>0, <1>1 DEF Progress, Abort, InsertUser, TouchLastLogin, CheckUser, Retire, Respond,
       Commit, SweepStart, SweepRow, SweepEnd, Goto, Finish
  <2>3. r \in Drawing' => r \in Drawing
    <3>1. CASE Finish(r)
      BY <1>0, <3>1 DEF Finish, Idle, Drawing
    <3>2. CASE InsertUser(r) \/ TouchLastLogin(r) \/ CheckUser(r)
      BY <3>2 DEF InsertUser, TouchLastLogin, CheckUser, Drawing
    <3>3. CASE Retire(r) \/ Respond(r)
      BY <1>0, <3>3 DEF Retire, Respond, Goto, Drawing, Request
    <3>4. CASE SweepStart(r) \/ SweepRow(r)
      <4>1. req'[r].pc = "sweeping"
        BY <1>0, <3>4 DEF SweepStart, SweepRow, Request
      <4> QED
        BY <4>1 DEF Drawing
    <3> QED
      BY <1>1, <3>1, <3>2, <3>3, <3>4 DEF Progress, Abort, Commit, SweepEnd
  <2> QED
    BY <2>1, <2>2, <2>3, PoolKept DEF Drawing
<1>2. ASSUME UNCHANGED <<minted, req>> PROVE PoolLasts'
  BY <1>2, PoolKept DEF Drawing
<1> QED
  BY <1>1, <1>2, PoolBegin, PoolIssue DEF Next, Expire, Deactivate, vars

LEMMA PoolInit == IsFiniteSet(Tokens) /\ IsFiniteSet(Reqs) /\ Init => PoolLasts
<1> SUFFICES ASSUME IsFiniteSet(Tokens), IsFiniteSet(Reqs), Init PROVE PoolLasts
  OBVIOUS
<1>1. minted = {} /\ Drawing = {}
  BY DEF Init, Idle, Drawing
<1> QED
  BY <1>1, FS_EmptySet, FS_CardinalityType DEF PoolLasts

\* When nobody can go on, nobody is past its last lock or about to draw a token.
LEMMA NobodyPast ==
  ASSUME IInv, PoolLasts, \A q \in Reqs : ~Ready(q), NEW r \in Reqs, req[r].pc # "idle"
  PROVE  /\ \A q \in Reqs : req[q].pc \notin {"issue", "respond", "commit"}
         /\ \/ req[r].pc = "retire" /\ ~TokenFree(r, req[r].old)
            \/ req[r].pc = "sweeping" /\ req[r].at # NoToken /\ ~TokenFree(r, req[r].at)
<1>1. \A q \in Reqs : req[q].pc \notin {"respond", "commit"}
  BY DEF Ready
<1>2. ASSUME NEW q \in Reqs, req[q].pc = "issue" PROVE FALSE
  <2>1. Cardinality(Drawing) # 0
    BY <1>2, PoolSizes, FS_EmptySet DEF Drawing
  <2>2. minted # Tokens
    BY <2>1, PoolSizes DEF PoolLasts
  <2> QED
    BY <1>2, <2>2 DEF Ready
<1>3. \A u : UserFree(r, u)
  BY <1>1, <1>2 DEF UserFree, HoldsUser
<1>4. ~Ready(r)
  OBVIOUS
<1> QED
  BY <1>1, <1>2, <1>3, <1>4 DEF Ready

\* So the lock it waits for is one a sweep of the row's account keeps.
LEMMA StalledBySweep ==
  ASSUME IInv, PoolLasts, \A q \in Reqs : ~Ready(q), NEW r \in Reqs, req[r].pc # "idle"
  PROVE  \E q \in Reqs \ {r} : /\ req[q].pc = "sweeping" /\ req[q].user = req[r].user
                              /\ Wanted(r) \in req[q].locked
<1>1. \A q \in Reqs : LocalsOK(req[q]) /\ SawOK(req[q])
  BY DEF IInv, RequestsOK
<1>2. ~TokenFree(r, Wanted(r)) /\ Wanted(r) \in issued /\ owner[Wanted(r)] = req[r].user
  <2>1. CASE req[r].pc = "retire" /\ ~TokenFree(r, req[r].old)
    BY <1>1, <2>1 DEF Wanted, LocalsOK
  <2>2. CASE req[r].pc = "sweeping" /\ req[r].at # NoToken /\ ~TokenFree(r, req[r].at)
    BY <1>1, <2>2 DEF Wanted, SawOK, OwnedBy
  <2> QED
    BY <2>1, <2>2, NobodyPast
<1>3. PICK q \in Reqs \ {r} : req[q].pc = "sweeping" /\ Wanted(r) \in req[q].locked
  BY <1>2, NobodyPast DEF TokenFree, HoldsToken
<1>4. req[q].user = owner[Wanted(r)]
  BY <1>1, <1>3 DEF SawOK, OwnedBy
<1> QED
  BY <1>2, <1>3, <1>4

\* Whoever is stuck is stuck on a sweep of its own account, however many requests
\* overlap (refresh_tokens.py:54, :64, users.py:45).
THEOREM OnlySweepsStall ==
  IsFiniteSet(Tokens) /\ IsFiniteSet(Reqs) /\ Spec => []StallsAreSweeps
<1>1. IInv /\ PoolLasts => StallsAreSweeps
  BY StalledBySweep DEF StallsAreSweeps
<1> QED
  BY <1>1, PoolInit, PoolStep, Invariance, PTL DEF Spec

\* With at most one reuse detection of each account under way, some open request
\* can always go on.
COROLLARY NoStallWithoutRivals ==
  ASSUME IInv, PoolLasts, NEW p \in Reqs, req[p].pc # "idle",
         \A q, r \in Reqs : /\ req[q].pc = "sweeping" /\ req[r].pc = "sweeping"
                            /\ req[q].user = req[r].user  => q = r
  PROVE  \E r \in Reqs : Ready(r)
<1> SUFFICES ASSUME \A r \in Reqs : ~Ready(r) PROVE FALSE
  OBVIOUS
<1>1. PICK q \in Reqs : req[q].pc = "sweeping"
  BY StalledBySweep
<1>2. PICK r \in Reqs \ {q} : req[r].pc = "sweeping" /\ req[r].user = req[q].user
  BY <1>1, StalledBySweep
<1> QED
  BY <1>1, <1>2

-----------------------------------------------------------------------------
(* What the service promises.  Each step is one of Sessions, or invisible.   *)

LEMMA RefineInit == Init => Promise!Init
<1> SUFFICES ASSUME Init PROVE Promise!Init
  OBVIOUS
<1>1. Live = {} /\ issued \ Live = {}
  BY DEF Init, Live
<1>2. \A r \in Reqs : Claimed(r) = [user |-> NoUser, old |-> NoToken]
  BY DEF Init, Idle, Claimed, Entitled
<1> QED
  BY <1>1, <1>2 DEF Init, Promise!Init, Promise!None

\* A step of one request moves one claim.
LEMMA OneClaim ==
  ASSUME NEW r \in Reqs, \A q \in Reqs \ {r} : req'[q] = req[q]
  PROVE  [q \in Reqs |-> Claimed(q)]'
           = [[q \in Reqs |-> Claimed(q)] EXCEPT ![r] = Claimed(r)']
<1>1. \A q \in Reqs \ {r} : Claimed(q)' = Claimed(q)
  BY DEF Claimed, Entitled
<1> QED
  BY <1>1

LEMMA Unseen ==
  ASSUME NEW r \in Reqs, \A q \in Reqs \ {r} : req'[q] = req[q],
         Claimed(r)' = Claimed(r), UNCHANGED <<issued, revoked, expired, owner>>
  PROVE  UNCHANGED Promise!vars
<1>1. [q \in Reqs |-> Claimed(q)]' = [q \in Reqs |-> Claimed(q)]
  BY OneClaim
<1>2. Live' = Live
  BY DEF Live
<1> QED
  BY <1>1, <1>2 DEF Promise!vars

\* A request that ends without effect gives up its claim, if it had one.
LEMMA ClaimDropped ==
  ASSUME IInv, NEW r \in Reqs, Finish(r), UNCHANGED <<issued, revoked, expired, owner>>
  PROVE  Promise!GiveUp(r) \/ UNCHANGED Promise!vars
<1>1. \A q \in Reqs : req'[q] = IF q = r THEN Idle ELSE req[q]
  BY DEF Finish, IInv, TypeOK
<1>2. Claimed(r)' = [user |-> NoUser, old |-> NoToken]
  BY <1>1 DEF Claimed, Entitled, Idle
<1>3. CASE Claimed(r) = [user |-> NoUser, old |-> NoToken]
  BY <1>1, <1>2, <1>3, Unseen
<1>4. CASE Claimed(r) # [user |-> NoUser, old |-> NoToken]
  <2>1. [q \in Reqs |-> Claimed(q)]'
          = [[q \in Reqs |-> Claimed(q)] EXCEPT ![r] = [user |-> NoUser, old |-> NoToken]]
    BY <1>1, <1>2, OneClaim
  <2>2. Live' = Live
    BY DEF Live
  <2> QED
    BY <1>4, <2>1, <2>2 DEF Promise!GiveUp, Promise!None
<1> QED
  BY <1>3, <1>4

\* A request that begins makes a claim, or none.
LEMMA ClaimMade ==
  ASSUME NEW r \in Reqs, \A q \in Reqs \ {r} : req'[q] = req[q], req[r].pc = "idle",
         UNCHANGED <<issued, revoked, expired, owner>>,
         NEW user, NEW old, Claimed(r)' = [user |-> user, old |-> old]
  PROVE  Promise!Claim(r, user, old)
<1>1. Claimed(r) = [user |-> NoUser, old |-> NoToken]
  BY DEF Claimed, Entitled
<1>2. [q \in Reqs |-> Claimed(q)]'
        = [[q \in Reqs |-> Claimed(q)] EXCEPT ![r] = [user |-> user, old |-> old]]
  BY OneClaim
<1>3. Live' = Live
  BY DEF Live
<1> QED
  BY <1>1, <1>2, <1>3 DEF Promise!Claim, Promise!None

LEMMA RefineBegin ==
  ASSUME IInv, NEW r \in Reqs, Begin(r)
  PROVE  Promise!Next \/ UNCHANGED Promise!vars
<1>0. /\ req \in [Reqs -> Request] /\ req[r].pc = "idle"
      /\ UNCHANGED <<issued, revoked, expired, owner>>
      /\ \A q \in Reqs \ {r} : req'[q] = req[q]
  BY DEF IInv, TypeOK, Begin, BeginRegister, BeginLogin, BeginRefresh, BeginLogout, rows
<1>1. ASSUME NEW u \in Users, BeginRegister(r, u) \/ BeginLogin(r, u)
      PROVE  Promise!SignIn(r, u)
  <2>1. Claimed(r)' = [user |-> u, old |-> NoToken]
    BY <1>0, <1>1 DEF BeginRegister, BeginLogin, Idle, Claimed, Entitled
  <2> QED
    BY <1>0, <2>1, ClaimMade DEF Promise!SignIn
<1>2. ASSUME NEW t \in Tokens, BeginRefresh(r, t)
      PROVE  Promise!Present(r, t) \/ UNCHANGED Promise!vars
  <2> DEFINE saw == IF Verdict(t) = "sweep" THEN OwnedBy(owner[t]) ELSE {}
             begun == [Idle EXCEPT !.pc = Verdict(t), !.op = "refresh",
                                   !.user = owner[t], !.old = t, !.saw = saw]
  <2>1. req'[r] = begun
    BY <1>0, <1>2 DEF BeginRefresh
  <2>2. begun.pc = Verdict(t) /\ begun.op = "refresh" /\ begun.user = owner[t] /\ begun.old = t
    BY DEF Idle
  <2> HIDE DEF begun
  <2>3. CASE t \in revoked
    <3>1. Claimed(r)' = Claimed(r)
      BY <1>0, <2>1, <2>2, <2>3 DEF Verdict, Claimed, Entitled
    <3> QED
      BY <1>0, <3>1, Unseen
  <2>4. CASE t \notin revoked
    <3>1. Claimed(r)' = [user |-> owner[t], old |-> t]
      BY <2>1, <2>2, <2>4 DEF Verdict, Claimed, Entitled
    <3>2. t \in Live
      BY <1>2, <2>4 DEF BeginRefresh, Live
    <3> QED
      BY <1>0, <3>1, <3>2, ClaimMade DEF Promise!Present
  <2> QED
    BY <2>3, <2>4
<1>3. ASSUME NEW t \in Tokens, BeginLogout(r, t) PROVE UNCHANGED Promise!vars
  <2>1. Claimed(r)' = Claimed(r)
    BY <1>0, <1>3 DEF BeginLogout, Idle, Claimed, Entitled
  <2> QED
    BY <1>0, <2>1, Unseen
<1> QED
  BY <1>1, <1>2, <1>3 DEF Begin, Promise!Next

\* What a commit publishes is what was claimed; a logout only ends a token.
LEMMA RefineCommit ==
  ASSUME IInv, NEW r \in Reqs, Commit(r)
  PROVE  Promise!Next \/ UNCHANGED Promise!vars
<1> DEFINE q == req[r]
<1>0. /\ q \in Request /\ LocalsOK(q) /\ q.pc = "commit"
      /\ \A p \in Reqs : req'[p] = IF p = r THEN Idle ELSE req[p]
      /\ issued' = issued \cup Kept(q) /\ revoked' = revoked \cup Dead(q)
      /\ owner'  = [t \in Tokens |-> IF t \in Kept(q) THEN q.user ELSE owner[t]]
      /\ expired' = expired
  BY DEF Commit, Finish, IInv, TypeOK, RequestsOK
<1>1. /\ issued \subseteq Tokens /\ revoked \subseteq issued /\ expired \subseteq issued
      /\ owner \in [Tokens -> Users \cup {NoUser}] /\ NoToken \notin Tokens
      /\ NoUser \notin Users
  BY NoneAssumption DEF IInv, TypeOK
<1>2. q.old # NoToken => q.old \in issued
  BY <1>0 DEF LocalsOK, Request, Ops
<1>3. CASE q.op # "logout"
  <2>1. q.new \in Tokens \ issued /\ Kept(q) = {q.new} /\ q.user \in Users
    BY <1>0, <1>1, <1>3 DEF IInv, TypeOK, LocalsOK, NewIsPrivate, Kept
  <2>2. Claimed(r) = [user |-> q.user, old |-> q.old]
    BY <1>0, <1>3 DEF Claimed, Entitled
  <2>3. Claimed(r)' = [user |-> NoUser, old |-> NoToken]
    BY <1>0 DEF Claimed, Entitled, Idle
  <2>4. Claimed(r) # [user |-> NoUser, old |-> NoToken]
    BY <1>1, <2>1, <2>2
  <2>5. [p \in Reqs |-> Claimed(p)]'
          = [[p \in Reqs |-> Claimed(p)] EXCEPT ![r] = [user |-> NoUser, old |-> NoToken]]
    BY <1>0, <2>3, OneClaim
  <2>6. /\ Live' = (Live \ {q.old}) \cup {q.new}
        /\ (issued \ Live)' = (issued \ Live) \cup ({q.old} \ {NoToken})
        /\ q.new \notin Live \cup (issued \ Live)
    BY <1>0, <1>1, <1>2, <2>1 DEF Live, Dead
  <2>7. owner' = [owner EXCEPT ![q.new] = q.user]
    BY <1>0, <1>1, <2>1
  <2>8. [p \in Reqs |-> Claimed(p)][r].old = q.old /\ [p \in Reqs |-> Claimed(p)][r].user = q.user
        /\ [p \in Reqs |-> Claimed(p)][r] # [user |-> NoUser, old |-> NoToken]
    BY <2>2, <2>4
  <2>9. Promise!Honour(r, q.new)
    BY <2>5, <2>6, <2>7, <2>8 DEF Promise!Honour, Promise!None
  <2> QED
    BY <2>1, <2>9 DEF Promise!Next
<1>4. CASE q.op = "logout"
  <2>1. Kept(q) = {} /\ Dead(q) = {q.old} /\ q.old \in issued
    BY <1>0, <1>1, <1>4 DEF LocalsOK, Kept, Dead
  <2>2. issued' = issued /\ owner' = owner
    BY <1>0, <1>1, <2>1
  <2>3. [p \in Reqs |-> Claimed(p)]' = [p \in Reqs |-> Claimed(p)]
    <3>1. Claimed(r)' = Claimed(r)
      BY <1>0, <1>4 DEF Claimed, Entitled, Idle
    <3> QED
      BY <1>0, <3>1, OneClaim
  <2>4. CASE q.old \in Live
    <3>1. Live' = Live \ {q.old} /\ (issued \ Live)' = (issued \ Live) \cup {q.old}
      BY <1>0, <2>1, <2>2, <2>4 DEF Live
    <3>2. Promise!End({q.old})
      BY <2>2, <2>3, <2>4, <3>1 DEF Promise!End
    <3> QED
      BY <1>1, <2>1, <3>2 DEF Promise!Next
  <2>5. CASE q.old \notin Live
    <3>1. Live' = Live
      BY <1>0, <2>1, <2>2, <2>5 DEF Live
    <3> QED
      BY <2>2, <2>3, <3>1 DEF Promise!vars
  <2> QED
    BY <2>4, <2>5
<1> QED
  BY <1>3, <1>4

LEMMA RefineSweep ==
  ASSUME IInv, NEW r \in Reqs, SweepEnd(r)
  PROVE  Promise!Next \/ UNCHANGED Promise!vars
<1> DEFINE ended == req[r].targets \cap Live
<1>0. /\ req[r].pc = "sweeping" /\ revoked' = revoked \cup req[r].targets
      /\ \A p \in Reqs : req'[p] = IF p = r THEN Idle ELSE req[p]
      /\ UNCHANGED <<issued, owner, expired>>
  BY DEF SweepEnd, Finish, IInv, TypeOK
<1>1. req[r].targets \subseteq OwnedBy(req[r].user) /\ issued \subseteq Tokens
  BY DEF IInv, TypeOK, RequestsOK, SawOK
<1>2. /\ ended \subseteq Live /\ ended \in SUBSET Tokens
      /\ \A s, t \in ended : owner[s] = owner[t]
  BY <1>1 DEF OwnedBy
<1>3. [p \in Reqs |-> Claimed(p)]' = [p \in Reqs |-> Claimed(p)]
  <2>1. Claimed(r)' = Claimed(r)
    BY <1>0 DEF Claimed, Entitled, Idle
  <2> QED
    BY <1>0, <2>1, OneClaim
<1>4. Live' = Live \ ended /\ (issued \ Live)' = (issued \ Live) \cup ended
  BY <1>0 DEF Live
<1> HIDE DEF ended
<1>5. Promise!End(ended)
  BY <1>0, <1>2, <1>3, <1>4 DEF Promise!End
<1> QED
  BY <1>2, <1>5 DEF Promise!Next

LEMMA RefineStep == IInv /\ [Next]_vars => [Promise!Next]_(Promise!vars)
<1> SUFFICES ASSUME IInv, [Next]_vars PROVE Promise!Next \/ UNCHANGED Promise!vars
  OBVIOUS
<1>0. req \in [Reqs -> Request]
  BY DEF IInv, TypeOK
<1>1. ASSUME NEW r \in Reqs, InsertUser(r) \/ TouchLastLogin(r) \/ CheckUser(r) \/ Issue(r)
                             \/ Retire(r) \/ Respond(r) \/ SweepStart(r) \/ SweepRow(r), ~Finish(r)
      PROVE  UNCHANGED Promise!vars
  <2>1. /\ UNCHANGED <<issued, revoked, expired, owner>>
        /\ \A q \in Reqs \ {r} : req'[q] = req[q]
    BY <1>0, <1>1 DEF InsertUser, TouchLastLogin, CheckUser, Issue, Retire, Respond, SweepStart,
       SweepRow, Goto, rows
  <2>2. /\ req'[r].op = req[r].op /\ req'[r].user = req[r].user /\ req'[r].old = req[r].old
        /\ req[r].pc # "idle" /\ req'[r].pc # "idle"
        /\ req[r].pc \in {"sweep", "sweeping"} <=> req'[r].pc \in {"sweep", "sweeping"}
    <3>1. CASE InsertUser(r) \/ TouchLastLogin(r) \/ CheckUser(r) \/ Retire(r) \/ Respond(r)
      BY <1>0, <1>1, <3>1 DEF InsertUser, TouchLastLogin, CheckUser, Retire, Respond, Goto, Request
    <3>2. CASE Issue(r)
      BY <1>0, <3>2 DEF Issue, Request
    <3>3. CASE SweepStart(r) \/ SweepRow(r)
      BY <1>0, <3>3 DEF SweepStart, SweepRow, Request
    <3> QED
      BY <1>1, <3>1, <3>2, <3>3
  <2>3. Claimed(r)' = Claimed(r)
    BY <2>2 DEF Claimed, Entitled
  <2> QED
    BY <2>1, <2>3, Unseen
<1>2. ASSUME NEW r \in Reqs, InsertUser(r) \/ CheckUser(r) \/ Abort(r), Finish(r)
      PROVE  Promise!Next \/ UNCHANGED Promise!vars
  BY <1>2, ClaimDropped DEF InsertUser, CheckUser, Abort, rows, Promise!Next
<1>3. ASSUME NEW t \in Tokens, Expire(t) PROVE Promise!Next \/ UNCHANGED Promise!vars
  <2>1. /\ expired' = expired \cup {t} /\ UNCHANGED <<issued, revoked, owner, req>> /\ t \in issued
    BY <1>3 DEF Expire, rows
  <2>2. [p \in Reqs |-> Claimed(p)]' = [p \in Reqs |-> Claimed(p)]
    BY <2>1 DEF Claimed, Entitled
  <2>3. Live' = Live \ ({t} \cap Live) /\ (issued \ Live)' = (issued \ Live) \cup ({t} \cap Live)
    BY <2>1 DEF Live
  <2>4. Promise!End({t} \cap Live)
    BY <2>1, <2>2, <2>3 DEF Promise!End
  <2> QED
    BY <2>4 DEF Promise!Next
<1>4. ASSUME UNCHANGED <<issued, revoked, expired, owner, req>> PROVE UNCHANGED Promise!vars
  BY <1>4 DEF Promise!vars, Live, Claimed, Entitled
<1>5. ASSUME NEW r \in Reqs, Progress(r) PROVE Promise!Next \/ UNCHANGED Promise!vars
  <2>1. CASE Commit(r) \/ SweepEnd(r)
    BY <2>1, RefineCommit, RefineSweep
  <2>2. CASE \/ TouchLastLogin(r) \/ Issue(r) \/ Retire(r) \/ Respond(r)
             \/ SweepStart(r) \/ SweepRow(r)
    <3>1. ~Finish(r)
      <4>1. req'[r].pc # "idle"
        BY <1>0, <2>2 DEF TouchLastLogin, Issue, Retire, Respond, SweepStart, SweepRow, Goto,
           Request
      <4> QED
        BY <1>0, <4>1 DEF Finish, Idle
    <3> QED
      BY <1>1, <2>2, <3>1
  <2> QED
    BY <1>1, <1>2, <1>5, <2>1, <2>2 DEF Progress
<1> QED
  BY <1>2, <1>3, <1>4, <1>5, RefineBegin DEF Next, Abort, Deactivate, vars, rows

\* Who watches the tokens sees them come from sign-ins and from tokens that were
\* honoured when presented, one for each request, and never come back (auth.py:94-171).
THEOREM SessionsKept == Spec => SessionsImplemented
<1>1. Promise!vars = <<Live, issued \ Live, owner, [r \in Reqs |-> Claimed(r)]>>
  BY DEF Promise!vars
<1>2. IInv /\ [Next]_vars => [Promise!Next]_(Promise!vars)
  BY RefineStep
<1> QED
  BY <1>2, Invariance, RefineInit, PTL DEF Spec, SessionsImplemented, Promise!Spec
=============================================================================
