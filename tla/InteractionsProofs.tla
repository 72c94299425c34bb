------------------------- MODULE InteractionsProofs -------------------------
(***************************************************************************)
(* The counters are exact for any set of users, schemes, comments and      *)
(* concurrent requests.  CountsExact is not inductive: a commit publishes  *)
(* a decision taken at Write and a number written at Count, so IInv says   *)
(* that neither has grown stale, because of the two locks held since.      *)
(***************************************************************************)
EXTENDS Interactions, FiniteSetTheorems, TLAPS

\* Requests that will change the tables when they commit.
InEffect(r) == req[r].pc \in {"count", "respond", "commit"} /\ req[r].hit

\* What a request works on is a row, and a comment has its author.
Known == \A r \in Reqs : req[r].pc # "idle" =>
           /\ req[r].row \in Rows
           /\ req[r].row.kind = "comment" => author[req[r].row.key] \in Users

\* The decision of Write still fits the table, and is the only one pending on
\* its row.
Pending ==
  /\ \A r \in Reqs : req[r].pc = "count" => req[r].hit
  /\ \A r \in Reqs : InEffect(r) => Hits(req[r].row, req[r].add)
  /\ \A q, r \in Reqs : q # r /\ InEffect(q) /\ InEffect(r)
                          => req[q].row # req[r].row

\* The number of Count still fits the counter, and is the only one pending on
\* its scheme.
Tallied ==
  /\ \A r \in Reqs : HoldsScheme(r) =>
       req[r].tally = Bump(count[req[r].row.kind][req[r].row.scheme], req[r].add)
  /\ \A q, r \in Reqs : q # r /\ HoldsScheme(q) /\ HoldsScheme(r)
                          => req[q].row.scheme # req[r].row.scheme

IInv == /\ TypeOK /\ IsFiniteSet(live) /\ CountsExact
        /\ Known /\ Pending /\ Tallied

-----------------------------------------------------------------------------
LEMMA RowParts ==
  ASSUME NEW row \in Rows
  PROVE  row.kind \in Kinds /\ row.scheme \in Schemes
BY DEF Rows, Kinds

LEMMA InitInv == Init => IInv
<1> SUFFICES ASSUME Init PROVE IInv
  OBVIOUS
<1>1. TypeOK
  BY DEF Init, TypeOK, Kinds, Rows, Idle, Request
<1>2. IsFiniteSet(live) /\ CountsExact
  <2>1. \A k \in Kinds, s \in Schemes : Counted(k, s) = {}
    BY DEF Init, Counted
  <2> QED
    BY <2>1, FS_EmptySet DEF Init, CountsExact
<1>3. Known /\ Pending /\ Tallied
  BY DEF Init, Idle, Known, Pending, Tallied, InEffect, HoldsScheme
<1> QED
  BY <1>1, <1>2, <1>3 DEF IInv

\* A request that neither holds nor takes a lock may change freely.
LEMMA QuietStep ==
  ASSUME IInv, NEW r \in Reqs, NEW q \in Request,
         req' = [req EXCEPT ![r] = q], q.pc \in {"idle", "write"},
         q.pc = "write" => /\ q.row \in Rows
                           /\ q.row.kind = "comment" => author'[q.row.key] \in Users,
         author' \in [Comments -> Users \cup {NoUser}],
         \A c \in Comments : author[c] \in Users => author'[c] = author[c],
         UNCHANGED <<live, count, active>>
  PROVE  IInv'
<1> USE DEF IInv
<1>1. \A p \in Reqs : req'[p] = IF p = r THEN q ELSE req[p]
  BY DEF TypeOK
<1>2. \A row \in Rows : row.kind = "comment" => row.key \in Comments
  BY DEF Rows
<1>3. TypeOK'
  BY <1>2 DEF TypeOK
<1>4. Known'
  BY <1>1, <1>2 DEF Known
<1>5. Pending' /\ Tallied'
  BY <1>1 DEF Pending, Tallied, InEffect, HoldsScheme, Hits
<1>6. IsFiniteSet(live)' /\ CountsExact'
  BY DEF CountsExact, Counted
<1> QED
  BY <1>3, <1>4, <1>5, <1>6

LEMMA BeginInv ==
  ASSUME IInv, NEW r \in Reqs, Begin(r)
  PROVE  IInv'
<1> USE DEF IInv
<1>0. author \in [Comments -> Users \cup {NoUser}] /\ NoUser \notin Users
  BY NoneAssumption DEF TypeOK
<1>1. ASSUME NEW row \in Rows, NEW add \in BOOLEAN, Open(r, row, add),
             row.kind = "comment" => author'[row.key] \in Users,
             author' \in [Comments -> Users \cup {NoUser}],
             \A c \in Comments : author[c] \in Users => author'[c] = author[c],
             UNCHANGED <<live, count, active>>
      PROVE  IInv'
  <2> DEFINE q == [Idle EXCEPT !.pc = "write", !.row = row, !.add = add]
  <2>1. q \in Request /\ q.pc = "write" /\ q.row = row
    BY <1>1 DEF Idle, Request
  <2>2. req' = [req EXCEPT ![r] = q]
    BY <1>1 DEF Open
  <2> QED
    BY <1>1, <2>1, <2>2, QuietStep
<1>2. PICK u \in Users, s \in Schemes :
        \/ \E k \in {"like", "save"} :
             BeginAdd(r, k, u, s) \/ BeginRemove(r, k, u, s)
        \/ BeginComment(r, u, s)
        \/ \E c \in Comments : BeginUncomment(r, u, c, s)
  BY DEF Begin
<1>3. ASSUME NEW k \in {"like", "save"},
             BeginAdd(r, k, u, s) \/ BeginRemove(r, k, u, s)
      PROVE  IInv'
  <2>1. Row(k, u, s) \in Rows /\ k # "comment"
    BY <1>2 DEF Rows, Row
  <2> QED
    BY <1>0, <1>1, <1>3, <2>1 DEF BeginAdd, BeginRemove, Row
<1>4. CASE BeginComment(r, u, s)
  <2> DEFINE c == CHOOSE x \in Comments : author[x] = NoUser
  <2>1. c \in Comments /\ author[c] = NoUser
    BY <1>4 DEF BeginComment
  <2>2. Row("comment", c, s) \in Rows
    BY <1>2, <2>1 DEF Rows, Row
  <2>3. Open(r, Row("comment", c, s), TRUE) /\ author' = [author EXCEPT ![c] = u]
    BY <1>4 DEF BeginComment
  <2>4. UNCHANGED <<live, count, active>>
    BY <1>4 DEF BeginComment
  <2>5. author' \in [Comments -> Users \cup {NoUser}] /\ author'[c] \in Users
    BY <1>0, <1>2, <2>1, <2>3
  <2>6. \A x \in Comments : author[x] \in Users => author'[x] = author[x]
    BY <1>0, <2>1, <2>3
  <2> HIDE DEF c
  <2> QED
    BY <1>1, <2>2, <2>3, <2>4, <2>5, <2>6 DEF Row
<1>5. ASSUME NEW c \in Comments, BeginUncomment(r, u, c, s)
      PROVE  IInv'
  <2>1. Row("comment", c, s) \in Rows
    BY <1>2 DEF Rows, Row
  <2> QED
    BY <1>0, <1>1, <1>2, <1>5, <2>1 DEF BeginUncomment, Row
<1> QED
  BY <1>2, <1>3, <1>4, <1>5

LEMMA AbortInv ==
  ASSUME IInv, NEW r \in Reqs, Abort(r)
  PROVE  IInv'
<1>1. Idle \in Request /\ Idle.pc = "idle"
  BY DEF Idle, Request
<1>2. author \in [Comments -> Users \cup {NoUser}]
  BY DEF IInv, TypeOK
<1> QED
  BY <1>1, <1>2, QuietStep DEF Abort

\* Steps of a request on which the tables and the counters stay as they are.
LEMMA MovingStep ==
  ASSUME IInv, NEW r \in Reqs, NEW q \in Request,
         req' = [req EXCEPT ![r] = q], req[r].pc # "idle",
         q.row = req[r].row, q.add = req[r].add,
         UNCHANGED <<live, count, active, author>>
  PROVE  /\ TypeOK' /\ IsFiniteSet(live)' /\ CountsExact' /\ Known'
         /\ \A p \in Reqs : req'[p] = IF p = r THEN q ELSE req[p]
<1> USE DEF IInv
<1>1. \A p \in Reqs : req'[p] = IF p = r THEN q ELSE req[p]
  BY DEF TypeOK
<1>2. TypeOK' /\ IsFiniteSet(live)' /\ CountsExact'
  BY DEF TypeOK, CountsExact, Counted
<1>3. Known'
  BY <1>1 DEF Known
<1> QED
  BY <1>1, <1>2, <1>3

LEMMA WriteInv ==
  ASSUME IInv, NEW r \in Reqs, Write(r)
  PROVE  IInv'
<1> USE DEF IInv
<1> DEFINE hit == Hits(req[r].row, req[r].add)
           q == [req[r] EXCEPT !.hit = hit, !.pc = IF hit THEN "count" ELSE "respond"]
<1>1. req[r] \in Request /\ hit \in BOOLEAN
  BY DEF TypeOK, Hits
<1>2. /\ q \in Request /\ q.row = req[r].row /\ q.add = req[r].add /\ q.hit = hit
      /\ q.pc = IF hit THEN "count" ELSE "respond"
  BY <1>1 DEF Request
<1>3. req' = [req EXCEPT ![r] = q] /\ req[r].pc = "write"
  BY DEF Write
<1>4. UNCHANGED <<live, count, active, author>>
  BY DEF Write
<1>5. /\ TypeOK' /\ IsFiniteSet(live)' /\ CountsExact' /\ Known'
      /\ \A p \in Reqs : req'[p] = IF p = r THEN q ELSE req[p]
  BY <1>1, <1>2, <1>3, <1>4, MovingStep
<1>6. hit => RowFree(r)
  BY <1>1 DEF Write, Ready, Hits, Request
<1> HIDE DEF q, hit
<1>7. Tallied'
  BY <1>2, <1>4, <1>5 DEF Tallied, HoldsScheme
<1>8. \A p \in Reqs : InEffect(p)' /\ p # r => InEffect(p) /\ HoldsRow(p)
  BY <1>5 DEF InEffect, HoldsRow
<1>9. Pending'
  <2>1. \A p \in Reqs : InEffect(p)' => Hits(req[p].row, req[p].add)' 
    BY <1>2, <1>4, <1>5, <1>8 DEF Pending, InEffect, Hits, hit
  <2>2. InEffect(r)' => hit
    BY <1>2, <1>5 DEF InEffect
  <2>3. \A p \in Reqs : p # r /\ InEffect(p)' /\ InEffect(r)'
                          => req'[p].row # req'[r].row
    BY <1>2, <1>5, <1>6, <1>8, <2>2 DEF RowFree
  <2>4. \A p, o \in Reqs : p # o /\ p # r /\ o # r /\ InEffect(p)' /\ InEffect(o)'
                          => req'[p].row # req'[o].row
    BY <1>5, <1>8 DEF Pending
  <2>5. \A p \in Reqs : req'[p].pc = "count" => req'[p].hit
    BY <1>2, <1>5 DEF Pending
  <2> QED
    BY <2>1, <2>3, <2>4, <2>5 DEF Pending
<1> QED
  BY <1>5, <1>7, <1>9

LEMMA CountInv ==
  ASSUME IInv, NEW r \in Reqs, Count(r)
  PROVE  IInv'
<1> USE DEF IInv
<1> DEFINE row == req[r].row
           n == Bump(count[row.kind][row.scheme], req[r].add)
           q == [req[r] EXCEPT !.pc = "respond", !.tally = n]
<1>1. req[r] \in Request /\ row \in Rows /\ req[r].pc = "count"
  BY DEF TypeOK, Known, Count
<1>2. count[row.kind][row.scheme] \in Nat
  BY <1>1, RowParts DEF TypeOK
<1>3. n \in Nat
  BY <1>2 DEF Bump
<1>4. /\ q \in Request /\ q.row = row /\ q.add = req[r].add /\ q.hit = req[r].hit
      /\ q.pc = "respond" /\ q.tally = n
  BY <1>1, <1>3 DEF Request
<1>5. req' = [req EXCEPT ![r] = q] /\ SchemeFree(r, row.scheme)
  BY DEF Count, Ready
<1>6. UNCHANGED <<live, count, active, author>>
  BY DEF Count
<1>7. /\ TypeOK' /\ IsFiniteSet(live)' /\ CountsExact' /\ Known'
      /\ \A p \in Reqs : req'[p] = IF p = r THEN q ELSE req[p]
  BY <1>1, <1>4, <1>5, <1>6, MovingStep
<1> HIDE DEF q
<1>8. Pending'
  BY <1>1, <1>4, <1>6, <1>7 DEF Pending, InEffect, Hits
<1>9. Tallied'
  <2>1. \A p \in Reqs : p # r => (HoldsScheme(p)' <=> HoldsScheme(p))
    BY <1>7 DEF HoldsScheme
  <2>2. \A p \in Reqs : HoldsScheme(p)' =>
          req'[p].tally =
            Bump(count'[req'[p].row.kind][req'[p].row.scheme], req'[p].add)
    BY <1>4, <1>6, <1>7, <2>1 DEF Tallied
  <2>3. \A p \in Reqs : p # r /\ HoldsScheme(p) => req[p].row.scheme # row.scheme
    BY <1>5 DEF SchemeFree
  <2> HIDE DEF row
  <2>4. \A p, o \in Reqs : p # o /\ HoldsScheme(p)' /\ HoldsScheme(o)'
                            => req'[p].row.scheme # req'[o].row.scheme
    BY <1>4, <1>7, <2>1, <2>3 DEF Tallied
  <2> QED
    BY <2>2, <2>4 DEF Tallied, Bump
<1> QED
  BY <1>7, <1>8, <1>9

LEMMA RespondInv ==
  ASSUME IInv, NEW r \in Reqs, Respond(r)
  PROVE  IInv'
<1> USE DEF IInv
<1> DEFINE q == [req[r] EXCEPT !.pc = "commit"]
<1>1. req[r] \in Request /\ req[r].pc = "respond"
  BY DEF TypeOK, Respond
<1>2. /\ q \in Request /\ q.row = req[r].row /\ q.add = req[r].add
      /\ q.hit = req[r].hit /\ q.pc = "commit" /\ q.tally = req[r].tally
  BY <1>1 DEF Request
<1>3. req' = [req EXCEPT ![r] = q] /\ UNCHANGED <<live, count, active, author>>
  BY DEF Respond, Goto
<1>4. /\ TypeOK' /\ IsFiniteSet(live)' /\ CountsExact' /\ Known'
      /\ \A p \in Reqs : req'[p] = IF p = r THEN q ELSE req[p]
  BY <1>1, <1>2, <1>3, MovingStep
<1> HIDE DEF q
<1>5. Pending' /\ Tallied'
  BY <1>1, <1>2, <1>3, <1>4 DEF Pending, Tallied, InEffect, HoldsScheme, Hits
<1> QED
  BY <1>4, <1>5

\* One row more or less moves its own counter by one and no other.
LEMMA OneRow ==
  ASSUME NEW row \in Rows, NEW add \in BOOLEAN, IsFiniteSet(live), CountsExact,
         Hits(row, add),
         live' = IF add THEN live \cup {row} ELSE live \ {row},
         count \in [Kinds -> [Schemes -> Nat]],
         count' = [count EXCEPT ![row.kind][row.scheme] =
                                   Bump(count[row.kind][row.scheme], add)]
  PROVE  IsFiniteSet(live') /\ CountsExact'
<1>1. IsFiniteSet(live')
  BY FS_AddElement, FS_RemoveElement
<1>2. ASSUME NEW k \in Kinds, NEW s \in Schemes
      PROVE  count'[k][s] = Cardinality(Counted(k, s)')
  <2>1. IsFiniteSet(Counted(k, s))
    BY FS_Subset DEF Counted
  <2>2. CASE k = row.kind /\ s = row.scheme
    <3>1. count'[k][s] = Bump(Cardinality(Counted(k, s)), add)
      BY <1>2, <2>2 DEF CountsExact
    <3>2. CASE add
      <4>1. Counted(k, s)' = Counted(k, s) \cup {row} /\ row \notin Counted(k, s)
        BY <2>2, <3>2 DEF Counted, Hits
      <4> QED
        BY <2>1, <3>1, <3>2, <4>1, FS_AddElement DEF Bump
    <3>3. CASE ~add
      <4>1. Counted(k, s)' = Counted(k, s) \ {row} /\ row \in Counted(k, s)
        BY <2>2, <3>3 DEF Counted, Hits
      <4>2. Cardinality(Counted(k, s)) \in Nat /\ Cardinality(Counted(k, s)) # 0
        BY <2>1, <4>1, FS_CardinalityType, FS_EmptySet
      <4>3. Cardinality(Counted(k, s)') = Cardinality(Counted(k, s)) - 1
        BY <2>1, <4>1, FS_RemoveElement
      <4> QED
        BY <3>1, <3>3, <4>2, <4>3 DEF Bump
    <3> QED
      BY <3>2, <3>3
  <2>3. CASE ~(k = row.kind /\ s = row.scheme)
    <3>1. Counted(k, s)' = Counted(k, s)
      BY <2>3 DEF Counted
    <3>2. count'[k][s] = count[k][s]
      BY <1>2, <2>3
    <3> QED
      BY <1>2, <3>1, <3>2 DEF CountsExact
  <2> QED
    BY <2>2, <2>3
<1> QED
  BY <1>1, <1>2 DEF CountsExact

LEMMA CommitInv ==
  ASSUME IInv, NEW r \in Reqs, Commit(r)
  PROVE  IInv'
<1> USE DEF IInv
<1>0. Idle \in Request /\ Idle.pc = "idle"
  BY DEF Idle, Request
<1>1. /\ req[r] \in Request /\ req[r].pc = "commit" /\ req[r].row \in Rows
      /\ req' = [req EXCEPT ![r] = Idle] /\ UNCHANGED <<active, author>>
  BY DEF TypeOK, Known, Commit
<1>2. CASE ~req[r].hit
  <2>1. UNCHANGED <<live, count>>
    BY <1>2 DEF Commit
  <2>2. author \in [Comments -> Users \cup {NoUser}]
    BY DEF TypeOK
  <2> QED
    BY <1>0, <1>1, <2>1, <2>2, QuietStep
<1>3. CASE req[r].hit
  <2> DEFINE row == req[r].row
             add == req[r].add
  <2>1. add \in BOOLEAN /\ InEffect(r) /\ HoldsScheme(r) /\ Hits(row, add)
    BY <1>1, <1>3 DEF Request, InEffect, HoldsScheme, Pending
  <2>2. /\ live' = IF add THEN live \cup {row} ELSE live \ {row}
        /\ count' = [count EXCEPT ![row.kind][row.scheme] =
                                     Bump(count[row.kind][row.scheme], add)]
    BY <1>3, <2>1 DEF Commit, Applied, Tallied
  <2>3. IsFiniteSet(live') /\ CountsExact'
    BY <1>1, <2>1, <2>2, OneRow DEF TypeOK
  <2>4. \A p \in Reqs : req'[p] = IF p = r THEN Idle ELSE req[p]
    BY <1>1 DEF TypeOK
  <2>5. row.kind = "comment" => author[row.key] \in Users
    BY <1>1 DEF Known
  <2>6. row.kind \in Kinds /\ row.scheme \in Schemes /\ count[row.kind][row.scheme] \in Nat
    BY <1>1, RowParts DEF TypeOK
  <2>7. count' \in [Kinds -> [Schemes -> Nat]]
    <3>1. Bump(count[row.kind][row.scheme], add) \in Nat
      BY <2>6 DEF Bump
    <3> QED
      BY <2>2, <2>6, <3>1 DEF TypeOK
  <2>8. TypeOK'
    <3>1. live' \subseteq Rows
      BY <1>1, <2>2 DEF TypeOK
    <3>2. \A x \in live' : x.kind = "comment" => author'[x.key] \in Users
      BY <1>1, <2>2, <2>5 DEF TypeOK
    <3>3. req' \in [Reqs -> Request]
      BY <1>0, <1>1 DEF TypeOK
    <3> QED
      BY <1>1, <2>7, <3>1, <3>2, <3>3 DEF TypeOK
  <2>9. Known'
    BY <1>0, <1>1, <2>4 DEF Known
  <2>10. Pending'
    <3>1. \A p \in Reqs : InEffect(p)' => p # r /\ InEffect(p) /\ req'[p] = req[p]
      BY <1>0, <2>4 DEF InEffect
    <3>2. \A p \in Reqs : InEffect(p)' => req[p].row # row
      BY <2>1, <3>1 DEF Pending
    <3>3. \A p \in Reqs : InEffect(p)' => (req[p].row \in live' <=> req[p].row \in live)
      BY <2>2, <3>2
    <3> HIDE DEF row, add
    <3>4. \A p \in Reqs : InEffect(p)' => Hits(req[p].row, req[p].add)'
      BY <3>1, <3>3 DEF Pending, Hits
    <3>5. \A p \in Reqs : req'[p].pc = "count" => req'[p].hit
      BY <1>0, <2>4 DEF Pending
    <3> QED
      BY <3>1, <3>4, <3>5 DEF Pending
  <2>11. Tallied'
    <3>1. \A p \in Reqs : HoldsScheme(p)' => p # r /\ HoldsScheme(p) /\ req'[p] = req[p]
      BY <1>0, <2>4 DEF HoldsScheme
    <3>2. \A p \in Reqs : HoldsScheme(p)' =>
            req[p].row.scheme # row.scheme /\ req[p].row \in Rows
      BY <2>1, <3>1 DEF Tallied, Known, HoldsScheme
    <3>3. \A p \in Reqs : HoldsScheme(p)' =>
            count'[req[p].row.kind][req[p].row.scheme]
              = count[req[p].row.kind][req[p].row.scheme]
      BY <2>2, <3>2, RowParts DEF TypeOK
    <3> HIDE DEF row, add
    <3> QED
      BY <3>1, <3>3 DEF Tallied, Bump
  <2> QED
    BY <2>3, <2>8, <2>9, <2>10, <2>11
<1> QED
  BY <1>1, <1>2, <1>3 DEF Request

LEMMA WithdrawInv ==
  ASSUME IInv, NEW s \in Schemes, Withdraw(s)
  PROVE  IInv'
BY DEF IInv, Withdraw, TypeOK, CountsExact, Counted, Known, Pending, Tallied,
   InEffect, HoldsScheme, Hits, Bump

LEMMA NextInv == IInv /\ [Next]_vars => IInv'
<1> SUFFICES ASSUME IInv, [Next]_vars PROVE IInv'
  OBVIOUS
<1>1. CASE UNCHANGED vars
  BY <1>1 DEF IInv, vars, TypeOK, CountsExact, Counted, Known, Pending, Tallied,
     InEffect, HoldsScheme, Hits, Bump
<1>2. CASE Next
  BY <1>2, BeginInv, WriteInv, CountInv, RespondInv, CommitInv, AbortInv,
     WithdrawInv DEF Next, Progress
<1> QED
  BY <1>1, <1>2

LEMMA Invariance == Spec => []IInv
BY InitInv, NextInv, PTL DEF Spec

-----------------------------------------------------------------------------
\* Type correctness.
THEOREM TypeCorrect == Spec => []TypeOK
<1>1. IInv => TypeOK
  BY DEF IInv
<1> QED
  BY <1>1, Invariance, PTL

\* The counters kept by the triggers (migration 4e8790001be5) equal the number
\* of rows they stand for in every committed state.
THEOREM CountersSound == Spec => []CountsExact
<1>1. IInv => CountsExact
  BY DEF IInv
<1> QED
  BY <1>1, Invariance, PTL

LEMMA ClosedStep ==
  ASSUME IInv, [Next]_vars, NEW s \in Schemes, s \notin active
  PROVE  /\ Adding(s)' \subseteq Adding(s)
         /\ Adding(s) = {} => \A k \in Kinds : Counted(k, s)' \subseteq Counted(k, s)
<1> USE DEF IInv, Adding
<1>1. CASE UNCHANGED vars
  BY <1>1 DEF vars, Counted
<1>2. ASSUME NEW r \in Reqs, Begin(r)
      PROVE  Adding(s)' \subseteq Adding(s) /\ live' = live
  <2>1. ASSUME NEW row, NEW add, Open(r, row, add), live' = live,
               add => row.scheme \in active
        PROVE  Adding(s)' \subseteq Adding(s) /\ live' = live
    <3>1. /\ \A p \in Reqs : p # r => req'[p] = req[p]
          /\ req'[r].row = row /\ req'[r].add = add
      BY <2>1 DEF Open, Idle, TypeOK
    <3> QED
      BY <2>1, <3>1
  <2>2. PICK u \in Users, z \in Schemes :
          \/ \E k \in {"like", "save"} :
               BeginAdd(r, k, u, z) \/ BeginRemove(r, k, u, z)
          \/ BeginComment(r, u, z)
          \/ \E c \in Comments : BeginUncomment(r, u, c, z)
    BY <1>2 DEF Begin
  <2>3. \A k, x : Row(k, x, z).scheme = z
    BY DEF Row
  <2>4. ASSUME NEW k \in {"like", "save"},
               BeginAdd(r, k, u, z) \/ BeginRemove(r, k, u, z)
        PROVE  Adding(s)' \subseteq Adding(s) /\ live' = live
    BY <2>1, <2>3, <2>4 DEF BeginAdd, BeginRemove
  <2>5. CASE BeginComment(r, u, z)
    BY <2>1, <2>3, <2>5 DEF BeginComment
  <2>6. ASSUME NEW c \in Comments, BeginUncomment(r, u, c, z)
        PROVE  Adding(s)' \subseteq Adding(s) /\ live' = live
    BY <2>1, <2>6 DEF BeginUncomment
  <2> QED
    BY <2>2, <2>4, <2>5, <2>6
<1>3. ASSUME NEW r \in Reqs, Write(r) \/ Count(r) \/ Respond(r) \/ Abort(r)
      PROVE  Adding(s)' \subseteq Adding(s) /\ live' = live
  <2>1. live' = live /\ req[r].pc # "idle" /\ req[r] \in Request
    BY <1>3 DEF Write, Count, Respond, Abort, TypeOK
  <2>2. \A p \in Reqs : p # r => req'[p] = req[p]
    BY <1>3 DEF Write, Count, Respond, Abort, Goto, TypeOK
  <2>3. \/ req'[r].pc = "idle"
        \/ req'[r].row = req[r].row /\ req'[r].add = req[r].add
    <3>1. CASE Write(r)
      BY <2>1, <3>1 DEF Write, TypeOK, Request
    <3>2. CASE Count(r)
      BY <2>1, <3>2 DEF Count, TypeOK, Request
    <3>3. CASE Respond(r) \/ Abort(r)
      BY <2>1, <3>3 DEF Respond, Abort, Goto, Idle, TypeOK, Request
    <3> QED
      BY <1>3, <3>1, <3>2, <3>3
  <2> QED
    BY <2>1, <2>2, <2>3
<1>4. ASSUME NEW r \in Reqs, Commit(r)
      PROVE  /\ Adding(s)' \subseteq Adding(s)
             /\ Adding(s) = {} => live' \subseteq live \/ req[r].row.scheme # s
             /\ live' \subseteq live \cup {req[r].row}
  BY <1>4 DEF Commit, Applied, Idle, TypeOK, Request
<1>5. ASSUME NEW z \in Schemes, Withdraw(z)
      PROVE  Adding(s)' \subseteq Adding(s) /\ live' = live
  BY <1>5 DEF Withdraw
<1> QED
  BY <1>1, <1>2, <1>3, <1>4, <1>5 DEF Next, Progress, Counted

\* A withdrawn scheme gains nothing but what had been admitted before.
THEOREM WithdrawnSchemesClose == Spec => WithdrawalCloses
<1>1. IInv /\ [Next]_vars =>
        [\A s \in Schemes \ active :
           /\ Adding(s)' \subseteq Adding(s)
           /\ Adding(s) = {} =>
                \A k \in Kinds : Counted(k, s)' \subseteq Counted(k, s)]_vars
  BY ClosedStep
<1> QED
  BY <1>1, Invariance, PTL DEF Spec, WithdrawalCloses
-----------------------------------------------------------------------------
(* The refinement *)

\* Comments that a request is about to store.
Coming(r) == IF req[r].pc # "idle" /\ req[r].add /\ req[r].row.kind = "comment"
             THEN {req[r].row.key} ELSE {}
Stored(row) == IF row.kind = "comment" THEN {row.key} ELSE {}

\* An id is in one place: with one request that stores it, or in one row.
OnePlace ==
  /\ \A q, r \in Reqs : q # r => Coming(q) \cap Coming(r) = {}
  /\ \A r \in Reqs, row \in live : Coming(r) \cap Stored(row) = {}
  /\ \A x, y \in live : x # y => Stored(x) \cap Stored(y) = {}

LEMMA SpentMeans ==
  Spent = {c \in Comments : /\ author[c] # NoUser
                            /\ \A row \in live : c \notin Stored(row)
                            /\ \A r \in Reqs : c \notin Coming(r)}
BY DEF Spent, Stored, Coming

LEMMA SpentMeansPrime ==
  Spent' = {c \in Comments : /\ author'[c] # NoUser
                             /\ \A row \in live' : c \notin Stored(row)
                             /\ \A r \in Reqs : c \notin Coming(r)'}
BY DEF Spent, Stored, Coming

\* Ids in use have an author.
LEMMA InUse ==
  ASSUME IInv
  PROVE  /\ \A r \in Reqs : \A c \in Coming(r) : c \in Comments /\ author[c] # NoUser
         /\ \A row \in live : \A c \in Stored(row) : c \in Comments /\ author[c] # NoUser
<1>1. \A row \in Rows : row.kind = "comment" => row.key \in Comments
  BY DEF Rows
<1> QED
  BY <1>1, NoneAssumption DEF IInv, TypeOK, Known, Coming, Stored

\* A step that starts nothing and ends nothing.
LEMMA Stutters ==
  ASSUME UNCHANGED <<live, count, author>>, \A r \in Reqs : Coming(r)' = Coming(r)
  PROVE  (OnePlace => OnePlace') /\ UNCHANGED <<live, count, Spent>>
BY SpentMeans, SpentMeansPrime DEF OnePlace

LEMMA OpenStep ==
  ASSUME IInv, OnePlace, NEW r \in Reqs, NEW row, NEW add \in BOOLEAN, Open(r, row, add),
         UNCHANGED <<live, count, author>>, row.kind # "comment" \/ ~add
  PROVE  OnePlace' /\ UNCHANGED <<live, count, Spent>>
<1> DEFINE new == [Idle EXCEPT !.pc = "write", !.row = row, !.add = add]
<1>1. new.add = add /\ new.row = row
  BY DEF Idle
<1>2. req[r].pc = "idle" /\ req' = [req EXCEPT ![r] = new]
  BY DEF Open
<1> HIDE DEF new
<1>3. req'[r] = new /\ \A q \in Reqs \ {r} : req'[q] = req[q]
  BY <1>2 DEF IInv, TypeOK
<1>4. Coming(r) = {} /\ Coming(r)' = {}
  BY <1>1, <1>2, <1>3 DEF Coming
<1>5. \A q \in Reqs : Coming(q)' = Coming(q)
  BY <1>3, <1>4 DEF Coming
<1> QED
  BY <1>5, Stutters

LEMMA CommentStep ==
  ASSUME IInv, OnePlace, NEW r \in Reqs, NEW u \in Users, NEW s \in Schemes, BeginComment(r, u, s)
  PROVE  OnePlace' /\ UNCHANGED <<live, count, Spent>>
<1> DEFINE c == CHOOSE x \in Comments : author[x] = NoUser
           new == [Idle EXCEPT !.pc = "write", !.row = Row("comment", c, s), !.add = TRUE]
<1>1. c \in Comments /\ author[c] = NoUser
  BY DEF BeginComment
<1>2. /\ req[r].pc = "idle" /\ req' = [req EXCEPT ![r] = new]
      /\ author' = [author EXCEPT ![c] = u] /\ UNCHANGED <<live, count>>
  BY DEF BeginComment, Open
<1> HIDE DEF c
<1>3. new.row.key = c
  BY DEF Idle, Row
<1> HIDE DEF new
<1>4. req'[r] = new /\ \A q \in Reqs \ {r} : req'[q] = req[q]
  BY <1>2 DEF IInv, TypeOK
<1>5. /\ Coming(r) = {} /\ Coming(r)' \subseteq {c}
      /\ \A q \in Reqs \ {r} : Coming(q)' = Coming(q)
  BY <1>2, <1>3, <1>4 DEF Coming
<1>6. c \in Coming(r)'
  BY <1>4 DEF new, Idle, Row, Coming
<1>7. /\ \A q \in Reqs : c \notin Coming(q)
      /\ \A row \in live : c \notin Stored(row)
  BY <1>1, InUse
<1>8. OnePlace'
  BY <1>2, <1>5, <1>7 DEF OnePlace
<1>9. \A d \in Comments : d # c => author'[d] = author[d]
  BY <1>2 DEF IInv, TypeOK
<1>10. Spent' = Spent
  BY <1>1, <1>2, <1>5, <1>6, <1>9, SpentMeans, SpentMeansPrime
<1> QED
  BY <1>2, <1>8, <1>10

\* Nothing is stored: at most an id is lost.
LEMMA LossStep ==
  ASSUME IInv, OnePlace, NEW r \in Reqs, req' = [req EXCEPT ![r] = Idle],
         UNCHANGED <<live, count, author>>
  PROVE  OnePlace' /\ [Promise!Next]_<<live, count, Spent>>
<1>1. /\ Coming(r)' = {} /\ \A q \in Reqs \ {r} : Coming(q)' = Coming(q)
  BY DEF IInv, TypeOK, Coming, Idle
<1>2. OnePlace'
  BY <1>1 DEF OnePlace
<1>3. CASE Coming(r) = {}
  <2>1. \A q \in Reqs : Coming(q)' = Coming(q)
    BY <1>1, <1>3
  <2> QED
    BY <1>2, <2>1, Stutters
<1>4. ASSUME NEW c \in Coming(r) PROVE [Promise!Next]_<<live, count, Spent>>
  <2>1. Coming(r) = {c} /\ c \in Comments /\ author[c] # NoUser
    BY <1>4, InUse DEF Coming
  <2>2. /\ \A q \in Reqs \ {r} : c \notin Coming(q)
        /\ \A row \in live : c \notin Stored(row)
    BY <2>1 DEF OnePlace
  <2>3. Spent' = Spent \cup {c}
    BY <1>1, <2>1, <2>2, SpentMeans, SpentMeansPrime
  <2>4. c \notin Spent
    BY <2>1, SpentMeans
  <2>5. \A row \in live : {c} \cap Promise!Id(row) = {}
    BY <2>2 DEF Promise!Id, Stored
  <2>6. Promise!Lose(c)
    BY <2>3, <2>4, <2>5 DEF Promise!Lose, Promise!Unused
  <2> QED
    BY <2>1, <2>6 DEF Promise!Next
<1> QED
  BY <1>2, <1>3, <1>4

LEMMA CommitStep ==
  ASSUME IInv, OnePlace, NEW r \in Reqs, Commit(r), req[r].hit
  PROVE  OnePlace' /\ [Promise!Next]_<<live, count, Spent>>
<1> DEFINE row == req[r].row
           add == req[r].add
<1>1. /\ req[r].pc = "commit" /\ live' = (IF add THEN live \cup {row} ELSE live \ {row})
      /\ count' = [count EXCEPT ![row.kind][row.scheme] = req[r].tally]
      /\ req' = [req EXCEPT ![r] = Idle] /\ author' = author
  BY DEF Commit, Applied
<1>2. /\ row \in Rows /\ add \in BOOLEAN /\ Hits(row, add)
      /\ req[r].tally = Bump(count[row.kind][row.scheme], add)
      /\ count \in [Kinds -> [Schemes -> Nat]]
  BY <1>1 DEF IInv, Known, Pending, InEffect, Tallied, HoldsScheme, TypeOK, Request
<1>3. row.kind \in Kinds /\ row.scheme \in Schemes /\ count[row.kind][row.scheme] \in Nat
  BY <1>2, RowParts
<1>4. /\ Coming(r)' = {} /\ \A q \in Reqs \ {r} : Coming(q)' = Coming(q)
      /\ Coming(r) = IF add THEN Stored(row) ELSE {}
  BY <1>1, <1>2 DEF IInv, TypeOK, Coming, Idle, Stored
<1>5. row \in Promise!Rows /\ \A x : Promise!Id(x) = Stored(x)
  BY <1>2 DEF Promise!Rows, Rows, Promise!Id, Stored
<1>6. ~add => count[row.kind][row.scheme] # 0
  <2> SUFFICES ASSUME ~add PROVE count[row.kind][row.scheme] # 0
    OBVIOUS
  <2>1. row \in Counted(row.kind, row.scheme)
    BY <1>2 DEF Hits, Counted
  <2>2. IsFiniteSet(Counted(row.kind, row.scheme))
    BY FS_Subset DEF Counted, IInv
  <2>3. Cardinality(Counted(row.kind, row.scheme)) # 0
    BY <2>1, <2>2, FS_EmptySet
  <2> QED
    BY <1>3, <2>3 DEF IInv, CountsExact
<1> HIDE DEF row, add
<1>7. CASE add
  <2>1. row \notin live /\ live' = live \cup {row} /\ Coming(r) = Stored(row)
    BY <1>1, <1>2, <1>4, <1>7 DEF Hits
  <2>2. OnePlace'
    BY <1>4, <2>1 DEF OnePlace
  <2>3. Spent' = Spent
    BY <1>1, <1>4, <2>1, SpentMeans, SpentMeansPrime
  <2>4. Promise!Unused(Stored(row))
    <3>1. Stored(row) \cap Spent = {}
      BY <2>1, SpentMeans
    <3>2. \A x \in live : Stored(row) \cap Stored(x) = {}
      BY <2>1 DEF OnePlace
    <3> QED
      BY <1>5, <3>1, <3>2 DEF Promise!Unused
  <2>5. Promise!Move(row, 1)
    BY <1>1, <1>2, <1>3, <1>7 DEF Promise!Move, Bump, row, add
  <2>6. Promise!Add(row)
    BY <1>5, <2>1, <2>3, <2>4, <2>5 DEF Promise!Add
  <2> QED
    BY <1>5, <2>2, <2>6 DEF Promise!Next
<1>8. CASE ~add
  <2>1. row \in live /\ live' = live \ {row} /\ Coming(r) = {}
    BY <1>1, <1>2, <1>4, <1>8 DEF Hits
  <2>2. OnePlace'
    BY <1>4, <2>1 DEF OnePlace
  <2>3. Spent' = Spent \cup Stored(row)
    <3>1. \A c \in Stored(row) : c \in Comments /\ author[c] # NoUser
      BY <2>1, InUse
    <3>2. \A c \in Stored(row) : /\ \A x \in live' : c \notin Stored(x)
                                 /\ \A q \in Reqs : c \notin Coming(q)'
      BY <1>4, <2>1 DEF OnePlace
    <3>3. \A c \in Comments : c \notin Stored(row) => (c \in Spent' <=> c \in Spent)
      BY <1>1, <1>4, <2>1, SpentMeans, SpentMeansPrime
    <3>4. \A c \in Stored(row) : c \in Spent'
      BY <1>1, <3>1, <3>2, SpentMeansPrime
    <3>5. Spent \subseteq Comments /\ Spent' \subseteq Comments
      BY DEF Spent
    <3> QED
      BY <3>1, <3>3, <3>4, <3>5
  <2>4. Promise!Move(row, -1)
    BY <1>1, <1>2, <1>3, <1>6, <1>8 DEF Promise!Move, Bump, row, add
  <2>5. Promise!Remove(row)
    BY <1>5, <2>1, <2>3, <2>4 DEF Promise!Remove
  <2> QED
    BY <1>5, <2>2, <2>5 DEF Promise!Next
<1> QED
  BY <1>2, <1>7, <1>8

LEMMA RefineStep == IInv /\ OnePlace /\ [Next]_vars => OnePlace' /\ [Promise!Next]_<<live, count, Spent>>
<1> SUFFICES ASSUME IInv, OnePlace, [Next]_vars
             PROVE  OnePlace' /\ [Promise!Next]_<<live, count, Spent>>
  OBVIOUS
<1>1. CASE UNCHANGED vars
  BY <1>1, Stutters DEF vars, Coming
<1>2. ASSUME NEW s \in Schemes, Withdraw(s) PROVE OnePlace' /\ UNCHANGED <<live, count, Spent>>
  BY <1>2, Stutters DEF Withdraw, Coming
<1>3. ASSUME NEW r \in Reqs, Begin(r) PROVE OnePlace' /\ UNCHANGED <<live, count, Spent>>
  <2>1. PICK u \in Users, s \in Schemes :
          \/ \E k \in {"like", "save"} : BeginAdd(r, k, u, s) \/ BeginRemove(r, k, u, s)
          \/ BeginComment(r, u, s)
          \/ \E c \in Comments : BeginUncomment(r, u, c, s)
    BY <1>3 DEF Begin
  <2>2. CASE BeginComment(r, u, s)
    BY <2>2, CommentStep
  <2>3. ASSUME NEW k \in {"like", "save"}, BeginAdd(r, k, u, s) \/ BeginRemove(r, k, u, s)
        PROVE  OnePlace' /\ UNCHANGED <<live, count, Spent>>
    <3>1. Row(k, u, s).kind # "comment"
      BY DEF Row
    <3>2. PICK add \in BOOLEAN : Open(r, Row(k, u, s), add)
      BY <2>3 DEF BeginAdd, BeginRemove
    <3>3. UNCHANGED <<live, count, author>>
      BY <2>3 DEF BeginAdd, BeginRemove
    <3> QED
      BY <3>1, <3>2, <3>3, OpenStep
  <2>4. ASSUME NEW c \in Comments, BeginUncomment(r, u, c, s)
        PROVE  OnePlace' /\ UNCHANGED <<live, count, Spent>>
    <3>1. Open(r, Row("comment", c, s), FALSE) /\ UNCHANGED <<live, count, author>>
      BY <2>4 DEF BeginUncomment
    <3> QED
      BY <3>1, OpenStep
  <2> QED
    BY <2>1, <2>2, <2>3, <2>4
<1>4. ASSUME NEW r \in Reqs, Write(r) \/ Count(r) \/ Respond(r)
      PROVE  OnePlace' /\ UNCHANGED <<live, count, Spent>>
  <2>1. /\ UNCHANGED <<live, count, author>>
        /\ \A q \in Reqs : /\ req'[q].row = req[q].row /\ req'[q].add = req[q].add
                           /\ req'[q].pc = "idle" <=> req[q].pc = "idle"
    <3>1. CASE Write(r)
      BY <3>1 DEF Write, IInv, TypeOK, Request
    <3>2. CASE Count(r)
      BY <3>2 DEF Count, IInv, TypeOK, Request
    <3>3. CASE Respond(r)
      BY <3>3 DEF Respond, Goto, IInv, TypeOK, Request
    <3> QED
      BY <1>4, <3>1, <3>2, <3>3
  <2>2. \A q \in Reqs : Coming(q)' = Coming(q)
    BY <2>1 DEF Coming
  <2> QED
    BY <2>1, <2>2, Stutters
<1>5. ASSUME NEW r \in Reqs, Commit(r) PROVE OnePlace' /\ [Promise!Next]_<<live, count, Spent>>
  <2>1. CASE req[r].hit
    BY <1>5, <2>1, CommitStep
  <2>2. CASE ~req[r].hit
    <3>1. UNCHANGED <<live, count, author>> /\ req' = [req EXCEPT ![r] = Idle]
      BY <1>5, <2>2 DEF Commit
    <3> QED
      BY <3>1, LossStep
  <2>3. req[r].hit \in BOOLEAN
    BY DEF IInv, TypeOK, Request
  <2> QED
    BY <2>1, <2>2, <2>3
<1>6. ASSUME NEW r \in Reqs, Abort(r) PROVE OnePlace' /\ [Promise!Next]_<<live, count, Spent>>
  BY <1>6, LossStep DEF Abort
<1> QED
  BY <1>1, <1>2, <1>3, <1>4, <1>5, <1>6 DEF Next, Progress

LEMMA RefineInit == Init => OnePlace /\ Promise!Init
<1> SUFFICES ASSUME Init PROVE OnePlace /\ Promise!Init
  OBVIOUS
<1>1. \A r \in Reqs : Coming(r) = {}
  BY DEF Init, Idle, Coming
<1>2. Spent = {}
  BY DEF Init, Spent
<1> QED
  BY <1>1, <1>2 DEF Init, OnePlace, Promise!Init, Kinds, Promise!Kinds

\* The transactions with their locks and triggers implement the counters a
\* reader is promised, for any users, schemes, comments and overlapping requests.
THEOREM PromiseKept == Spec => CountersImplemented
<1>1. Spec => []IInv
  BY Invariance
<1>2. Promise!vars = <<live, count, Spent>>
  BY DEF Promise!vars
<1>3. IInv /\ OnePlace /\ [Next]_vars => OnePlace' /\ [Promise!Next]_(Promise!vars)
  BY RefineStep DEF Promise!vars
<1>4. Spec => []OnePlace
  BY <1>1, <1>3, RefineInit, PTL DEF Spec
<1> QED
  BY <1>1, <1>3, <1>4, RefineInit, PTL DEF Spec, CountersImplemented, Promise!Spec

\* A request that has counted waits for nothing; one that holds the row of an
\* interaction waits at most for one that has counted; and so, whatever the number of
\* requests, some can go on (migration 4e8790001be5:36-42).
THEOREM NoDeadlock == Spec => []NoStall
<1>1. IInv => NoStall
  <2> SUFFICES ASSUME IInv, NEW r \in Reqs, req[r].pc # "idle"
               PROVE  \E q \in Reqs : Ready(q)
    BY DEF NoStall
  <2>1. \A q \in Reqs : req[q].pc \in {"idle", "write", "count", "respond", "commit"}
    BY DEF IInv, TypeOK, Request
  <2>2. CASE \E q \in Reqs : req[q].pc \in {"respond", "commit"}
    BY <2>2 DEF Ready
  <2>3. CASE /\ \A q \in Reqs : req[q].pc \notin {"respond", "commit"}
             /\ \E q \in Reqs : req[q].pc = "count"
    BY <2>3 DEF Ready, SchemeFree, HoldsScheme
  <2>4. CASE \A q \in Reqs : req[q].pc \in {"idle", "write"}
    BY <2>4 DEF Ready, RowFree, HoldsRow
  <2> QED
    BY <2>1, <2>2, <2>3, <2>4
<1> QED
  BY <1>1, Invariance, PTL
=============================================================================
