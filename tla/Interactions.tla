---------------------------- MODULE Interactions ----------------------------
(***************************************************************************)
(* Likes, saves and comments, and the counters on schemes that database    *)
(* triggers keep for them (migration 4e8790001be5).  A request is one READ *)
(* COMMITTED transaction:                                                  *)
(*                                                                         *)
(*   Begin    the reads of the router: scheme_exists, or get_owner         *)
(*   Write    its one INSERT, DELETE or UPDATE of a row                    *)
(*   Count    the row trigger of that statement: it updates the scheme and *)
(*            so takes the lock of its row until the end                   *)
(*   Respond  the answer, sent before get_session() commits                *)
(*   Commit   the row and the counter become visible together              *)
(*                                                                         *)
(* A row has a kind, a key and a scheme: the key is the user of a like or  *)
(* a save (their primary key), and the id of a comment.  Soft-deleted      *)
(* comments stay in their table but are not rows here: the counter follows *)
(* deleted_at.  Statements that wait for a row lock decide what they do on *)
(* the row's committed state once they have the lock.                      *)
(***************************************************************************)
EXTENDS Naturals, FiniteSets

CONSTANTS Users, Schemes, Comments, Reqs, NoUser, NoRow

Kinds == {"like", "save", "comment"}
Row(k, x, s) == [kind |-> k, key |-> x, scheme |-> s]
Rows == [kind : {"like", "save"}, key : Users, scheme : Schemes]
          \cup [kind : {"comment"}, key : Comments, scheme : Schemes]

ASSUME NoneAssumption == NoUser \notin Users /\ NoRow \notin Rows

VARIABLES
  live,     \* committed rows a counter stands for
  count,    \* like_count, save_count and comment_count of each scheme
  active,   \* schemes with is_active
  author,   \* user_id of a comment, from the moment its INSERT is under way
  req       \* the requests in progress

vars == <<live, count, active, author, req>>

Request == [pc  : {"idle", "write", "count", "respond", "commit"},
            row : Rows \cup {NoRow}, add : BOOLEAN, hit : BOOLEAN,
            tally : Nat]    \* the counter its trigger has written

Idle == [pc |-> "idle", row |-> NoRow, add |-> FALSE, hit |-> FALSE,
         tally |-> 0]

Goto(r, step) == req' = [req EXCEPT ![r].pc = step]

\* The rows a counter counts.
Counted(k, s) == {row \in live : row.kind = k /\ row.scheme = s}

-----------------------------------------------------------------------------
(* Locks.  A statement that changed its row keeps it to the end, and so does *)
(* the UPDATE of a comment that was deleted meanwhile; the trigger keeps the *)
(* row of the scheme.  Foreign keys only take key locks, which conflict with *)
(* none of these.                                                            *)

HoldsRow(q)    == /\ req[q].pc \in {"count", "respond", "commit"}
                  /\ req[q].hit \/ req[q].row.kind = "comment"
\* Mutant: scheme_exists already locks the scheme (FOR UPDATE).
HoldsSchemeFromRead(q) ==
  \/ req[q].pc \in {"write", "count"} /\ req[q].add
  \/ req[q].pc \in {"respond", "commit"} /\ req[q].hit
HoldsScheme(q) == req[q].pc \in {"respond", "commit"} /\ req[q].hit

RowFree(r) ==
  \A q \in Reqs \ {r} : HoldsRow(q) => req[q].row # req[r].row
SchemeFree(r, s) ==
  \A q \in Reqs \ {r} : HoldsScheme(q) => req[q].row.scheme # s

\* The next step of an open request waits for no lock.  An INSERT waits for whoever is
\* inserting or deleting the same key; a DELETE for whoever changes a row that is
\* committed (the only rows it can see); the UPDATE of a comment, which asks for its id
\* alone, for whoever holds the row, deleted or not; the trigger for the scheme's row.
Ready(r) ==
  /\ req[r].pc # "idle"
  /\ req[r].pc = "write" /\ (\/ req[r].add \/ req[r].row.kind = "comment"
                             \/ req[r].row \in live) => RowFree(r)
  /\ req[r].pc = "count" => SchemeFree(r, req[r].row.scheme)

-----------------------------------------------------------------------------
Init == /\ live = {}
        /\ count = [k \in Kinds |-> [s \in Schemes |-> 0]]
        /\ active = Schemes
        /\ author = [c \in Comments |-> NoUser]
        /\ req = [r \in Reqs |-> Idle]

Open(r, row, add) ==
  /\ req[r].pc = "idle"
  /\ req' = [req EXCEPT ![r] = [Idle EXCEPT !.pc = "write", !.row = row,
                                            !.add = add]]

\* Mutant: the 404 for a scheme that is not active is forgotten.
BeginAddUnchecked(r, k, u, s) ==
  /\ Open(r, Row(k, u, s), TRUE)
  /\ UNCHANGED <<live, count, active, author>>
\* POST .../like and POST /me/saved-schemes/{id}: 404 unless the scheme is
\* active.
BeginAdd(r, k, u, s) ==
  /\ s \in active
  /\ Open(r, Row(k, u, s), TRUE)
  /\ UNCHANGED <<live, count, active, author>>

\* The DELETE of either: nothing is checked first.
BeginRemove(r, k, u, s) ==
  /\ Open(r, Row(k, u, s), FALSE)
  /\ UNCHANGED <<live, count, active, author>>

\* Mutant: the comment is stored without its user_id.
BeginCommentUnsigned(r, u, s) ==
  /\ s \in active
  /\ \E c \in Comments : author[c] = NoUser
  /\ Open(r, Row("comment", CHOOSE c \in Comments : author[c] = NoUser, s), TRUE)
  /\ UNCHANGED <<live, count, active, author>>

\* Mutant: the id of a deleted comment is handed out again.
BeginCommentReused(r, u, s) ==
  /\ s \in active
  /\ \E c \in Comments :
       /\ \A z \in Schemes : Row("comment", c, z) \notin live
       /\ \A q \in Reqs : req[q].row # Row("comment", c, s)
       /\ Open(r, Row("comment", c, s), TRUE)
       /\ author' = [author EXCEPT ![c] = u]
  /\ UNCHANGED <<live, count, active>>

\* POST .../comments: a comment of a new id.
BeginComment(r, u, s) ==
  /\ s \in active
  /\ \E c \in Comments : author[c] = NoUser
  /\ LET c == CHOOSE c \in Comments : author[c] = NoUser IN
        /\ Open(r, Row("comment", c, s), TRUE)
        /\ author' = [author EXCEPT ![c] = u]
  /\ UNCHANGED <<live, count, active>>

\* DELETE .../comments/{id}: get_owner finds a comment that is not deleted and
\* that is the caller's.
BeginUncomment(r, u, c, s) ==
  /\ Row("comment", c, s) \in live /\ author[c] = u
  /\ Open(r, Row("comment", c, s), FALSE)
  /\ UNCHANGED <<live, count, active, author>>

\* What the statement finds once it has the lock: ON CONFLICT DO NOTHING
\* skips a row that is there, DELETE one that is not; the UPDATE of a comment
\* deleted meanwhile is one the trigger does not count.
Hits(row, add) == (row \in live) # add

\* Mutant: the counting statement decides before it waits for the lock.
WriteUnlocked(r) ==
  /\ req[r].pc = "write"
  /\ LET hit == Hits(req[r].row, req[r].add) IN
        req' = [req EXCEPT ![r].hit = hit,
                           ![r].pc = IF hit THEN "count" ELSE "respond"]
  /\ UNCHANGED <<live, count, active, author>>

\* The statement: it decides once it has the lock.
Write(r) ==
  /\ req[r].pc = "write" /\ Ready(r)
  /\ LET hit == Hits(req[r].row, req[r].add) IN
        req' = [req EXCEPT ![r].hit = hit,
                           ![r].pc = IF hit THEN "count" ELSE "respond"]
  /\ UNCHANGED <<live, count, active, author>>

\* The trigger's UPDATE schemes: + 1, or GREATEST(n - 1, 0), on the value
\* found once the row of the scheme is free.
Bump(n, add) == IF add THEN n + 1 ELSE IF n = 0 THEN 0 ELSE n - 1

Count(r) ==
  /\ req[r].pc = "count" /\ Ready(r)
  /\ req' = [req EXCEPT ![r].pc = "respond",
                 ![r].tally = Bump(count[req[r].row.kind][req[r].row.scheme],
                                   req[r].add)]
  /\ UNCHANGED <<live, count, active, author>>

Respond(r) ==
  /\ req[r].pc = "respond"
  /\ Goto(r, "commit")
  /\ UNCHANGED <<live, count, active, author>>

\* What a commit leaves of the rows and of the counters.
Applied(q) == IF q.add THEN live \cup {q.row} ELSE live \ {q.row}
Commit(r) ==
  LET q == req[r] IN
  /\ q.pc = "commit"
  /\ live'  = IF q.hit THEN Applied(q) ELSE live
  /\ count' = IF q.hit
              THEN [count EXCEPT ![q.row.kind][q.row.scheme] = q.tally] ELSE count
  /\ req'   = [req EXCEPT ![r] = Idle]
  /\ UNCHANGED <<active, author>>

\* An exception, a lost connection or a crash before the commit: rollback.
Abort(r) ==
  /\ req[r].pc # "idle"
  /\ req' = [req EXCEPT ![r] = Idle]
  /\ UNCHANGED <<live, count, active, author>>

\* is_active is cleared by an operator, outside the program, and set again:
\* an UPDATE of the scheme, which waits for the lock of its row.
Withdraw(s) ==
  /\ \A q \in Reqs : HoldsScheme(q) => req[q].row.scheme # s
  /\ active' = IF s \in active THEN active \ {s} ELSE active \cup {s}
  /\ UNCHANGED <<live, count, author, req>>

-----------------------------------------------------------------------------
Begin(r) ==
  \E u \in Users, s \in Schemes :
     \/ \E k \in {"like", "save"} : BeginAdd(r, k, u, s) \/ BeginRemove(r, k, u, s)
     \/ BeginComment(r, u, s)
     \/ \E c \in Comments : BeginUncomment(r, u, c, s)

Progress(r) == Write(r) \/ Count(r) \/ Respond(r) \/ Commit(r)

Next == \/ \E r \in Reqs : Begin(r) \/ Progress(r) \/ Abort(r)
        \/ \E s \in Schemes : Withdraw(s)

Spec == Init /\ [][Next]_vars

-----------------------------------------------------------------------------
TypeOK ==
  /\ live \subseteq Rows /\ active \subseteq Schemes
  /\ count \in [Kinds -> [Schemes -> Nat]]
  /\ author \in [Comments -> Users \cup {NoUser}]
  /\ \A row \in live : row.kind = "comment" => author[row.key] \in Users
  /\ req \in [Reqs -> Request]

\* The denormalised counters tell the truth (migration 4e8790001be5:3-11, ADR
\* 0002): whatever requests overlapped, were repeated or rolled back, each
\* counter is the number of rows it stands for.  Toggling a like from two
\* devices or deleting a comment twice at once counts once.
CountsExact ==
  \A k \in Kinds, s \in Schemes : count[k][s] = Cardinality(Counted(k, s))

\* A request that found the scheme active and has yet to commit.
Adding(s) == {r \in Reqs : req[r].pc # "idle" /\ req[r].add /\ req[r].row.scheme = s}

\* A withdrawn scheme is closed (scheme_exists in likes.py:28-34,
\* saved_schemes.py:94-100, comments.py:39-45): no further like, save or
\* comment is admitted, and once those admitted earlier have ended its rows
\* only go away.
WithdrawalCloses ==
  [][\A s \in Schemes \ active :
       /\ Adding(s)' \subseteq Adding(s)
       /\ Adding(s) = {} =>
            \A k \in Kinds : Counted(k, s)' \subseteq Counted(k, s)]_vars

\* The locks of interaction rows and of scheme rows are always taken in that
\* order, so requests never wait for each other in a cycle: while some are
\* open, one of them can go on.
NoStall == (\E r \in Reqs : req[r].pc # "idle")
             => \E r \in Reqs : Ready(r)
\* Ids of comments that are deleted or were never stored.
Spent == {c \in Comments :
            /\ author[c] # NoUser
            /\ \A row \in live : row.kind = "comment" => row.key # c
            /\ \A r \in Reqs : req[r].pc # "idle" /\ req[r].add
                             /\ req[r].row.kind = "comment" => req[r].row.key # c}

\* The transactions, locks and triggers implement the promise of Counters: what
\* a reader sees changes one row and one counter by one at a time, the floor of
\* GREATEST(n - 1, 0) is never needed, and no comment comes back (migration
\* 4e8790001be5:3-11, :36-42, repositories/comments.py:83-86, :106-109).
Promise == INSTANCE Counters WITH rows <- live, counts <- count, spent <- Spent
CountersImplemented == Promise!Spec
=============================================================================
