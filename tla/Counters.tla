------------------------------ MODULE Counters ------------------------------
(***************************************************************************)
(* What the interaction tables promise to a reader of committed data,      *)
(* without transactions, locks or triggers: likes, saves and comments come *)
(* and go one row at a time, the counter of the row's kind on the row's    *)
(* scheme moves by exactly one with each, and the id of a comment is used  *)
(* once: a comment that was deleted, or that was never stored, does not    *)
(* appear again.                                                           *)
(***************************************************************************)
EXTENDS Integers

CONSTANTS Users, Schemes, Comments

VARIABLES
  rows,    \* likes, saves and comments
  counts,  \* like_count, save_count and comment_count of each scheme
  spent    \* ids of comments that are gone for good

vars == <<rows, counts, spent>>

Kinds == {"like", "save", "comment"}
Rows  == [kind : {"like", "save"}, key : Users, scheme : Schemes]
           \cup [kind : {"comment"}, key : Comments, scheme : Schemes]

Id(row)  == IF row.kind = "comment" THEN {row.key} ELSE {}
Unused(ids) == ids \cap spent = {} /\ \A row \in rows : ids \cap Id(row) = {}

Move(row, n) == counts' = [counts EXCEPT ![row.kind][row.scheme] = @ + n]

Init == /\ rows = {} /\ spent = {}
        /\ counts = [k \in Kinds |-> [s \in Schemes |-> 0]]

Add(row) ==
  /\ row \notin rows /\ Unused(Id(row))
  /\ rows' = rows \cup {row} /\ Move(row, 1)
  /\ UNCHANGED spent

Remove(row) ==
  /\ row \in rows
  /\ rows' = rows \ {row} /\ Move(row, -1)
  /\ spent' = spent \cup Id(row)

\* An INSERT that is rolled back: nothing is seen of it, its id is lost.
Lose(c) ==
  /\ Unused({c})
  /\ spent' = spent \cup {c}
  /\ UNCHANGED <<rows, counts>>

Next == (\E row \in Rows : Add(row) \/ Remove(row)) \/ \E c \in Comments : Lose(c)

Spec == Init /\ [][Next]_vars
=============================================================================
