-------------------------- MODULE SavedSyncProofs --------------------------
(***************************************************************************)
(* What the screen of saved schemes promises, for any accounts, schemes    *)
(* and number of taps and syncs in progress.  A scheme that is not torn    *)
(* has at most one tap in progress, which is the account's; and what a     *)
(* sync brings is still the account's list, but for the schemes whose taps *)
(* ran across it.                                                          *)
(***************************************************************************)
EXTENDS SavedSync, TLAPS

\* What kind of operation is at which step; a tap is for one scheme.
Shapes == \A p \in Ops :
  /\ op[p].pc = "idle" => op[p].kind = "none"
  /\ op[p].kind = "sync" => op[p].pc \in {"sent", "back"}
  /\ op[p].kind = "tap" => /\ op[p].pc \in {"storing", "sent"}
                           /\ \E s \in Schemes : op[p].schemes = {s}
  /\ op[p].kind = "none" => op[p].pc = "idle"

\* A sync knows the taps that run across it, and what it brings is otherwise
\* still what its account has.
Crossing == \A p \in Ops : op[p].kind = "sync" =>
  /\ \A q \in Ops : Tapping(q) => op[q].schemes \subseteq op[p].across
  /\ op[p].pc = "back" =>
       \A s \in active \ op[p].across : s \in op[p].schemes <=> s \in remote[op[p].user]

\* The taps of schemes that are not torn are the account's, one for each scheme.
Orderly == who \in Users =>
  /\ \A p \in Ops : Tapping(p) /\ op[p].pc = "sent" =>
       op[p].user = who \/ op[p].schemes \subseteq torn
  /\ \A p, q \in Ops : p # q /\ Tapping(p) /\ Tapping(q) =>
       op[p].schemes \cap op[q].schemes \subseteq torn

\* The same as ScreenFollowsAccount, scheme by scheme.
Added(s)   == \E p \in Ops : Tapping(p) /\ op[p].add /\ s \in op[p].schemes
Removed(s) == \E p \in Ops : Tapping(p) /\ ~op[p].add /\ s \in op[p].schemes
Follows == who \in Users =>
  \A s \in active \ torn : s \in shown <=> (s \in remote[who] \/ Added(s)) /\ ~Removed(s)

IInv == TypeOK /\ Shapes /\ Crossing /\ Orderly /\ Follows

-----------------------------------------------------------------------------
LEMMA IdleOperation == Idle \in Operation
BY DEF Idle, Operation

LEMMA InitInv == Init => IInv
<1> SUFFICES ASSUME Init PROVE IInv
  OBVIOUS
<1>1. \A p \in Ops : op[p] = Idle
  BY DEF Init
<1>2. Idle.kind = "none" /\ Idle.pc = "idle"
  BY DEF Idle
<1>3. TypeOK
  <2>1. 0 \in 0..Mishaps
    BY MishapsAssumption
  <2> QED
    BY <1>1, <1>2, <2>1, IdleOperation DEF Init, TypeOK
<1>4. Shapes /\ Crossing
  BY <1>1, <1>2 DEF Shapes, Crossing
<1> QED
  BY <1>3, <1>4, NoUserAssumption DEF Init, IInv, Orderly, Follows

\* One operation begins, goes on or ends.
LEMMA OneOp ==
  ASSUME IInv, NEW o \in Ops, NEW new \in Operation, op' = [op EXCEPT ![o] = new]
  PROVE  /\ op' \in [Ops -> Operation]
         /\ \A p \in Ops : op'[p] = IF p = o THEN new ELSE op[p]
BY DEF IInv, TypeOK

LEMMA Ended ==
  ASSUME IInv, NEW o \in Ops, End(o)
  PROVE  /\ op' \in [Ops -> Operation]
         /\ \A p \in Ops : op'[p] = IF p = o THEN Idle ELSE op[p]
         /\ Idle.kind = "none" /\ Idle.pc = "idle"
<1>1. op' = [op EXCEPT ![o] = Idle]
  BY DEF End
<1> QED
  BY <1>1, IdleOperation, OneOp DEF Idle

LEMMA TapSchemes ==
  ASSUME IInv
  PROVE  /\ InTap \subseteq Schemes
         /\ \A s : s \in InTap <=> \E p \in Ops : Tapping(p) /\ s \in op[p].schemes
BY DEF IInv, TypeOK, Operation, InTap

LEMMA SignInInv ==
  ASSUME IInv, NEW u \in Users, NEW o \in Ops, SignIn(u, o)
  PROVE  IInv'
<1> DEFINE new == [Idle EXCEPT !.kind = "sync", !.pc = "sent", !.user = u, !.across = InTap]
<1>1. op' = [op EXCEPT ![o] = new] /\ who' = u /\ torn' = Schemes
  BY DEF SignIn
<1>2. UNCHANGED <<shown, mirror, remote, active, mishaps, own>>
  BY DEF SignIn
<1>3. /\ new \in Operation /\ new.kind = "sync" /\ new.pc = "sent" /\ new.user = u
      /\ new.across = InTap
  BY TapSchemes DEF Idle, Operation
<1> HIDE DEF new
<1>4. \A p \in Ops : op'[p] = IF p = o THEN new ELSE op[p]
  BY <1>1 DEF IInv, TypeOK
<1>5. TypeOK'
  BY <1>1, <1>2, <1>3 DEF IInv, TypeOK
<1>6. Shapes'
  BY <1>3, <1>4 DEF IInv, Shapes
<1>7. \A q \in Ops : Tapping(q)' => Tapping(q) /\ op'[q] = op[q]
  BY <1>3, <1>4 DEF Tapping
<1>8. Crossing'
  <2> SUFFICES ASSUME NEW p \in Ops, op'[p].kind = "sync"
               PROVE  /\ \A q \in Ops : Tapping(q)' => op'[q].schemes \subseteq op'[p].across
                      /\ op'[p].pc = "back" => \A s \in active \ op'[p].across :
                           s \in op'[p].schemes <=> s \in remote[op'[p].user]
    BY <1>2 DEF Crossing
  <2>1. CASE p = o
    BY <2>1, <1>3, <1>4, <1>7, TapSchemes
  <2>2. CASE p # o
    BY <2>2, <1>4, <1>7 DEF IInv, Crossing
  <2> QED
    BY <2>1, <2>2
<1>9. \A p \in Ops : op'[p].schemes \subseteq Schemes
  BY <1>5 DEF TypeOK, Operation
<1>10. active' \ torn' = {}
  BY <1>1, <1>5 DEF TypeOK
<1> QED
  BY <1>1, <1>5, <1>6, <1>8, <1>9, <1>10 DEF IInv, Orderly, Follows

LEMMA SignOutInv ==
  ASSUME IInv, SignOut
  PROVE  IInv'
<1>1. who' = NoUser /\ shown' = mirror
      /\ UNCHANGED <<mirror, remote, active, op, mishaps, own, torn>>
  BY DEF SignOut, history
<1>2. TypeOK' /\ Shapes' /\ Crossing'
  BY <1>1 DEF IInv, TypeOK, Shapes, Crossing, Tapping
<1> QED
  BY <1>1, <1>2, NoUserAssumption DEF IInv, Orderly, Follows

-----------------------------------------------------------------------------
(* Taps *)

LEMMA CrossedOps ==
  ASSUME IInv, NEW s \in Schemes
  PROVE  /\ Crossed(s) \in [Ops -> Operation]
         /\ \A p \in Ops :
              /\ Crossed(s)[p].kind = op[p].kind /\ Crossed(s)[p].pc = op[p].pc
              /\ Crossed(s)[p].user = op[p].user /\ Crossed(s)[p].schemes = op[p].schemes
              /\ Crossed(s)[p].add = op[p].add
              /\ Crossed(s)[p].across =
                   IF op[p].kind = "sync" THEN op[p].across \cup {s} ELSE op[p].across
<1> DEFINE z(p) == [op[p] EXCEPT !.across = IF op[p].kind = "sync" THEN @ \cup {s} ELSE @]
<1>1. ASSUME NEW p \in Ops
      PROVE  /\ z(p) \in Operation
             /\ z(p).kind = op[p].kind /\ z(p).pc = op[p].pc
             /\ z(p).user = op[p].user /\ z(p).schemes = op[p].schemes
             /\ z(p).add = op[p].add
             /\ z(p).across = IF op[p].kind = "sync" THEN op[p].across \cup {s} ELSE op[p].across
  <2>1. op[p] \in Operation
    BY DEF IInv, TypeOK
  <2> QED
    BY <2>1 DEF Operation
<1>2. Crossed(s) = [p \in Ops |-> z(p)]
  BY DEF Crossed
<1> HIDE DEF z
<1> QED
  BY <1>1, <1>2

LEMMA TapInv ==
  ASSUME IInv, NEW s \in Schemes, NEW o \in Ops, Tap(s, o)
  PROVE  IInv'
<1> DEFINE wasSaved == s \in shown
           new == [Idle EXCEPT !.kind = "tap", !.pc = "storing", !.schemes = {s},
                               !.add = ~wasSaved]
<1>1. /\ op' = [Crossed(s) EXCEPT ![o] = new]
      /\ shown' = IF wasSaved THEN shown \ {s} ELSE shown \cup {s}
      /\ mirror' = shown' /\ own' \subseteq own \cup {s}
      /\ torn' = IF s \in InTap THEN torn \cup {s} ELSE torn \ {s}
      /\ UNCHANGED <<who, remote, active, mishaps>> /\ ~Busy(o)
  BY DEF Tap
<1>2. /\ new \in Operation /\ new.kind = "tap" /\ new.pc = "storing"
      /\ new.schemes = {s} /\ new.add = ~wasSaved
  BY DEF Idle, Operation
<1> HIDE DEF new
<1>3. op'[o] = new
  BY <1>1, CrossedOps
<1>0. ASSUME NEW p \in Ops, p # o
      PROVE  /\ op'[p].kind = op[p].kind /\ op'[p].pc = op[p].pc
             /\ op'[p].user = op[p].user /\ op'[p].schemes = op[p].schemes
             /\ op'[p].add = op[p].add
             /\ op'[p].across = IF op[p].kind = "sync" THEN op[p].across \cup {s} ELSE op[p].across
  BY <1>0, <1>1, CrossedOps
<1>4. TypeOK'
  <2>1. op' \in [Ops -> Operation]
    BY <1>1, <1>2, CrossedOps
  <2>2. \A p \in Ops : op'[p].pc \in {"sent", "back"} => op'[p].user \in Users
    BY <1>2, <1>3, <1>0 DEF IInv, TypeOK
  <2> QED
    BY <1>1, <2>1, <2>2 DEF IInv, TypeOK
<1>5. Shapes'
  <2> SUFFICES ASSUME NEW p \in Ops
               PROVE  /\ op'[p].pc = "idle" => op'[p].kind = "none"
                      /\ op'[p].kind = "sync" => op'[p].pc \in {"sent", "back"}
                      /\ op'[p].kind = "tap" =>
                           /\ op'[p].pc \in {"storing", "sent"}
                           /\ \E z \in Schemes : op'[p].schemes = {z}
                      /\ op'[p].kind = "none" => op'[p].pc = "idle"
    BY DEF Shapes
  <2>1. CASE p = o
    BY <2>1, <1>2, <1>3
  <2>2. CASE p # o
    BY <2>2, <1>0 DEF IInv, Shapes
  <2> QED
    BY <2>1, <2>2
<1>6. ~Tapping(o) /\ Tapping(o)' /\ op'[o].schemes = {s}
  BY <1>1, <1>2, <1>3 DEF IInv, Shapes, Busy, Tapping
<1>7. \A q \in Ops \ {o} : Tapping(q)' = Tapping(q) /\ op'[q].schemes = op[q].schemes
  BY <1>0 DEF Tapping
<1>8. Crossing'
  <2> SUFFICES ASSUME NEW p \in Ops, op'[p].kind = "sync"
               PROVE  /\ \A q \in Ops : Tapping(q)' => op'[q].schemes \subseteq op'[p].across
                      /\ op'[p].pc = "back" => \A z \in active \ op'[p].across :
                           z \in op'[p].schemes <=> z \in remote[op'[p].user]
    BY <1>1 DEF Crossing
  <2>1. /\ p # o /\ op[p].kind = "sync" /\ op'[p].across = op[p].across \cup {s}
        /\ op'[p].schemes = op[p].schemes /\ op'[p].user = op[p].user /\ op'[p].pc = op[p].pc
    BY <1>0, <1>2, <1>3
  <2>2. \A q \in Ops : Tapping(q)' => op'[q].schemes \subseteq op'[p].across
    BY <1>6, <1>7, <2>1 DEF IInv, Crossing
  <2> QED
    BY <2>1, <2>2 DEF IInv, Crossing
<1>9. s \notin InTap => \A p \in Ops : Tapping(p) => s \notin op[p].schemes
  BY TapSchemes
<1>10. Orderly'
  <2> SUFFICES ASSUME who \in Users PROVE Orderly'
    BY <1>1 DEF Orderly
  <2>1. ASSUME NEW p \in Ops, Tapping(p)', op'[p].pc = "sent"
        PROVE  op'[p].user = who \/ op'[p].schemes \subseteq torn'
    <3>1. p # o /\ Tapping(p) /\ op[p].pc = "sent"
      BY <1>0, <1>2, <1>3, <1>7, <2>1
    <3>2. op[p].user = who \/ op[p].schemes \subseteq torn
      BY <3>1 DEF IInv, Orderly
    <3>3. op[p].schemes \subseteq torn => op[p].schemes \subseteq torn'
      BY <1>1, <1>9, <3>1
    <3> QED
      BY <1>0, <3>1, <3>2, <3>3
  <2>2. ASSUME NEW p \in Ops, NEW q \in Ops, p # q, Tapping(p)', Tapping(q)'
        PROVE  op'[p].schemes \cap op'[q].schemes \subseteq torn'
    <3>1. CASE p = o \/ q = o
      BY <1>1, <1>6, <1>7, <1>9, <2>2, <3>1
    <3>2. CASE p # o /\ q # o
      <4>1. op[p].schemes \cap op[q].schemes \subseteq torn
        BY <1>7, <2>2, <3>2 DEF IInv, Orderly
      <4> QED
        BY <1>1, <1>7, <1>9, <2>2, <3>2, <4>1
    <3> QED
      BY <3>1, <3>2
  <2> QED
    BY <1>1, <2>1, <2>2 DEF Orderly
<1>11. Follows'
  <2> SUFFICES ASSUME who \in Users, NEW z \in active \ torn'
               PROVE  z \in shown' <=> (z \in remote[who] \/ Added(z)') /\ ~Removed(z)'
    BY <1>1 DEF Follows
  <2>1. CASE z # s
    <3>1. z \in shown <=> (z \in remote[who] \/ Added(z)) /\ ~Removed(z)
      BY <1>1, <2>1 DEF IInv, Follows
    <3>2. (Added(z)' <=> Added(z)) /\ (Removed(z)' <=> Removed(z))
      <4>1. \A p \in Ops : Tapping(p)' /\ z \in op'[p].schemes
                             <=> Tapping(p) /\ z \in op[p].schemes
        BY <1>6, <1>7, <2>1
      <4>2. \A p \in Ops : Tapping(p) => op'[p].add = op[p].add
        BY <1>0, <1>6
      <4> QED
        BY <4>1, <4>2 DEF Added, Removed
    <3> QED
      BY <1>1, <2>1, <3>1, <3>2
  <2>2. CASE z = s
    <3>1. \A p \in Ops \ {o} : ~(Tapping(p)' /\ s \in op'[p].schemes)
      BY <1>1, <1>7, <1>9, <2>2
    <3>2. Added(z)' <=> ~wasSaved
      BY <1>2, <1>3, <1>6, <2>2, <3>1 DEF Added
    <3>3. Removed(z)' <=> wasSaved
      BY <1>2, <1>3, <1>6, <2>2, <3>1 DEF Removed
    <3> QED
      BY <1>1, <2>2, <3>2, <3>3
  <2> QED
    BY <2>1, <2>2
<1> QED
  BY <1>4, <1>5, <1>8, <1>10, <1>11 DEF IInv

LEMMA TapStoredInv ==
  ASSUME IInv, NEW o \in Ops, TapStored(o)
  PROVE  IInv'
<1>1. UNCHANGED <<who, shown, mirror, remote, active, mishaps, own, torn>>
  BY DEF TapStored, history
<1>2. op[o].kind = "tap" /\ op[o].pc = "storing" /\ op[o] \in Operation
  BY DEF TapStored, IInv, TypeOK
<1>3. CASE who = NoUser /\ End(o)
  <2>1. TypeOK'
    BY <1>1, <1>3, Ended DEF IInv, TypeOK
  <2>2. Shapes' /\ Crossing'
    BY <1>1, <1>3, Ended DEF IInv, Shapes, Crossing, Tapping
  <2> QED
    BY <1>1, <1>3, <2>1, <2>2, NoUserAssumption DEF IInv, Orderly, Follows
<1>4. CASE who # NoUser /\ op' = [op EXCEPT ![o].pc = "sent", ![o].user = who]
  <2> DEFINE new == [op[o] EXCEPT !.pc = "sent", !.user = who]
  <2>1. /\ new \in Operation /\ new.kind = "tap" /\ new.pc = "sent" /\ new.user = who
        /\ new.schemes = op[o].schemes /\ new.add = op[o].add
    BY <1>2 DEF IInv, TypeOK, Operation
  <2>2. op' = [op EXCEPT ![o] = new]
    BY <1>4 DEF IInv, TypeOK
  <2> HIDE DEF new
  <2>3. /\ op' \in [Ops -> Operation]
        /\ \A p \in Ops : op'[p] = IF p = o THEN new ELSE op[p]
    BY <2>1, <2>2, OneOp
  <2>4. TypeOK'
    BY <1>1, <1>4, <2>1, <2>3 DEF IInv, TypeOK
  <2>5. Shapes'
    BY <1>2, <2>1, <2>3 DEF IInv, Shapes
  <2>6. Crossing'
    BY <1>1, <1>2, <2>1, <2>3 DEF IInv, Crossing, Tapping
  <2>7. Orderly'
    BY <1>1, <1>2, <2>1, <2>3 DEF IInv, Orderly, Tapping
  <2>8. \A z : (Added(z)' <=> Added(z)) /\ (Removed(z)' <=> Removed(z))
    BY <1>2, <2>1, <2>3 DEF Added, Removed, Tapping
  <2>9. Follows'
    BY <1>1, <2>8 DEF IInv, Follows
  <2> QED
    BY <2>4, <2>5, <2>6, <2>7, <2>9 DEF IInv
<1> QED
  BY <1>3, <1>4 DEF TapStored

-----------------------------------------------------------------------------
(* Calls *)

\* The effect of a call on one scheme.
LEMMA CallInv ==
  ASSUME IInv, NEW o \in Ops, Save(o) \/ Unsave(o)
  PROVE  IInv'
<1> DEFINE user == op[o].user
<1>1. /\ Tapping(o) /\ op[o].pc = "sent" /\ End(o)
      /\ UNCHANGED <<who, shown, mirror, active, mishaps, own, torn>>
      /\ user \in Users
  BY DEF Save, Unsave, Tapping, history, IInv, TypeOK
<1>2. /\ remote' = [remote EXCEPT ![user] = remote'[user]]
      /\ remote'[user] = IF op[o].add THEN remote[user] \cup (op[o].schemes \cap active)
                                      ELSE remote[user] \ op[o].schemes
  BY <1>1 DEF Save, Unsave, IInv, TypeOK
<1>3. remote' \in [Users -> SUBSET Schemes]
  <2>1. op[o].schemes \subseteq Schemes
    BY DEF IInv, TypeOK, Operation
  <2> QED
    BY <1>1, <1>2, <2>1 DEF IInv, TypeOK
<1>4. TypeOK' /\ Shapes'
  BY <1>1, <1>3, Ended DEF IInv, TypeOK, Shapes
<1>5. \A u \in Users : \A z :
        z \notin op[o].schemes => (z \in remote'[u] <=> z \in remote[u])
  BY <1>2 DEF IInv, TypeOK
<1>6. ~Tapping(o)' /\ \A p \in Ops : p # o => op'[p] = op[p]
  BY <1>1, Ended DEF Tapping
<1>7. Crossing'
  <2> SUFFICES ASSUME NEW p \in Ops, op'[p].kind = "sync"
               PROVE  /\ \A q \in Ops : Tapping(q)' => op'[q].schemes \subseteq op'[p].across
                      /\ op'[p].pc = "back" => \A z \in active \ op'[p].across :
                           z \in op'[p].schemes <=> z \in remote'[op'[p].user]
    BY <1>1 DEF Crossing
  <2>1. p # o /\ op'[p] = op[p]
    BY <1>1, <1>6, Ended
  <2>2. op[o].schemes \subseteq op[p].across
    BY <1>1, <2>1 DEF IInv, Crossing
  <2>3. op[p].pc = "back" => op[p].user \in Users
    BY DEF IInv, TypeOK
  <2>4. \A q \in Ops : Tapping(q)' => op'[q].schemes \subseteq op'[p].across
    BY <1>6, <2>1 DEF IInv, Crossing, Tapping
  <2> QED
    BY <1>5, <2>1, <2>2, <2>3, <2>4 DEF IInv, Crossing
<1>8. Orderly'
  BY <1>1, <1>6 DEF IInv, Orderly, Tapping
<1>9. Follows'
  <2> SUFFICES ASSUME who \in Users, NEW z \in active \ torn
               PROVE  z \in shown <=> (z \in remote'[who] \/ Added(z)') /\ ~Removed(z)'
    BY <1>1 DEF Follows
  <2>1. z \in shown <=> (z \in remote[who] \/ Added(z)) /\ ~Removed(z)
    BY DEF IInv, Follows
  <2>2. CASE z \notin op[o].schemes
    <3>1. (Added(z)' <=> Added(z)) /\ (Removed(z)' <=> Removed(z))
      BY <1>6, <2>2 DEF Added, Removed, Tapping
    <3> QED
      BY <1>5, <2>1, <2>2, <3>1
  <2>3. CASE z \in op[o].schemes
    <3>0. user = who
      BY <1>1, <2>3 DEF IInv, Orderly
    <3>1. \A p \in Ops : p # o /\ Tapping(p) => z \notin op[p].schemes
      BY <1>1, <2>3 DEF IInv, Orderly
    <3>2. ~Added(z)' /\ ~Removed(z)'
      BY <1>6, <3>1 DEF Added, Removed, Tapping
    <3>3. (Added(z) <=> op[o].add) /\ (Removed(z) <=> ~op[o].add)
      BY <1>1, <2>3, <3>1 DEF Added, Removed
    <3>4. CASE op[o].add
      BY <1>2, <2>1, <2>3, <3>0, <3>2, <3>3, <3>4
    <3>5. CASE ~op[o].add
      BY <1>2, <2>1, <2>3, <3>0, <3>2, <3>3, <3>5
    <3> QED
      BY <3>4, <3>5
  <2> QED
    BY <2>2, <2>3
<1> QED
  BY <1>4, <1>7, <1>8, <1>9 DEF IInv

LEMMA LoseInv ==
  ASSUME IInv, NEW o \in Ops, Lose(o)
  PROVE  IInv'
<1>1. /\ op[o].pc = "sent" /\ mishaps < Mishaps /\ mishaps' = mishaps + 1
      /\ torn' = torn \cup op[o].schemes /\ End(o)
      /\ UNCHANGED <<who, shown, mirror, remote, active, own>>
  BY DEF Lose
<1>2. TypeOK'
  <2>1. mishaps' \in 0..Mishaps
    BY <1>1, MishapsAssumption DEF IInv, TypeOK
  <2>2. torn' \subseteq Schemes
    BY <1>1 DEF IInv, TypeOK, Operation
  <2> QED
    BY <1>1, <2>1, <2>2, Ended DEF IInv, TypeOK
<1>3. Shapes'
  BY <1>1, Ended DEF IInv, Shapes
<1>4. ~Tapping(o)' /\ \A p \in Ops : p # o => op'[p] = op[p]
  BY <1>1, Ended DEF Tapping
<1>5. Crossing'
  BY <1>1, <1>4, Ended DEF IInv, Crossing, Tapping
<1>6. Orderly'
  BY <1>1, <1>4 DEF IInv, Orderly, Tapping
<1>7. Follows'
  <2> SUFFICES ASSUME who \in Users, NEW z \in active \ torn'
               PROVE  z \in shown <=> (z \in remote[who] \/ Added(z)') /\ ~Removed(z)'
    BY <1>1 DEF Follows
  <2>1. (Added(z)' <=> Added(z)) /\ (Removed(z)' <=> Removed(z))
    BY <1>1, <1>4 DEF Added, Removed, Tapping
  <2> QED
    BY <1>1, <2>1 DEF IInv, Follows
<1> QED
  BY <1>2, <1>3, <1>5, <1>6, <1>7 DEF IInv

LEMMA WithdrawInv ==
  ASSUME IInv, NEW s \in Schemes, Withdraw(s)
  PROVE  IInv'
<1>1. /\ mishaps < Mishaps /\ mishaps' = mishaps + 1 /\ active' = active \ {s}
      /\ UNCHANGED <<who, shown, mirror, remote, op, own, torn>>
  BY DEF Withdraw, history
<1>2. mishaps' \in 0..Mishaps
  BY <1>1, MishapsAssumption DEF IInv, TypeOK
<1>3. TypeOK'
  BY <1>1, <1>2 DEF IInv, TypeOK
<1>4. Shapes' /\ Orderly'
  BY <1>1 DEF IInv, Shapes, Orderly, Tapping
<1>5. Crossing'
  BY <1>1 DEF IInv, Crossing, Tapping
<1>6. Follows'
  BY <1>1 DEF IInv, Follows, Added, Removed, Tapping
<1> QED
  BY <1>3, <1>4, <1>5, <1>6 DEF IInv

-----------------------------------------------------------------------------
(* Syncs *)

LEMMA ListSavedInv ==
  ASSUME IInv, NEW o \in Ops, ListSaved(o)
  PROVE  IInv'
<1> DEFINE list == remote[op[o].user] \cap active
           new  == [op[o] EXCEPT !.pc = "back", !.schemes = list]
<1>1. /\ op[o].kind = "sync" /\ op[o].pc = "sent"
      /\ UNCHANGED <<who, shown, mirror, remote, active, mishaps, own, torn>>
  BY DEF ListSaved, history
<1>2. op[o] \in Operation /\ op[o].user \in Users /\ list \subseteq Schemes
  BY <1>1 DEF IInv, TypeOK
<1>3. /\ new \in Operation /\ new.kind = "sync" /\ new.pc = "back" /\ new.schemes = list
      /\ new.user = op[o].user /\ new.across = op[o].across
  BY <1>1, <1>2 DEF Operation
<1>4. op' = [op EXCEPT ![o] = new]
  BY DEF ListSaved, IInv, TypeOK
<1> HIDE DEF new, list
<1>5. /\ op' \in [Ops -> Operation]
      /\ \A p \in Ops : op'[p] = IF p = o THEN new ELSE op[p]
  BY <1>3, <1>4, OneOp
<1>6. TypeOK'
  BY <1>1, <1>2, <1>3, <1>5 DEF IInv, TypeOK
<1>7. Shapes'
  BY <1>3, <1>5 DEF IInv, Shapes
<1>8. \A p \in Ops : op'[p].kind = op[p].kind /\ (Tapping(p) => op'[p] = op[p])
  BY <1>1, <1>3, <1>5 DEF Tapping
<1>9. Crossing'
  <2> SUFFICES ASSUME NEW p \in Ops, op'[p].kind = "sync"
               PROVE  /\ \A q \in Ops : Tapping(q)' => op'[q].schemes \subseteq op'[p].across
                      /\ op'[p].pc = "back" => \A s \in active \ op'[p].across :
                           s \in op'[p].schemes <=> s \in remote[op'[p].user]
    BY <1>1 DEF Crossing
  <2>1. op[p].kind = "sync" /\ op'[p].across = op[p].across
    BY <1>3, <1>5, <1>8
  <2>2. \A q \in Ops : Tapping(q)' => op'[q].schemes \subseteq op'[p].across
    BY <1>8, <2>1 DEF IInv, Crossing, Tapping
  <2>3. CASE p = o
    BY <1>3, <1>5, <2>2, <2>3 DEF list
  <2>4. CASE p # o
    BY <1>5, <2>1, <2>2, <2>4 DEF IInv, Crossing
  <2> QED
    BY <2>3, <2>4
<1>10. Orderly'
  BY <1>1, <1>8 DEF IInv, Orderly, Tapping
<1>11. Follows'
  BY <1>1, <1>8 DEF IInv, Follows, Added, Removed, Tapping
<1> QED
  BY <1>6, <1>7, <1>9, <1>10, <1>11 DEF IInv

LEMMA SyncLandedInv ==
  ASSUME IInv, NEW o \in Ops, SyncLanded(o)
  PROVE  IInv'
<1>1. /\ op[o].kind = "sync" /\ op[o].pc = "back" /\ End(o)
      /\ shown' = op[o].schemes /\ mirror' = op[o].schemes /\ own' \subseteq own
      /\ torn' = IF op[o].user = who THEN op[o].across ELSE Schemes
      /\ UNCHANGED <<who, remote, active, mishaps>>
  BY DEF SyncLanded
<1>2. op[o].schemes \subseteq Schemes /\ op[o].across \subseteq Schemes
  BY DEF IInv, TypeOK, Operation
<1>3. \A p \in Ops : op'[p] = IF p = o THEN Idle ELSE op[p]
  BY <1>1, Ended
<1>4. TypeOK'
  BY <1>1, <1>2, Ended DEF IInv, TypeOK
<1>5. Shapes'
  BY <1>1, Ended DEF IInv, Shapes
<1>6. \A p \in Ops : Tapping(p)' => Tapping(p) /\ op'[p] = op[p]
  BY <1>1, <1>3, Ended DEF Tapping
<1>7. Crossing'
  BY <1>1, <1>3, <1>6, Ended DEF IInv, Crossing
<1>8. \A p \in Ops : Tapping(p) => op[p].schemes \subseteq torn'
  BY <1>1 DEF IInv, Crossing, TypeOK, Operation
<1>9. Orderly'
  BY <1>6, <1>8 DEF Orderly
<1>10. Follows'
  <2> SUFFICES ASSUME who \in Users, NEW z \in active \ torn'
               PROVE  z \in shown' <=> (z \in remote[who] \/ Added(z)') /\ ~Removed(z)'
    BY <1>1 DEF Follows
  <2>1. ~Added(z)' /\ ~Removed(z)'
    BY <1>6, <1>8 DEF Added, Removed
  <2>2. z \in Schemes
    BY DEF IInv, TypeOK
  <2>3. op[o].user = who /\ z \notin op[o].across
    BY <1>1, <2>2
  <2>4. z \in op[o].schemes <=> z \in remote[who]
    BY <1>1, <2>3 DEF IInv, Crossing
  <2> QED
    BY <1>1, <2>1, <2>4
<1> QED
  BY <1>4, <1>5, <1>7, <1>9, <1>10 DEF IInv

-----------------------------------------------------------------------------
LEMMA NextInv == IInv /\ [Next]_vars => IInv'
<1> SUFFICES ASSUME IInv, [Next]_vars PROVE IInv'
  OBVIOUS
<1>1. ASSUME NEW u \in Users, NEW o \in Ops, SignIn(u, o) PROVE IInv'
  BY <1>1, SignInInv
<1>2. ASSUME SignOut PROVE IInv'
  BY <1>2, SignOutInv
<1>3. ASSUME NEW s \in Schemes, NEW o \in Ops, Tap(s, o) PROVE IInv'
  BY <1>3, TapInv
<1>4. ASSUME NEW o \in Ops, SyncStep(o) PROVE IInv'
  BY <1>4, ListSavedInv, SyncLandedInv DEF SyncStep
<1>5. ASSUME NEW o \in Ops, TapStep(o) PROVE IInv'
  BY <1>5, TapStoredInv, CallInv DEF TapStep
<1>6. ASSUME NEW o \in Ops, Lose(o) PROVE IInv'
  BY <1>6, LoseInv
<1>7. ASSUME NEW s \in Schemes, Withdraw(s) PROVE IInv'
  BY <1>7, WithdrawInv
<1>8. CASE UNCHANGED vars
  BY <1>8 DEF vars, IInv, TypeOK, Shapes, Crossing, Orderly, Tapping, Follows, Added, Removed
<1> QED
  BY <1>1, <1>2, <1>3, <1>4, <1>5, <1>6, <1>7, <1>8 DEF Next

LEMMA Invariance == Spec => []IInv
BY InitInv, NextInv, PTL DEF Spec

\* Every variable keeps its type: a call is only ever out for an account, and
\* no sooner than one is signed in (saved_schemes_repository.dart:182-193).
THEOREM TypeCorrect == Spec => []TypeOK
<1>1. IInv => TypeOK
  BY DEF IInv
<1> QED
  BY <1>1, Invariance, PTL

\* A race or a lost call can only leave its own scheme wrong: every other scheme
\* shows what the account has with the taps on their way applied, whichever taps,
\* syncs and sessions overlap (saved_schemes_repository.dart:150-193).
THEOREM ScreenIsTheAccounts == Spec => []ScreenFollowsAccount
<1>1. IInv => ScreenFollowsAccount
  <2> SUFFICES ASSUME IInv, who # NoUser PROVE ScreenFollowsAccount
    BY DEF ScreenFollowsAccount
  <2> DEFINE sound == active \ torn
  <2>1. who \in Users
    BY DEF IInv, TypeOK
  <2>2. ASSUME NEW z
        PROVE  /\ z \in OnTheWay(TRUE) <=> Added(z)
               /\ z \in OnTheWay(FALSE) <=> Removed(z)
    <3>1. \A p \in Ops : op[p].add \in BOOLEAN
      BY DEF IInv, TypeOK, Operation
    <3> QED
      BY <3>1 DEF OnTheWay, Added, Removed
  <2>3. \A z \in sound : z \in shown <=> (z \in remote[who] \/ Added(z)) /\ ~Removed(z)
    BY <2>1 DEF IInv, Follows
  <2>4. shown \cap sound = ((remote[who] \cup OnTheWay(TRUE)) \ OnTheWay(FALSE)) \cap sound
    BY <2>2, <2>3
  <2> QED
    BY <2>4 DEF ScreenFollowsAccount
<1> QED
  BY <1>1, Invariance, PTL
=============================================================================
