------------------------------ MODULE Sessions ------------------------------
(***************************************************************************)
(* What the auth service promises to whoever holds refresh tokens, without *)
(* rows, transactions or locks.  A token that was never handed out before  *)
(* is honoured from one moment on and, from a later one, never again.  It  *)
(* comes from a claim, and each claim brings one: that of a sign-in, or of *)
(* a token presented while it was honoured, which ends by the exchange.    *)
(* Several claims may be open on one token.                                *)
(***************************************************************************)
CONSTANTS Users, Tokens, Reqs, NoUser, NoToken

VARIABLES
  live,    \* the tokens that are honoured
  dead,    \* those that were and are not any more
  holder,  \* the account of each token
  claim    \* what each request in progress may obtain a token for

vars == <<live, dead, holder, claim>>

None == [user |-> NoUser, old |-> NoToken]

Init == /\ live = {} /\ dead = {}
        /\ holder = [t \in Tokens |-> NoUser]
        /\ claim = [r \in Reqs |-> None]

Claim(r, user, old) ==
  /\ claim[r] = None
  /\ claim' = [claim EXCEPT ![r] = [user |-> user, old |-> old]]
  /\ UNCHANGED <<live, dead, holder>>

SignIn(r, u)  == Claim(r, u, NoToken)
Present(r, t) == t \in live /\ Claim(r, holder[t], t)

GiveUp(r) ==
  /\ claim[r] # None
  /\ claim' = [claim EXCEPT ![r] = None]
  /\ UNCHANGED <<live, dead, holder>>

Honour(r, n) ==
  /\ claim[r] # None /\ n \notin live \cup dead
  /\ live' = (live \ {claim[r].old}) \cup {n}
  /\ dead' = dead \cup ({claim[r].old} \ {NoToken})
  /\ holder' = [holder EXCEPT ![n] = claim[r].user]
  /\ claim' = [claim EXCEPT ![r] = None]

\* A sign-out, the end of its lifetime, or a sweep over an account.
End(T) ==
  /\ T \subseteq live /\ \A s, t \in T : holder[s] = holder[t]
  /\ live' = live \ T /\ dead' = dead \cup T
  /\ UNCHANGED <<holder, claim>>

Next ==
  \/ \E r \in Reqs : \/ \E u \in Users  : SignIn(r, u)
                     \/ \E t \in Tokens : Present(r, t) \/ Honour(r, t)
                     \/ GiveUp(r)
  \/ \E T \in SUBSET Tokens : End(T)

Spec == Init /\ [][Next]_vars
=============================================================================
