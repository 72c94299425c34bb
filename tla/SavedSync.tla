------------------------------ MODULE SavedSync ------------------------------
(***************************************************************************)
(* Saved schemes: SavedSchemesNotifier on one device (Flutter,             *)
(* core/local/saved_schemes_repository.dart) against the scheme_saves      *)
(* table behind /me/saved-schemes.  A tap changes the screen and the local *)
(* mirror at once and calls the server after an await; a sign-in starts a  *)
(* sync that replaces both when its answer lands.  Nothing orders these    *)
(* calls: taps, syncs, sign-outs and account switches interleave at every  *)
(* await, and two calls in flight may reach the server in either order.    *)
(*                                                                         *)
(* SharedPreferences.setString replaces its in-memory value before the     *)
(* first await, so the mirror changes in the same step as the screen.      *)
(***************************************************************************)
EXTENDS Naturals, FiniteSets

CONSTANTS Users, Schemes, NoUser,
          Ops,      \* taps and syncs that can be in progress at one time
          Mishaps   \* bound: requests that fail and schemes that are withdrawn

ASSUME NoUserAssumption == NoUser \notin Users
ASSUME MishapsAssumption == Mishaps \in Nat

VARIABLES
  who,     \* AuthState: the signed-in account, or NoUser
  shown,   \* the notifier's state: what every screen renders as saved
  mirror,  \* the saved_schemes key of SharedPreferences
  remote,  \* scheme_saves: the rows of each account
  active,  \* schemes.is_active
  op,      \* the taps and syncs in progress
  mishaps,
  own,     \* history: what the screen shows that was saved while signed out
  torn     \* history: the schemes that a race or a lost call may have left wrong

vars == <<who, shown, mirror, remote, active, op, mishaps, own, torn>>
history == <<own, torn>>

\* A sync is sent, then back with its answer; a tap stores the mirror, then its
\* save or unsave call is sent.  across: history, the schemes whose taps were in
\* progress at some time during the sync.
Operation == [kind : {"none", "sync", "tap"}, pc : {"idle", "storing", "sent", "back"},
              user : Users \cup {NoUser}, schemes : SUBSET Schemes,
              add : BOOLEAN, across : SUBSET Schemes]

Idle == [kind |-> "none", pc |-> "idle", user |-> NoUser, schemes |-> {},
         add |-> FALSE, across |-> {}]

Busy(o) == op[o].pc # "idle"
End(o)  == op' = [op EXCEPT ![o] = Idle]
Tapping(o) == op[o].kind = "tap"
InTap   == UNION {op[o].schemes : o \in {p \in Ops : Tapping(p)}}
\* Every sync in progress has a tap of this scheme running across it.
Crossed(s) ==
  [o \in Ops |-> [op[o] EXCEPT !.across = IF op[o].kind = "sync" THEN @ \cup {s} ELSE @]]

Init ==
  /\ who = NoUser /\ shown = {} /\ mirror = {} /\ own = {} /\ torn = Schemes
  /\ remote \in [Users -> SUBSET Schemes]
  /\ active = Schemes /\ mishaps = 0
  /\ op = [o \in Ops |-> Idle]

-----------------------------------------------------------------------------
(* The device *)

\* The listener sees a sign-in complete and starts syncFromRemote, whose list
\* call carries the token of the account signed in now.
SignIn(u, o) ==
  /\ who = NoUser /\ ~Busy(o)
  /\ who' = u /\ torn' = Schemes
  /\ op' = [op EXCEPT ![o] =
       [Idle EXCEPT !.kind = "sync", !.pc = "sent", !.user = u, !.across = InTap]]
  /\ UNCHANGED <<shown, mirror, remote, active, mishaps, own>>

\* The listener sees a sign-out: the screen goes back to the local list.
SignOut ==
  /\ who # NoUser
  /\ who' = NoUser /\ shown' = mirror
  /\ UNCHANGED <<mirror, remote, active, op, mishaps, history>>

\* toggle(): the screen and the mirror change before the first await.
Tap(s, o) ==
  /\ ~Busy(o)
  /\ LET wasSaved == s \in shown
         next == IF wasSaved THEN shown \ {s} ELSE shown \cup {s}
     IN /\ shown' = next /\ mirror' = next
        /\ own' = IF wasSaved THEN own \ {s}
                  ELSE IF who = NoUser THEN own \cup {s} ELSE own
        /\ op' = [Crossed(s) EXCEPT ![o] =
             [Idle EXCEPT !.kind = "tap", !.pc = "storing", !.schemes = {s},
                          !.add = ~wasSaved]]
  /\ torn' = IF s \in InTap THEN torn \cup {s} ELSE torn \ {s}
  /\ UNCHANGED <<who, remote, active, mishaps>>

\* Mutant: isSignedInProvider is not read again after the await.
TapStoredBlindly(o) ==
  /\ op[o].kind = "tap" /\ op[o].pc = "storing"
  /\ op' = [op EXCEPT ![o].pc = "sent", ![o].user = who]
  /\ UNCHANGED <<who, shown, mirror, remote, active, mishaps, history>>

\* The mirror is stored: the server is called for whoever is signed in by now.
TapStored(o) ==
  /\ op[o].kind = "tap" /\ op[o].pc = "storing"
  /\ IF who = NoUser THEN End(o)
     ELSE op' = [op EXCEPT ![o].pc = "sent", ![o].user = who]
  /\ UNCHANGED <<who, shown, mirror, remote, active, mishaps, history>>

\* Mutant: the answer is merged into what is shown.
SyncLandedMerging(o) ==
  /\ op[o].kind = "sync" /\ op[o].pc = "back"
  /\ shown' = shown \cup op[o].schemes /\ mirror' = shown'
  /\ torn' = (IF op[o].user = who THEN op[o].across ELSE Schemes) /\ End(o)
  /\ UNCHANGED <<who, remote, active, mishaps, own>>

\* The answer of the list call replaces screen and mirror, whoever is signed in.
SyncLanded(o) ==
  /\ op[o].kind = "sync" /\ op[o].pc = "back"
  /\ shown' = op[o].schemes /\ mirror' = op[o].schemes
  /\ own' = own \cap op[o].schemes
  /\ torn' = IF op[o].user = who THEN op[o].across ELSE Schemes
  /\ End(o)
  /\ UNCHANGED <<who, remote, active, mishaps>>

-----------------------------------------------------------------------------
(* The server *)

\* GET /me/saved-schemes: the saved schemes that are still active.
ListSaved(o) ==
  /\ op[o].kind = "sync" /\ op[o].pc = "sent"
  /\ op' = [op EXCEPT ![o].pc = "back",
                      ![o].schemes = remote[op[o].user] \cap active]
  /\ UNCHANGED <<who, shown, mirror, remote, active, mishaps, history>>

\* POST and DELETE /me/saved-schemes/{id}, both idempotent; saving a scheme that
\* is not active is a 404, which the device swallows.
Save(o) ==
  /\ op[o].kind = "tap" /\ op[o].pc = "sent" /\ op[o].add
  /\ remote' = [remote EXCEPT ![op[o].user] = @ \cup (op[o].schemes \cap active)]
  /\ End(o)
  /\ UNCHANGED <<who, shown, mirror, active, mishaps, history>>

Unsave(o) ==
  /\ op[o].kind = "tap" /\ op[o].pc = "sent" /\ ~op[o].add
  /\ remote' = [remote EXCEPT ![op[o].user] = @ \ op[o].schemes]
  /\ End(o)
  /\ UNCHANGED <<who, shown, mirror, active, mishaps, history>>

\* The call fails before it had an effect: the device keeps what it shows.
Lose(o) ==
  /\ op[o].pc = "sent" /\ mishaps < Mishaps
  /\ mishaps' = mishaps + 1 /\ torn' = torn \cup op[o].schemes /\ End(o)
  /\ UNCHANGED <<who, shown, mirror, remote, active, own>>

\* A scheme is withdrawn by an operator.
Withdraw(s) ==
  /\ s \in active /\ mishaps < Mishaps
  /\ active' = active \ {s} /\ mishaps' = mishaps + 1
  /\ UNCHANGED <<who, shown, mirror, remote, op, history>>

-----------------------------------------------------------------------------
SyncStep(o) == ListSaved(o) \/ SyncLanded(o)
TapStep(o)  == TapStored(o) \/ Save(o) \/ Unsave(o)

Next ==
  \/ \E u \in Users, o \in Ops : SignIn(u, o)
  \/ SignOut
  \/ \E s \in Schemes, o \in Ops : Tap(s, o)
  \/ \E o \in Ops : SyncStep(o) \/ TapStep(o) \/ Lose(o)
  \/ \E s \in Schemes : Withdraw(s)

Spec == Init /\ [][Next]_vars

-----------------------------------------------------------------------------
TypeOK ==
  /\ who \in Users \cup {NoUser}
  /\ shown \subseteq Schemes /\ mirror \subseteq Schemes /\ own \subseteq Schemes
  /\ remote \in [Users -> SUBSET Schemes] /\ active \subseteq Schemes
  /\ op \in [Ops -> Operation]
  /\ \A o \in Ops : op[o].pc \in {"sent", "back"} => op[o].user \in Users
  /\ mishaps \in 0..Mishaps /\ torn \subseteq Schemes

\* The taps whose effect the server does not have yet.
OnTheWay(add) ==
  UNION {op[o].schemes : o \in {p \in Ops : Tapping(p) /\ op[p].add = add}}

\* Signed in, the screen is the account's list on the server with the taps still on
\* their way applied to it, scheme by scheme, whatever interleaves: a tap that ran
\* across a sync, a second tap before the first was answered and a lost call can
\* only leave their own scheme wrong, until its next lone tap or the next sync, and
\* a sync of an earlier session only what it replaced
\* (saved_schemes_repository.dart:150-193; withdrawn schemes aside).
ScreenFollowsAccount == who # NoUser =>
  LET sound == active \ torn IN
  shown \cap sound = ((remote[who] \cup OnTheWay(TRUE)) \ OnTheWay(FALSE)) \cap sound

\* "resets back to the local list on sign-out, so a screen never keeps rendering
\* one account's saves after switching to another (or to no account at all)"
\* (:110-112): signed out, the screen shows what was saved signed out.
SignedOutShowsOwn == who = NoUser => shown \subseteq own
=============================================================================
