---------------------------- MODULE SessionClient ----------------------------
(***************************************************************************)
(* The Flutter client's session, on one device, against the server of      *)
(* AuthSessions: AuthController, AuthTokenCache, AuthTokenStorage and the  *)
(* Dio interceptors of ApiClient.  An API call that comes back 401 runs    *)
(* _SilentRefreshInterceptor.onError by itself: the calls of several       *)
(* screens interleave at every await, with each other and with a sign-in   *)
(* or sign-out.                                                            *)
(*                                                                         *)
(* An access token is issued together with a refresh token and is named by *)
(* it; it is stale once its 15 minutes are over.  A client action that     *)
(* sends an auth request takes the server's Begin step with it (the travel *)
(* time of a request adds nothing to the server's own delays); answers     *)
(* wait in inbox until the client's continuation runs.                     *)
(***************************************************************************)
EXTENDS AuthSessions

CONSTANTS Calls,      \* API calls that can be open at one time
          Auth,       \* the controller's own login or logout request
          Faults      \* bound: lost answers, failed storage writes, server errors,
                      \* app restarts and expiries of refresh tokens

ASSUME SlotAssumption == Auth \notin Calls /\ Reqs = Calls \cup {Auth}

VARIABLES
  cache,     \* AuthTokenCache: the pair in memory, or NoToken
  stored,    \* AuthTokenStorage: the pair in secure storage, or NoToken
  ui,        \* AuthState: signedOut, loading or signedIn
  auth,      \* where AuthController's build(), login() or logout() is suspended
  held,      \* the pair that login() or logout() holds in a local variable
  call,      \* where each API call is suspended
  sent,      \* the pair each call carries: attached, then presented, then new
  inbox,     \* the answer to the auth request of each slot, when there is one
  stale,     \* pairs whose access token has expired
  faults,    \* bounded events so far
  calm       \* history: no fault yet, and no session flow ever began while
             \* another was open on the device or at the server

server == <<account, issued, owner, revoked, expired, next, minted, delivered,
            req, parent, accused>>
client == <<cache, stored, ui, auth, held, call, sent, inbox, stale, faults, calm>>
allVars == <<server, client>>

NoAnswer == "none"
Refusal  == "refused"

ASSUME AnswerAssumption == NoAnswer \notin Tokens /\ Refusal \notin Tokens
ASSUME FaultsAssumption == Faults \in Nat

\* A call inside the interceptor; the device and the server at rest.
Renewing(c) == call[c] \notin {"idle", "sent"}
DeviceQuiet == auth = "idle" /\ \A c \in Calls : ~Renewing(c)
ServerQuiet == \A r \in Reqs : req[r].pc = "idle"

Fault   == faults < Faults /\ faults' = faults + 1 /\ calm' = FALSE
NoFault == UNCHANGED <<faults, calm>>
Opening == UNCHANGED faults /\ calm' = (calm /\ DeviceQuiet /\ ServerQuiet)

ClientInit ==
  /\ Init
  /\ cache = NoToken /\ stored = NoToken /\ ui = "signedOut"
  /\ auth = "idle" /\ held = NoToken /\ stale = {}
  /\ call = [c \in Calls |-> "idle"] /\ sent = [c \in Calls |-> NoToken]
  /\ inbox = [r \in Reqs |-> NoAnswer]
  /\ faults = 0 /\ calm = TRUE

-----------------------------------------------------------------------------
(* AuthController *)

\* register() or login(): the state is loading while the request is out.
SignIn(u) ==
  /\ auth = "idle" /\ ui = "signedOut"
  /\ Room /\ (BeginRegister(Auth, u) \/ BeginLogin(Auth, u))
  /\ ui' = "loading" /\ auth' = "login" /\ Opening
  /\ UNCHANGED <<cache, stored, held, call, sent, inbox, stale>>

\* Mutant: a refusal is not told apart from a session.
SignInAnsweredBlindly ==
  /\ auth = "login" /\ inbox[Auth] # NoAnswer
  /\ inbox' = [inbox EXCEPT ![Auth] = NoAnswer]
  /\ cache' = inbox[Auth] /\ held' = inbox[Auth] /\ auth' = "persist"
  /\ NoFault /\ UNCHANGED <<server, ui, stored, call, sent, stale>>

\* The answer: _persist sets the cache at once and then awaits the storage.
SignInAnswered ==
  /\ auth = "login" /\ inbox[Auth] # NoAnswer
  /\ inbox' = [inbox EXCEPT ![Auth] = NoAnswer]
  /\ IF inbox[Auth] = Refusal
     THEN ui' = "signedOut" /\ auth' = "idle" /\ UNCHANGED <<cache, held>>
     ELSE /\ cache' = inbox[Auth] /\ held' = inbox[Auth]
          /\ auth' = "persist" /\ UNCHANGED ui
  /\ NoFault /\ UNCHANGED <<server, stored, call, sent, stale>>

\* The answer is lost, or the app stops waiting for it, while the server goes on.
SignInLost ==
  /\ auth = "login" /\ inbox[Auth] # Refusal
  /\ inbox' = [inbox EXCEPT ![Auth] = NoAnswer]
  /\ ui' = "signedOut" /\ auth' = "idle" /\ Fault
  /\ UNCHANGED <<server, cache, stored, held, call, sent, stale>>

\* writeSession; a storage that fails is ignored.
SignInStored ==
  /\ auth = "persist"
  /\ \/ stored' = held /\ NoFault
     \/ UNCHANGED stored /\ Fault
  /\ ui' = "signedIn" /\ auth' = "idle" /\ held' = NoToken
  /\ UNCHANGED <<server, cache, call, sent, inbox, stale>>

\* Mutant: the cache is left to be cleared by the next refusal.
SignOutKeepingCache ==
  /\ auth = "idle" /\ ui = "signedIn" /\ req[Auth].pc = "idle"
  /\ held' = cache /\ auth' = "clear" /\ Opening
  /\ UNCHANGED <<server, cache, stored, ui, call, sent, inbox, stale>>

\* logout(): the token is read and the cache cleared in one synchronous step.
SignOut ==
  /\ auth = "idle" /\ ui = "signedIn" /\ req[Auth].pc = "idle"
  /\ held' = cache /\ cache' = NoToken /\ auth' = "clear" /\ Opening
  /\ UNCHANGED <<server, stored, ui, call, sent, inbox, stale>>

\* The storage is cleared, the state set, and the server told: best effort,
\* and without effect for a token that is unknown or revoked there.
SignOutDone ==
  /\ auth = "clear"
  /\ ui' = "signedOut" /\ auth' = "idle" /\ held' = NoToken
  /\ LET known == held \in issued \ revoked IN
     \/ stored' = NoToken /\ NoFault
        /\ IF known THEN BeginLogout(Auth, held) ELSE UNCHANGED server
     \/ stored' = NoToken /\ Fault /\ UNCHANGED server
     \/ UNCHANGED stored /\ Fault
        /\ IF known THEN BeginLogout(Auth, held) ELSE UNCHANGED server
  /\ UNCHANGED <<cache, call, sent, inbox, stale>>

-----------------------------------------------------------------------------
(* API calls and the interceptors *)

\* _AuthHeaderInterceptor attaches whatever the cache holds.
StartCall(c) ==
  /\ call[c] = "idle"
  /\ call' = [call EXCEPT ![c] = "sent"] /\ sent' = [sent EXCEPT ![c] = cache]
  /\ NoFault /\ UNCHANGED <<server, cache, stored, ui, auth, held, inbox, stale>>

EndCall(c) == call' = [call EXCEPT ![c] = "idle"] /\ sent' = [sent EXCEPT ![c] = NoToken]

\* Any outcome but a 401, or a 401 with no refresh token in the cache.
CallDone(c) ==
  /\ call[c] = "sent" /\ EndCall(c)
  /\ NoFault /\ UNCHANGED <<server, cache, stored, ui, auth, held, inbox, stale>>

\* get_current_user_id judges an access token by its signature and its age alone:
\* what happened to the session it belongs to changes nothing.  A route that
\* takes visitors too answers such a call as theirs: it is done without a 401.
NotAuthenticated(t) == t \in stale \cup {NoToken}

\* A 401: the interceptor posts the refresh token the cache holds by now, which
\* need not be the pair the call was sent with.
Unauthorized(c) ==
  /\ call[c] = "sent" /\ NotAuthenticated(sent[c])
  /\ cache # NoToken /\ req[c].pc = "idle"
  /\ call' = [call EXCEPT ![c] = "refresh"] /\ sent' = [sent EXCEPT ![c] = cache]
  /\ \/ /\ (Room \/ cache \in revoked) /\ BeginRefresh(c, cache)
        /\ Opening /\ UNCHANGED inbox
     \/ /\ cache \notin issued \/ cache \in expired \ revoked
        /\ inbox' = [inbox EXCEPT ![c] = Refusal] /\ Opening /\ UNCHANGED server
     \/ /\ inbox' = [inbox EXCEPT ![c] = Refusal] /\ Fault /\ UNCHANGED server
  /\ UNCHANGED <<cache, stored, ui, auth, held, stale>>

\* The new pair goes to the cache; onTokensRefreshed then awaits the storage.
Refreshed(c) ==
  /\ call[c] = "refresh" /\ inbox[c] \in Tokens
  /\ cache' = inbox[c] /\ sent' = [sent EXCEPT ![c] = inbox[c]]
  /\ inbox' = [inbox EXCEPT ![c] = NoAnswer]
  /\ call' = [call EXCEPT ![c] = "reading"]
  /\ NoFault /\ UNCHANGED <<server, stored, ui, auth, held, stale>>

\* Mutant: a refresh that fails puts the presented token back.
GiveUpRestoring(c) ==
  /\ cache' = sent[c] /\ call' = [call EXCEPT ![c] = "clearing"]
  /\ inbox' = [inbox EXCEPT ![c] = NoAnswer]
  /\ UNCHANGED <<server, stored, ui, auth, held, sent, stale>>

\* Everything the catch of onError does before its await.
GiveUp(c) == /\ cache' = NoToken /\ call' = [call EXCEPT ![c] = "clearing"]
             /\ inbox' = [inbox EXCEPT ![c] = NoAnswer]
             /\ UNCHANGED <<server, stored, ui, auth, held, sent, stale>>

\* The refresh is refused, or its answer is lost while the server goes on.
RefreshFailed(c) ==
  /\ call[c] = "refresh" /\ GiveUp(c)
  /\ \/ inbox[c] = Refusal /\ NoFault
     \/ inbox[c] # Refusal /\ Fault

\* writeTokens: read the session, and write it back unless there is none.
ReadStored(c) ==
  /\ call[c] = "reading"
  /\ call' = [call EXCEPT ![c] = IF stored = NoToken THEN "retry" ELSE "writing"]
  /\ NoFault
  /\ UNCHANGED <<server, cache, stored, ui, auth, held, sent, inbox, stale>>

WriteStored(c) ==
  /\ call[c] = "writing" /\ call' = [call EXCEPT ![c] = "retry"]
  /\ \/ stored' = sent[c] /\ NoFault
     \/ UNCHANGED stored /\ Fault
  /\ UNCHANGED <<server, cache, ui, auth, held, sent, inbox, stale>>

\* The original request again, with the new access token.
RetryDone(c) ==
  /\ call[c] = "retry" /\ EndCall(c)
  /\ NoFault /\ UNCHANGED <<server, cache, stored, ui, auth, held, inbox, stale>>

\* Any error of the retry, a 404 or a lost connection included, reaches the
\* catch that was meant for the refresh.
RetryFailed(c) == call[c] = "retry" /\ GiveUp(c) /\ Fault

ClearStored(c) ==
  /\ call[c] = "clearing" /\ EndCall(c)
  /\ \/ stored' = NoToken /\ NoFault
     \/ UNCHANGED stored /\ Fault
  /\ UNCHANGED <<server, cache, ui, auth, held, inbox, stale>>

-----------------------------------------------------------------------------
(* The server, faults and time *)

Awaited(r) == IF r = Auth THEN auth = "login" ELSE call[r] = "refresh"

\* Mutant: a request that fails on the server is never answered.
ReplySuccessOnly(r) == inbox' =
  IF Awaited(r) /\ req[r].pc = "respond" /\ req'[r].pc = "commit"
  THEN [inbox EXCEPT ![r] = req[r].new] ELSE inbox

\* What the client will read of a step of its request.
Reply(r) == inbox' =
  IF Awaited(r) /\ req[r].pc = "respond" /\ req'[r].pc = "commit"
  THEN [inbox EXCEPT ![r] = req[r].new]
  ELSE IF Awaited(r) /\ req[r].pc # "commit" /\ req'[r].pc = "idle"
  THEN [inbox EXCEPT ![r] = Refusal]
  ELSE inbox

ServerStep(r) ==
  /\ Progress(r) /\ Reply(r) /\ NoFault
  /\ UNCHANGED <<cache, stored, ui, auth, held, call, sent, stale>>

\* Any exception on the server becomes an error response.
ServerAbort(r) ==
  /\ Abort(r) /\ Reply(r) /\ Fault
  /\ UNCHANGED <<cache, stored, ui, auth, held, call, sent, stale>>

\* The app is killed and launched again: memory is empty and build() awaits the
\* storage, while the first screens may already call the API.
Restart ==
  /\ Fault
  /\ cache' = NoToken /\ auth' = "restore" /\ held' = NoToken /\ ui' = "loading"
  /\ call' = [c \in Calls |-> "idle"] /\ sent' = [c \in Calls |-> NoToken]
  /\ inbox' = [r \in Reqs |-> NoAnswer]
  /\ UNCHANGED <<server, stored, stale>>

\* build() restores the stored session.
Restored ==
  /\ auth = "restore" /\ auth' = "idle" /\ cache' = stored
  /\ ui' = IF stored = NoToken THEN "signedOut" ELSE "signedIn"
  /\ NoFault /\ UNCHANGED <<server, stored, held, call, sent, inbox, stale>>

\* Fifteen minutes pass since a pair was issued: longer than any request.
AccessExpires(t) ==
  /\ t \in delivered \ stale /\ \A r \in Reqs : req[r].new # t
  /\ stale' = stale \cup {t}
  /\ NoFault /\ UNCHANGED <<server, cache, stored, ui, auth, held, call, sent, inbox>>

\* Thirty days pass: longer than any request or call.
RefreshExpires(t) ==
  /\ t \in stale /\ DeviceQuiet /\ ServerQuiet /\ Expire(t)
  /\ faults < Faults /\ faults' = faults + 1 /\ UNCHANGED calm
  /\ UNCHANGED <<cache, stored, ui, auth, held, call, sent, inbox, stale>>

-----------------------------------------------------------------------------
CallStep(c) == \/ CallDone(c) \/ Unauthorized(c) \/ Refreshed(c)
               \/ RefreshFailed(c) \/ ReadStored(c) \/ WriteStored(c)
               \/ RetryDone(c) \/ RetryFailed(c) \/ ClearStored(c)
AuthStep == SignInAnswered \/ SignInLost \/ SignInStored \/ SignOutDone \/ Restored

ClientNext ==
  \/ \E u \in Users : SignIn(u)
  \/ SignOut \/ AuthStep
  \/ \E c \in Calls : StartCall(c) \/ CallStep(c)
  \/ \E r \in Reqs : ServerStep(r) \/ ServerAbort(r)
  \/ Restart
  \/ \E t \in Tokens : AccessExpires(t) \/ RefreshExpires(t)

ClientSpec == ClientInit /\ [][ClientNext]_allVars

-----------------------------------------------------------------------------
ClientTypeOK ==
  /\ cache \in Tokens \cup {NoToken} /\ stored \in Tokens \cup {NoToken}
  /\ ui \in {"signedOut", "loading", "signedIn"}
  /\ auth \in {"idle", "login", "persist", "clear", "restore"}
  /\ held \in Tokens \cup {NoToken}
  /\ call \in [Calls -> {"idle", "sent", "refresh", "reading", "writing",
                         "retry", "clearing"}]
  /\ sent \in [Calls -> Tokens \cup {NoToken}]
  /\ inbox \in [Reqs -> Tokens \cup {NoAnswer, Refusal}]
  /\ stale \subseteq delivered /\ faults \in 0..Faults /\ calm \in BOOLEAN

\* Used one flow at a time and without faults, the session is one thing in four
\* places: at rest the memory cache and the secure storage hold the same token,
\* a signed-out screen means none, the server honours exactly that token and no
\* other of the account, and its reuse detection never went off
\* (auth_controller.dart:55-104, api_client.dart:237-257, auth.py:126-155).
CalmSessionSound == calm =>
  /\ \A r \in Reqs : req[r].pc \notin {"sweep", "sweeping"}
  /\ DeviceQuiet /\ ServerQuiet =>
       /\ cache = stored
       /\ ui = "signedOut" => cache = NoToken
       /\ issued \ (revoked \cup expired) = {cache} \ (expired \cup {NoToken})

\* Answers applied out of order never put an exchanged token back: short of a
\* restart, the token that replaces another in the cache is not the one that
\* other was minted for (api_client.dart:245, auth_controller.dart:92-97).
CacheMovesForward ==
  [][faults' = faults /\ cache # NoToken /\ cache' \notin {NoToken, cache}
       => parent[cache] # cache']_allVars

\* No wake-up is lost: a call or a sign-in that awaits an answer of the server
\* has one in its inbox or a request open there that is still going to give one
\* (api_client.dart:238, auth_controller.dart:58).
AnswerWillCome ==
  \A r \in Reqs : Awaited(r) =>
    inbox[r] # NoAnswer \/ req[r].pc \notin {"idle", "commit"}

\* "If the refresh itself fails (the refresh token is also dead), the token
\* cache is cleared" (api_client.dart:204-205): after a refresh that succeeded,
\* the interceptor clears no token that the server still honours.
ClearedOnlyWhenDead ==
  [][\A c \in Calls : call[c] = "retry" /\ call'[c] = "clearing"
       => cache \notin issued \ (revoked \cup expired)]_allVars
=============================================================================
