# SchemeMedia: a verification project

SchemeMedia lets people in India find government schemes, see which of them they
are eligible for, and save, like and discuss them. This directory holds TLA+
models of the parts of it that decide, remember or coordinate something, the TLC
configurations that check them on small instances, and theorems about them that
TLAPS proves for every instance. `PROJECT.json` maps each definition to the lines
it models. Paths below are relative to `src/apps/api/src/schememedia/` (the
Python API) or, for `.dart` files, to `src/apps/frontend/lib/` (the Flutter app).

    tlc -workers 2 -config AuthSessions.cfg MCAuthSessions
    tlapm AuthSessionsProofs.tla

## 1. The system

**A phone (or browser) app** keeps a session, a list of saved schemes and an
offline copy of the profile, and calls **an HTTP API**. The API is one asyncio
process; each request gets a database session of its own (`db/session.py`) and
is one READ COMMITTED transaction in **PostgreSQL**. The transaction is committed
in the exit code of a dependency, *after the answer has been sent*. Search and
the assistant run in worker threads with synchronous sessions. **An importer**
is run by hand and writes the catalogue that everything else reads.

### Components

| component | state | operations | how it can go wrong |
|---|---|---|---|
| auth sessions, server (`services/auth.py`, `repositories/refresh_tokens.py`, `repositories/users.py`) | `users`, `refresh_tokens` | register, login, refresh (rotation, reuse detection), logout | requests overlap; a rollback after the answer; reuse detection that must outlive its own exception; a sweep that locks rows one by one while they are being rotated |
| client session (`auth_controller.dart`, `auth_token_cache.dart`, `auth_token_storage.dart`, `api_client.dart`) | token cache, secure storage, AuthState | sign in, sign out, restart, silent refresh on a 401 with one retry | every await is a place where another flow runs; answers are lost or come late; storage writes fail |
| saved schemes, client (`saved_schemes_repository.dart`) | the set on screen, its mirror in SharedPreferences | toggle, sync at sign-in, return to the local list at sign-out | optimistic update before an await; a sync that replaces what was tapped meanwhile; accounts that follow each other on one device |
| likes, saves, comments, server (`routers/` and `repositories/` of the three, migration `4e8790001be5`) | their rows, the counters on `schemes` | like, unlike, save, unsave, comment, delete a comment | triggers that read, modify and write a shared counter; repeated and overlapping toggles; two deletes of one comment |
| importer (`importer/pipeline.py`) | `schemes`, child tables, categories, tags, `scheme_field_changes`, the run's snapshot and slugs | categories and tags, then one batch after another: hold back or upsert, commit | a failure between batches, resumption, two runs at once, an administrator at work during a run |
| eligibility matcher and recommendations (`services/eligibility_matcher.py`, `services/recommendation.py`) | none: rules and a profile in, verdicts and an order out | evaluate, list what is missing, rank | missing, empty and ill-typed data must never become a failed requirement |
| eligibility profile, server (`services/user_profile.py`, `repositories/user_profile.py`, `routers/profile.py`) | one `user_profiles` row for each account | create on first read, read, partial update | devices that update at once; creation twice; constraints checked only at commit |
| search and its cache (`services/search.py`) | a process-wide dictionary shared by threads | search, warm-up | two lookups of one key, eviction between them; a path that does not evict; stale results |
| assistant guard and route (`core/assistant_guard.py`, `routers/assistant.py`) | a daily counter and an answer cache in memory | one message | a restart that forgets the count, a failed turn, the same question twice at once |
| assistant turn and providers (`services/assistant.py`, `services/providers/`) | none | a forced tool call, a search, a reply; fallback over models | a model fails at any call; the budget counts turns, not calls, and a client library that tries again |
| rule translation (`services/eligibility_translator.py`) | none | a source record to rules | contradictory flags, values of the wrong type |
| profile automation (`services/profile_automation.py`, `routers/profile_automation.py`) | none: it writes the profile row | read a document, look up an identity, save | answers that the table or the type tests refuse, and a catch that hides it |
| document splitter (`services/document_splitter.py`) | none | source text to documents | heuristics on wording |
| offline profile cache, assistant chat, recent searches, theme, language (client) | preferences keys, a message list | read, write | one synchronous assignment each |
| rate limiting, middleware, settings, health, screens | none of their own | | |

### How they meet

* The client session calls the four auth endpoints; its interceptors wrap every
  other call. `SessionClient` composes the two sides.
* The saved list on the device is a copy of `scheme_saves`, which likes and
  comments share their triggers' `schemes` row with. `SavedSync` sees the server
  as atomic calls, `Interactions` sees those calls as transactions.
* Everything that writes through `get_session()` is answered before it is
  committed: in `AuthSessions`, `Interactions` and `Profiles`, `Respond` or `Serve`
  comes before `Commit`, and a transaction may fail in between.
* Recommendations read the profile row and the rules the importer stored.
  `Profiles` composes the matcher of `Eligibility` with the profile's
  transactions, `Translation` the rules with the source records they come from,
  and `Extraction` adds the updates that are read out of a document.
* An assistant turn searches, through the same process-wide cache as `/search`
  and the warm-up at start-up. `Assistant` extends `Search`.

## 2. The modules

One action stands for what a request does between two points at which another
can get in: a SQL statement with the Python around it on the server, the code
between two awaits on the device. Row locks are not variables: who holds one is
computed from where the requests are (`HoldsToken`, `HoldsUser`, `HoldsRow`,
`HoldsScheme`), and a statement that needs a lock has its being free as a guard;
`Ready` collects these guards, the actions use it, and `NoStall` and
`StallsAreSweeps` are stated with it.
Variables called *history* in a module record what a property refers to; no
action reads them.

**AuthSessions** – a request moves through `insertUser`/`touch`, `checkUser`,
`issue`, `retire`, `respond`, `commit`; what it wrote becomes visible at
`Commit`. A refresh that finds its token revoked goes to `SweepStart` (the
statement picks its rows from a snapshot), to `SweepRow` for one row after
another, in any order, since SQL promises none (it waits for the row, and keeps
its lock while it waits for the next), and to `SweepEnd` (it revokes them and commits
by itself, because the exception that follows rolls the rest back). `Abort` is any
exception, timeout or crash, and PostgreSQL's end to a circle of waiting requests;
`Expire` and `Deactivate` are the clock and an operator. A refresh token is an atom that is
never drawn twice; access tokens, hashing and password checks are left out.

**Sessions** – the abstract specification of AuthSessions: tokens that are honoured,
those that are not any more, and the claims of requests in progress. `SignIn` and
`Present` make a claim, `Honour` turns it into a token, `End` is a sign-out, an expiry
or a sweep. There are no rows, transactions, locks or passwords. `Promise` in
AuthSessions is the refinement mapping: `live` is what is issued, not revoked and not
expired, a claim belongs to each request that may still end in a token (`Entitled`).

**SessionClient** – extends AuthSessions: each slot of `Reqs` is the server side
of one device request. `SignIn`, `SignInAnswered` or `SignInLost` (the server may carry out the
request all the same), `SignInStored`, `SignOut`, `SignOutDone` are the pieces of
AuthController, `Restart` and `Restored` those of its build(), which awaits the storage
while calls may already be made; `StartCall`, `Unauthorized` (a stale access token, whatever became of its session), `Refreshed`,
`ReadStored`, `WriteStored`, `RetryDone`, `RetryFailed`, `RefreshFailed`,
`ClearStored` those of the interceptors. `inbox` holds an answer on its way.
Lost answers, failed storage writes, server errors, restarts and expiries of
refresh tokens are bounded by `Faults`.

**SavedSync** – `SignIn` starts a sync and `SyncLanded` applies it; `Tap` changes
screen and mirror at once, `TapStored` goes on after the storage await and reads
the account *then*; `Save`, `Unsave` and `ListSaved` are the server's part.
`torn` is history: the schemes of which a race between calls or a lost one may have
left screen and account apart.
`Lose` is a call that fails, `Withdraw` a scheme taken off, both bounded by
`Mishaps`.

**Interactions** – a request is admitted (`BeginAdd` checks the scheme,
`BeginComment` too, the removals do not), runs its statement (`Write`), its
trigger (`Count`), is answered (`Respond`) and committed. The counters use the
triggers' `GREATEST(n - 1, 0)`. A deleted comment stays deleted: the delete is
soft and nothing undoes it.

**Counters** – the abstract specification of Interactions: committed rows that
come and go one at a time with their counter, and comment ids that are spent.
There are no requests, transactions, locks or triggers. `Promise` in Interactions is
the refinement mapping: `rows` is what is committed, `counts` the counters, and
`Spent` the ids that are neither shown nor held by an open request.

**Importer** – `ReadTerms` reads which categories and tags of the file have no
row, `Begin` commits those rows (or can only fail, if a run beside it has created
one), `Snapshot` reads what the run compares with, `HoldBack` and `Upsert`
treat the record at hand, `CommitBatch` publishes the batch with its audit rows,
`Fail` rolls the batch back and ends the run, `Finish` ends it. `Verify` and
`Unverify` are an administrator; `Manual` is what the administrator entered. The
content of a row is the version of the file it came from. A slug is a sequence of
words and numbers, as its hyphens divide it, so that the suffix of one scheme may make
the name of another.

**Translation** – `Translated` turns one block of a source record into rules:
flags that are `true`, bounds that are numbers, neither of two government flags
that contradict each other (`Contradictory`). `Rules` adds what a curator entered.

**Eligibility** – extends Translation: the four-valued logic as definitions: `RuleState` for a rule,
`AndCombine` and `OrCombine` for groups, `Verdict` for a scheme, `Missing`,
`Ranked`. `Completions` and `Meets` say independently, in two-valued logic, what
the answers leave open and whom a scheme is for. Numbers are whole; what
`float()` makes of a text is the constant `Float`. A scheme is for whom its
*source record* asks for, not for whom the rules made of it do, so the
translation is checked with the matcher.

**Extraction** – extends Eligibility: `Read` is what the document heuristics make of
a text (words, a year of birth, a state), with their defaults; `Fetched` what the
identity look-up makes of a number. Both give the body of an update.

**Profiles** – extends Extraction: `Begin` is get_or_create's SELECT, `Insert` its
flush, `Serve` the handler with the type tests of apply_partial_update, `Commit`
the UPDATE of the columns whose value changed, under the CHECK constraints
(`Storable`). `BeginPublic` is the endpoint that takes a profile of any types
from its caller. `BeginReading` and `BeginVision` are the endpoints of profile
automation; `ServeSwallowing` is their catch, which commits what came before the
value that does not fit. What the search found is the constant `Found`.

**Search** – threads over the dictionary `_SEARCH_CACHE`, one action for each access:
`Find` and then `Hit`, `Expired` or `Vanished` are its two lookups, `Retrieve` the
statements and the list of keys to evict, `Pop` one eviction, `Store` the
assignment. `WarmUp` is the thread that start-up launches, `Forget` the end of the
process. Of a response only the moment it was read is kept. `empties` is history.

**Assistant** – extends Search: `Cached`, `Refused` and `Reserve` are the three ways
of a message past the reply cache and the daily counter (no await lies between
them), `ToolCalled`, `NextModel`, `TurnFails` and `Replied` the calls of the
provider with its fallback, `Tick` the clock with its midnight and `Restart` a new
process, which has no memory of the day. `Call` is one call of the provider; it may
be up to `Attempts` requests. `calls`, `carried` and `slots` are history.

**AuthSessionsProofs, SessionClientProofs, SessionCalmProofs, SavedSyncProofs,
InteractionsProofs, ProfilesProofs, AssistantProofs, ImporterProofs** – theorems
(section 5).
The **MC…** modules fix symmetry and the constants that a `.cfg` cannot write.

## 3. The runs

| run | instance | distinct states |
|---|---|---|
| `auth` | 2 accounts, 3 tokens, 2 overlapping requests | 715,536 |
| `client` | 1 account, 3 tokens, 2 calls and the controller, 1 fault | 2,313,222 |
| `saved` | 2 accounts, 2 schemes, 3 operations in progress, 1 mishap | 1,927,443 |
| `interactions` | 2 users, 1 scheme, 1 comment, 3 overlapping requests | 804,268 |
| `importer` | 3 schemes, two of one name and one named as the suffix would name them, 2 versions of the file with 2 categories or tags, batches of 2, 2 runs | 550,055 |
| `profile` | 2 overlapping requests, 4 update bodies, 1 document, 1 identity, 1 answer of the model, 5 attributes, 5 schemes, 5 public profiles | 172,386 |
| `assistant` | 2 threads, 4 queries, a cache of 1, 1 message, a budget of 1, 2 models and 2 attempts, 2 requests or restarts, a day of 2 moments | 2,791,556 |
| `client_cleared`, `saved_sign_out`, `importer_verified`, `assistant_redeploy`, `profile_range` | as above; each ends in a counterexample | |

What they show:

* **auth.** `ChainSound`: a token that replaces another exists only with that one
  revoked, for the same account, and `replaced_by_id` names a token minted in
  exchange. `SessionsImplemented`: the refinement of Sessions, so a token buys
  another only in a request that presented it while it was honoured, and two
  successors come only from overlapping refreshes. `ReuseKillsAll`: what a
  finished reuse detection had to revoke stays revoked. `DeactivationCloses`: a
  deactivated account gets nothing once those admitted earlier have ended.
  `StallsAreSweeps`: requests that wait for each other for ever exist, and they are
  reuse detections of one account, each with a row the other comes to next, together
  with what waits for them. PostgreSQL ends one, which is answered with 500 instead of
  401, and the other revokes the account's tokens all the same. Nothing else can stall.
* **client.** `CalmSessionSound`: used one flow at a time and without faults,
  memory, storage, screen and server agree on one live token and reuse detection
  never goes off. `CacheMovesForward`: an answer that comes late never puts an
  exchanged token back. `AnswerWillCome`: nothing on the device waits for a
  request that is over.
* **saved.** `ScreenFollowsAccount`: signed in, the screen is the account's list with
  the taps on their way applied, scheme by scheme. What a race or a lost call spoils
  (a tap that runs across a sync, a second tap before the first is answered, an answer
  that never comes) is its own scheme, until that scheme's next lone tap or the next
  sync; only the answer of a sync of an earlier session spoils all, and the sync of the
  present one follows it.
* **interactions.** `CountsExact`: a counter is the number of rows it stands for.
  `WithdrawalCloses`: a withdrawn scheme admits nothing, and its rows only go
  away. `NoStall`: as above. `CountersImplemented`: the refinement of Counters, so
  the floor of `GREATEST(n - 1, 0)` is never needed and no deleted comment returns.
* **importer.** `WholeScheme`: columns and child tables come from one source, and
  the categories and tags a scheme refers to exist. `SlugsResolved`, `LinksLast`:
  slugs never collide and never change. `ChangesLogged`, `HeldBack`: a
  change is published with its audit row, and a scheme verified before the run is
  left alone.
* **profile.** `VerdictSound`: a "pass" is true of everybody the answers could
  describe, a "fail" of nobody. `VerdictsLast`: further answers take neither back.
  `MissingIsEnough`: answering what is listed as missing settles the scheme.
  `RankedNotFiltered`: the list is what the search found, in its order, known
  failures last. `NamedKeysOnly`: a commit changes only what its request named.
  `ReadingsStored`: what was read from a document or looked up is saved whole, so
  the catch around it never hides a refusal of the heuristics' own making.
* **assistant.** `BudgetKept`: one process sends the provider, in a day, at most what
  the turns of its daily limit and those midnight found in progress may send: each
  calls the models of its list until one answers, for the query and for the reply, and
  the client library may send a call several times. Gemini's list has three models, or
  four if the configured one is not among the fallbacks (`gemini_provider.py:95`), of
  which the reply's list then has three or four; its library sends a call once.
  Anthropic has one model, and its library's default is three requests for one call
  (`services/providers/__init__.py:51-57`). `CacheBounded`: the search cache
  exceeds its limit only by one entry for each thread that measured it at the same
  time and by the empty responses added since the process began. Those are stored
  without an eviction, and it is not enough to count the ones still there: one that
  another thread evicts has made room for an entry that stays.
  `AnswersFresh`: no search result is older than its lifetime when the search
  begins, and no reply of the assistant rests on data older than both lifetimes and
  the turn that wrote it together. How long a turn takes is not bounded: only the
  provider's calls have a timeout, not the wait for a thread nor the statements.

The "fail" half of `VerdictSound` is claimed for stored profiles only. The public
endpoint takes any JSON value for any attribute: a number sent for the state, or
the text "nan" for the age, makes the rule fail, although the person's state or
age is as open as before.

### Disagreements

Five runs look for something that a comment or a test of the repository says and
that the code does not do; TLC's trace shows how. The full text is under
`findings` in `PROJECT.json`.

* `client_cleared` – the catch of a refresh also encloses the retry of the call,
  so a retry that fails signs the user out of a live session
  (`api_client.dart:248-257` against `:204-205`).
* `saved_sign_out` – the local list that a sign-out returns to is the mirror the
  account's list was written to (`saved_schemes_repository.dart:127` against
  `:110-112`).
* `importer_verified` – a scheme verified after a run took its snapshot is
  overwritten by it (`importer/pipeline.py:457` against `:32-33`).
* `assistant_redeploy` – the daily count is an attribute of the process, so a
  redeploy in the middle of a day hands out the limit again
  (`core/assistant_guard.py:63` against `:51-54`).
* `profile_range` – a value outside the table's constraints is answered with 200
  and then rolled back (`routers/profile.py:97` against
  `tests/test_profile_routes.py:37-54`).

### Bounds, and why they are enough

* *Two requests* on the auth tables are what a fork, a sweep that meets a rotation
  and a logout that meets a refresh need, and two reuse detections that wait for each
  other; *three tokens* allow a rotation, the reuse of the old token and a second
  rotation, or a second sign-in, which gives a sweep two rows. Three tokens on the device allow a
  sign-in and two rotations, or a second sign-in. The theorems of
  AuthSessionsProofs remove the bounds on the server side.
* *Three interaction requests*: two that fight for a row and a third that waits for
  the scheme's counter. InteractionsProofs removes the bound.
* *One fault* on the device and *one mishap* in SavedSync: every fault can happen
  at every point. *Three operations*: a sync and two taps of one scheme, or two syncs
  and a tap. SessionClientProofs and SavedSyncProofs remove these bounds and those on
  accounts, tokens, calls, schemes and taps; SessionCalmProofs does so for
  `CalmSessionSound`.
* *Two importer runs* with different files overlap, fail and follow each other;
  batches of two put a batch border between the schemes that share a name in one
  file and not in the other. The third scheme's name is what the suffix 2 makes of
  theirs, and comes between them in one file and after them in the other.
* *Five attributes*, among them each type and both government flags, and *five
  schemes* that between them have each kind of group empty, both bounds of a
  number, contradictory flags in one block, a requirement and its opposite in
  different groups, and no rule at all; an age of 130 and a year of birth 176 years ago stand for those outside
  the CHECK constraint. ProfilesProofs removes the bounds, also on the length of
  the list.
* *A cache of one entry with three queries and two threads* is full at once, so that
  both threads evict, and what one evicts the other has just looked up. *A day of
  two moments* puts a midnight into a turn; lifetimes of two moments end in the run
  and outlast a midnight. *Two models, one of them a fallback, and two attempts* let
  the lists of the two calls differ and a call be repeated. *Two requests or restarts*
  (three in `assistant_redeploy`: a turn, a restart, a turn) fill both threads.
  AssistantProofs removes all these bounds.
* *Two words* for categories and tags, one in both versions of the file and one in
  the later: a run finds one, both or none missing, alone or beside the other.
  ImporterProofs removes all bounds of the importer.
* Symmetry is used over accounts, schemes, taps and syncs, request slots, calls, threads
  and runs; no run has a liveness property. Deadlock is not checked in AuthSessions and
  SessionClient (the pool of tokens runs out), Importer (the runs end) nor Assistant
  (its clock stops).

### Fairness

No specification assumes any, and no property needs it. What must not be stuck is said
by invariants: `NoStall` and `StallsAreSweeps` that some request can go on, `Ready`
being the guard of everything that can wait, and `AnswerWillCome` that nobody on the
device waits for a request that is over. That a call ends is then the work of HTTP
timeouts and of the event loop, which the models leave out.

## 4. What is external

PostgreSQL's row locks, unique indexes and READ COMMITTED snapshots, SQLAlchemy's
choice of the columns to write, an operator's or administrator's UPDATE, and the
clock are modelled from how the code relies on them and marked external in the
map. The commit after the answer is how the pinned FastAPI runs a dependency with
`yield` that is not declared with `scope="function"`.

## 5. What is proved

Nothing is assumed but the named assumptions on the constants, which TLC
evaluates in the runs: the "none" values are none of the values
(`NoneAssumption`), and for Eligibility that the types are disjoint
(`ValuesAssumption`), that rules have the shape the importer writes and the table
checks (`RulesAssumption`), and what the request bodies can hold
(`RequestsAssumption`), what the columns admit and the texts say
(`TableAssumption`, `ExtractionAssumption`), that durations and limits are numbers
(`SearchAssumption`, `AssistantAssumption`; the first also says that an eviction
takes at least as many keys as there are threads, 50 to the 40 of the thread pool
and the one of the warm-up), as are the bounds on faults and mishaps
(`FaultsAssumption`, `MishapsAssumption`), that an answer without a token is not
one (`AnswerAssumption`) and the slots are the calls and the controller
(`SlotAssumption`), and that the schemes of the importer are finitely many
(`FilesAssumption`), and that a search finds a scheme once (`FoundAssumption`: the
fusion of its rankings is a dictionary by scheme). Other sets are arbitrary, infinite ones
included.

**AuthSessionsProofs.** `IInv` is the type invariant, two safety invariants
and three conjuncts that make them inductive: `NewIsPrivate` (the token an open
request has drawn is known to nobody else), `OwnerKnown`, and `RequestsOK` (what
each request knows at each step, and for a sweep that every token it saw is
revoked already or among its targets). `RequestStep` does once what most steps
share; the commits and the sweep are proved by themselves. Theorems: `TypeCorrect`,
`RotationSound` (`ChainSound`), `ReuseDetectionLasts` (`ReuseKillsAll`), `DeactivationRunsDry`
(`DeactivationCloses`), `SessionsKept` (`SessionsImplemented`: `RefineStep` shows each
step to be one of Sessions or invisible, `RefineCommit` and `RefineSweep` being the
steps that change tokens), `OnlySweepsStall` (`StallsAreSweeps`). For the last,
`NobodyPast` shows that in a stall nobody is past its last lock, so that only sweeps
hold rows others want, and `StalledBySweep` that such a sweep is of the row's account,
because it only locks what it picked. `NoStallWithoutRivals` is its consequence: with
one reuse detection of each account at a time, some request can always go on. The
theorem has two hypotheses of its own, that the pool of tokens and the slots are finite,
because the pool is a bound of the model: `PoolLasts` shows that it never runs out under
an open request, which counts tokens. `Ready` rather than ENABLED, which the prover
cannot handle, stands for "can go on": it is the conjunct through which every action
that can wait is guarded.

**InteractionsProofs.** `CountsExact` is not inductive: a commit publishes a
decision taken at `Write` and a number written at `Count`. `Pending` says that the
decision still fits the table and is the only one on its row, `Tallied` the same
of the number and the scheme; both rest on the two locks. Cardinalities come from
the library's theorems on finite sets. For the refinement `OnePlace` adds that the
id of a comment is in one request or on one row; then every step is an `Add`,
`Remove` or `Lose` of Counters, or invisible (`RefineStep`). Theorems:
`TypeCorrect`, `CountersSound` (`CountsExact`), `WithdrawnSchemesClose`
(`WithdrawalCloses`), `PromiseKept` (`CountersImplemented`), `NoDeadlock` (`NoStall`:
a request takes its row first and the scheme's second, and waits for none after).

**ProfilesProofs.** First what a verdict means in terms of rules (`WhenFail`,
`WhenPass`, `WhenUnknown`), then two facts about one rule: its state is the same
wherever its answer is (`RuleKept`), and a state that is not "unknown" is what the
rule says of every completion (`RulePassed`, `RuleFailed`). For the transactions
`IInv` adds to the type invariant that the row is inserted once (`OneRow`).
Theorems: `TypeCorrect`, `VerdictsMeanWhatTheySay` (`VerdictSound`),
`AnswersOnlyAdd` (`VerdictsLast`), `MissingListComplete` (`MissingIsEnough`),
`NothingUndone` (`NamedKeysOnly`), `ReadingsSavedWhole` (`ReadingsStored`), and
`RulesUnique`: rules translated from one block never repeat the key of the table's
unique constraint, whatever the record holds. `NothingFiltered`
(`RankedNotFiltered`) is about lists of any length: a stable sort is given by the
place of each entry, `PlacesOrder` says that places follow the order, `PlacesTaken`
that each is taken by one entry (as many places as entries, no two alike). That a "fail" is known to the source
record, and not only to the rules, rests on what `Translated` keeps of it.

**SessionClientProofs.** First, every step of the device and its faults is a step or
a stutter of `AuthSessions!Next` (`ServerPart`), so the composition implements the
server's specification and inherits its invariant, the refinement of Sessions
included. On top of that `Owing` says of
every slot that awaits an answer that its request is still to give one: no request
of an open await is a logout, which ends without one. `OnlyDelivered` and `Unspent`
say that the token in an answer not yet taken up is nowhere else on the device, in
no other answer, and was never presented to the server, so that no token can have
been made from it. Theorems: `DeviceIsAClient` (`ClientSpec => Spec`),
`ClientTypeCorrect` (`ClientTypeOK`), `NobodyWaitsInVain` (`AnswerWillCome`),
`CacheNeverReverts` (`CacheMovesForward`).

**SessionCalmProofs.** `CalmSessionSound` speaks of a device at rest; what makes it
inductive is what holds while a flow is under way. `OneFlow` follows the only flow
from await to await (`Unanswered`, `Refused`, `Granted`, then `Storing`, `Renewed`,
`Clearing` or `Leaving`) and says at each which token the server will honour once the
flow's request has committed (`Coming`, `Standing`). Two smaller facts go with it: an
answer lies in no slot but one that awaits it (`Prompted`), and the tokens of a calm
session belong to accounts that are active (`ActiveOwners`). Theorem:
`CalmSessionsAgree`.

**SavedSyncProofs.** `Follows` is `ScreenFollowsAccount` scheme by scheme. A tap knows
the screen, not the account, so it needs that the taps of a scheme that is not torn are
the account's, and one at most (`Orderly`): then the effect of each on the server is what
the screen shows already. A sync needs that what it brings is still the account's list
but for the schemes whose taps ran across it, and that it knows which these are
(`Crossing`). Theorems: `TypeCorrect`, `ScreenIsTheAccounts` (`ScreenFollowsAccount`).

**AssistantProofs.** Three invariants. `IInv` says of every thread, cache entry and
kept reply how old it may be (`TasksSound`, `CacheSound`, `RepliesSound`): an entry
is dated no later than it was read, and a turn that is at its reply read its evidence
no earlier than one lifetime before it began. `Room` is the size of the cache: for
any set `R` of its keys, `R` and the threads that are about to add an entry and will
evict none of `R` are together within the bound. That it holds for every `R`, and not
only for all keys, is what a step needs that evicts a key another thread wanted to
evict too; with fewer keys evicted than threads the bound is false. `Budget` gives
every turn the calls it still owes, one for each model left in its list and, while the
tool call is due, those of the reply, and adds them to the calls made: failing over to
the next model spends what was owed, a slot pays for it, and each call is at most
`Attempts` requests. The owed calls are the cardinality of a set of pairs, since a sum
over the threads would be recursive.
Theorems: `AnswersStayFresh` (`AnswersFresh`), `TypeCorrect`, `CacheStaysBounded`
(`CacheBounded`), `CallsWithinBudget` (`BudgetKept`).

**ImporterProofs.** The hard part is the slugs: a run hands them out from a set it
read before its first batch, while others store schemes. `SnapshotStands` says what
that set still knows of the table (its schemes are stored under slugs it counts as
used, because slugs do not change), `HandedOut` where the slugs of a batch come
from, `OwnSlugs` that they differ from those stored since and from those of the
other open batches, which is what the unique index enforces. `UniqueSlugFree` is
the algorithm by itself: each suffix makes a slug of its own (`SuffixesDiffer`), so
among n + 1 of them one is free (the pigeonhole principle), and a least one exists
(well-foundedness). `TermsReady` and `Noted`
carry categories and audit rows to the commit. Theorems: `TypeCorrect`,
`SchemesAreWhole` (`WholeScheme`), `SlugsAreOwn` (`SlugsResolved`), `LinksAreKept`
(`LinksLast`), `VerifiedHeldBack` (`HeldBack`), `ChangesAreLogged`
(`ChangesLogged`).

**Model-checked only.** Every property of the passing runs is proved; the
counterexamples of the other runs are TLC's. Liveness, which would be out of the
prover's reach, is not claimed.

## 6. What is not modelled, and why

* *Text*: the document splitter, the labels and explanations of rules, prompts, and
  the wording checks on the assistant's replies. Their results differ in nothing
  but the text.
* *Retrieval and rank fusion*: full-text and vector search are SQL and scores; the
  model takes a result list, or the moment it was read, as given. Scheme detail is
  one query and its presentation.
* *Command-line wrappers*: the embeddings command and the import command parse
  arguments and call the library once.
* *Libraries*: hashing, signing, the window counters of the rate limiter.
* *Layout and configuration*: screens, routing, theme, settings, start-up.
* *The device's other state*: the offline copy of the profile (its map is read and
  written in one synchronous piece), the chat (one message in flight), recent searches,
  theme and language.
* *Ratings*: nothing writes `scheme_ratings`, so its trigger never runs.
* The two additional tries of `ApiClient.get()` on a network error repeat a read
  and are invisible to the session.

## 7. The plan

Done, in this order: the server's sessions, the device's session on top of them,
saved schemes, interactions, the importer, the matcher with
profiles and recommendations, the translation of rules and the reading of
documents, the search cache with the assistant on top of it, the abstract
specifications of interactions and of the auth sessions, and the proofs of both
halves of the session, saved schemes, interactions, profiles, the assistant with its
search and the importer.

Next:

1. **The device on Sessions** instead of AuthSessions: fewer states for each request,
   which would make room for two faults in TLC's run of SessionClient.
2. **OfflineProfile**, the device's copy of the profile: recommendations kept past a
   sign-out.
