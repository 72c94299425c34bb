------------------------------ MODULE Assistant ------------------------------
(***************************************************************************)
(* POST /assistant/message (routers/assistant.py), its guard               *)
(* (core/assistant_guard.py), the turn it runs in a worker thread          *)
(* (services/assistant.py) and the provider's fallback over its models.    *)
(* Its search is the one of module Search, with the same cache.            *)
(*                                                                         *)
(* The route has no await between the lookup of the reply and the          *)
(* reservation of a slot, so Cached, Refused and Reserve are one step      *)
(* each; every call of the provider is a step, and so is the end of the    *)
(* turn.  A disabled assistant answers before it reads any of this.        *)
(* Of a reply only the age of its evidence is kept.  Neither the wait for  *)
(* a thread nor the database's statements have a timeout: a turn may take  *)
(* any time.                                                               *)
(***************************************************************************)
EXTENDS Search

CONSTANTS
  Messages,    \* what is asked
  Limit,       \* assistant_daily_limit
  ReplyTTL,    \* assistant_cache_ttl_seconds
  Fallbacks,   \* the length of FALLBACK_MODELS: 3 for Gemini, 0 for Anthropic
  Models,      \* the models the first call of a turn may try: one more when the
               \* configured model is not a fallback
  Attempts,    \* requests the client library sends for one call: Anthropic's
               \* retries twice, Gemini's never
  Day,         \* the length of a UTC day
  NoReply

ASSUME AssistantAssumption ==
  /\ Limit \in Nat /\ ReplyTTL \in Int /\ Day \in Nat \ {0}
  /\ Fallbacks \in Nat /\ Models \in {Fallbacks, Fallbacks + 1} \ {0}
  /\ Attempts \in Nat \ {0}

VARIABLES
  replies,   \* TTLCache
  day, count,  \* DailyUsageCounter
  turn,      \* the turn each thread runs: its message, when it began, the models its
             \* provider tries in one call, and those that failed in this one
  calls,     \* history: requests to the provider by this process since midnight
  carried,   \* history: turns of this process in progress at midnight
  slots      \* history: turns admitted by any process since midnight

guardVars == <<replies, day, count>>
countVars == <<calls, carried, slots>>
vars == <<searchVars, guardVars, turn, countVars>>

today == clock \div Day
NewTurn(m, at) == [message |-> m, began |-> at, list |-> Models, tries |-> 0]
NoTurn == NewTurn("none", 0)
Asking(t) == task[t].kind = "ask" /\ task[t].pc # "idle"

-----------------------------------------------------------------------------
Init ==
  /\ SearchInit
  /\ replies = [m \in Messages |-> NoReply] /\ day = -1 /\ count = 0
  /\ turn = [t \in Threads |-> NoTurn]
  /\ calls = 0 /\ carried = 0 /\ slots = 0

Live(m) == replies[m] # NoReply /\ clock < replies[m].expires
Used    == IF day = today THEN count ELSE 0

\* A repeated question; the count read for the log turns a new day over.
Cached(t, m) ==
  /\ At(t, "idle") /\ begun < MaxBegun /\ Live(m)
  /\ day' = today /\ count' = Used
  /\ begun' = begun + 1
  /\ UNCHANGED <<clock, cacheVars, warmed, task, replies, turn, countVars>>

\* An expired reply is deleted by the lookup.
Missed(t, m) ==
  /\ At(t, "idle") /\ begun < MaxBegun /\ ~Live(m)
  /\ replies' = [replies EXCEPT ![m] = NoReply]
  /\ begun' = begun + 1

Refused(t, m) ==
  /\ Missed(t, m) /\ Used >= Limit
  /\ day' = today /\ count' = Used
  /\ UNCHANGED <<clock, cacheVars, warmed, task, turn, countVars>>

\* Mutant: one slot too many.
ReserveOneMore(t, m) ==
  /\ Missed(t, m) /\ Used <= Limit
  /\ day' = today /\ count' = Used + 1
  /\ Become(t, [Idle EXCEPT !.kind = "ask", !.pc = "tool"])
  /\ turn' = [turn EXCEPT ![t] = NewTurn(m, clock)] /\ slots' = slots + 1
  /\ UNCHANGED <<clock, cacheVars, warmed, calls, carried>>

\* The slot is taken before the provider is called.
Reserve(t, m) ==
  /\ Missed(t, m) /\ Used < Limit
  /\ day' = today /\ count' = Used + 1
  /\ Become(t, [Idle EXCEPT !.kind = "ask", !.pc = "tool"])
  /\ turn' = [turn EXCEPT ![t] = NewTurn(m, clock)] /\ slots' = slots + 1
  /\ UNCHANGED <<clock, cacheVars, warmed, calls, carried>>

\* One call of the provider, whatever becomes of it.
Call(t) ==
  /\ At(t, "tool") \/ At(t, "reply")
  /\ \E n \in 1 .. Attempts : calls' = calls + n

\* The model names a query, or the message itself is searched for.  The provider
\* goes on with the model that answered: one that failed first is not tried again.
ToolCalled(t, q) ==
  /\ At(t, "tool") /\ Call(t)
  /\ Become(t, Enter("ask", q))
  /\ turn' = [turn EXCEPT ![t].tries = 0,
                          ![t].list = IF turn[t].tries = 0 THEN @ ELSE Fallbacks]
  /\ UNCHANGED <<clock, cacheVars, warmed, begun, guardVars>>
  /\ UNCHANGED <<carried, slots>>

\* The reply is kept from the moment the turn ends.
Replied(t) ==
  LET m == turn[t].message IN
  /\ At(t, "reply") /\ Call(t)
  /\ replies' = IF ReplyTTL > 0
                THEN [replies EXCEPT ![m] = [read |-> task[t].read, expires |-> clock + ReplyTTL,
                                             took |-> clock - turn[t].began]]
                ELSE replies
  /\ Become(t, Idle) /\ turn' = [turn EXCEPT ![t] = NoTurn]
  /\ UNCHANGED <<clock, cacheVars, warmed, begun, day, count>>
  /\ UNCHANGED <<carried, slots>>

\* A model that is missing, busy or out of quota: the next one is tried.
NextModel(t) ==
  /\ Call(t) /\ turn[t].tries + 1 < turn[t].list
  /\ turn' = [turn EXCEPT ![t].tries = @ + 1]
  /\ UNCHANGED <<searchVars, guardVars, carried, slots>>

\* Mutant: a failed turn gives its slot back.
TurnRefunded(t) ==
  /\ Call(t)
  /\ Become(t, Idle) /\ turn' = [turn EXCEPT ![t] = NoTurn]
  /\ count' = IF count > 0 THEN count - 1 ELSE 0
  /\ UNCHANGED <<clock, cacheVars, warmed, begun, replies, day>>
  /\ UNCHANGED <<carried, slots>>

\* Any other error, the last model's, or a response without a call of the tool:
\* a 503, and the slot stays spent.
TurnFails(t) ==
  /\ Call(t)
  /\ Become(t, Idle) /\ turn' = [turn EXCEPT ![t] = NoTurn]
  /\ UNCHANGED <<clock, cacheVars, warmed, begun, guardVars>>
  /\ UNCHANGED <<carried, slots>>

\* The eligibility rules cannot be read.
RulesFail(t) ==
  /\ At(t, "reply") /\ turn[t].tries = 0
  /\ Become(t, Idle) /\ turn' = [turn EXCEPT ![t] = NoTurn]
  /\ UNCHANGED <<clock, cacheVars, warmed, begun, guardVars, countVars>>

SearchStep(t) ==
  /\ Searching(t)
  /\ turn' = IF task'[t].pc = "idle" THEN [turn EXCEPT ![t] = NoTurn] ELSE turn
  /\ UNCHANGED <<guardVars, countVars>>

Start(t) ==
  /\ WarmUp(t) \/ \E q \in Queries : BeginSearch(t, q)
  /\ UNCHANGED <<guardVars, turn, countVars>>

\* The process is replaced: its caches, its count and what it was doing are gone.
Restart ==
  /\ begun < MaxBegun
  /\ Forget
  /\ replies' = [m \in Messages |-> NoReply] /\ day' = -1 /\ count' = 0
  /\ turn' = [t \in Threads |-> NoTurn]
  /\ begun' = begun + 1
  /\ calls' = 0 /\ carried' = 0
  /\ UNCHANGED slots

Tick ==
  /\ clock < MaxClock
  /\ clock' = clock + 1
  /\ IF (clock + 1) \div Day = today
     THEN UNCHANGED countVars
     ELSE /\ calls' = 0 /\ slots' = 0
          /\ carried' = Cardinality({t \in Threads : Asking(t)})
  /\ UNCHANGED <<cacheVars, task, warmed, begun, guardVars, turn>>

Step(t) ==
  \/ SearchStep(t) \/ Replied(t) \/ NextModel(t) \/ TurnFails(t) \/ RulesFail(t)
  \/ \E q \in Queries : ToolCalled(t, q)

Next ==
  \/ \E t \in Threads :
       \/ Step(t) \/ Start(t)
       \/ \E m \in Messages : Cached(t, m) \/ Refused(t, m) \/ Reserve(t, m)
  \/ Restart \/ Tick

Spec == Init /\ [][Next]_vars

-----------------------------------------------------------------------------
\* took: history, how long the turn that wrote the reply had run.
Reply == [read : Moments, expires : Int, took : Moments]
TypeOK ==
  /\ SearchTypeOK
  /\ replies \in [Messages -> Reply \cup {NoReply}]
  /\ day \in Int /\ count \in 0 .. Limit
  /\ turn \in [Threads -> [message : Messages \cup {"none"}, began : Moments,
                           list : {Models, Fallbacks}, tries : 0 .. Models - 1]]
  /\ calls \in Nat /\ carried \in Nat /\ slots \in Nat

\* A turn tries at most every model for the query and every fallback for the reply
\* (the same single model twice, without fallbacks).
PerTurn == Models + (IF Fallbacks = 0 THEN 1 ELSE Fallbacks)

\* What one process sends to the provider in a day is bounded by the daily limit:
\* each turn it admits, and each turn midnight found in progress, calls at most
\* PerTurn models, with the client library's own retries, whatever fails
\* (assistant_guard.py:63, gemini_provider.py:94-110, providers/__init__.py:51-57).
BudgetKept == calls <= Attempts * PerTurn * (Limit + carried)

\* The claim of assistant_guard.py:51-53, that a redeploy cannot reset the day's
\* count early: no more turns are admitted in a day than the limit.  The count is an
\* attribute of the process's guard (:63, :133-155): each process starts from zero.
SlotsWithinLimit == slots <= Limit

\* What a search answers was read less than SearchTTL before the search began;
\* what the assistant answers rests on a search of its own or of an earlier
\* turn, each of which may have been answered from the cache, so a reply's
\* evidence is at most SearchTTL older than its turn, and a repeated reply's by its
\* lifetime more (search.py:159-162, routers/assistant.py:146-154, :199).
AnswersFresh ==
  [][\A t \in Threads :
       /\ Hit(t) => task[t].start - cache[task[t].query].read < SearchTTL
       /\ Replied(t) => turn[t].began - task[t].read < SearchTTL
       /\ \A m \in Messages :
            Cached(t, m) =>
              clock - replies[m].read < SearchTTL + ReplyTTL + replies[m].took]_vars
=============================================================================
