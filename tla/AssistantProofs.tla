--------------------------- MODULE AssistantProofs ---------------------------
(***************************************************************************)
(* How old an answer of the search or of the assistant can be, how large   *)
(* the search's cache can grow and how many model calls a day can cost,    *)
(* for any number of threads, queries and messages, any cache size, any    *)
(* daily limit and any lifetimes.                                          *)
(*                                                                         *)
(* Age.  An entry of the cache is dated no later than its response was     *)
(* read: it carries the moment the search began.  From that follow the age *)
(* of a hit and of the evidence a turn rests on when it began; what the    *)
(* turn took and the reply's lifetime are added when it is repeated.       *)
(*                                                                         *)
(* Size.  A thread between its measurement and its store may add one more  *)
(* entry, but it measured a cache that was not full, or evicted as many as *)
(* there are threads: Room counts the entries kept against those stores.   *)
(*                                                                         *)
(* Calls.  A turn that holds a slot has a call left for each model it has  *)
(* not tried: Budget adds what is left to what was spent, and each call is *)
(* at most Attempts requests.                                              *)
(***************************************************************************)
EXTENDS Assistant, FiniteSetTheorems, SequenceTheorems, TLAPS

Fields == {"kind", "pc", "query", "start", "read", "nothing", "victims", "left"}

\* What is known of a thread that runs task s in turn u, at moment c.
Sound(s, u, c) ==
  /\ DOMAIN s = Fields
  /\ s.kind \in Kinds /\ s.pc \in Steps
  /\ s.start \in Nat /\ s.read \in Nat /\ s.start <= c /\ s.read <= c
  /\ s.pc \in {"pop", "store"} => s.start <= s.read
  /\ s.pc \in {"tool", "reply"} => s.kind = "ask"
  /\ s.kind = "ask" /\ s.pc # "idle" =>
       /\ u.began <= c
       /\ s.pc \notin {"tool", "reply"} => u.began <= s.start
       /\ s.pc = "reply" => u.began - s.read < SearchTTL

TurnShape == [message : Messages \cup {"none"}, began : Nat, list : Nat, tries : Nat]
ReplyShape == [read : Nat, expires : Int, took : Nat]

TasksSound ==
  /\ clock \in Nat
  /\ DOMAIN task = Threads /\ task = [t \in Threads |-> task[t]]
  /\ turn \in [Threads -> TurnShape]
  /\ \A t \in Threads : Sound(task[t], turn[t], clock)

\* An entry is dated no later than it was read.
CacheSound ==
  \A q \in DOMAIN cache :
    /\ cache[q].at \in Nat /\ cache[q].read \in Nat
    /\ cache[q].at <= cache[q].read /\ cache[q].read <= clock

RepliesSound ==
  /\ replies \in [Messages -> ReplyShape \cup {NoReply}]
  /\ \A m \in Messages : replies[m] # NoReply =>
       replies[m].expires - ReplyTTL - replies[m].read < SearchTTL + replies[m].took

IInv == TasksSound /\ CacheSound /\ RepliesSound

-----------------------------------------------------------------------------
LEMMA Numbers ==
  /\ SearchTTL \in Nat \ {0} /\ ReplyTTL \in Int
  /\ Models \in Nat \ {0} /\ Fallbacks \in Nat
BY SearchAssumption, AssistantAssumption

LEMMA IdleSound == ASSUME NEW u \in TurnShape, NEW c \in Nat PROVE Sound(Idle, u, c)
BY DEF Idle, Sound, Kinds, Steps, Fields

LEMMA NoTurnShape == NoTurn \in TurnShape
BY Numbers DEF NoTurn, NewTurn, TurnShape

\* A search that is called is sound in a turn that has begun.
LEMMA CalledSound ==
  ASSUME clock \in Nat, NEW kind \in Kinds, NEW q, NEW left, NEW u \in TurnShape,
         kind = "ask" => u.began <= clock
  PROVE  Sound(Called(kind, q, left), u, clock)
<1> DEFINE s == Called(kind, q, left)
<1>1. /\ DOMAIN s = Fields /\ s.kind = kind /\ s.pc = "find"
      /\ s.start = clock /\ s.read = 0
  BY DEF Called, Idle, Fields
<1>2. u.began \in Nat
  BY DEF TurnShape
<1> QED
  BY <1>1, <1>2 DEF Sound, Kinds, Steps

LEMMA ResumedSound ==
  ASSUME clock \in Nat, NEW left, NEW u \in TurnShape
  PROVE  Sound(Resumed(left), u, clock)
BY CalledSound, IdleSound DEF Resumed, Kinds

\* A search that returns leaves its thread sound, if what it returns is young
\* enough for the turn it was made in.
LEMMA ReturnedSound ==
  ASSUME clock \in Nat, NEW s, s.kind \in Kinds, NEW read \in Nat, read <= clock,
         NEW u \in TurnShape,
         s.kind = "ask" => /\ u.began <= clock
                           /\ u.began - read < SearchTTL
  PROVE  Sound(Returned(s, read), u, clock)
<1>1. CASE s.kind = "search"
  BY <1>1, IdleSound DEF Returned
<1>2. CASE s.kind = "warm"
  BY <1>2, ResumedSound DEF Returned
<1>3. CASE s.kind = "ask"
  <2> DEFINE z == Returned(s, read)
  <2>1. /\ DOMAIN z = Fields /\ z.kind = "ask" /\ z.pc = "reply"
        /\ z.start = 0 /\ z.read = read
    BY <1>3 DEF Returned, Idle, Fields
  <2>2. u.began \in Nat
    BY DEF TurnShape
  <2> QED
    BY <1>3, <2>1, <2>2, Numbers DEF Sound, Kinds, Steps
<1> QED
  BY <1>1, <1>2, <1>3 DEF Kinds

LEMMA EnterSound ==
  ASSUME clock \in Nat, NEW kind \in Kinds, NEW q, NEW u \in TurnShape,
         kind = "ask" => u.began <= clock
  PROVE  Sound(Enter(kind, q), u, clock)
<1> DEFINE s == [Idle EXCEPT !.kind = kind, !.start = clock]
<1>1. s.kind = kind
  BY DEF Idle
<1> HIDE DEF s
<1>2. kind = "ask" => u.began - clock < SearchTTL
  BY Numbers DEF TurnShape
<1>3. Sound(Returned(s, clock), u, clock)
  BY <1>1, <1>2, ReturnedSound
<1> QED
  BY <1>3, CalledSound DEF Enter, s

\* The step of one thread: only its task and its turn change.
LEMMA OneThread ==
  ASSUME TasksSound, NEW t \in Threads, NEW s, NEW u \in TurnShape,
         Become(t, s), turn' = [turn EXCEPT ![t] = u], clock' = clock, Sound(s, u, clock)
  PROVE  TasksSound'
<1>1. /\ DOMAIN task' = Threads /\ task' = [z \in Threads |-> task'[z]]
      /\ task'[t] = s /\ \A z \in Threads \ {t} : task'[z] = task[z]
  BY DEF TasksSound, Become
<1>2. /\ turn' \in [Threads -> TurnShape]
      /\ turn'[t] = u /\ \A z \in Threads \ {t} : turn'[z] = turn[z]
  BY DEF TasksSound
<1> QED
  BY <1>1, <1>2 DEF TasksSound

\* A thread that goes on within its turn, and one that is done with it.
LEMMA GoesOn ==
  ASSUME TasksSound, NEW t \in Threads, NEW s,
         Become(t, s), turn' = turn, clock' = clock, Sound(s, turn[t], clock)
  PROVE  TasksSound'
<1>1. turn[t] \in TurnShape /\ turn' = [turn EXCEPT ![t] = turn[t]]
  BY DEF TasksSound
<1> QED
  BY <1>1, OneThread

LEMMA Ends ==
  ASSUME TasksSound, NEW t \in Threads,
         Become(t, Idle), turn' = [turn EXCEPT ![t] = NoTurn], clock' = clock
  PROVE  TasksSound'
BY IdleSound, NoTurnShape, OneThread DEF TasksSound

-----------------------------------------------------------------------------
(* The search *)

\* What a step of the search makes of its task.
LEMMA SearchTask ==
  ASSUME IInv, NEW t \in Threads, Searching(t)
  PROVE  \E s : Become(t, s) /\ Sound(s, turn[t], clock) /\ clock' = clock
<1> DEFINE o == task[t]
<1>1. clock \in Nat /\ Sound(o, turn[t], clock) /\ turn[t] \in TurnShape
  BY DEF IInv, TasksSound
<1>2. turn[t].began \in Nat
  BY <1>1 DEF TurnShape
<1> USE Numbers
<1>3. CASE Find(t)
  <2> DEFINE s == [o EXCEPT !.pc = IF o.query \in DOMAIN cache THEN "fetch" ELSE "retrieve"]
  <2>1. Sound(s, turn[t], clock)
    BY <1>1, <1>3 DEF Find, At, Sound, Steps
  <2> QED
    BY <1>3, <2>1 DEF Find, Goto
<1>4. CASE Hit(t)
  <2> DEFINE c == cache[o.query]
  <2>1. /\ o.pc = "fetch" /\ o.query \in DOMAIN cache /\ o.start - c.at < SearchTTL
        /\ Become(t, Returned(o, c.read)) /\ clock' = clock
    BY <1>4 DEF Hit, At
  <2>2. c.at \in Nat /\ c.read \in Nat /\ c.at <= c.read /\ c.read <= clock
    BY <2>1 DEF IInv, CacheSound
  <2>3. o.kind = "ask" => /\ turn[t].began <= clock
                          /\ turn[t].began <= o.start
    BY <1>1, <2>1 DEF Sound
  <2>4. o.kind = "ask" => turn[t].began - c.read < SearchTTL
    BY <1>1, <1>2, <2>1, <2>2, <2>3 DEF Sound
  <2>5. Sound(Returned(o, c.read), turn[t], clock)
    BY <1>1, <2>2, <2>3, <2>4, ReturnedSound DEF Sound
  <2> QED
    BY <2>1, <2>5
<1>5. CASE Expired(t)
  <2> DEFINE s == [o EXCEPT !.pc = "retrieve"]
  <2>1. Sound(s, turn[t], clock)
    BY <1>1, <1>5 DEF Expired, At, Sound, Steps
  <2> QED
    BY <1>5, <2>1 DEF Expired, Goto
<1>6. Sound(Raised(o), turn[t], clock)
  BY <1>1, IdleSound, ResumedSound DEF Raised
<1>7. CASE Vanished(t)
  BY <1>6, <1>7 DEF Vanished
<1>8. CASE Retrieve(t)
  <2>1. o.pc = "retrieve" /\ clock' = clock
    BY <1>8 DEF Retrieve, At
  <2>2. CASE Become(t, Raised(o))
    BY <1>6, <2>1, <2>2
  <2>3. ASSUME NEW empty, NEW victims, Become(t, Responded(o, empty, victims))
        PROVE  \E s : Become(t, s) /\ Sound(s, turn[t], clock)
    <3> DEFINE s == Responded(o, empty, victims)
    <3>1. /\ DOMAIN s = Fields /\ s.kind = o.kind /\ s.pc \in {"pop", "store"}
          /\ s.start = o.start /\ s.read = clock
      BY <1>1 DEF Sound, Fields, Responded
    <3>2. Sound(s, turn[t], clock)
      BY <1>1, <1>2, <2>1, <3>1 DEF Sound, Steps
    <3> QED
      BY <2>3, <3>2
  <2> QED
    BY <1>8, <2>1, <2>2, <2>3 DEF Retrieve
<1>9. CASE Pop(t)
  <2> DEFINE victims == Tail(o.victims)
             pc == IF victims = <<>> THEN "store" ELSE "pop"
             s == [o EXCEPT !.pc = pc, !.victims = victims]
  <2>1. pc \in {"pop", "store"} /\ Become(t, s)
    BY <1>9 DEF Pop
  <2>2. o.pc = "pop" /\ clock' = clock
    BY <1>9 DEF Pop, At
  <2> HIDE DEF pc, victims
  <2>3. /\ DOMAIN s = Fields /\ s.kind = o.kind /\ s.pc = pc
        /\ s.start = o.start /\ s.read = o.read
    BY <1>1 DEF Sound, Fields
  <2>4. Sound(s, turn[t], clock)
    BY <1>1, <1>2, <2>1, <2>2, <2>3 DEF Sound, Steps
  <2> QED
    BY <2>1, <2>2, <2>4
<1>10. CASE Store(t)
  <2>1. o.pc = "store" /\ clock' = clock /\ Become(t, Returned(o, o.read))
    BY <1>10 DEF Store, At
  <2>2. o.kind = "ask" => /\ turn[t].began <= clock
                          /\ turn[t].began - o.read < SearchTTL
    BY <1>1, <1>2, <2>1 DEF Sound
  <2>3. Sound(Returned(o, o.read), turn[t], clock)
    BY <1>1, <2>2, ReturnedSound DEF Sound
  <2> QED
    BY <2>1, <2>3
<1> QED
  BY <1>3, <1>4, <1>5, <1>7, <1>8, <1>9, <1>10 DEF Searching

LEMMA SearchCache ==
  ASSUME IInv, NEW t \in Threads, Searching(t)
  PROVE  CacheSound'
<1>1. CASE cache' = cache /\ clock' = clock
  BY <1>1 DEF IInv, CacheSound
<1>2. CASE Pop(t)
  BY <1>2 DEF Pop, IInv, CacheSound
<1>3. CASE Store(t)
  <2> DEFINE o == task[t]
             entry == [at |-> o.start, read |-> o.read, nothing |-> o.nothing]
  <2>1. /\ o.start \in Nat /\ o.read \in Nat /\ o.start <= o.read /\ o.read <= clock
    BY <1>3 DEF Store, At, IInv, TasksSound, Sound
  <2>2. /\ cache' = [k \in DOMAIN cache \cup {o.query} |-> IF k = o.query THEN entry ELSE cache[k]]
        /\ clock' = clock
    BY <1>3 DEF Store
  <2>3. \A k \in DOMAIN cache' : cache'[k] = entry \/ (k \in DOMAIN cache /\ cache'[k] = cache[k])
    BY <2>2
  <2> QED
    BY <2>1, <2>2, <2>3 DEF IInv, CacheSound
<1> QED
  BY <1>1, <1>2, <1>3 DEF Searching, Find, Hit, Expired, Vanished, Retrieve, cacheVars

-----------------------------------------------------------------------------
(* The steps *)

LEMMA Inductive == IInv /\ [Next]_vars => IInv'
<1> SUFFICES ASSUME IInv, [Next]_vars PROVE IInv'
  OBVIOUS
<1>0. /\ clock \in Nat /\ \A t \in Threads : Sound(task[t], turn[t], clock)
      /\ \A t \in Threads : turn[t] \in TurnShape /\ turn[t].began \in Nat
  BY DEF IInv, TasksSound, TurnShape
<1>1. ASSUME cache' = cache, clock' = clock PROVE CacheSound'
  BY <1>1 DEF IInv, CacheSound
<1>2. ASSUME replies' = replies PROVE RepliesSound'
  BY <1>2 DEF IInv, RepliesSound
<1>3. CASE UNCHANGED vars
  BY <1>1, <1>2, <1>3 DEF vars, searchVars, cacheVars, guardVars, IInv, TasksSound
<1>4. ASSUME NEW t \in Threads, SearchStep(t) PROVE IInv'
  <2>1. PICK s : Become(t, s) /\ Sound(s, turn[t], clock) /\ clock' = clock
    BY <1>4, SearchTask DEF SearchStep
  <2>2. task'[t] = s
    BY <2>1 DEF Become, IInv, TasksSound
  <2>3. CASE s.pc = "idle"
    <3>1. turn' = [turn EXCEPT ![t] = NoTurn]
      BY <1>4, <2>2, <2>3 DEF SearchStep
    <3>2. Sound(s, NoTurn, clock)
      BY <2>1, <2>3 DEF Sound
    <3>3. TasksSound'
      BY <2>1, <3>1, <3>2, NoTurnShape, OneThread DEF IInv
    <3> QED
      BY <3>3, <1>2, <1>4, SearchCache DEF SearchStep, guardVars, IInv
  <2>4. CASE s.pc # "idle"
    <3>1. turn' = turn
      BY <1>4, <2>2, <2>4 DEF SearchStep
    <3>2. TasksSound'
      BY <2>1, <3>1, GoesOn DEF IInv
    <3> QED
      BY <3>2, <1>2, <1>4, SearchCache DEF SearchStep, guardVars, IInv
  <2> QED
    BY <2>3, <2>4
<1>5. ASSUME NEW t \in Threads, Start(t) PROVE IInv'
  <2>1. \E s : Become(t, s) /\ Sound(s, turn[t], clock)
    <3>1. CASE WarmUp(t)
      BY <1>0, <3>1, ResumedSound DEF WarmUp
    <3>2. CASE \E q \in Queries : BeginSearch(t, q)
      BY <1>0, <3>2, EnterSound DEF BeginSearch, Kinds
    <3> QED
      BY <1>5, <3>1, <3>2 DEF Start
  <2>2. clock' = clock /\ cache' = cache /\ turn' = turn /\ replies' = replies
    BY <1>5 DEF Start, WarmUp, BeginSearch, guardVars, cacheVars
  <2>3. TasksSound'
    BY <2>1, <2>2, GoesOn DEF IInv
  <2> QED
    BY <2>2, <2>3, <1>1, <1>2 DEF IInv
<1>6. ASSUME NEW t \in Threads, NEW q \in Queries, ToolCalled(t, q) PROVE IInv'
  <2> DEFINE list == IF turn[t].tries = 0 THEN turn[t].list ELSE Fallbacks
             u == [turn[t] EXCEPT !.tries = 0, !.list = list]
  <2>1. task[t].pc = "tool"
    BY <1>6 DEF ToolCalled, At
  <2>2. u \in TurnShape /\ u.began = turn[t].began
    BY <1>0, Numbers DEF TurnShape
  <2>3. u.began <= clock
    BY <1>0, <2>1, <2>2 DEF Sound
  <2>4. Sound(Enter("ask", q), u, clock)
    BY <1>0, <2>2, <2>3, EnterSound DEF Kinds
  <2>5. /\ Become(t, Enter("ask", q)) /\ turn' = [turn EXCEPT ![t] = u]
        /\ clock' = clock /\ cache' = cache /\ replies' = replies
    BY <1>6 DEF ToolCalled, guardVars, cacheVars
  <2> HIDE DEF u
  <2>6. TasksSound'
    BY <2>2, <2>4, <2>5, OneThread DEF IInv
  <2> QED
    BY <2>5, <2>6, <1>1, <1>2 DEF IInv
<1>7. ASSUME NEW t \in Threads, Replied(t) PROVE IInv'
  <2> DEFINE m == turn[t].message
             took == clock - turn[t].began
             new == [read |-> task[t].read, expires |-> clock + ReplyTTL, took |-> took]
  <2>1. /\ task[t].pc = "reply" /\ Become(t, Idle) /\ turn' = [turn EXCEPT ![t] = NoTurn]
        /\ clock' = clock /\ cache' = cache
        /\ replies' = replies \/ replies' = [replies EXCEPT ![m] = new]
    BY <1>7 DEF Replied, At, cacheVars
  <2>2. /\ task[t].read \in Nat /\ turn[t].began <= clock
        /\ turn[t].began - task[t].read < SearchTTL
    BY <1>0, <2>1 DEF Sound
  <2>3. new \in ReplyShape /\ new.expires - ReplyTTL - new.read < SearchTTL + new.took
    BY <1>0, <2>2, Numbers DEF ReplyShape
  <2> HIDE DEF new
  <2>4. RepliesSound'
    BY <2>1, <2>3 DEF IInv, RepliesSound
  <2>5. TasksSound'
    BY <2>1, Ends DEF IInv
  <2> QED
    BY <2>1, <2>4, <2>5, <1>1 DEF IInv
<1>8. ASSUME NEW t \in Threads, NextModel(t) PROVE IInv'
  <2> DEFINE u == [turn[t] EXCEPT !.tries = turn[t].tries + 1]
  <2>1. /\ turn' = [turn EXCEPT ![t] = u] /\ task' = task /\ clock' = clock
        /\ cache' = cache /\ replies' = replies
    BY <1>8 DEF NextModel, searchVars, guardVars, cacheVars
  <2>2. u \in TurnShape /\ u.began = turn[t].began
    BY <1>0 DEF TurnShape
  <2>3. Become(t, task[t])
    BY <2>1 DEF Become, IInv, TasksSound
  <2>4. Sound(task[t], u, clock)
    BY <1>0, <2>2 DEF Sound
  <2> HIDE DEF u
  <2>5. TasksSound'
    BY <2>1, <2>2, <2>3, <2>4, OneThread DEF IInv
  <2> QED
    BY <2>1, <2>5, <1>1, <1>2 DEF IInv
<1>9. ASSUME NEW t \in Threads, TurnFails(t) \/ RulesFail(t) PROVE IInv'
  <2>1. /\ Become(t, Idle) /\ turn' = [turn EXCEPT ![t] = NoTurn]
        /\ clock' = clock /\ cache' = cache /\ replies' = replies
    BY <1>9 DEF TurnFails, RulesFail, guardVars, cacheVars
  <2> QED
    BY <2>1, Ends, <1>1, <1>2 DEF IInv
<1>10. ASSUME NEW m \in Messages, replies' = [replies EXCEPT ![m] = NoReply]
       PROVE  RepliesSound'
  BY <1>10 DEF IInv, RepliesSound
<1>11. ASSUME NEW t \in Threads, NEW m \in Messages, Cached(t, m) \/ Refused(t, m)
       PROVE  IInv'
  <2>1. clock' = clock /\ cache' = cache /\ task' = task /\ turn' = turn
    BY <1>11 DEF Cached, Refused, cacheVars
  <2>2. replies' = replies \/ replies' = [replies EXCEPT ![m] = NoReply]
    BY <1>11 DEF Cached, Refused, Missed
  <2>3. RepliesSound'
    BY <2>2, <1>2, <1>10
  <2>4. TasksSound'
    BY <2>1 DEF IInv, TasksSound
  <2> QED
    BY <2>1, <2>3, <2>4, <1>1 DEF IInv
<1>12. ASSUME NEW t \in Threads, NEW m \in Messages, Reserve(t, m) PROVE IInv'
  <2> DEFINE s == [Idle EXCEPT !.kind = "ask", !.pc = "tool"]
             u == NewTurn(m, clock)
  <2>1. /\ Become(t, s) /\ turn' = [turn EXCEPT ![t] = u]
        /\ clock' = clock /\ cache' = cache
        /\ replies' = [replies EXCEPT ![m] = NoReply]
    BY <1>12 DEF Reserve, Missed, cacheVars
  <2>2. u \in TurnShape /\ u.began = clock
    BY <1>0, Numbers DEF TurnShape, NewTurn
  <2>3. Sound(s, u, clock)
    <3>1. /\ DOMAIN s = Fields /\ s.kind = "ask" /\ s.pc = "tool"
          /\ s.start = 0 /\ s.read = 0
      BY DEF Idle, Fields
    <3> QED
      BY <1>0, <2>2, <3>1, Numbers DEF Sound, Kinds, Steps
  <2> HIDE DEF s, u
  <2>4. TasksSound'
    BY <2>1, <2>2, <2>3, OneThread DEF IInv
  <2> QED
    BY <2>1, <2>4, <1>1, <1>10 DEF IInv
<1>13. CASE Restart
  <2>1. /\ task' = [t \in Threads |-> Idle] /\ turn' = [t \in Threads |-> NoTurn]
        /\ clock' = clock /\ cache' = <<>> /\ replies' = [m \in Messages |-> NoReply]
    BY <1>13 DEF Restart, Forget
  <2>2. TasksSound'
    BY <2>1, <1>0, IdleSound, NoTurnShape DEF TasksSound
  <2>3. CacheSound'
    BY <2>1 DEF CacheSound
  <2> QED
    BY <2>1, <2>2, <2>3 DEF IInv, RepliesSound
<1>14. CASE Tick
  <2>1. /\ clock' = clock + 1 /\ cache' = cache /\ task' = task /\ turn' = turn
        /\ replies' = replies
    BY <1>14 DEF Tick, guardVars, cacheVars
  <2>2. \A t \in Threads : Sound(task[t], turn[t], clock + 1)
    BY <1>0, <2>1, Numbers DEF Sound, Asking
  <2>3. TasksSound'
    BY <1>0, <2>1, <2>2 DEF IInv, TasksSound
  <2>4. CacheSound'
    BY <1>0, <2>1 DEF IInv, CacheSound
  <2> QED
    BY <2>1, <2>3, <2>4, <1>2 DEF IInv
<1> QED
  BY <1>3, <1>4, <1>5, <1>6, <1>7, <1>8, <1>9, <1>11, <1>12, <1>13, <1>14 DEF Next, Step

LEMMA Initially == Init => IInv
<1> SUFFICES ASSUME Init PROVE IInv
  OBVIOUS
<1>1. /\ clock = 0 /\ task = [t \in Threads |-> Idle] /\ turn = [t \in Threads |-> NoTurn]
      /\ cache = <<>> /\ replies = [m \in Messages |-> NoReply]
  BY DEF Init, SearchInit
<1> QED
  BY <1>1, IdleSound, NoTurnShape DEF IInv, TasksSound, CacheSound, RepliesSound

\* No answer is older than the lifetimes promise, whatever the threads do to the
\* cache meanwhile (search.py:159-162, :220, routers/assistant.py:146-154, :199).
THEOREM AnswersStayFresh == Spec => AnswersFresh
<1> DEFINE Fresh == \A t \in Threads :
       /\ Hit(t) => task[t].start - cache[task[t].query].read < SearchTTL
       /\ Replied(t) => turn[t].began - task[t].read < SearchTTL
       /\ \A m \in Messages :
            Cached(t, m) =>
              clock - replies[m].read < SearchTTL + ReplyTTL + replies[m].took
<1>1. IInv => Fresh
  <2> SUFFICES ASSUME IInv, NEW t \in Threads
               PROVE  /\ Hit(t) => task[t].start - cache[task[t].query].read < SearchTTL
                      /\ Replied(t) => turn[t].began - task[t].read < SearchTTL
                      /\ \A m \in Messages : Cached(t, m) =>
                           clock - replies[m].read < SearchTTL + ReplyTTL + replies[m].took
    OBVIOUS
  <2>0. /\ clock \in Nat /\ Sound(task[t], turn[t], clock) /\ turn[t].began \in Nat
        /\ task[t].start \in Nat /\ task[t].read \in Nat
    BY DEF IInv, TasksSound, TurnShape, Sound
  <2>1. ASSUME Hit(t) PROVE task[t].start - cache[task[t].query].read < SearchTTL
    <3>1. task[t].query \in DOMAIN cache /\ task[t].start - cache[task[t].query].at < SearchTTL
      BY <2>1 DEF Hit
    <3> QED
      BY <2>0, <3>1, Numbers DEF IInv, CacheSound
  <2>2. ASSUME Replied(t) PROVE turn[t].began - task[t].read < SearchTTL
    BY <2>0, <2>2, Numbers DEF Replied, At, Sound
  <2>3. ASSUME NEW m \in Messages, Cached(t, m)
        PROVE  clock - replies[m].read < SearchTTL + ReplyTTL + replies[m].took
    <3>1. replies[m] # NoReply /\ clock < replies[m].expires
      BY <2>3 DEF Cached, Live
    <3>2. /\ replies[m].read \in Nat /\ replies[m].expires \in Int
          /\ replies[m].took \in Nat
      BY <3>1 DEF IInv, RepliesSound, ReplyShape
    <3> QED
      BY <2>0, <3>1, <3>2, Numbers DEF IInv, RepliesSound
  <2> QED
    BY <2>1, <2>2, <2>3
<1>2. Spec => []IInv
  BY Initially, Inductive, PTL DEF Spec
<1>3. IInv /\ [Next]_vars => [Fresh]_vars
  BY <1>1
<1> QED
  BY <1>2, <1>3, PTL DEF Spec, AnswersFresh

-----------------------------------------------------------------------------
(* Sequences without repetition *)

\* An element that is added and one that is removed.
LEMMA Appended ==
  ASSUME NEW S, NEW s \in Seq(S), IsInjective(s), NEW e \in S, e \notin ToSet(s)
  PROVE  /\ Append(s, e) \in Seq(S) /\ IsInjective(Append(s, e))
         /\ ToSet(Append(s, e)) = ToSet(s) \cup {e}
<1> DEFINE r == Append(s, e)
<1>1. /\ r \in Seq(S) /\ Len(r) = Len(s) + 1 /\ DOMAIN r = 1..Len(s) + 1
      /\ Len(s) \in Nat /\ DOMAIN s = 1..Len(s)
      /\ r[Len(s) + 1] = e /\ \A i \in 1..Len(s) : r[i] = s[i]
  OBVIOUS
<1> HIDE DEF r
<1>2. IsInjective(r)
  BY <1>1 DEF IsInjective, ToSet
<1>3. ToSet(r) = ToSet(s) \cup {e}
  BY <1>1 DEF ToSet
<1> QED
  BY <1>1, <1>2, <1>3 DEF r

LEMMA Removed ==
  ASSUME NEW S, NEW s \in Seq(S), IsInjective(s), NEW e
  PROVE  /\ RemoveFirst(s, e) \in Seq(S) /\ IsInjective(RemoveFirst(s, e))
         /\ ToSet(RemoveFirst(s, e)) = ToSet(s) \ {e}
<1> DEFINE n == Len(s)
<1>1. n \in Nat /\ DOMAIN s = 1..n /\ \A i \in 1..n : s[i] \in S
  OBVIOUS
<1>2. ASSUME ~ \E i \in 1..n : s[i] = e
      PROVE  RemoveFirst(s, e) = s /\ e \notin ToSet(s)
  BY <1>1, <1>2 DEF RemoveFirst, ToSet
<1>3. ASSUME NEW i \in 1..n, s[i] = e
      PROVE  /\ RemoveFirst(s, e) \in Seq(S) /\ IsInjective(RemoveFirst(s, e))
             /\ ToSet(RemoveFirst(s, e)) = ToSet(s) \ {e}
  <2> DEFINE I == {j \in 1..n : s[j] = e}
             a == SubSeq(s, 1, i - 1)
             b == SubSeq(s, i + 1, n)
             r == a \o b
  <2>1. I = {i}
    BY <1>1, <1>3 DEF IsInjective
  <2>2. SelectInSeq(s, LAMBDA v : v = e) = Min(I)
    BY <2>1 DEF SelectInSeq
  <2>3. Min(I) = i
    BY <2>1 DEF Min
  <2>4. RemoveFirst(s, e) = r
    BY <1>3, <2>2, <2>3 DEF RemoveFirst, RemoveAt
  <2>5. /\ a \in Seq(S) /\ Len(a) = i - 1
        /\ \A j \in 1..i - 1 : a[j] = s[j]
    BY <1>1, SubSeqProperties
  <2>6. /\ b \in Seq(S) /\ Len(b) = n - i
        /\ \A j \in 1..n - i : b[j] = s[i + j]
    <3>1. /\ b \in Seq(S) /\ Len(b) = IF i + 1 <= n THEN n - (i + 1) + 1 ELSE 0
          /\ \A j \in 1..n - (i + 1) + 1 : b[j] = s[i + 1 + j - 1]
      BY <1>1, SubSeqProperties
    <3> HIDE DEF n, a, b, I, r
    <3>2. Len(b) = n - i /\ n - (i + 1) + 1 = n - i
      BY <1>1, <3>1
    <3>3. ASSUME NEW j \in 1..n - i PROVE b[j] = s[i + j]
      <4>1. j \in 1..n - (i + 1) + 1 /\ i + 1 + j - 1 = i + j
        BY <1>1, <3>2, <3>3
      <4> QED
        BY <3>1, <4>1
    <3> QED
      BY <3>1, <3>2, <3>3
  <2> HIDE DEF a, b, n, I
  <2>7. /\ r \in Seq(S) /\ Len(r) = n - 1 /\ DOMAIN r = 1..n - 1
        /\ \A j \in 1..n - 1 : r[j] = IF j < i THEN s[j] ELSE s[j + 1]
    <3>1. /\ r \in Seq(S) /\ Len(r) = Len(a) + Len(b)
          /\ \A j \in 1..Len(a) + Len(b) :
               r[j] = IF j <= Len(a) THEN a[j] ELSE b[j - Len(a)]
      BY <2>5, <2>6, ConcatProperties
    <3>2. Len(a) + Len(b) = n - 1
      BY <1>1, <2>5, <2>6
    <3> HIDE DEF r
    <3>3. \A j \in 1..n - 1 : j < i => r[j] = s[j]
      BY <1>1, <2>5, <3>1, <3>2
    <3>4. ASSUME NEW j \in 1..n - 1, ~(j < i) PROVE r[j] = s[j + 1]
      <4>1. j - Len(a) \in 1..n - i /\ i + (j - Len(a)) = j + 1
        BY <1>1, <2>5, <3>4
      <4>2. j \in 1..Len(a) + Len(b) /\ ~(j <= Len(a))
        BY <1>1, <2>5, <3>2, <3>4
      <4>3. r[j] = b[j - Len(a)]
        BY <3>1, <4>2
      <4> QED
        BY <2>6, <4>1, <4>3
    <3>5. DOMAIN r = 1..n - 1
      BY <3>1, <3>2
    <3> QED
      BY <3>1, <3>2, <3>3, <3>4, <3>5
  <2> HIDE DEF r
  <2>8. IsInjective(r)
    <3> SUFFICES ASSUME NEW x \in 1..n - 1, NEW y \in 1..n - 1, r[x] = r[y] PROVE x = y
      BY <2>7 DEF IsInjective
    <3>1. /\ x < i => r[x] = s[x] /\ x \in 1..n
          /\ ~(x < i) => r[x] = s[x + 1] /\ x + 1 \in 1..n
          /\ y < i => r[y] = s[y] /\ y \in 1..n
          /\ ~(y < i) => r[y] = s[y + 1] /\ y + 1 \in 1..n
      BY <1>1, <2>7
    <3>2. \A a0, b0 \in 1..n : s[a0] = s[b0] => a0 = b0
      BY <1>1 DEF IsInjective
    <3> QED
      BY <1>1, <3>1, <3>2
  <2>9. ToSet(r) = ToSet(s) \ {e}
    <3>1. ASSUME NEW x \in ToSet(r) PROVE x \in ToSet(s) \ {e}
      <4>1. PICK j \in 1..n - 1 : x = r[j]
        BY <2>7, <3>1 DEF ToSet
      <4>2. PICK k \in 1..n : k # i /\ x = s[k]
        BY <1>1, <2>7, <4>1
      <4> QED
        BY <1>1, <1>3, <4>2 DEF ToSet, IsInjective
    <3>2. ASSUME NEW x \in ToSet(s) \ {e} PROVE x \in ToSet(r)
      <4>1. PICK k \in 1..n : x = s[k] /\ k # i
        BY <1>1, <1>3, <3>2 DEF ToSet
      <4>2. CASE k < i
        BY <1>1, <2>7, <4>1, <4>2 DEF ToSet
      <4>3. CASE k > i
        <5>1. k - 1 \in 1..n - 1 /\ ~(k - 1 < i) /\ (k - 1) + 1 = k
          BY <1>1, <4>1, <4>3
        <5> QED
          BY <2>7, <4>1, <5>1 DEF ToSet
      <4> QED
        BY <4>1, <4>2, <4>3
    <3> QED
      BY <3>1, <3>2
  <2> QED
    BY <2>4, <2>7, <2>8, <2>9
<1> QED
  BY <1>1, <1>2, <1>3

\* Its elements are as many as its places.
LEMMA Counted ==
  ASSUME NEW S, NEW s \in Seq(S), IsInjective(s)
  PROVE  IsFiniteSet(ToSet(s)) /\ Cardinality(ToSet(s)) = Len(s)
<1>1. /\ Len(s) \in Nat /\ DOMAIN s = 1..Len(s) /\ s \in [1..Len(s) -> ToSet(s)]
      /\ IsFiniteSet(1..Len(s)) /\ Cardinality(1..Len(s)) = Len(s)
  BY FS_Interval DEF ToSet
<1>2. s \in Surjection(1..Len(s), ToSet(s)) /\ s \in Injection(1..Len(s), ToSet(s))
  BY <1>1 DEF Surjection, Injection, ToSet
<1> QED
  BY <1>1, <1>2, FS_Surjection

LEMMA Prefix ==
  ASSUME NEW S, NEW s \in Seq(S), IsInjective(s), NEW k \in 0..Len(s)
  PROVE  /\ SubSeq(s, 1, k) \in Seq(S) /\ Len(SubSeq(s, 1, k)) = k
         /\ IsInjective(SubSeq(s, 1, k)) /\ ToSet(SubSeq(s, 1, k)) \subseteq ToSet(s)
<1> DEFINE r == SubSeq(s, 1, k)
<1>1. Len(s) \in Nat /\ DOMAIN s = 1..Len(s) /\ \A i \in 1..k : s[i] \in S
  OBVIOUS
<1>2. r \in Seq(S) /\ Len(r) = k /\ DOMAIN r = 1..k /\ \A i \in 1..k : r[i] = s[i]
  BY <1>1, SubSeqProperties
<1> HIDE DEF r
<1>3. IsInjective(r) /\ ToSet(r) \subseteq ToSet(s)
  BY <1>1, <1>2 DEF IsInjective, ToSet
<1> QED
  BY <1>2, <1>3 DEF r

-----------------------------------------------------------------------------
(* Types *)

\* A thread that searches has a query; one that evicts has keys left to evict, and
\* no other has.
Fine(s) ==
  /\ s \in Task
  /\ s.pc \notin {"idle", "tool", "reply"} => s.query \in Queries
  /\ s.pc = "pop" <=> s.victims # <<>>

\* The models a turn's provider tries, of which at least one has not failed.
Lists == [message : Messages \cup {"none"}, began : Moments, list : {Models, Fallbacks},
          tries : 0 .. Models - 1]
Turn == {u \in Lists : u.tries < u.list}
TypeInv ==
  /\ TypeOK /\ \A t \in Threads : Fine(task[t])
  /\ turn \in [Threads -> Turn]

CacheTyped ==
  /\ order \in Seq(Queries) /\ IsInjective(order) /\ DOMAIN cache = ToSet(order)
  /\ cache \in [DOMAIN cache -> Entry] /\ empties \in Nat

LEMMA Bounds ==
  /\ MaxClock \in Nat /\ MaxBegun \in Nat /\ Limit \in Nat
  /\ Models \in Nat \ {0} /\ Fallbacks \in Nat /\ Models \in {Fallbacks, Fallbacks + 1}
  /\ Attempts \in Nat \ {0} /\ Day \in Nat \ {0} /\ ReplyTTL \in Int
  /\ Popular \in Seq(Queries) /\ 0 \in Moments
<1>1. Popular \in Seq(Queries \ Wordless)
  BY SearchAssumption
<1>2. Popular \in Seq(Queries)
  BY <1>1
<1> QED
  BY <1>2, SearchAssumption, AssistantAssumption DEF Moments

LEMMA IdleFine == Fine(Idle)
BY Bounds DEF Idle, Fine, Task, Kinds, Steps

LEMMA CalledFine ==
  ASSUME clock \in Moments, NEW kind \in Kinds, NEW q \in Queries, NEW left \in Seq(Queries)
  PROVE  Fine(Called(kind, q, left))
<1> DEFINE named == [Idle EXCEPT !.kind = kind, !.pc = "find", !.query = q]
           s == [named EXCEPT !.start = clock, !.left = left]
<1>1. Called(kind, q, left) = s
  BY DEF Called
<1>2. named \in Task /\ named.pc = "find" /\ named.query = q /\ named.victims = <<>>
  BY IdleFine DEF Fine, Idle, Task, Steps
<1> HIDE DEF named
<1>3. s \in Task /\ s.pc = "find" /\ s.query = q /\ s.victims = <<>>
  BY <1>2 DEF Task
<1> HIDE DEF s
<1> QED
  BY <1>1, <1>3 DEF Fine

LEMMA ResumedFine ==
  ASSUME clock \in Moments, NEW left \in Seq(Queries)
  PROVE  Fine(Resumed(left))
<1>1. CASE left = <<>>
  BY <1>1, IdleFine DEF Resumed
<1>2. CASE left # <<>>
  <2>1. Head(left) \in Queries /\ Tail(left) \in Seq(Queries)
    BY <1>2, HeadTailProperties
  <2> QED
    BY <1>2, <2>1, CalledFine DEF Resumed, Kinds
<1> QED
  BY <1>1, <1>2

LEMMA ReturnedFine ==
  ASSUME clock \in Moments, NEW s, s.kind \in Kinds, s.left \in Seq(Queries),
         NEW read \in Moments
  PROVE  Fine(Returned(s, read))
<1>1. CASE s.kind = "search"
  BY <1>1, IdleFine DEF Returned
<1>2. CASE s.kind = "warm"
  BY <1>2, ResumedFine DEF Returned
<1>3. CASE s.kind = "ask"
  <2>1. Returned(s, read) = [kind |-> "ask", pc |-> "reply", query |-> "none", start |-> 0,
           read |-> read, nothing |-> FALSE, victims |-> <<>>, left |-> <<>>]
    BY <1>3 DEF Returned, Idle
  <2>2. <<>> \in Seq(Queries)
    OBVIOUS
  <2> QED
    BY <2>1, <2>2, Bounds DEF Fine, Task, Kinds, Steps
<1> QED
  BY <1>1, <1>2, <1>3 DEF Kinds

LEMMA RaisedFine ==
  ASSUME clock \in Moments, NEW s \in Task PROVE Fine(Raised(s))
BY IdleFine, ResumedFine DEF Raised, Task

LEMMA EnterFine ==
  ASSUME clock \in Moments, NEW kind \in Kinds, NEW q \in Queries
  PROVE  Fine(Enter(kind, q))
<1> DEFINE s == [Idle EXCEPT !.kind = kind, !.start = clock]
<1>1. s.kind = kind /\ s.left = <<>> /\ <<>> \in Seq(Queries)
  BY DEF Idle
<1> HIDE DEF s
<1>2. Fine(Returned(s, clock))
  BY <1>1, ReturnedFine
<1>3. Fine(Called(kind, q, <<>>))
  BY <1>1, CalledFine
<1> QED
  BY <1>2, <1>3 DEF Enter, s

LEMMA OldestFine ==
  ASSUME CacheTyped
  PROVE  /\ Oldest \in Seq(Queries) /\ Len(order) \in Nat
         /\ Len(order) < MaxSize => Oldest = <<>>
         /\ Len(order) >= MaxSize /\ Len(order) <= Evict => Oldest = order
         /\ Len(order) >= MaxSize /\ Len(order) > Evict =>
              /\ IsInjective(Oldest) /\ Len(Oldest) = Evict /\ ToSet(Oldest) \subseteq ToSet(order)
<1>1. order \in Seq(Queries) /\ IsInjective(order) /\ Len(order) \in Nat
  BY DEF CacheTyped
<1>2. MaxSize \in Nat \ {0} /\ Evict \in Nat
  BY SearchAssumption
<1>3. CASE Len(order) < MaxSize
  BY <1>1, <1>2, <1>3 DEF Oldest
<1>4. CASE Len(order) >= MaxSize /\ Len(order) <= Evict
  BY <1>1, <1>2, <1>4 DEF Oldest
<1>5. CASE Len(order) >= MaxSize /\ Len(order) > Evict
  <2>1. Oldest = SubSeq(order, 1, Evict) /\ Evict \in 0..Len(order)
    BY <1>1, <1>2, <1>5 DEF Oldest
  <2> QED
    BY <1>1, <1>2, <1>5, <2>1, Prefix
<1> QED
  BY <1>1, <1>2, <1>3, <1>4, <1>5

\* What a step of the search makes of its task ...
LEMMA SearchTaskFine ==
  ASSUME TypeInv, NEW t \in Threads, Searching(t)
  PROVE  \E s : Become(t, s) /\ Fine(s)
<1> DEFINE o == task[t]
<1>0. Searching(t) => o.query \in Queries
  BY DEF TypeInv, Fine, Searching, Find, Hit, Expired, Vanished, Retrieve, Pop, Store, At
<1>1. clock \in Moments /\ Fine(o) /\ CacheTyped
  BY DEF TypeInv, TypeOK, SearchTypeOK, CacheTyped
<1>2. o \in Task /\ o.kind \in Kinds /\ o.left \in Seq(Queries) /\ o.read \in Moments
      /\ o.victims \in Seq(Queries)
  BY <1>1 DEF Fine, Task
<1>3. ASSUME NEW pc \in Steps \ {"pop"}, o.pc \in {"find", "fetch"}
      PROVE  Fine([o EXCEPT !.pc = pc])
  BY <1>1, <1>3 DEF Fine, Task
<1>4. CASE Find(t)
  <2>1. \E pc \in {"fetch", "retrieve"} : Become(t, [o EXCEPT !.pc = pc])
    BY <1>4 DEF Find, Goto
  <2> QED
    BY <1>3, <1>4, <2>1 DEF Find, At, Steps
<1>5. CASE Hit(t)
  <2>1. o.query \in DOMAIN cache /\ Become(t, Returned(o, cache[o.query].read))
    BY <1>5 DEF Hit
  <2>2. cache[o.query].read \in Moments
    BY <1>1, <2>1 DEF CacheTyped, Entry
  <2> QED
    BY <1>1, <1>2, <2>1, <2>2, ReturnedFine
<1>6. CASE Expired(t)
  BY <1>3, <1>6 DEF Expired, Goto, At, Steps
<1>7. CASE Vanished(t)
  BY <1>1, <1>2, <1>7, RaisedFine DEF Vanished
<1>8. CASE Retrieve(t)
  <2>0. o.query \in Queries
    BY <1>0
  <2>1. ASSUME NEW empty \in BOOLEAN, NEW victims \in Seq(Queries)
        PROVE  Fine(Responded(o, empty, victims))
    <3> DEFINE pc == IF victims = <<>> THEN "store" ELSE "pop"
               s == [o EXCEPT !.pc = pc, !.read = clock, !.nothing = empty, !.victims = victims]
    <3>1. pc \in Steps /\ (pc = "pop" <=> victims # <<>>)
      BY DEF Steps
    <3> HIDE DEF pc
    <3>2. s \in Task /\ s.pc = pc /\ s.victims = victims /\ s.query = o.query
      BY <1>1, <1>2, <3>1 DEF Task
    <3> QED
      BY <2>0, <3>1, <3>2 DEF Responded, Fine, pc
  <2>2. Oldest \in Seq(Queries) /\ <<>> \in Seq(Queries)
    BY <1>1, OldestFine
  <2> QED
    BY <1>1, <1>2, <1>8, <2>1, <2>2, RaisedFine DEF Retrieve
<1>9. CASE Pop(t)
  <2> DEFINE victims == Tail(o.victims)
             pc == IF victims = <<>> THEN "store" ELSE "pop"
             s == [o EXCEPT !.pc = pc, !.victims = victims]
  <2>1. Become(t, s) /\ o.pc = "pop"
    BY <1>9 DEF Pop, At
  <2>2. victims \in Seq(Queries)
    BY <1>1, <1>2, <2>1, HeadTailProperties DEF Fine
  <2>3. pc \in Steps /\ (pc = "pop" <=> victims # <<>>)
    BY DEF Steps
  <2> HIDE DEF pc, victims
  <2>4. s \in Task /\ s.pc = pc /\ s.victims = victims /\ s.query = o.query
    BY <1>2, <2>2, <2>3 DEF Task
  <2> QED
    BY <1>0, <2>1, <2>3, <2>4 DEF Fine
<1>10. CASE Store(t)
  BY <1>1, <1>2, <1>10, ReturnedFine DEF Store
<1> QED
  BY <1>4, <1>5, <1>6, <1>7, <1>8, <1>9, <1>10, Zenon DEF Searching

\* ... and of the cache.
LEMMA SearchCacheFine ==
  ASSUME TypeInv, NEW t \in Threads, Searching(t)
  PROVE  CacheTyped'
<1> DEFINE o == task[t]
<1>1. clock \in Moments /\ Fine(o) /\ CacheTyped /\ o \in Task
  BY DEF TypeInv, TypeOK, SearchTypeOK, CacheTyped, Fine
<1>2. CASE UNCHANGED cacheVars
  BY <1>1, <1>2 DEF cacheVars, CacheTyped
<1>3. CASE Pop(t)
  <2> DEFINE k == Head(o.victims)
  <2>1. /\ cache' = [q \in DOMAIN cache \ {k} |-> cache[q]]
        /\ order' = RemoveFirst(order, k) /\ empties' = empties
    BY <1>3 DEF Pop
  <2>2. order' \in Seq(Queries) /\ IsInjective(order') /\ ToSet(order') = ToSet(order) \ {k}
    BY <1>1, <2>1, Removed DEF CacheTyped
  <2> HIDE DEF k
  <2> QED
    BY <1>1, <2>1, <2>2 DEF CacheTyped
<1>4. CASE Store(t)
  <2> DEFINE q == o.query
             entry == [at |-> o.start, read |-> o.read, nothing |-> o.nothing]
  <2>1. /\ cache' = [k \in DOMAIN cache \cup {q} |-> IF k = q THEN entry ELSE cache[k]]
        /\ order' = IF q \in DOMAIN cache THEN order ELSE Append(order, q)
        /\ empties' = IF o.nothing /\ q \notin DOMAIN cache THEN empties + 1 ELSE empties
    BY <1>4 DEF Store
  <2>2. entry \in Entry
    BY <1>1 DEF Task, Entry
  <2>3. q \in Queries
    BY <1>1, <1>4 DEF Fine, Store, At
  <2> HIDE DEF q, entry
  <2>4. DOMAIN cache' = ToSet(order') /\ order' \in Seq(Queries) /\ IsInjective(order')
    BY <1>1, <2>1, <2>3, Appended DEF CacheTyped
  <2>5. cache' \in [DOMAIN cache' -> Entry] /\ empties' \in Nat
    BY <1>1, <2>1, <2>2 DEF CacheTyped
  <2> QED
    BY <2>4, <2>5 DEF CacheTyped
<1> QED
  BY <1>2, <1>3, <1>4 DEF Searching, Find, Hit, Expired, Vanished, Retrieve

TasksFine == task \in [Threads -> Task] /\ \A t \in Threads : Fine(task[t])
GuardTyped ==
  /\ replies \in [Messages -> Reply \cup {NoReply}]
  /\ day \in Int /\ count \in 0 .. Limit
  /\ turn \in [Threads -> Turn]
CountsTyped ==
  /\ calls \in Nat /\ carried \in Nat /\ slots \in Nat
ClockTyped == clock \in Moments /\ begun \in 0 .. MaxBegun /\ warmed \in BOOLEAN

LEMMA TypeInvParts ==
  TypeInv <=> TasksFine /\ CacheTyped /\ ClockTyped /\ GuardTyped /\ CountsTyped
BY DEF TypeInv, TypeOK, SearchTypeOK, TasksFine, CacheTyped, ClockTyped, GuardTyped,
       CountsTyped, Turn, Lists

LEMMA BecomeFine ==
  ASSUME TasksFine, NEW t \in Threads, NEW s, Become(t, s), Fine(s)
  PROVE  TasksFine'
BY DEF TasksFine, Become, Fine

LEMMA NoTurnTyped == NoTurn \in Turn
BY Bounds DEF NoTurn, NewTurn, Turn, Lists

\* Every step keeps the types.
LEMMA TypesKept == IInv /\ TypeInv /\ [Next]_vars => TypeInv'
<1> SUFFICES ASSUME IInv, TypeInv, [Next]_vars PROVE TypeInv'
  OBVIOUS
<1>0. TasksFine /\ CacheTyped /\ ClockTyped /\ GuardTyped /\ CountsTyped
  BY TypeInvParts
<1>1. SUFFICES TasksFine' /\ CacheTyped' /\ ClockTyped' /\ GuardTyped' /\ CountsTyped'
  <2>1. TypeInv' <=> (TasksFine /\ CacheTyped /\ ClockTyped /\ GuardTyped /\ CountsTyped)'
    BY TypeInvParts, PTL
  <2> QED
    BY <2>1
<1>a. UNCHANGED cacheVars => CacheTyped'
  BY <1>0 DEF CacheTyped, cacheVars
<1>b. UNCHANGED <<replies, day, count>> /\ turn' \in [Threads -> Turn] => GuardTyped'
  BY <1>0 DEF GuardTyped
<1>c. UNCHANGED <<calls, carried, slots>> => CountsTyped'
  BY <1>0 DEF CountsTyped
<1>d. UNCHANGED <<clock, begun, warmed>> => ClockTyped'
  BY <1>0 DEF ClockTyped
<1>e. turn \in [Threads -> Turn] /\ \A t \in Threads : [turn EXCEPT ![t] = NoTurn] \in [Threads -> Turn]
  BY <1>0, NoTurnTyped DEF GuardTyped
<1>f. ASSUME NEW t \in Threads, Become(t, Idle) PROVE TasksFine'
  BY <1>0, <1>f, IdleFine, BecomeFine
<1>2. CASE UNCHANGED vars
  BY <1>0, <1>2, <1>a, <1>b, <1>c, <1>d, <1>e
     DEF vars, searchVars, guardVars, countVars, TasksFine
<1>3. ASSUME NEW t \in Threads, SearchStep(t)
      PROVE  TasksFine' /\ CacheTyped' /\ ClockTyped' /\ GuardTyped' /\ CountsTyped'
  <2>1. TasksFine'
    BY <1>0, <1>3, SearchTaskFine, BecomeFine DEF SearchStep
  <2>2. CacheTyped'
    BY <1>3, SearchCacheFine DEF SearchStep
  <2>3. UNCHANGED <<clock, begun, warmed>>
    BY <1>3 DEF SearchStep, Searching, Find, Hit, Expired, Vanished, Retrieve, Pop, Store
  <2>4. turn' \in [Threads -> Turn]
    BY <1>3, <1>e DEF SearchStep
  <2> QED
    BY <1>3, <2>1, <2>2, <2>3, <2>4, <1>b, <1>c, <1>d DEF SearchStep, guardVars, countVars
<1>4. ASSUME NEW t \in Threads, Start(t)
      PROVE  TasksFine' /\ CacheTyped' /\ ClockTyped' /\ GuardTyped' /\ CountsTyped'
  <2>1. clock \in Moments
    BY <1>0 DEF ClockTyped
  <2>2. CASE WarmUp(t)
    <3>1. Fine(Resumed(Popular))
      BY <2>1, Bounds, ResumedFine
    <3>2. TasksFine' /\ ClockTyped'
      BY <1>0, <2>2, <3>1, BecomeFine DEF WarmUp, ClockTyped
    <3> QED
      BY <1>4, <2>2, <3>2, <1>a, <1>b, <1>c, <1>e DEF Start, WarmUp, guardVars, countVars
  <2>3. ASSUME NEW q \in Queries, BeginSearch(t, q)
        PROVE  TasksFine' /\ CacheTyped' /\ ClockTyped' /\ GuardTyped' /\ CountsTyped'
    <3>1. Fine(Enter("search", q))
      BY <2>1, EnterFine DEF Kinds
    <3>2. TasksFine'
      BY <1>0, <2>3, <3>1, BecomeFine DEF BeginSearch
    <3>3. ClockTyped'
      BY <1>0, <2>3, Bounds DEF BeginSearch, ClockTyped
    <3> QED
      BY <1>4, <2>3, <3>2, <3>3, <1>a, <1>b, <1>c, <1>e DEF Start, BeginSearch, guardVars, countVars
  <2> QED
    BY <1>4, <2>2, <2>3 DEF Start
<1>5. ASSUME NEW t \in Threads, Call(t) PROVE calls' \in Nat
  BY <1>0, <1>5 DEF Call, CountsTyped
<1>6. ASSUME NEW t \in Threads, NEW q \in Queries, ToolCalled(t, q)
      PROVE  TasksFine' /\ CacheTyped' /\ ClockTyped' /\ GuardTyped' /\ CountsTyped'
  <2>1. Fine(Enter("ask", q))
    BY <1>0, EnterFine DEF Kinds, ClockTyped
  <2>2. TasksFine'
    BY <1>0, <1>6, <2>1, BecomeFine DEF ToolCalled
  <2>3. turn' \in [Threads -> Turn]
    <3> DEFINE list == IF turn[t].tries = 0 THEN turn[t].list ELSE Fallbacks
               u == [turn[t] EXCEPT !.tries = 0, !.list = list]
    <3>1. turn[t] \in Turn
      BY <1>e
    <3>2. list \in {Models, Fallbacks} /\ 0 < list /\ 0 \in 0 .. Models - 1
      BY <3>1, Bounds DEF Turn, Lists
    <3> HIDE DEF list
    <3>3. u \in Turn
      BY <3>1, <3>2 DEF Turn, Lists
    <3>4. turn' = [turn EXCEPT ![t] = u]
      BY <1>6 DEF ToolCalled, list
    <3> QED
      BY <1>e, <3>3, <3>4
  <2>4. CountsTyped'
    BY <1>0, <1>5, <1>6 DEF ToolCalled, CountsTyped
  <2> QED
    BY <1>6, <2>2, <2>3, <2>4, <1>a, <1>b, <1>d DEF ToolCalled, guardVars
<1>7. ASSUME NEW t \in Threads, Replied(t)
      PROVE  TasksFine' /\ CacheTyped' /\ ClockTyped' /\ GuardTyped' /\ CountsTyped'
  <2> DEFINE m == turn[t].message
             took == clock - turn[t].began
             new == [read |-> task[t].read, expires |-> clock + ReplyTTL, took |-> took]
  <2>1. /\ Call(t) /\ Become(t, Idle) /\ turn' = [turn EXCEPT ![t] = NoTurn]
        /\ replies' = replies \/ replies' = [replies EXCEPT ![m] = new]
        /\ UNCHANGED <<clock, cacheVars, warmed, begun, day, count, carried, slots>>
    BY <1>7 DEF Replied
  <2>2. new \in Reply
    <3>1. task[t].read \in Moments
      BY <1>0 DEF TasksFine, Task
    <3>2. clock + ReplyTTL \in Int
      BY <1>0, Bounds DEF ClockTyped, Moments
    <3>3. turn[t].began \in Moments /\ turn[t].began <= clock
      BY <1>e, <1>7 DEF Replied, At, IInv, TasksSound, Sound, Turn, Lists
    <3>4. took \in Moments
      BY <1>0, <3>3, Bounds DEF ClockTyped, Moments
    <3> QED
      BY <3>1, <3>2, <3>4 DEF Reply
  <2> HIDE DEF new, m
  <2>3. GuardTyped'
    BY <1>0, <1>e, <2>1, <2>2 DEF GuardTyped
  <2>4. CountsTyped'
    BY <1>0, <1>5, <2>1 DEF CountsTyped
  <2> QED
    BY <2>1, <2>3, <2>4, <1>a, <1>d, <1>f
<1>8. ASSUME NEW t \in Threads, NextModel(t)
      PROVE  TasksFine' /\ CacheTyped' /\ ClockTyped' /\ GuardTyped' /\ CountsTyped'
  <2>1. turn' \in [Threads -> Turn]
    <3> DEFINE u == [turn[t] EXCEPT !.tries = turn[t].tries + 1]
    <3>1. turn[t] \in Turn
      BY <1>e
    <3>2. turn[t].tries + 1 \in 0 .. Models - 1 /\ turn[t].tries + 1 < turn[t].list
      BY <1>8, <3>1, Bounds DEF NextModel, Turn, Lists
    <3>3. u \in Turn
      BY <3>1, <3>2 DEF Turn, Lists
    <3>4. turn' = [turn EXCEPT ![t] = u]
      BY <1>8 DEF NextModel
    <3> QED
      BY <1>e, <3>3, <3>4
  <2>2. CountsTyped'
    BY <1>0, <1>5, <1>8 DEF NextModel, CountsTyped
  <2> QED
    BY <1>0, <1>8, <2>1, <2>2, <1>a, <1>b, <1>d DEF NextModel, searchVars, guardVars, TasksFine
<1>9. ASSUME NEW t \in Threads, TurnFails(t) \/ RulesFail(t)
      PROVE  TasksFine' /\ CacheTyped' /\ ClockTyped' /\ GuardTyped' /\ CountsTyped'
  <2>1. /\ Become(t, Idle) /\ turn' = [turn EXCEPT ![t] = NoTurn]
        /\ UNCHANGED <<clock, cacheVars, warmed, begun, guardVars, carried, slots>>
        /\ Call(t) \/ calls' = calls
    BY <1>9 DEF TurnFails, RulesFail, countVars
  <2>2. CountsTyped'
    BY <1>0, <1>5, <2>1 DEF CountsTyped
  <2> QED
    BY <2>1, <2>2, <1>a, <1>b, <1>d, <1>e, <1>f DEF guardVars
<1>10. today \in Int /\ Used \in 0 .. Limit /\ (Used < Limit => Used + 1 \in 0 .. Limit)
  BY <1>0, Bounds DEF today, Used, ClockTyped, Moments, GuardTyped
<1>11. ASSUME NEW m \in Messages PROVE [replies EXCEPT ![m] = NoReply] \in [Messages -> Reply \cup {NoReply}]
  BY <1>0 DEF GuardTyped
<1>12. ASSUME begun < MaxBegun, begun' = begun + 1, UNCHANGED <<clock, warmed>> PROVE ClockTyped'
  BY <1>0, <1>12, Bounds DEF ClockTyped
<1>13. ASSUME NEW t \in Threads, NEW m \in Messages, Cached(t, m) \/ Refused(t, m)
       PROVE  TasksFine' /\ CacheTyped' /\ ClockTyped' /\ GuardTyped' /\ CountsTyped'
  <2>1. /\ UNCHANGED <<clock, cacheVars, warmed, task, turn, countVars>>
        /\ begun < MaxBegun /\ begun' = begun + 1 /\ day' = today /\ count' = Used
        /\ replies' = replies \/ replies' = [replies EXCEPT ![m] = NoReply]
    BY <1>13 DEF Cached, Refused, Missed
  <2>2. GuardTyped'
    BY <1>0, <1>10, <1>11, <2>1 DEF GuardTyped
  <2>3. TasksFine'
    BY <1>0, <2>1 DEF TasksFine
  <2> QED
    BY <2>1, <2>2, <2>3, <1>a, <1>c, <1>12 DEF countVars
<1>14. ASSUME NEW t \in Threads, NEW m \in Messages, Reserve(t, m)
       PROVE  TasksFine' /\ CacheTyped' /\ ClockTyped' /\ GuardTyped' /\ CountsTyped'
  <2> DEFINE s == [Idle EXCEPT !.kind = "ask", !.pc = "tool"]
             u == NewTurn(m, clock)
  <2>1. /\ UNCHANGED <<clock, cacheVars, warmed, calls, carried>> /\ slots' = slots + 1
        /\ begun < MaxBegun /\ begun' = begun + 1 /\ day' = today /\ count' = Used + 1
        /\ Used < Limit
        /\ replies' = [replies EXCEPT ![m] = NoReply]
        /\ Become(t, s) /\ turn' = [turn EXCEPT ![t] = u]
    BY <1>14 DEF Reserve, Missed
  <2>2. Fine(s)
    BY IdleFine DEF Fine, Idle, Task, Kinds, Steps
  <2>3. u \in Turn
    BY <1>0, Bounds DEF NewTurn, Turn, Lists, ClockTyped
  <2>5. CountsTyped'
    BY <1>0, <2>1 DEF CountsTyped
  <2> HIDE DEF s, u
  <2>4. GuardTyped'
    BY <1>0, <1>10, <1>11, <2>1, <2>3 DEF GuardTyped
  <2> QED
    BY <1>0, <2>1, <2>2, <2>4, <2>5, <1>a, <1>12, BecomeFine
<1>15. CASE Restart
  <2>1. /\ task' = [t \in Threads |-> Idle] /\ turn' = [t \in Threads |-> NoTurn]
        /\ clock' = clock /\ begun < MaxBegun /\ begun' = begun + 1 /\ warmed' = FALSE
        /\ cache' = <<>> /\ order' = <<>> /\ empties' = 0
        /\ replies' = [m \in Messages |-> NoReply] /\ day' = -1 /\ count' = 0
        /\ calls' = 0 /\ carried' = 0 /\ slots' = slots
    BY <1>15 DEF Restart, Forget
  <2>2. TasksFine'
    BY <2>1, IdleFine DEF TasksFine, Fine
  <2>3. CacheTyped'
    BY <2>1 DEF CacheTyped, ToSet, IsInjective
  <2>4. GuardTyped'
    BY <2>1, NoTurnTyped, Bounds DEF GuardTyped
  <2>5. CountsTyped'
    BY <1>0, <2>1, Bounds DEF CountsTyped
  <2>6. ClockTyped'
    <3>1. begun + 1 \in 0 .. MaxBegun
      BY <1>0, <2>1, Bounds DEF ClockTyped
    <3> QED
      BY <1>0, <2>1, <3>1 DEF ClockTyped
  <2> QED
    BY <2>2, <2>3, <2>4, <2>5, <2>6
<1>16. CASE Tick
  <2> DEFINE asking == {t \in Threads : Asking(t)}
  <2>1. /\ clock < MaxClock /\ clock' = clock + 1
        /\ UNCHANGED <<cacheVars, task, warmed, begun, guardVars, turn>>
        /\ \/ UNCHANGED countVars
           \/ calls' = 0 /\ slots' = 0 /\ carried' = Cardinality(asking)
    BY <1>16 DEF Tick
  <2>2. Cardinality(asking) \in Nat
    BY SearchAssumption, FS_Subset, FS_CardinalityType
  <2> HIDE DEF asking
  <2>3. CountsTyped'
    BY <1>0, <2>1, <2>2 DEF CountsTyped, countVars
  <2>4. ClockTyped'
    BY <1>0, <2>1, Bounds DEF ClockTyped, Moments
  <2>5. TasksFine'
    BY <1>0, <2>1 DEF TasksFine
  <2> QED
    BY <2>1, <2>3, <2>4, <2>5, <1>a, <1>b, <1>e DEF guardVars
<1> QED
  BY <1>2, <1>3, <1>4, <1>6, <1>7, <1>8, <1>9, <1>13, <1>14, <1>15, <1>16 DEF Next, Step

-----------------------------------------------------------------------------
(* The size of the cache *)

Adding(t) == task[t].pc \in {"pop", "store"} /\ ~task[t].nothing

\* The threads that are to add an entry and will not remove one of R before.
Ready(R) == {t \in Threads : Adding(t) /\ ToSet(task[t].victims) \cap R = {}}
Bound == MaxSize + Cardinality(Threads) - 1 + empties
\* Whichever entries R are kept, they and the stores still to come fit the bound:
\* an entry a thread is about to evict makes no room for the threads that keep it.
Room == \A R \in SUBSET DOMAIN cache : Cardinality(R) + Cardinality(Ready(R)) <= Bound

LEMMA Sizes ==
  /\ IsFiniteSet(Threads) /\ Cardinality(Threads) \in Nat
  /\ MaxSize \in Nat \ {0} /\ Evict \in Nat /\ Evict >= Cardinality(Threads)
BY SearchAssumption, FS_CardinalityType

LEMMA ReadySize ==
  ASSUME NEW R
  PROVE  /\ IsFiniteSet(Ready(R)) /\ Cardinality(Ready(R)) \in Nat
         /\ Cardinality(Ready(R)) <= Cardinality(Threads)
BY Sizes, FS_Subset, FS_CardinalityType DEF Ready

LEMMA OneMore ==
  ASSUME NEW R, NEW q, IsFiniteSet(R \ {q})
  PROVE  Cardinality(R) \in Nat /\ Cardinality(R) <= Cardinality(R \ {q}) + 1
<1>1. Cardinality(R \ {q}) \in Nat
  BY FS_CardinalityType
<1>2. CASE q \in R
  <2> DEFINE S == R \ {q}
  <2>1. R = S \cup {q} /\ q \notin S
    BY <1>2
  <2> HIDE DEF S
  <2>2. IsFiniteSet(S) /\ Cardinality(S) \in Nat
    BY <1>1 DEF S
  <2>3. Cardinality(R) = Cardinality(S) + 1
    BY <2>1, <2>2, FS_AddElement
  <2> QED
    BY <2>2, <2>3 DEF S
<1>3. CASE q \notin R
  <2>1. R = R \ {q}
    BY <1>3
  <2> QED
    BY <1>1, <2>1
<1> QED
  BY <1>2, <1>3

LEMMA KeysSize ==
  ASSUME CacheTyped, NEW R \in SUBSET DOMAIN cache
  PROVE  /\ IsFiniteSet(R) /\ Cardinality(R) \in Nat
         /\ Len(order) \in Nat /\ Cardinality(DOMAIN cache) = Len(order)
         /\ Cardinality(R) <= Len(order)
<1>1. IsFiniteSet(DOMAIN cache) /\ Cardinality(DOMAIN cache) = Len(order) /\ Len(order) \in Nat
  BY Counted DEF CacheTyped
<1> QED
  BY <1>1, FS_Subset, FS_CardinalityType

\* A step that adds no entry, and after which no other thread will add one.
LEMMA RoomStays ==
  ASSUME TypeInv, Room, DOMAIN cache' \subseteq DOMAIN cache, empties' = empties,
         \A R \in SUBSET DOMAIN cache' : Ready(R)' \subseteq Ready(R)
  PROVE  Room'
<1>1. CacheTyped
  BY TypeInvParts
<1> SUFFICES ASSUME NEW R \in SUBSET DOMAIN cache'
             PROVE  Cardinality(R) + Cardinality(Ready(R)') <= Bound'
  BY DEF Room
<1>2. Cardinality(R) + Cardinality(Ready(R)) <= Bound
  BY DEF Room
<1>3. Cardinality(Ready(R)') \in Nat /\ Cardinality(Ready(R)') <= Cardinality(Ready(R))
  BY ReadySize, FS_Subset, FS_CardinalityType
<1>4. Cardinality(R) \in Nat /\ Cardinality(Ready(R)) \in Nat
  BY <1>1, KeysSize, ReadySize
<1>5. Bound' = Bound /\ Bound \in Int
  BY <1>1, Sizes DEF Bound, CacheTyped
<1> QED
  BY <1>2, <1>3, <1>4, <1>5

LEMMA RoomLeft ==
  ASSUME TypeInv, Room, NEW t \in Threads, NEW s, Become(t, s),
         s.pc \notin {"pop", "store"}, UNCHANGED cacheVars
  PROVE  Room'
<1>1. task \in [Threads -> Task]
  BY TypeInvParts DEF TasksFine
<1>2. \A z \in Threads : task'[z] = IF z = t THEN s ELSE task[z]
  BY <1>1 DEF Become
<1>3. \A R : Ready(R)' \subseteq Ready(R)
  BY <1>2 DEF Ready, Adding
<1> QED
  BY <1>3, RoomStays DEF cacheVars

\* What search() is called with and what it leaves is no thread about to store.
Elsewhere(s) == s.pc \notin {"pop", "store"}

LEMMA CalledElsewhere ==
  ASSUME NEW kind, NEW q, NEW left PROVE Elsewhere(Called(kind, q, left)) /\ Elsewhere(Idle)
BY DEF Idle, Called, Elsewhere

LEMMA RaisedElsewhere ==
  ASSUME NEW s, NEW left PROVE Elsewhere(Raised(s)) /\ Elsewhere(Resumed(left))
BY CalledElsewhere DEF Raised, Resumed

LEMMA ReturnedElsewhere ==
  ASSUME NEW s, s.kind \in Kinds, NEW read PROVE Elsewhere(Returned(s, read))
<1>1. Elsewhere([Idle EXCEPT !.kind = "ask", !.pc = "reply", !.read = read])
  BY DEF Idle, Elsewhere
<1> QED
  BY <1>1, CalledElsewhere, RaisedElsewhere DEF Returned, Kinds

LEMMA EnterElsewhere ==
  ASSUME NEW kind \in Kinds, NEW q PROVE Elsewhere(Enter(kind, q))
<1> DEFINE s == [Idle EXCEPT !.kind = kind, !.start = clock]
<1>1. s.kind = kind
  BY DEF Idle
<1> HIDE DEF s
<1>2. Elsewhere(Returned(s, clock))
  BY <1>1, ReturnedElsewhere
<1> QED
  BY <1>2, CalledElsewhere DEF Enter, s

\* Measuring: a cache that is full gives up Evict entries, at least one per thread.
LEMMA RetrieveRoom ==
  ASSUME TypeInv, Room, NEW t \in Threads, Retrieve(t)
  PROVE  Room'
<1> DEFINE o == task[t]
<1>1. CacheTyped /\ task \in [Threads -> Task] /\ o \in Task
  BY TypeInvParts DEF TasksFine
<1>2. UNCHANGED cacheVars
  BY <1>1 DEF Retrieve
<1>3. CASE Become(t, Raised(o))
  BY <1>2, <1>3, RaisedElsewhere, RoomLeft DEF Elsewhere
<1>4. CASE Become(t, Responded(o, TRUE, <<>>))
  <2>1. \A z \in Threads : task'[z] = IF z = t THEN Responded(o, TRUE, <<>>) ELSE task[z]
    BY <1>1, <1>4 DEF Become
  <2>2. Responded(o, TRUE, <<>>).nothing
    BY <1>1 DEF Responded, Task
  <2>3. \A R : Ready(R)' \subseteq Ready(R)
    BY <2>1, <2>2 DEF Ready, Adding
  <2> QED
    BY <1>2, <2>3, RoomStays DEF cacheVars
<1>5. CASE Become(t, Responded(o, FALSE, Oldest))
  <2> DEFINE s == Responded(o, FALSE, Oldest)
  <2>1. s.victims = Oldest
    BY <1>1 DEF Responded, Task
  <2>2. \A z \in Threads : task'[z] = IF z = t THEN s ELSE task[z]
    BY <1>1, <1>5 DEF Become
  <2> HIDE DEF s
  <2> SUFFICES ASSUME NEW R \in SUBSET DOMAIN cache
               PROVE  Cardinality(R) + Cardinality(Ready(R)') <= Bound
    BY <1>2 DEF Room, Bound, cacheVars
  <2>3. Cardinality(R) + Cardinality(Ready(R)) <= Bound /\ Len(order) + Cardinality(Ready(DOMAIN cache)) <= Bound
    BY <1>1, KeysSize DEF Room
  <2>4. /\ Cardinality(R) \in Nat /\ Cardinality(R) <= Len(order) /\ Len(order) \in Nat
        /\ Cardinality(Ready(R)) \in Nat /\ Cardinality(Ready(DOMAIN cache)) \in Nat
        /\ Cardinality(Ready(R)') \in Nat /\ Cardinality(Ready(R)') <= Cardinality(Threads)
    <3>1. IsFiniteSet(Ready(R)') /\ Ready(R)' \subseteq Threads
      BY Sizes, FS_Subset DEF Ready
    <3> QED
      BY <1>1, <3>1, KeysSize, ReadySize, Sizes, FS_Subset, FS_CardinalityType
  <2>5. Bound \in Int /\ MaxSize + Cardinality(Threads) - 1 <= Bound
    BY <1>1, Sizes DEF Bound, CacheTyped
  <2>6. CASE ToSet(Oldest) \cap R # {}
    <3>1. Ready(R)' \subseteq Ready(R)
      BY <2>1, <2>2, <2>6 DEF Ready, Adding
    <3>2. Cardinality(Ready(R)') <= Cardinality(Ready(R))
      BY <3>1, ReadySize, FS_Subset
    <3> QED
      BY <2>3, <2>4, <2>5, <3>2
  <2>7. CASE ToSet(Oldest) \cap R = {}
    <3>1. CASE Len(order) < MaxSize
      BY <2>4, <2>5, <3>1, Sizes
    <3>2. CASE Len(order) >= MaxSize /\ Len(order) <= Evict
      <4>1. R = {}
        BY <1>1, <2>7, <3>2, OldestFine DEF CacheTyped
      <4>2. Cardinality(R) = 0
        BY <4>1, FS_EmptySet
      <4> QED
        BY <2>4, <2>5, <4>2, Sizes
    <3>3. CASE Len(order) >= MaxSize /\ Len(order) > Evict
      <4>1. /\ IsInjective(Oldest) /\ Oldest \in Seq(Queries) /\ Len(Oldest) = Evict
            /\ ToSet(Oldest) \subseteq DOMAIN cache
        BY <1>1, <3>3, OldestFine DEF CacheTyped
      <4>2. IsFiniteSet(ToSet(Oldest)) /\ Cardinality(ToSet(Oldest)) = Evict
        BY <4>1, Counted
      <4>3. IsFiniteSet(R) /\ IsFiniteSet(DOMAIN cache) /\ Cardinality(DOMAIN cache) = Len(order)
        BY <1>1, KeysSize
      <4>4. Cardinality(R \cup ToSet(Oldest)) = Cardinality(R) + Evict
        <5>1. R \cap ToSet(Oldest) = {}
          BY <2>7
        <5>2. Cardinality(R \cap ToSet(Oldest)) = 0
          BY <5>1, FS_EmptySet
        <5>3. Cardinality(R \cup ToSet(Oldest)) =
                Cardinality(R) + Cardinality(ToSet(Oldest)) - Cardinality(R \cap ToSet(Oldest))
          BY <4>2, <4>3, FS_Union
        <5> QED
          BY <2>4, <4>2, <5>2, <5>3, Sizes
      <4>5. Cardinality(R \cup ToSet(Oldest)) <= Len(order)
        BY <4>1, <4>3, FS_Subset
      <4> QED
        BY <2>3, <2>4, <2>5, <4>4, <4>5, Sizes
    <3> QED
      BY <2>4, <3>1, <3>2, <3>3, Sizes
  <2> QED
    BY <2>6, <2>7
<1> QED
  BY <1>3, <1>4, <1>5 DEF Retrieve

\* Evicting: the entry that goes stood for no store to come.
LEMMA PopRoom ==
  ASSUME TypeInv, Room, NEW t \in Threads, Pop(t)
  PROVE  Room'
<1> DEFINE o == task[t]
           k == Head(o.victims)
           rest == Tail(o.victims)
           s == [o EXCEPT !.pc = IF rest = <<>> THEN "store" ELSE "pop", !.victims = rest]
<1>1. Fine(o) /\ o \in Task /\ task \in [Threads -> Task] /\ o.pc = "pop"
  BY TypeInvParts DEF TasksFine, Fine, Pop, At
<1>2. o.victims \in Seq(Queries) /\ o.victims # <<>>
  BY <1>1 DEF Fine, Task
<1>3. ToSet(o.victims) = {k} \cup ToSet(rest)
  <2>1. /\ Len(o.victims) \in Nat \ {0} /\ DOMAIN o.victims = 1..Len(o.victims)
        /\ rest \in Seq(Queries) /\ Len(rest) = Len(o.victims) - 1 /\ DOMAIN rest = 1..Len(rest)
        /\ k = o.victims[1] /\ \A i \in 1..Len(rest) : rest[i] = o.victims[i + 1]
    BY <1>2, HeadTailProperties, EmptySeq
  <2> HIDE DEF k, rest
  <2>2. ASSUME NEW x \in ToSet(o.victims) PROVE x \in {k} \cup ToSet(rest)
    <3>1. PICK i \in 1..Len(o.victims) : x = o.victims[i]
      BY <2>1 DEF ToSet
    <3>2. CASE i = 1
      BY <2>1, <3>1, <3>2
    <3>3. CASE i # 1
      <4>1. i - 1 \in 1..Len(rest) /\ (i - 1) + 1 = i
        BY <2>1, <3>3
      <4> QED
        BY <2>1, <3>1, <4>1 DEF ToSet
    <3> QED
      BY <3>2, <3>3
  <2>3. ASSUME NEW x \in {k} \cup ToSet(rest) PROVE x \in ToSet(o.victims)
    <3>1. CASE x = k
      BY <2>1, <3>1 DEF ToSet
    <3>2. CASE x \in ToSet(rest)
      <4>1. PICK i \in 1..Len(rest) : x = rest[i]
        BY <2>1, <3>2 DEF ToSet
      <4>2. i + 1 \in 1..Len(o.victims)
        BY <2>1
      <4> QED
        BY <2>1, <4>1, <4>2 DEF ToSet
    <3> QED
      BY <3>1, <3>2
  <2> QED
    BY <2>2, <2>3
<1>4. DOMAIN cache' = DOMAIN cache \ {k} /\ empties' = empties /\ Become(t, s)
  BY DEF Pop
<1>5. s.victims = rest /\ s.nothing = o.nothing
  BY <1>1 DEF Task
<1> HIDE DEF k, rest, s
<1>6. \A z \in Threads : task'[z] = IF z = t THEN s ELSE task[z]
  BY <1>1, <1>4 DEF Become
<1>7. ASSUME NEW R \in SUBSET DOMAIN cache' PROVE Ready(R)' \subseteq Ready(R)
  BY <1>1, <1>3, <1>4, <1>5, <1>6 DEF Ready, Adding
<1> QED
  BY <1>4, <1>7, RoomStays

\* Storing: the entry was counted before it came, or came with an empty response.
LEMMA StoreRoom ==
  ASSUME TypeInv, Room, NEW t \in Threads, Store(t)
  PROVE  Room'
<1> DEFINE o == task[t]
           q == o.query
           s == Returned(o, o.read)
<1>1. Fine(o) /\ o \in Task /\ task \in [Threads -> Task] /\ o.pc = "store" /\ CacheTyped
  BY TypeInvParts DEF TasksFine, Fine, Store, At
<1>2. ToSet(o.victims) = {}
  BY <1>1 DEF Fine, ToSet
<1>3. /\ DOMAIN cache' = DOMAIN cache \cup {q} /\ Become(t, s)
      /\ empties' = IF o.nothing /\ q \notin DOMAIN cache THEN empties + 1 ELSE empties
  BY DEF Store
<1>4. s.pc \notin {"pop", "store"}
  BY <1>1, ReturnedElsewhere DEF Task, Elsewhere
<1>5. o.nothing \in BOOLEAN
  BY <1>1 DEF Task
<1> HIDE DEF q, s
<1>6. \A z \in Threads : task'[z] = IF z = t THEN s ELSE task[z]
  BY <1>1, <1>3 DEF Become
<1> SUFFICES ASSUME NEW R \in SUBSET DOMAIN cache'
             PROVE  Cardinality(R) + Cardinality(Ready(R)') <= Bound'
  BY DEF Room
<1> DEFINE old == R \ {q}
<1>7. old \in SUBSET DOMAIN cache /\ Cardinality(old) + Cardinality(Ready(old)) <= Bound
  BY <1>3 DEF Room
<1>8. IsFiniteSet(old) /\ Cardinality(old) \in Nat
  BY <1>1, <1>7, KeysSize
<1>9. Cardinality(R) \in Nat /\ Cardinality(R) <= Cardinality(old) + 1
  BY <1>8, OneMore
<1>10. Ready(R)' \subseteq Ready(old) \ {t}
  BY <1>4, <1>6 DEF Ready, Adding
<1> HIDE DEF old
<1>11. /\ IsFiniteSet(Ready(old)) /\ Cardinality(Ready(old)) \in Nat
       /\ IsFiniteSet(Ready(old) \ {t})
       /\ Cardinality(Ready(R)') \in Nat /\ Cardinality(Ready(R)') <= Cardinality(Ready(old) \ {t})
  <2>1. IsFiniteSet(Ready(old)) /\ Cardinality(Ready(old)) \in Nat
    BY ReadySize
  <2>2. IsFiniteSet(Ready(old) \ {t})
    BY <2>1, FS_RemoveElement
  <2>3. IsFiniteSet(Ready(R)') /\ Cardinality(Ready(R)') <= Cardinality(Ready(old) \ {t})
    BY <1>10, <2>2, FS_Subset
  <2> QED
    BY <2>1, <2>2, <2>3, FS_CardinalityType
<1>12. Bound \in Int /\ empties \in Nat
  BY <1>1, Sizes DEF Bound, CacheTyped
<1>13. CASE ~o.nothing
  <2>1. t \in Ready(old)
    BY <1>1, <1>2, <1>13 DEF Ready, Adding
  <2>2. Cardinality(Ready(old) \ {t}) = Cardinality(Ready(old)) - 1
    BY <1>11, <2>1, FS_RemoveElement
  <2>3. Bound' = Bound
    BY <1>3, <1>13 DEF Bound
  <2> QED
    BY <1>7, <1>8, <1>9, <1>11, <1>12, <2>2, <2>3
<1>14. CASE o.nothing
  <2>1. Cardinality(Ready(R)') <= Cardinality(Ready(old))
    <3>1. Ready(R)' \subseteq Ready(old)
      BY <1>10
    <3> QED
      BY <1>11, <3>1, FS_Subset
  <2>2. CASE q \in DOMAIN cache
    <3>1. R \in SUBSET DOMAIN cache
      BY <1>3, <2>2
    <3>2. Cardinality(R) + Cardinality(Ready(R)) <= Bound
      BY <3>1 DEF Room
    <3>3. Ready(R)' \subseteq Ready(R)
      BY <1>4, <1>6 DEF Ready, Adding
    <3>4. Cardinality(Ready(R)') <= Cardinality(Ready(R)) /\ Cardinality(Ready(R)) \in Nat
      BY <3>3, ReadySize, FS_Subset
    <3>5. Bound' = Bound
      BY <1>3, <2>2 DEF Bound
    <3> QED
      BY <1>9, <1>11, <1>12, <3>2, <3>4, <3>5
  <2>3. CASE q \notin DOMAIN cache
    <3>1. Bound' = Bound + 1
      BY <1>3, <1>12, <1>14, <2>3, Sizes DEF Bound
    <3> QED
      BY <1>7, <1>8, <1>9, <1>11, <1>12, <2>1, <3>1
  <2> QED
    BY <2>2, <2>3
<1> QED
  BY <1>5, <1>13, <1>14

-----------------------------------------------------------------------------
(* The calls of the provider *)

\* The calls a thread's turn can still make, counted as pairs.
Owed(t) ==
  CASE ~Asking(t)                     -> 0
    [] Asking(t) /\ At(t, "tool")     -> PerTurn - turn[t].tries
    [] Asking(t) /\ ~At(t, "tool")    -> turn[t].list - turn[t].tries
Remaining == {p \in Threads \X (1 .. PerTurn) : p[2] <= Owed(p[1])}
Turns == Used + carried
\* k calls of a model have sent the requests counted.
Budget ==
  \E k \in Nat : calls <= Attempts * k /\ k + Cardinality(Remaining) <= PerTurn * Turns

\* The products of the budget, for the provers of linear arithmetic.
LEMMA Scale ==
  ASSUME NEW w \in Nat, NEW a \in Nat, NEW b \in Nat
  PROVE  /\ w * a \in Nat /\ w * (a + 1) = w * a + w
         /\ a <= b => w * a <= w * b
OBVIOUS

\* What a turn has left when the model that named the query is known.
LEMMA PerTurnType ==
  /\ PerTurn \in Nat \ {0} /\ Models \in 1 .. PerTurn - 1 /\ Fallbacks \in 0 .. PerTurn - 1
  /\ \A n \in 1 .. Models - 1 : Fallbacks <= PerTurn - n - 1
BY Bounds DEF PerTurn

LEMMA BudgetType ==
  ASSUME TypeInv
  PROVE  /\ PerTurn \in Nat /\ Used \in 0 .. Limit
         /\ Turns \in Nat /\ calls \in Nat /\ carried \in Nat
         /\ IsFiniteSet(Remaining) /\ Cardinality(Remaining) \in Nat
         /\ \A t \in Threads :
              turn[t] \in Turn /\ turn[t].tries \in 0 .. Models - 1 /\ Owed(t) \in 0 .. PerTurn
<1>1. /\ count \in 0 .. Limit /\ calls \in Nat /\ carried \in Nat
      /\ turn \in [Threads -> Turn]
  BY TypeInvParts DEF GuardTyped, CountsTyped
<1>2. PerTurn \in Nat /\ Used \in 0 .. Limit
  BY <1>1, Bounds, PerTurnType DEF Used
<1>3. Turns \in Nat
  BY <1>1, <1>2, Bounds DEF Turns
<1>4. IsFiniteSet(Remaining) /\ Cardinality(Remaining) \in Nat
  <2>1. IsFiniteSet(Threads \X (1 .. PerTurn))
    <3>1. IsFiniteSet(1 .. PerTurn)
      BY <1>2, FS_Interval
    <3> QED
      BY <3>1, Sizes, FS_Product
  <2>2. Remaining \in SUBSET (Threads \X (1 .. PerTurn))
    BY DEF Remaining
  <2> QED
    BY <2>1, <2>2, FS_Subset, FS_CardinalityType
<1>5. ASSUME NEW t \in Threads
      PROVE  turn[t] \in Turn /\ turn[t].tries \in 0 .. Models - 1 /\ Owed(t) \in 0 .. PerTurn
  <2>1. turn[t] \in Turn /\ turn[t].tries \in 0 .. Models - 1
    BY <1>1 DEF Turn, Lists
  <2>2. /\ PerTurn - turn[t].tries \in 0 .. PerTurn
        /\ turn[t].list - turn[t].tries \in 0 .. PerTurn /\ 0 \in 0 .. PerTurn
    BY <2>1, Bounds, PerTurnType DEF Turn, Lists
  <2> QED
    BY <2>1, <2>2 DEF Owed
<1> QED
  BY <1>1, <1>2, <1>3, <1>4, <1>5

OwedBounded == \A t \in Threads : Owed(t) \in 0 .. PerTurn
BudgetTyped ==
  Turns \in Nat /\ calls \in Nat /\ Used \in Nat /\ Cardinality(Remaining) \in Nat

LEMMA OwedType == TypeInv => OwedBounded /\ BudgetTyped
BY BudgetType DEF OwedBounded, BudgetTyped

\* No thread can make more calls than before, and no call was made.
LEMMA BudgetStays ==
  ASSUME TypeInv, TypeInv', Budget, calls' = calls, Turns' = Turns,
         \A t \in Threads : Owed(t)' <= Owed(t)
  PROVE  Budget'
<1>1. Remaining' \subseteq Remaining
  <2> SUFFICES ASSUME NEW p \in Remaining' PROVE p \in Remaining
    OBVIOUS
  <2>1. p \in Threads \X (1 .. PerTurn) /\ p[2] <= Owed(p[1])'
    BY DEF Remaining
  <2>2. p[1] \in Threads /\ p[2] \in Int /\ Owed(p[1]) \in Int /\ Owed(p[1])' \in Int
    <3>1. OwedBounded /\ OwedBounded'
      BY OwedType, PTL
    <3> QED
      BY <2>1, <3>1 DEF OwedBounded
  <2>3. p[2] <= Owed(p[1])
    BY <2>1, <2>2
  <2> QED
    BY <2>1, <2>3 DEF Remaining
<1>2. Cardinality(Remaining') <= Cardinality(Remaining) /\ Cardinality(Remaining') \in Nat
  BY <1>1, BudgetType, FS_Subset, FS_CardinalityType
<1>3. PICK k \in Nat : calls <= Attempts * k /\ k + Cardinality(Remaining) <= PerTurn * Turns
  BY DEF Budget
<1> DEFINE worth == PerTurn * Turns
<1>4. PerTurn * Turns' = worth /\ worth \in Nat
  BY BudgetType, Scale
<1> HIDE DEF worth
<1>5. k + Cardinality(Remaining') <= worth
  BY <1>2, <1>3, <1>4, BudgetType DEF worth
<1> QED
  BY <1>3, <1>4, <1>5 DEF Budget

\* A thread that calls the provider can make one call less afterwards.
LEMMA BudgetSpent ==
  ASSUME TypeInv, TypeInv', Budget, NEW n \in 1 .. Attempts, calls' = calls + n,
         Turns' = Turns, \A z \in Threads : Owed(z)' <= Owed(z),
         NEW t \in Threads, Owed(t)' < Owed(t)
  PROVE  Budget'
<1> DEFINE p == <<t, Owed(t)>>
<1>1. /\ \A z \in Threads : Owed(z) \in 0 .. PerTurn
      /\ \A z \in Threads : Owed(z)' \in 0 .. PerTurn
      /\ PerTurn \in Nat /\ IsFiniteSet(Remaining) /\ Cardinality(Remaining) \in Nat
  <2>1. OwedBounded /\ OwedBounded'
    BY OwedType, PTL
  <2> QED
    BY <2>1, BudgetType DEF OwedBounded
<1>2. p \in Remaining
  BY <1>1 DEF Remaining
<1>3. p \notin Remaining'
  BY <1>1 DEF Remaining
<1>4. Remaining' \subseteq Remaining
  <2> SUFFICES ASSUME NEW x \in Remaining' PROVE x \in Remaining
    OBVIOUS
  <2>1. x \in Threads \X (1 .. PerTurn) /\ x[2] <= Owed(x[1])'
    BY DEF Remaining
  <2>2. x[1] \in Threads /\ x[2] \in Int /\ Owed(x[1]) \in Int /\ Owed(x[1])' \in Int
    BY <1>1, <2>1
  <2>3. x[2] <= Owed(x[1])
    BY <2>1, <2>2
  <2> QED
    BY <2>1, <2>3 DEF Remaining
<1> HIDE DEF p
<1>5. Remaining' \subseteq Remaining \ {p}
  BY <1>3, <1>4
<1>6. IsFiniteSet(Remaining \ {p}) /\ Cardinality(Remaining \ {p}) = Cardinality(Remaining) - 1
  BY <1>1, <1>2, FS_RemoveElement
<1>7. Cardinality(Remaining') <= Cardinality(Remaining) - 1 /\ Cardinality(Remaining') \in Nat
  BY <1>5, <1>6, FS_Subset, FS_CardinalityType
<1>8. PICK k \in Nat : calls <= Attempts * k /\ k + Cardinality(Remaining) <= PerTurn * Turns
  BY DEF Budget
<1> DEFINE worth == PerTurn * Turns
           sent == Attempts * k
<1>9. /\ calls \in Nat /\ Attempts \in Nat /\ sent \in Nat
      /\ PerTurn * Turns' = worth /\ worth \in Nat
      /\ Attempts * (k + 1) = sent + Attempts
  BY BudgetType, Bounds, Scale
<1>10. calls <= sent /\ k + Cardinality(Remaining) <= worth
  BY <1>8
<1> HIDE DEF worth, sent
<1>11. calls' <= Attempts * (k + 1) /\ k + 1 + Cardinality(Remaining') <= PerTurn * Turns'
  BY <1>1, <1>7, <1>9, <1>10
<1> QED
  BY <1>11 DEF Budget

\* What a step of the search leaves of the turn it is made in.
LEMMA SearchOwed ==
  ASSUME TypeInv, NEW t \in Threads, SearchStep(t)
  PROVE  \A z \in Threads : Owed(z)' <= Owed(z)
<1> DEFINE o == task[t]
<1>0. /\ task \in [Threads -> Task] /\ o \in Task /\ turn \in [Threads -> Turn]
      /\ Models \in Nat \ {0}
  BY TypeInvParts, Bounds DEF TasksFine, GuardTyped
<1>1. \A z \in Threads : Owed(z) \in 0 .. PerTurn
  BY OwedType DEF OwedBounded
<1>2. o.pc \in {"find", "fetch", "retrieve", "pop", "store"}
  BY DEF SearchStep, Searching, Find, Hit, Expired, Vanished, Retrieve, Pop, Store, At
<1> DEFINE Follows(s) == s.pc = "idle" \/ s.kind # "ask" \/ (s.kind = o.kind /\ s.pc # "tool")
<1>3. Idle.pc = "idle" /\ \A k, q, l : Called(k, q, l).kind = k
  BY DEF Idle, Called
<1>4. \A l : Resumed(l).pc = "idle" \/ Resumed(l).kind = "warm"
  BY <1>3 DEF Resumed
<1>5. Follows(Raised(o))
  BY <1>3, <1>4 DEF Raised
<1>6. ASSUME NEW read PROVE Follows(Returned(o, read))
  <2>1. /\ [Idle EXCEPT !.kind = "ask", !.pc = "reply", !.read = read].kind = "ask"
        /\ [Idle EXCEPT !.kind = "ask", !.pc = "reply", !.read = read].pc = "reply"
    BY DEF Idle
  <2> QED
    BY <1>0, <1>3, <1>4, <2>1 DEF Returned, Task, Kinds
<1>7. ASSUME NEW pc, pc # "tool" PROVE Follows([o EXCEPT !.pc = pc])
  BY <1>0, <1>7 DEF Task
<1>8. PICK s : Become(t, s) /\ Follows(s)
  <2>1. CASE Find(t) \/ Expired(t)
    BY <1>7, <2>1 DEF Find, Expired, Goto
  <2>2. CASE Hit(t) \/ Store(t)
    BY <1>6, <2>2 DEF Hit, Store
  <2>3. CASE Vanished(t)
    BY <1>5, <2>3 DEF Vanished
  <2>4. CASE Retrieve(t)
    <3>1. ASSUME NEW empty, NEW victims PROVE Follows(Responded(o, empty, victims))
      <4> DEFINE r == Responded(o, empty, victims)
      <4>1. r.kind = o.kind /\ r.pc \in {"store", "pop"}
        BY <1>0 DEF Responded, Task
      <4> HIDE DEF r
      <4>2. Follows(r)
        BY <4>1
      <4> QED
        BY <4>2 DEF r
    <3> HIDE DEF Follows
    <3> QED
      BY <1>5, <2>4, <3>1 DEF Retrieve
  <2>5. CASE Pop(t)
    <3> DEFINE rest == Tail(o.victims)
               pc == IF rest = <<>> THEN "store" ELSE "pop"
               r == [o EXCEPT !.pc = pc, !.victims = rest]
    <3>1. Become(t, r) /\ pc \in {"store", "pop"}
      BY <2>5 DEF Pop
    <3> HIDE DEF rest, pc
    <3>2. r.kind = o.kind /\ r.pc = pc
      BY <1>0 DEF Task
    <3> HIDE DEF r
    <3> QED
      BY <3>1, <3>2
  <2> QED
    BY <2>1, <2>2, <2>3, <2>4, <2>5 DEF SearchStep, Searching
<1>9. \A z \in Threads : task'[z] = IF z = t THEN s ELSE task[z]
  BY <1>0, <1>8 DEF Become
<1>10. /\ s.pc = "idle" => turn' = [turn EXCEPT ![t] = NoTurn]
       /\ s.pc # "idle" => turn' = turn
  BY <1>9 DEF SearchStep
<1>11. \A z \in Threads \ {t} : Owed(z)' = Owed(z)
  BY <1>0, <1>9, <1>10 DEF Owed, Asking, At
<1>12. Owed(t)' <= Owed(t)
  <2>1. CASE s.pc = "idle" \/ s.kind # "ask"
    <3>1. Owed(t)' = 0
      BY <1>9, <2>1 DEF Owed, Asking
    <3> QED
      BY <1>1, <3>1
  <2>2. CASE s.pc # "idle" /\ s.kind = o.kind /\ s.kind = "ask" /\ s.pc # "tool"
    <3>1. Owed(t)' = turn[t].list - turn[t].tries /\ Owed(t) = turn[t].list - turn[t].tries
      BY <1>2, <1>9, <1>10, <2>2 DEF Owed, Asking, At
    <3> QED
      BY <1>1, <3>1
  <2> QED
    BY <1>8, <2>1, <2>2
<1> QED
  BY <1>1, <1>11, <1>12

\* A day's slots, and how many calls each is worth.
LEMMA SlotTaken ==
  ASSUME TypeInv, NEW a \in Nat, NEW b \in Nat, a + 1 = b
  PROVE  PerTurn * b = PerTurn * a + PerTurn
BY PerTurnType, Scale

\* Every step keeps the calls made and still to make within the budget.
LEMMA BudgetInductive == IInv /\ TypeInv /\ TypeInv' /\ Budget /\ [Next]_vars => Budget'
<1> SUFFICES ASSUME IInv, TypeInv, TypeInv', Budget, [Next]_vars PROVE Budget'
  OBVIOUS
<1>0. /\ task \in [Threads -> Task] /\ turn \in [Threads -> Turn] /\ Models \in Nat \ {0}
      /\ \A t \in Threads :
           turn[t] \in Turn /\ turn[t].tries \in 0 .. Models - 1 /\ Owed(t) \in 0 .. PerTurn
      /\ \A t \in Threads : task[t].pc \in {"tool", "reply"} => task[t].kind = "ask"
  BY TypeInvParts, Bounds, BudgetType DEF TasksFine, GuardTyped, IInv, TasksSound, Sound
<1>1. ASSUME UNCHANGED <<clock, day, count, carried>> PROVE Turns' = Turns
  BY <1>1 DEF Turns, Used, today
<1>2. ASSUME NEW t \in Threads, NEW s, Become(t, s), s.pc = "idle" \/ s.kind # "ask",
             \A z \in Threads \ {t} : turn'[z] = turn[z]
      PROVE  Owed(t)' = 0 /\ \A z \in Threads : Owed(z)' <= Owed(z)
  <2>1. \A z \in Threads : task'[z] = IF z = t THEN s ELSE task[z]
    BY <1>0, <1>2 DEF Become
  <2>2. Owed(t)' = 0
    BY <1>2, <2>1 DEF Owed, Asking
  <2>3. \A z \in Threads \ {t} : Owed(z)' = Owed(z)
    BY <1>2, <2>1 DEF Owed, Asking, At
  <2> QED
    BY <1>0, <2>2, <2>3
<1>3. CASE UNCHANGED vars
  <2>1. \A z \in Threads : Owed(z)' = Owed(z)
    BY <1>3 DEF vars, searchVars, Owed, Asking, At
  <2> QED
    BY <1>0, <1>1, <1>3, <2>1, BudgetStays DEF vars, searchVars, guardVars, countVars
<1>4. ASSUME NEW t \in Threads, SearchStep(t) PROVE Budget'
  <2>1. UNCHANGED <<clock, day, count, calls, carried>>
    BY <1>4 DEF SearchStep, Searching, Find, Hit, Expired, Vanished, Retrieve, Pop, Store,
                guardVars, countVars
  <2> QED
    BY <1>1, <1>4, <2>1, SearchOwed, BudgetStays
<1>5. ASSUME NEW t \in Threads, Start(t) PROVE Budget'
  <2>1. \E s : Become(t, s) /\ (s.pc = "idle" \/ s.kind # "ask")
    <3>1. Idle.pc = "idle" /\ \A k, q, l : Called(k, q, l).kind = k
      BY DEF Idle, Called
    <3>2. \A l : Resumed(l).pc = "idle" \/ Resumed(l).kind = "warm"
      BY <3>1 DEF Resumed
    <3>3. \A q : Enter("search", q).pc = "idle" \/ Enter("search", q).kind = "search"
      <4> DEFINE z == [Idle EXCEPT !.kind = "search", !.start = clock]
      <4>1. z.kind = "search"
        BY DEF Idle
      <4> HIDE DEF z
      <4>2. Returned(z, clock) = Idle
        BY <4>1 DEF Returned
      <4> QED
        BY <3>1, <4>2 DEF Enter, z
    <3> QED
      BY <1>5, <3>2, <3>3 DEF Start, WarmUp, BeginSearch
  <2>2. UNCHANGED <<clock, day, count, calls, carried, turn>>
    BY <1>5 DEF Start, WarmUp, BeginSearch, guardVars, countVars
  <2> QED
    BY <1>1, <1>2, <2>1, <2>2, BudgetStays
<1>6. ASSUME NEW t \in Threads, NEW q \in Queries, ToolCalled(t, q) PROVE Budget'
  <2> DEFINE s == Enter("ask", q)
             list == IF turn[t].tries = 0 THEN turn[t].list ELSE Fallbacks
             u == [turn[t] EXCEPT !.tries = 0, !.list = list]
  <2>1. /\ task[t].pc = "tool" /\ Become(t, s) /\ turn' = [turn EXCEPT ![t] = u]
        /\ \E n \in 1 .. Attempts : calls' = calls + n
        /\ UNCHANGED <<clock, day, count, carried>>
    BY <1>6 DEF ToolCalled, At, Call, guardVars
  <2>2. s.pc # "tool"
    <3>1. \A k, z, l : Called(k, z, l).pc = "find"
      BY DEF Idle, Called
    <3>2. \A r : [Idle EXCEPT !.kind = "ask", !.pc = "reply", !.read = r].pc = "reply"
      BY DEF Idle
    <3> DEFINE z == [Idle EXCEPT !.kind = "ask", !.start = clock]
    <3>3. z.kind = "ask"
      BY DEF Idle
    <3> HIDE DEF z
    <3>4. Returned(z, clock).pc = "reply"
      BY <3>2, <3>3 DEF Returned
    <3> QED
      BY <3>1, <3>4 DEF Enter, z
  <2> HIDE DEF s
  <2>3. \A z \in Threads : task'[z] = IF z = t THEN s ELSE task[z]
    BY <1>0, <2>1 DEF Become
  <2> HIDE DEF list
  <2>9. u.tries = 0 /\ u.list = list
    BY <1>0 DEF Turn, Lists
  <2>4. /\ turn'[t].tries = 0 /\ turn'[t].list = list
        /\ \A z \in Threads \ {t} : turn'[z] = turn[z]
    BY <1>0, <2>1, <2>9
  <2>5. \A z \in Threads \ {t} : Owed(z)' = Owed(z)
    BY <2>3, <2>4 DEF Owed, Asking, At
  <2>6. Owed(t)' <= PerTurn - turn[t].tries - 1
    <3>1. ~At(t, "tool")'
      BY <2>2, <2>3 DEF At
    <3>2. list \in Nat /\ list <= PerTurn - turn[t].tries - 1
      <4>0. /\ turn[t].list \in {Models, Fallbacks} /\ turn[t].tries \in 0 .. Models - 1
            /\ PerTurn \in Nat /\ Models \in Nat /\ Models <= PerTurn - 1
            /\ Fallbacks \in Nat /\ Fallbacks <= PerTurn - 1
        BY <1>0, PerTurnType, Bounds DEF Turn, Lists
      <4>1. CASE turn[t].tries = 0
        BY <4>0, <4>1 DEF list
      <4>2. CASE turn[t].tries # 0
        <5>1. turn[t].tries \in 1 .. Models - 1
          BY <4>0, <4>2
        <5>2. Fallbacks <= PerTurn - turn[t].tries - 1
          BY <5>1, PerTurnType
        <5> QED
          BY <4>0, <4>2, <5>2 DEF list
      <4> QED
        BY <4>1, <4>2
    <3>3. Owed(t)' = 0 \/ Owed(t)' = list
      <4>1. CASE Asking(t)'
        BY <2>4, <3>1, <3>2, <4>1 DEF Owed
      <4>2. CASE ~Asking(t)'
        BY <4>2 DEF Owed
      <4> QED
        BY <4>1, <4>2
    <3>4. 0 <= PerTurn - turn[t].tries - 1
      BY <1>0, PerTurnType
    <3> QED
      BY <3>2, <3>3, <3>4
  <2>7. Owed(t) = PerTurn - turn[t].tries
    BY <1>0, <2>1 DEF Owed, Asking, At
  <2>8. Owed(t)' < Owed(t) /\ \A z \in Threads : Owed(z)' <= Owed(z)
    <3>1. OwedBounded'
      BY OwedType, PTL
    <3>2. \A z \in Threads : Owed(z)' \in Int /\ Owed(z) \in Int
      BY <1>0, <3>1 DEF OwedBounded
    <3>3. Owed(t)' < Owed(t)
      BY <1>0, <2>6, <2>7, <3>2, PerTurnType
    <3> QED
      BY <2>5, <3>2, <3>3
  <2>10. PICK n \in 1 .. Attempts : calls' = calls + n
    BY <2>1
  <2>11. Turns' = Turns
    BY <1>1, <2>1
  <2> QED
    BY <2>8, <2>10, <2>11, BudgetSpent
<1>7. ASSUME NEW t \in Threads, Replied(t) \/ TurnFails(t) PROVE Budget'
  <2>1. /\ task[t].pc \in {"tool", "reply"} /\ Become(t, Idle)
        /\ turn' = [turn EXCEPT ![t] = NoTurn]
        /\ \E n \in 1 .. Attempts : calls' = calls + n
        /\ UNCHANGED <<clock, day, count, carried>>
    BY <1>7 DEF Replied, TurnFails, At, Call, guardVars
  <2>2. Idle.pc = "idle"
    BY DEF Idle
  <2>3. Owed(t)' = 0 /\ \A z \in Threads : Owed(z)' <= Owed(z)
    BY <1>2, <2>1, <2>2
  <2>4. Owed(t) >= 1
    <3>1. Asking(t) /\ turn[t].list - turn[t].tries >= 1 /\ PerTurn - turn[t].tries >= 1
      BY <1>0, <2>1, PerTurnType, Bounds DEF Asking, Turn, Lists
    <3> QED
      BY <3>1 DEF Owed
  <2>5. PICK n \in 1 .. Attempts : calls' = calls + n
    BY <2>1
  <2>6. Owed(t)' < Owed(t)
    BY <1>0, <2>3, <2>4
  <2>7. Turns' = Turns
    BY <1>1, <2>1
  <2> QED
    BY <2>3, <2>5, <2>6, <2>7, BudgetSpent
<1>8. ASSUME NEW t \in Threads, NextModel(t) PROVE Budget'
  <2>1. /\ task[t].pc \in {"tool", "reply"} /\ task' = task
        /\ turn' = [turn EXCEPT ![t].tries = turn[t].tries + 1]
        /\ \E n \in 1 .. Attempts : calls' = calls + n
        /\ UNCHANGED <<clock, day, count, carried>>
    BY <1>8 DEF NextModel, At, Call, guardVars, searchVars
  <2>2. /\ turn'[t].tries = turn[t].tries + 1 /\ turn'[t].list = turn[t].list
        /\ \A z \in Threads \ {t} : turn'[z] = turn[z]
    BY <1>0, <2>1 DEF Turn, Lists
  <2>3. \A z \in Threads \ {t} : Owed(z)' = Owed(z)
    BY <2>1, <2>2 DEF Owed, Asking, At
  <2>4. Owed(t)' = Owed(t) - 1
    <3>1. task'[t] = task[t] /\ Asking(t) /\ Asking(t)' /\ At(t, "tool")' = At(t, "tool")
      BY <1>0, <2>1 DEF Asking, At
    <3>2. turn[t].tries \in Int /\ turn[t].list \in Int /\ PerTurn \in Int
      BY <1>0, PerTurnType, Bounds DEF Turn, Lists
    <3>3. CASE At(t, "tool")
      <4>1. Owed(t) = PerTurn - turn[t].tries /\ Owed(t)' = PerTurn - turn'[t].tries
        BY <3>1, <3>3 DEF Owed, PerTurn
      <4> QED
        BY <2>2, <3>2, <4>1
    <3>4. CASE ~At(t, "tool")
      <4>1. Owed(t) = turn[t].list - turn[t].tries /\ Owed(t)' = turn'[t].list - turn'[t].tries
        BY <3>1, <3>4 DEF Owed
      <4> QED
        BY <2>2, <3>2, <4>1
    <3> QED
      BY <3>3, <3>4
  <2>5. PICK n \in 1 .. Attempts : calls' = calls + n
    BY <2>1
  <2>6. Owed(t)' < Owed(t) /\ \A z \in Threads : Owed(z)' <= Owed(z)
    BY <1>0, <2>3, <2>4
  <2>7. Turns' = Turns
    BY <1>1, <2>1
  <2> QED
    BY <2>5, <2>6, <2>7, BudgetSpent
<1>9. ASSUME NEW t \in Threads, RulesFail(t) PROVE Budget'
  <2>1. /\ Become(t, Idle) /\ turn' = [turn EXCEPT ![t] = NoTurn]
        /\ UNCHANGED <<clock, day, count, calls, carried>>
    BY <1>9 DEF RulesFail, guardVars, countVars
  <2>2. Idle.pc = "idle"
    BY DEF Idle
  <2>3. \A z \in Threads : Owed(z)' <= Owed(z)
    BY <1>2, <2>1, <2>2
  <2> QED
    BY <1>1, <2>1, <2>3, BudgetStays
<1>10. ASSUME NEW t \in Threads, NEW m \in Messages, Cached(t, m) \/ Refused(t, m) PROVE Budget'
  <2>1. /\ UNCHANGED <<clock, task, turn, calls, carried>>
        /\ day' = today /\ count' = Used
    BY <1>10 DEF Cached, Refused, countVars
  <2>2. Used' = Used
    BY <2>1 DEF Used, today
  <2>3. \A z \in Threads : Owed(z)' = Owed(z)
    BY <2>1 DEF Owed, Asking, At
  <2> QED
    BY <1>0, <2>1, <2>2, <2>3, BudgetStays DEF Turns
<1>11. /\ calls \in Nat /\ carried \in Nat /\ Turns \in Nat /\ Used \in 0 .. Limit
       /\ PerTurn \in Nat /\ PerTurn * Turns \in Nat
       /\ IsFiniteSet(Remaining) /\ Cardinality(Remaining) \in Nat
       /\ IsFiniteSet(1 .. PerTurn) /\ Cardinality(1 .. PerTurn) = PerTurn
  <2>1. PerTurn \in Nat /\ Turns \in Nat
    BY BudgetType
  <2>2. IsFiniteSet(1 .. PerTurn) /\ Cardinality(1 .. PerTurn) = PerTurn
    <3>1. IsFiniteSet(1 .. PerTurn) /\ Cardinality(1 .. PerTurn) = IF 1 > PerTurn THEN 0 ELSE PerTurn - 1 + 1
      BY <2>1, FS_Interval
    <3> QED
      BY <2>1, <3>1
  <2> QED
    BY <2>1, <2>2, BudgetType, Scale
<1>12. Turns' \in Nat /\ calls' \in Nat /\ Used' \in Nat /\ Cardinality(Remaining') \in Nat
  <2>1. BudgetTyped'
    BY OwedType, PTL
  <2> QED
    BY <2>1 DEF BudgetTyped
<1>13. ASSUME NEW t \in Threads, NEW m \in Messages, Reserve(t, m) PROVE Budget'
  <2> DEFINE new == {t} \X (1 .. PerTurn)
             s == [Idle EXCEPT !.kind = "ask", !.pc = "tool"]
  <2>1. /\ UNCHANGED <<clock, calls, carried>> /\ day' = today /\ count' = Used + 1
        /\ Become(t, s) /\ \A z \in Threads \ {t} : turn'[z] = turn[z]
    BY <1>0, <1>13 DEF Reserve, countVars
  <2>2. Used' = Used + 1
    BY <2>1 DEF Used, today
  <2>3. Turns' = Turns + 1
    BY <1>11, <2>1, <2>2, BudgetType DEF Turns
  <2> HIDE DEF s
  <2>4. \A z \in Threads \ {t} : Owed(z)' = Owed(z)
    BY <1>0, <2>1 DEF Owed, Asking, At, Become
  <2>5. Remaining' \subseteq Remaining \cup new
    BY <2>4 DEF Remaining
  <2>6. IsFiniteSet(new) /\ Cardinality(new) = PerTurn
    <3>1. IsFiniteSet({t}) /\ Cardinality({t}) = 1
      BY FS_Singleton
    <3>2. IsFiniteSet(new) /\ Cardinality(new) = Cardinality({t}) * Cardinality(1 .. PerTurn)
      BY <1>11, <3>1, FS_Product
    <3> QED
      BY <1>11, <3>1, <3>2
  <2> HIDE DEF new
  <2>7. /\ IsFiniteSet(Remaining \cup new)
        /\ Cardinality(Remaining \cup new) <= Cardinality(Remaining) + PerTurn
    <3>1. IsFiniteSet(Remaining \cap new)
      BY <2>6, FS_Intersection
    <3>2. Cardinality(Remaining \cap new) \in Nat
      BY <3>1, FS_CardinalityType
    <3>3. /\ IsFiniteSet(Remaining \cup new)
          /\ Cardinality(Remaining \cup new) =
               Cardinality(Remaining) + Cardinality(new) - Cardinality(Remaining \cap new)
      BY <1>11, <2>6, FS_Union
    <3> QED
      BY <1>11, <2>6, <3>2, <3>3
  <2>8. Cardinality(Remaining') <= Cardinality(Remaining) + PerTurn
    <3>1. Cardinality(Remaining') <= Cardinality(Remaining \cup new)
      BY <2>5, <2>7, FS_Subset
    <3>2. Cardinality(Remaining \cup new) \in Nat
      BY <2>7, FS_CardinalityType
    <3> QED
      BY <1>11, <1>12, <2>7, <3>1, <3>2
  <2>9. PerTurn * Turns' = PerTurn * Turns + PerTurn
    BY <1>11, <1>12, <2>3, SlotTaken
  <2> DEFINE before == PerTurn * Turns
             after == PerTurn * Turns'
  <2>10. PICK k \in Nat : calls <= Attempts * k /\ k + Cardinality(Remaining) <= before
    BY DEF Budget
  <2>11. before \in Nat /\ after = before + PerTurn
    BY <1>11, <2>9
  <2> HIDE DEF before, after
  <2>12. k + Cardinality(Remaining') <= after
    BY <1>11, <1>12, <2>8, <2>10, <2>11
  <2> QED
    BY <2>1, <2>10, <2>12 DEF Budget, after
<1>14. CASE Restart
  <2>1. task' = [t \in Threads |-> Idle] /\ calls' = 0
    BY <1>14 DEF Restart, Forget
  <2>2. Remaining' = {}
    <3>1. Idle.pc = "idle"
      BY DEF Idle
    <3>2. \A z \in Threads : Owed(z)' = 0
      BY <2>1, <3>1 DEF Owed, Asking
    <3> QED
      BY <3>2 DEF Remaining
  <2>3. Cardinality(Remaining') = 0
    BY <2>2, FS_EmptySet
  <2>4. 0 <= Attempts * 0 /\ PerTurn * Turns' \in Nat
    <3>1. 0 <= Attempts * 0
      BY Bounds
    <3>2. PerTurn * Turns' \in Nat
      BY <1>11, <1>12, Scale
    <3> QED
      BY <3>1, <3>2
  <2> QED
    BY <2>1, <2>3, <2>4 DEF Budget
<1>15. CASE Tick
  <2> DEFINE asking == {z \in Threads : Asking(z)}
  <2>1. UNCHANGED <<task, turn, day, count>> /\ clock' = clock + 1
    BY <1>15 DEF Tick, guardVars
  <2>2. \A z \in Threads : Owed(z)' = Owed(z)
    BY <2>1 DEF Owed, Asking, At
  <2>3. CASE (clock + 1) \div Day = today
    <3>1. UNCHANGED countVars /\ today' = today
      BY <1>15, <2>1, <2>3 DEF Tick, today
    <3>2. Turns' = Turns
      BY <2>1, <3>1 DEF Turns, Used, countVars
    <3> QED
      BY <1>0, <2>2, <3>1, <3>2, BudgetStays DEF countVars
  <2>4. CASE (clock + 1) \div Day # today
    <3>1. calls' = 0 /\ carried' = Cardinality(asking)
      BY <1>15, <2>4 DEF Tick
    <3>2. Remaining' \subseteq asking \X (1 .. PerTurn)
      <4> SUFFICES ASSUME NEW p \in Remaining' PROVE p \in asking \X (1 .. PerTurn)
        OBVIOUS
      <4>1. p \in Threads \X (1 .. PerTurn) /\ p[2] <= Owed(p[1])'
        BY DEF Remaining
      <4>2. Owed(p[1]) >= 1
        BY <1>0, <2>2, <4>1
      <4>3. Asking(p[1])
        BY <4>1, <4>2 DEF Owed
      <4> QED
        BY <4>1, <4>3
    <3>3. IsFiniteSet(asking) /\ Cardinality(asking) \in Nat
      BY Sizes, FS_Subset, FS_CardinalityType
    <3> HIDE DEF asking
    <3>4. /\ IsFiniteSet(asking \X (1 .. PerTurn))
          /\ Cardinality(asking \X (1 .. PerTurn)) = Cardinality(asking) * (PerTurn)
      BY <1>11, <3>3, FS_Product
    <3>5. Cardinality(Remaining') <= Cardinality(asking) * (PerTurn)
      BY <3>2, <3>4, FS_Subset
    <3>6. Used' \in Nat /\ 0 <= Attempts * 0
      BY <1>12, Bounds
    <3>7. Cardinality(asking) <= Turns' /\ Turns' \in Nat
      BY <1>12, <3>1, <3>3, <3>6, Bounds DEF Turns
    <3>8. Cardinality(asking) * (PerTurn) = PerTurn * Cardinality(asking)
      BY <1>11, <3>3
    <3>9. PerTurn * Cardinality(asking) <= PerTurn * Turns' /\ PerTurn * Turns' \in Nat
          /\ PerTurn * Cardinality(asking) \in Nat
      BY <1>11, <3>3, <3>7, Scale
    <3>10. 0 + Cardinality(Remaining') <= PerTurn * Turns'
      BY <1>12, <3>5, <3>8, <3>9
    <3> QED
      BY <3>1, <3>6, <3>10 DEF Budget
  <2> QED
    BY <2>3, <2>4
<1> QED
  BY <1>3, <1>4, <1>5, <1>6, <1>7, <1>8, <1>9, <1>10, <1>13, <1>14, <1>15 DEF Next, Step

-----------------------------------------------------------------------------
(* What the invariants give *)

\* Every step keeps the room for the entries to come.
LEMMA RoomInductive == TypeInv /\ Room /\ [Next]_vars => Room'
<1> SUFFICES ASSUME TypeInv, Room, [Next]_vars PROVE Room'
  OBVIOUS
<1>0. task \in [Threads -> Task] /\ CacheTyped
  BY TypeInvParts DEF TasksFine
<1>1. ASSUME UNCHANGED <<cacheVars, task>> PROVE Room'
  BY <1>1, RoomStays DEF cacheVars, Ready, Adding
<1>2. ASSUME NEW t \in Threads, Become(t, Idle), UNCHANGED cacheVars PROVE Room'
  BY <1>2, CalledElsewhere, RoomLeft DEF Elsewhere
<1>3. ASSUME NEW t \in Threads, SearchStep(t) PROVE Room'
  <2>1. CASE Find(t)
    <3>1. PICK pc \in {"fetch", "retrieve"} : Become(t, [task[t] EXCEPT !.pc = pc])
      BY <2>1 DEF Find, Goto
    <3>2. [task[t] EXCEPT !.pc = pc].pc = pc
      BY <1>0 DEF Task
    <3> QED
      BY <2>1, <3>1, <3>2, RoomLeft DEF Find
  <2>2. CASE Expired(t)
    <3>1. [task[t] EXCEPT !.pc = "retrieve"].pc = "retrieve"
      BY <1>0 DEF Task
    <3> QED
      BY <2>2, <3>1, RoomLeft DEF Expired, Goto
  <2>3. CASE Hit(t)
    BY <1>0, <2>3, ReturnedElsewhere, RoomLeft DEF Hit, Elsewhere, Task
  <2>4. CASE Vanished(t)
    BY <2>4, RaisedElsewhere, RoomLeft DEF Vanished, Elsewhere
  <2> QED
    BY <1>3, <2>1, <2>2, <2>3, <2>4, RetrieveRoom, PopRoom, StoreRoom DEF SearchStep, Searching
<1>4. ASSUME NEW t \in Threads, Start(t) PROVE Room'
  <2>1. CASE WarmUp(t)
    BY <2>1, RaisedElsewhere, RoomLeft DEF WarmUp, Elsewhere
  <2>2. ASSUME NEW q \in Queries, BeginSearch(t, q) PROVE Room'
    BY <2>2, EnterElsewhere, RoomLeft DEF BeginSearch, Elsewhere, Kinds
  <2> QED
    BY <1>4, <2>1, <2>2 DEF Start
<1>5. ASSUME NEW t \in Threads, NEW q \in Queries, ToolCalled(t, q) PROVE Room'
  BY <1>5, EnterElsewhere, RoomLeft DEF ToolCalled, Elsewhere, Kinds
<1>6. ASSUME NEW t \in Threads, Replied(t) \/ TurnFails(t) \/ RulesFail(t) PROVE Room'
  BY <1>2, <1>6 DEF Replied, TurnFails, RulesFail
<1>7. ASSUME NEW t \in Threads, NEW m \in Messages, Reserve(t, m) PROVE Room'
  <2>1. [Idle EXCEPT !.kind = "ask", !.pc = "tool"].pc = "tool"
    BY DEF Idle
  <2> QED
    BY <1>7, <2>1, RoomLeft DEF Reserve
<1>8. ASSUME NEW t \in Threads, NEW m \in Messages, Cached(t, m) \/ Refused(t, m) PROVE Room'
  BY <1>1, <1>8 DEF Cached, Refused
<1>9. CASE Restart
  <2>1. cache' = <<>> /\ empties' = 0 /\ task' = [t \in Threads |-> Idle]
    BY <1>9 DEF Restart, Forget
  <2>2. \A R : Ready(R)' = {}
    BY <2>1, CalledElsewhere DEF Ready, Adding, Elsewhere
  <2>3. Cardinality({}) + Cardinality({}) <= Bound'
    BY <2>1, Sizes, FS_EmptySet DEF Bound
  <2>4. \A R \in SUBSET DOMAIN cache' : R = {}
    BY <2>1
  <2> QED
    BY <2>2, <2>3, <2>4 DEF Room
<1> QED
  BY <1>1, <1>3, <1>4, <1>5, <1>6, <1>7, <1>8, <1>9
     DEF Next, Step, NextModel, Tick, vars, searchVars

LEMMA EmptyCache == ASSUME cache = <<>>, order = <<>>, empties = 0 PROVE CacheTyped
BY DEF CacheTyped, ToSet, IsInjective

LEMMA InvInit == Init => TypeInv /\ Room /\ Budget
<1> SUFFICES ASSUME Init PROVE TypeInv /\ Room /\ Budget
  OBVIOUS
<1>1. /\ clock = 0 /\ cache = <<>> /\ order = <<>> /\ empties = 0
      /\ task = [t \in Threads |-> Idle] /\ warmed = FALSE /\ begun = 0
      /\ replies = [m \in Messages |-> NoReply] /\ day = -1 /\ count = 0
      /\ turn = [t \in Threads |-> NoTurn]
      /\ calls = 0 /\ carried = 0 /\ slots = 0
  BY DEF Init, SearchInit
<1>2. TypeInv
  <2>1. TasksFine
    BY <1>1, IdleFine DEF TasksFine, Fine
  <2>2. CacheTyped
    BY <1>1, EmptyCache
  <2>3. ClockTyped /\ CountsTyped
    <3>1. clock \in Moments /\ begun \in 0 .. MaxBegun
      BY <1>1, Bounds
    <3>2. warmed \in BOOLEAN
      BY <1>1
    <3>3. calls \in Nat /\ carried \in Nat /\ slots \in Nat
      BY <1>1, Bounds
    <3> QED
      BY <3>1, <3>2, <3>3 DEF ClockTyped, CountsTyped
  <2>4. GuardTyped
    BY <1>1, NoTurnTyped, Bounds DEF GuardTyped
  <2> QED
    BY <2>1, <2>2, <2>3, <2>4, TypeInvParts
<1>3. Room
  <2>1. \A R : Ready(R) = {}
    BY <1>1, CalledElsewhere DEF Ready, Adding, Elsewhere
  <2>2. Cardinality({}) + Cardinality({}) <= Bound
    BY <1>1, Sizes, FS_EmptySet DEF Bound
  <2>3. \A R \in SUBSET DOMAIN cache : R = {}
    BY <1>1
  <2> QED
    BY <2>1, <2>2, <2>3 DEF Room
<1>4. Budget
  <2>1. Idle.pc = "idle"
    BY DEF Idle
  <2>2. \A t \in Threads : Owed(t) = 0
    BY <1>1, <2>1 DEF Owed, Asking
  <2>3. Remaining = {}
    BY <2>2 DEF Remaining
  <2>4. Cardinality(Remaining) = 0 /\ PerTurn * Turns \in Nat
    BY <1>2, <2>3, BudgetType, Scale, FS_EmptySet
  <2>5. 0 <= Attempts * 0
    BY Bounds
  <2> QED
    BY <1>1, <2>4, <2>5 DEF Budget
<1> QED
  BY <1>2, <1>3, <1>4

LEMMA AllAlways == Spec => [](TypeInv /\ Room /\ Budget)
BY Initially, Inductive, InvInit, TypesKept, RoomInductive, BudgetInductive, PTL DEF Spec

\* The variables keep their types; above all the dict's keys are listed once each
\* and are those of its entries, whoever adds and removes in between.
THEOREM TypeCorrect == Spec => []TypeOK
<1>1. TypeInv => TypeOK
  BY DEF TypeInv
<1> QED
  BY <1>1, AllAlways, PTL

\* What a process sends to the provider in a day is bounded by the slots of the day
\* and the turns of the last midnight, whichever models fail and however often the
\* client library tries again (assistant_guard.py:63, gemini_provider.py:94-110).
THEOREM CallsWithinBudget == Spec => []BudgetKept
<1>1. TypeInv /\ Budget => BudgetKept
  <2> SUFFICES ASSUME TypeInv, Budget PROVE BudgetKept
    OBVIOUS
  <2> DEFINE all == Limit + carried
             worth == PerTurn * all
  <2>1. PICK k \in Nat : calls <= Attempts * k /\ k + Cardinality(Remaining) <= PerTurn * Turns
    BY DEF Budget
  <2>2. /\ all \in Nat /\ Turns \in Nat /\ Turns <= all /\ PerTurn \in Nat
        /\ Cardinality(Remaining) \in Nat /\ calls \in Nat /\ Attempts \in Nat
    BY BudgetType, Bounds DEF Turns
  <2>3. PerTurn * Turns <= worth /\ worth \in Nat /\ PerTurn * Turns \in Nat
    BY <2>2, Scale
  <2> HIDE DEF all
  <2>4. k <= worth
    BY <2>1, <2>2, <2>3
  <2>5. Attempts * k <= Attempts * worth /\ Attempts * k \in Nat /\ Attempts * worth \in Nat
    BY <2>2, <2>3, <2>4, Scale
  <2>6. Attempts * worth = Attempts * PerTurn * all
    BY <2>2
  <2>7. calls <= Attempts * PerTurn * all
    BY <2>1, <2>2, <2>5, <2>6
  <2> QED
    BY <2>7 DEF BudgetKept, all
<1> QED
  BY <1>1, AllAlways, PTL

\* However the threads interleave their measuring, evicting and storing, the cache
\* exceeds its limit by no more than the threads and the empty responses
\* (search.py:174-178, :217-220).
THEOREM CacheStaysBounded == Spec => []CacheBounded
<1>1. TypeInv /\ Room => CacheBounded
  <2> SUFFICES ASSUME TypeInv, Room PROVE CacheBounded
    OBVIOUS
  <2>1. CacheTyped
    BY TypeInvParts
  <2>2. Len(order) + Cardinality(Ready(DOMAIN cache)) <= Bound
    BY <2>1, KeysSize DEF Room
  <2>3. Len(order) \in Nat /\ Cardinality(Ready(DOMAIN cache)) \in Nat /\ Bound \in Int
    BY <2>1, KeysSize, ReadySize, Sizes DEF Bound, CacheTyped
  <2>4. Len(order) <= Bound
    BY <2>2, <2>3
  <2> QED
    BY <2>4 DEF CacheBounded, Bound
<1> QED
  BY <1>1, AllAlways, PTL
=============================================================================
