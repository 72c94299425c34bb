------------------------------- MODULE Search -------------------------------
(***************************************************************************)
(* services/search.py: the process-wide cache of search responses and the  *)
(* threads that use it without a lock.  One action is one access of the    *)
(* dict or one round of database statements, so every thread may run in    *)
(* between:                                                                *)
(*                                                                         *)
(*   Find; Hit, Expired, Vanished                                          *)
(*                      the two lookups of search(), :159 and :160         *)
(*   Retrieve           the retrievers and hydrate(); the list of keys to  *)
(*                      evict                                              *)
(*   Pop                one pop() of the eviction                          *)
(*   Store              the assignment at :177 (nothing found, reached     *)
(*                      without the eviction) or :220                      *)
(*                                                                         *)
(* Of a response only the moment the database was read is kept: what it    *)
(* shows is what the catalogue held then.  A query stands for the          *)
(* normalised text and limit that make up its key.                         *)
(***************************************************************************)
EXTENDS Integers, Sequences, FiniteSets, SequencesExt

CONSTANTS
  Threads,    \* the searches and turns in progress at one time
  Queries,    \* cache keys
  Wordless,   \* queries of stop words only, for which nothing is searched
  Popular,    \* POPULAR_WARMUP_QUERIES
  SearchTTL,  \* _SEARCH_CACHE_TTL_SECONDS
  MaxSize,    \* _MAX_SEARCH_CACHE_SIZE
  Evict,      \* how many keys an eviction takes: 50, and the thread pool has 40
              \* threads besides the one of the warm-up
  MaxClock,   \* bound of the model: the last moment
  MaxBegun    \* bound of the model: requests, and restarts of the process

ASSUME SearchAssumption ==
  /\ IsFiniteSet(Threads) /\ Threads # {}
  /\ Wordless \subseteq Queries /\ Popular \in Seq(Queries \ Wordless)
  /\ SearchTTL \in Nat \ {0} /\ MaxSize \in Nat \ {0}
  /\ Evict \in Nat /\ Evict >= Cardinality(Threads)
  /\ MaxClock \in Nat /\ MaxBegun \in Nat

VARIABLES
  clock,    \* time.monotonic()
  cache,    \* _SEARCH_CACHE: a function on the keys it holds
  order,    \* its keys, in the order a dict lists them
  task,     \* what each thread is doing
  warmed,   \* the warm-up thread of this process has begun
  begun,    \* requests so far
  empties   \* history: keys an empty response was added under since the start

cacheVars == <<cache, order, empties>>
searchVars == <<clock, cacheVars, task, warmed, begun>>

Kinds == {"search", "warm", "ask"}
Steps == {"idle", "find", "fetch", "retrieve", "pop", "store", "tool", "reply"}

\* start: `now` of search(); read: when the response was read; asof: the moment
\* its age counts from; left: queries the warm-up has still to run.
Idle == [kind |-> "search", pc |-> "idle", query |-> "none", start |-> 0,
         read |-> 0, nothing |-> FALSE, victims |-> <<>>, left |-> <<>>]

\* search() called from a task of this kind.
Called(kind, q, left) ==
  [Idle EXCEPT !.kind = kind, !.pc = "find", !.query = q, !.start = clock, !.left = left]

\* The loop of warm_up_search().
Resumed(left) == IF left = <<>> THEN Idle ELSE Called("warm", Head(left), Tail(left))

\* What a task does once search() has returned a response read at that time: a
\* request is answered with it ...
Returned(s, read) ==
  CASE s.kind = "search" -> Idle
    [] s.kind = "warm"   -> Resumed(s.left)
    [] s.kind = "ask"    -> [Idle EXCEPT !.kind = "ask", !.pc = "reply", !.read = read]

\* ... and once it has raised: an error response ends the request, the warm-up
\* swallows it.
Raised(s) == IF s.kind = "warm" THEN Resumed(s.left) ELSE Idle

Enter(kind, q) ==
  IF q \in Wordless THEN Returned([Idle EXCEPT !.kind = kind, !.start = clock], clock)
                    ELSE Called(kind, q, <<>>)

Become(t, s) == task' = [task EXCEPT ![t] = s]
Goto(t, pc)  == Become(t, [task[t] EXCEPT !.pc = pc])
At(t, pc)    == task[t].pc = pc

-----------------------------------------------------------------------------
SearchInit ==
  /\ clock = 0 /\ cache = <<>> /\ order = <<>> /\ empties = 0
  /\ task = [t \in Threads |-> Idle]
  /\ warmed = FALSE /\ begun = 0

\* GET /search.
BeginSearch(t, q) ==
  /\ At(t, "idle") /\ begun < MaxBegun
  /\ Become(t, Enter("search", q))
  /\ begun' = begun + 1
  /\ UNCHANGED <<clock, cacheVars, warmed>>

\* The thread lifespan() starts, once the embedding model is loaded.
WarmUp(t) ==
  /\ At(t, "idle") /\ ~warmed
  /\ warmed' = TRUE
  /\ Become(t, Resumed(Popular))
  /\ UNCHANGED <<clock, cacheVars, begun>>

Find(t) ==
  /\ At(t, "find")
  /\ Goto(t, IF task[t].query \in DOMAIN cache THEN "fetch" ELSE "retrieve")
  /\ UNCHANGED <<clock, cacheVars, warmed, begun>>

\* The second lookup: an entry young enough is the answer, ...
Hit(t) ==
  LET q == task[t].query IN
  /\ At(t, "fetch") /\ q \in DOMAIN cache /\ task[t].start - cache[q].at < SearchTTL
  /\ Become(t, Returned(task[t], cache[q].read))
  /\ UNCHANGED <<clock, cacheVars, warmed, begun>>

Expired(t) ==
  LET q == task[t].query IN
  /\ At(t, "fetch") /\ q \in DOMAIN cache /\ task[t].start - cache[q].at >= SearchTTL
  /\ Goto(t, "retrieve")
  /\ UNCHANGED <<clock, cacheVars, warmed, begun>>

\* ... and one evicted since the first lookup is a KeyError.
Vanished(t) ==
  /\ At(t, "fetch") /\ task[t].query \notin DOMAIN cache
  /\ Become(t, Raised(task[t]))
  /\ UNCHANGED <<clock, cacheVars, warmed, begun>>

\* What search() has once the retrievers have run: nothing, or their lists fused
\* and the schemes loaded.
Responded(s, empty, victims) ==
  [s EXCEPT !.pc = IF victims = <<>> THEN "store" ELSE "pop", !.read = clock,
            !.nothing = empty, !.victims = victims]

\* Mutant: nothing is evicted.
NoneOldest == <<>>
\* The keys that make room in a full cache.
Oldest == IF Len(order) < MaxSize THEN <<>>
          ELSE IF Len(order) <= Evict THEN order ELSE SubSeq(order, 1, Evict)

\* A statement may fail.  Only when something was found are keys listed for
\* eviction: that order of the two is all another thread can tell.
Retrieve(t) ==
  /\ At(t, "retrieve")
  /\ \/ Become(t, Raised(task[t]))
     \/ Become(t, Responded(task[t], TRUE, <<>>))
     \/ Become(t, Responded(task[t], FALSE, Oldest))
  /\ UNCHANGED <<clock, cacheVars, warmed, begun>>

\* pop(k, None): the key may be gone, or be another thread's new entry.
Pop(t) ==
  LET k == Head(task[t].victims)  rest == Tail(task[t].victims) IN
  /\ At(t, "pop")
  /\ cache' = [q \in DOMAIN cache \ {k} |-> cache[q]]
  /\ order' = RemoveFirst(order, k)
  /\ Become(t, [task[t] EXCEPT !.pc = IF rest = <<>> THEN "store" ELSE "pop",
                               !.victims = rest])
  /\ UNCHANGED <<clock, warmed, begun, empties>>

\* Mutant: the entry carries the time it is stored at.
StoreLate(t) ==
  LET q == task[t].query
      entry == [at |-> clock, read |-> task[t].read, nothing |-> task[t].nothing] IN
  /\ At(t, "store")
  /\ cache' = [k \in DOMAIN cache \cup {q} |-> IF k = q THEN entry ELSE cache[k]]
  /\ order' = IF q \in DOMAIN cache THEN order ELSE Append(order, q)
  /\ empties' = IF task[t].nothing /\ q \notin DOMAIN cache THEN empties + 1 ELSE empties
  /\ Become(t, Returned(task[t], task[t].read))
  /\ UNCHANGED <<clock, warmed, begun>>

\* The entry carries the time the search began.  A key stored again keeps its
\* place in the dict.
Store(t) ==
  LET q == task[t].query
      entry == [at |-> task[t].start, read |-> task[t].read, nothing |-> task[t].nothing] IN
  /\ At(t, "store")
  /\ cache' = [k \in DOMAIN cache \cup {q} |-> IF k = q THEN entry ELSE cache[k]]
  /\ order' = IF q \in DOMAIN cache THEN order ELSE Append(order, q)
  /\ empties' = IF task[t].nothing /\ q \notin DOMAIN cache THEN empties + 1 ELSE empties
  /\ Become(t, Returned(task[t], task[t].read))
  /\ UNCHANGED <<clock, warmed, begun>>

\* Everything of this module lives in the process.
Forget ==
  /\ cache' = <<>> /\ order' = <<>> /\ empties' = 0 /\ warmed' = FALSE
  /\ task' = [t \in Threads |-> Idle]
  /\ UNCHANGED clock

Searching(t) ==
  Find(t) \/ Hit(t) \/ Expired(t) \/ Vanished(t) \/ Retrieve(t) \/ Pop(t) \/ Store(t)

-----------------------------------------------------------------------------
Moments == 0 .. MaxClock
Entry == [at : Moments, read : Moments, nothing : BOOLEAN]
Task == [kind : Kinds, pc : Steps, query : Queries \cup {"none"}, start : Moments,
         read : Moments, nothing : BOOLEAN, victims : Seq(Queries),
         left : Seq(Queries)]

SearchTypeOK ==
  /\ clock \in Moments /\ begun \in 0 .. MaxBegun /\ empties \in Nat /\ warmed \in BOOLEAN
  /\ order \in Seq(Queries)
  /\ DOMAIN cache = ToSet(order) /\ IsInjective(order)
  /\ cache \in [DOMAIN cache -> Entry]
  /\ task \in [Threads -> Task]

\* The cache exceeds its limit by one entry of each thread that measured it before
\* the others stored, and by the empty responses of the process: those are stored
\* without an eviction, and one that an eviction removes has made room for an entry
\* that stays (search.py:174-178, :217-220).
CacheBounded == Len(order) <= MaxSize + Cardinality(Threads) - 1 + empties
=============================================================================
