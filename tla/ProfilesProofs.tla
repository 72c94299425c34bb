--------------------------- MODULE ProfilesProofs ---------------------------
(***************************************************************************)
(* The verdicts of the matcher, for any schemes, rules and answers, and    *)
(* the profile they are made from, for any number of overlapping requests. *)
(*                                                                         *)
(* The matcher's four states are first taken apart: when a scheme fails or *)
(* passes in terms of its rules.  The rest follows from two facts about    *)
(* one rule: its state is the same wherever its answer is, and a state     *)
(* other than "unknown" is what the rule says of every completion.         *)
(*                                                                         *)
(* The order of a result list is a fact about places, of any number.       *)
(***************************************************************************)
EXTENDS Profiles, FiniteSetTheorems, TLAPS

-----------------------------------------------------------------------------
(* One rule *)

\* A rule passes, fails or is unknown; never "not_applicable".
LEMMA RuleStates ==
  ASSUME NEW rule, NEW p
  PROVE  RuleState(rule, p) \in {"pass", "fail", "unknown"}
BY DEF RuleState

\* The rules of a scheme have the fields and the values the translator gives
\* them, or those that an operator could store.
LEMMA RuleShape ==
  ASSUME NEW s \in Schemes, NEW rule \in Rules[s]
  PROVE  /\ rule.key \in Attributes /\ rule.op \in {"eq", "gte", "lte"}
         /\ rule.group \in Groups
         /\ rule.value \in Typed(rule.key)
         /\ rule.op = "eq" <=> Kind[rule.key] # "numeric"
         /\ Kind[rule.key] \in {"boolean", "numeric", "text"}
<1>1. CASE rule \in Curated[s]
  <2>1. rule \in Rule /\ RuleFits(rule)
    BY <1>1, SourceAssumption
  <2> QED
    BY <2>1, MapsAssumption DEF RuleFits, Rule
<1>2. ASSUME NEW g \in Groups, NEW n \in AskedFlags(Source[s][g]),
             rule = [group |-> g, key |-> Flags[n].key, op |-> "eq", value |-> Flags[n].value]
      PROVE  /\ rule.key \in Attributes /\ rule.op = "eq" /\ rule.group = g
             /\ rule.value \in Truths /\ Kind[rule.key] = "boolean"
  <2>1. n \in DOMAIN Flags
    BY DEF AskedFlags
  <2> QED
    BY <1>2, <2>1, MapsAssumption
<1>3. ASSUME NEW g \in Groups, NEW n \in AskedBounds(Source[s][g]),
             rule = [group |-> g, key |-> Bounds[n].key, op |-> Bounds[n].op,
                     value |-> Source[s][g][n]]
      PROVE  /\ rule.key \in Attributes /\ rule.op \in {"gte", "lte"} /\ rule.group = g
             /\ rule.value \in Numbers /\ Kind[rule.key] = "numeric"
  <2>1. n \in DOMAIN Bounds /\ Source[s][g][n] \in Numbers
    BY DEF AskedBounds
  <2> QED
    BY <1>3, <2>1, MapsAssumption
<1>4. CASE rule \notin Curated[s]
  <2>1. PICK g \in Groups : rule \in Translated(Source[s][g], g)
    BY <1>4 DEF Rules
  <2>2. CASE \E n \in AskedFlags(Source[s][g]) :
               rule = [group |-> g, key |-> Flags[n].key, op |-> "eq", value |-> Flags[n].value]
    BY <2>2, <1>2 DEF Typed
  <2>3. CASE \E n \in AskedBounds(Source[s][g]) :
               rule = [group |-> g, key |-> Bounds[n].key, op |-> Bounds[n].op,
                       value |-> Source[s][g][n]]
    BY <2>3, <1>3 DEF Typed
  <2> QED
    BY <2>1, <2>2, <2>3 DEF Translated
<1> QED
  BY <1>1, <1>4

\* A rule that was decided stays as it is when only more is answered.
LEMMA RuleKept ==
  ASSUME NEW p, NEW q, Extends(q, p), NEW s \in Schemes, NEW rule \in Rules[s],
         RuleState(rule, p) # "unknown"
  PROVE  RuleState(rule, q) = RuleState(rule, p)
<1>1. p[rule.key] # Unanswered
  BY DEF RuleState, Usable
<1>2. q[rule.key] = p[rule.key]
  BY <1>1, RuleShape DEF Extends
<1> QED
  BY <1>2 DEF RuleState

\* A rule whose answer is there and fits is decided.
LEMMA RuleDecided ==
  ASSUME NEW p, WellTyped(p), NEW s \in Schemes, NEW rule \in Rules[s],
         p[rule.key] # Unanswered
  PROVE  RuleState(rule, p) # "unknown"
<1>1. p[rule.key] \in Typed(rule.key)
  BY RuleShape DEF WellTyped
<1>2. rule.value \in Truths => p[rule.key] \in Truths
  BY <1>1, RuleShape, ValuesAssumption DEF Typed
<1>3. rule.value \in Numbers => p[rule.key] \in Numbers
  BY <1>1, RuleShape, ValuesAssumption DEF Typed
<1>4. Usable(rule, p[rule.key])
  BY <1>2, <1>3, ValuesAssumption DEF Usable, AsNumber, Values
<1> QED
  BY <1>4 DEF RuleState

\* A rule that passes holds of every completion of the profile.
LEMMA RulePassed ==
  ASSUME NEW p \in Profiles, NEW s \in Schemes,
         NEW t \in Completions(p, s), NEW rule \in Rules[s], RuleState(rule, p) = "pass"
  PROVE  Holds(rule, t[rule.key])
<1> DEFINE raw == p[rule.key]
<1>1. Holds(rule, raw)
  BY DEF RuleState
<1>2. t[rule.key] \in Open(rule.key, raw)
  BY DEF Completions, AsksAbout
<1>3. CASE rule.op = "eq"
  <2>1. raw = rule.value
    BY <1>1, <1>3 DEF Holds
  <2>2. Open(rule.key, raw) = {raw}
    BY <2>1, <1>3, RuleShape DEF Open
  <2> QED
    BY <2>2, <1>1, <1>2
<1>4. CASE rule.op # "eq"
  <2>1. AsNumber(raw) \in Numbers
    BY <1>1, <1>4 DEF Holds
  <2>2. t[rule.key] = AsNumber(raw)
    BY <2>1, <1>2, <1>4, RuleShape DEF Open
  <2>3. AsNumber(t[rule.key]) = AsNumber(raw)
    BY <2>1, <2>2 DEF AsNumber
  <2> QED
    BY <2>3, <1>1, <1>4 DEF Holds
<1> QED
  BY <1>3, <1>4

\* A rule that fails on answers that fit holds of no completion.
LEMMA RuleFailed ==
  ASSUME NEW p \in Profiles, WellTyped(p), NEW s \in Schemes,
         NEW t \in Completions(p, s), NEW rule \in Rules[s], RuleState(rule, p) = "fail"
  PROVE  ~Holds(rule, t[rule.key])
<1> DEFINE raw == p[rule.key]
<1>1. raw # Unanswered /\ ~Holds(rule, raw)
  BY DEF RuleState, Usable
<1>2. raw \in Typed(rule.key)
  BY <1>1, RuleShape DEF WellTyped
<1>3. Kind[rule.key] = "numeric" => AsNumber(raw) = raw
  BY <1>2 DEF Typed, AsNumber
<1>4. Open(rule.key, raw) = {raw}
  BY <1>2, <1>3 DEF Open
<1>5. t[rule.key] \in Open(rule.key, raw)
  BY DEF Completions, AsksAbout
<1> QED
  BY <1>1, <1>4, <1>5

-----------------------------------------------------------------------------
(* A scheme *)

\* A scheme fails when a mandatory rule fails or all of its alternatives do.
LEMMA WhenFail ==
  ASSUME NEW s, NEW p
  PROVE  Verdict(s, p) = "fail" <=>
           \/ \E rule \in Group("all", s) : RuleState(rule, p) = "fail"
           \/ /\ Group("any", s) # {}
              /\ \A rule \in Group("any", s) : RuleState(rule, p) = "fail"
<1> DEFINE A == States("all", s, p)
           B == States("any", s, p)
<1>1. A \subseteq {"pass", "fail", "unknown"} /\ B \subseteq {"pass", "fail", "unknown"}
  BY RuleStates DEF States
<1>2. Verdict(s, p) = "fail" <=> AndCombine(A) = "fail" \/ OrCombine(B) = "fail"
  BY DEF Verdict, AndCombine, Dominant
<1>3. AndCombine(A) = "fail" <=> "fail" \in A
  BY DEF AndCombine, Dominant
<1>4. OrCombine(B) = "fail" <=> B = {"fail"}
  BY <1>1 DEF OrCombine, Dominant
<1>5. B = {"fail"} <=> /\ Group("any", s) # {}
                       /\ \A rule \in Group("any", s) : RuleState(rule, p) = "fail"
  BY DEF States
<1>6. "fail" \in A <=> \E rule \in Group("all", s) : RuleState(rule, p) = "fail"
  BY DEF States
<1> QED
  BY <1>2, <1>3, <1>4, <1>5, <1>6

\* A scheme passes when it has rules, every mandatory one passes, and one of
\* the alternatives does if there are any.
LEMMA WhenPass ==
  ASSUME NEW s, NEW p
  PROVE  Verdict(s, p) = "pass" <=>
           /\ Group("all", s) # {} \/ Group("any", s) # {}
           /\ \A rule \in Group("all", s) : RuleState(rule, p) = "pass"
           /\ \/ Group("any", s) = {}
              \/ \E rule \in Group("any", s) : RuleState(rule, p) = "pass"
<1> DEFINE A == States("all", s, p)
           B == States("any", s, p)
<1>1. A \subseteq {"pass", "fail", "unknown"} /\ B \subseteq {"pass", "fail", "unknown"}
  BY RuleStates DEF States
<1>2. AndCombine(A) = "pass" <=> A = {"pass"}
  BY <1>1 DEF AndCombine, Dominant
<1>3. AndCombine(A) = "not_applicable" <=> A = {}
  BY <1>1 DEF AndCombine, Dominant
<1>4. OrCombine(B) = "pass" <=> "pass" \in B
  BY DEF OrCombine, Dominant
<1>5. OrCombine(B) = "not_applicable" <=> B = {}
  BY <1>1 DEF OrCombine, Dominant
<1>6. Verdict(s, p) = "pass" <=>
        /\ AndCombine(A) \in {"pass", "not_applicable"}
        /\ OrCombine(B) \in {"pass", "not_applicable"}
        /\ AndCombine(A) = "pass" \/ OrCombine(B) = "pass"
  <2>1. /\ AndCombine(A) \in {"pass", "fail", "unknown", "not_applicable"}
        /\ OrCombine(B) \in {"pass", "fail", "unknown", "not_applicable"}
    BY DEF AndCombine, OrCombine, Dominant
  <2> DEFINE a == AndCombine(A)
             b == OrCombine(B)
  <2>2. Verdict(s, p) = Dominant("fail", "unknown", "pass", {a, b})
    BY DEF Verdict, AndCombine
  <2> HIDE DEF a, b
  <2>3. /\ a \in {"pass", "fail", "unknown", "not_applicable"}
        /\ b \in {"pass", "fail", "unknown", "not_applicable"}
    BY <2>1 DEF a, b
  <2>4. Dominant("fail", "unknown", "pass", {a, b}) = "pass" <=>
          /\ a \in {"pass", "not_applicable"} /\ b \in {"pass", "not_applicable"}
          /\ a = "pass" \/ b = "pass"
    BY <2>3 DEF Dominant
  <2> QED
    BY <2>2, <2>4 DEF a, b
<1>7. A = {} <=> Group("all", s) = {}
  BY DEF States
<1>8. B = {} <=> Group("any", s) = {}
  BY DEF States
<1>9. A = {"pass"} <=> /\ Group("all", s) # {}
                       /\ \A rule \in Group("all", s) : RuleState(rule, p) = "pass"
  BY DEF States
<1>10. "pass" \in B <=> \E rule \in Group("any", s) : RuleState(rule, p) = "pass"
  BY DEF States
<1> HIDE DEF A, B
<1> QED
  BY <1>2, <1>3, <1>4, <1>5, <1>6, <1>7, <1>8, <1>9, <1>10

\* A scheme that is neither decided nor without rules has an unknown rule.
LEMMA WhenUnknown ==
  ASSUME NEW s, NEW p, Verdict(s, p) = "unknown"
  PROVE  \E rule \in Rules[s] : RuleState(rule, p) = "unknown"
<1> DEFINE A == States("all", s, p)
           B == States("any", s, p)
<1>1. AndCombine(A) = "unknown" \/ OrCombine(B) = "unknown"
  BY DEF Verdict, AndCombine, Dominant
<1>2. "unknown" \in A \/ "unknown" \in B
  BY <1>1 DEF AndCombine, OrCombine, Dominant
<1> QED
  BY <1>2 DEF States, Group

\* A group of rules is what an operator entered and what its block translates to.
LEMMA GroupParts ==
  ASSUME NEW s \in Schemes, NEW g \in Groups
  PROVE  Group(g, s) = AskedCurated(s, g) \cup Translated(Source[s][g], g)
<1>1. \A h \in Groups : \A rule \in Translated(Source[s][h], h) : rule.group = h
  BY DEF Translated
<1>2. Rules[s] = Curated[s] \cup UNION {Translated(Source[s][h], h) : h \in Groups}
  BY DEF Rules
<1> HIDE DEF Rules
<1> QED
  BY <1>1, <1>2 DEF Group, AskedCurated

\* The rules made of a block say of a person of whom everything is known what
\* the block asks for.
LEMMA BlockMeant ==
  ASSUME NEW s \in Schemes, NEW g \in Groups, NEW p \in Profiles, NEW t \in Completions(p, s)
  PROVE  /\ \A n \in AskedFlags(Source[s][g]) :
              LET rule == [group |-> g, key |-> Flags[n].key, op |-> "eq",
                           value |-> Flags[n].value]
              IN  Holds(rule, t[rule.key]) <=> FlagMet(n, t)
         /\ \A n \in AskedBounds(Source[s][g]) :
              LET rule == [group |-> g, key |-> Bounds[n].key, op |-> Bounds[n].op,
                           value |-> Source[s][g][n]]
              IN  Holds(rule, t[rule.key]) <=> BoundMet(n, Source[s][g][n], t)
<1>1. ASSUME NEW n \in AskedFlags(Source[s][g])
      PROVE  LET rule == [group |-> g, key |-> Flags[n].key, op |-> "eq",
                          value |-> Flags[n].value]
             IN  Holds(rule, t[rule.key]) <=> FlagMet(n, t)
  BY DEF Holds, FlagMet
<1>2. ASSUME NEW n \in AskedBounds(Source[s][g])
      PROVE  LET rule == [group |-> g, key |-> Bounds[n].key, op |-> Bounds[n].op,
                          value |-> Source[s][g][n]]
             IN  Holds(rule, t[rule.key]) <=> BoundMet(n, Source[s][g][n], t)
  <2> DEFINE k == Bounds[n].key
             rule == [group |-> g, key |-> k, op |-> Bounds[n].op, value |-> Source[s][g][n]]
  <2>1. n \in DOMAIN Bounds
    BY DEF AskedBounds
  <2>2. k \in Attributes /\ Kind[k] = "numeric" /\ Bounds[n].op \in {"gte", "lte"}
    BY <2>1, MapsAssumption
  <2>3. rule \in Rules[s]
    BY SourceAssumption DEF Rules, Translated
  <2>4. t[k] \in Open(k, p[k])
    BY <2>3 DEF Completions, AsksAbout
  <2>5. t[k] \in Numbers
    BY <2>2, <2>4 DEF Open, Typed
  <2>6. AsNumber(t[k]) = t[k]
    BY <2>5 DEF AsNumber
  <2> QED
    BY <2>2, <2>5, <2>6 DEF Holds, BoundMet
<1> QED
  BY <1>1, <1>2

LEMMA GroupMeant ==
  ASSUME NEW s \in Schemes, NEW g \in Groups, NEW p \in Profiles, NEW t \in Completions(p, s)
  PROVE  /\ MeetsAll(s, g, t) <=> \A rule \in Group(g, s) : Holds(rule, t[rule.key])
         /\ MeetsOne(s, g, t) <=> \E rule \in Group(g, s) : Holds(rule, t[rule.key])
         /\ AsksNothing(s, g) <=> Group(g, s) = {}
<1> DEFINE Flag(n)  == [group |-> g, key |-> Flags[n].key, op |-> "eq", value |-> Flags[n].value]
           Bound(n) == [group |-> g, key |-> Bounds[n].key, op |-> Bounds[n].op,
                        value |-> Source[s][g][n]]
           Says(rule) == Holds(rule, t[rule.key])
           F == AskedFlags(Source[s][g])
           B == AskedBounds(Source[s][g])
           C == AskedCurated(s, g)
<1>1. Group(g, s) = C \cup {Flag(n) : n \in F} \cup {Bound(n) : n \in B}
  BY GroupParts DEF Translated
<1>2. \A n \in F : Says(Flag(n)) <=> FlagMet(n, t)
  BY BlockMeant
<1>3. \A n \in B : Says(Bound(n)) <=> BoundMet(n, Source[s][g][n], t)
  BY BlockMeant
<1>4. /\ MeetsAll(s, g, t) <=> /\ \A n \in F : FlagMet(n, t)
                               /\ \A n \in B : BoundMet(n, Source[s][g][n], t)
                               /\ \A rule \in C : Says(rule)
      /\ MeetsOne(s, g, t) <=> \/ \E n \in F : FlagMet(n, t)
                               \/ \E n \in B : BoundMet(n, Source[s][g][n], t)
                               \/ \E rule \in C : Says(rule)
  BY DEF MeetsAll, MeetsOne
<1>5. AsksNothing(s, g) <=> F = {} /\ B = {} /\ C = {}
  BY DEF AsksNothing
<1> HIDE DEF Flag, Bound, Says, F, B, C
<1>6. (\A rule \in Group(g, s) : Says(rule)) <=>
         (\A n \in F : Says(Flag(n))) /\ (\A n \in B : Says(Bound(n))) /\ (\A rule \in C : Says(rule))
  BY <1>1
<1>7. (\E rule \in Group(g, s) : Says(rule)) <=>
         (\E n \in F : Says(Flag(n))) \/ (\E n \in B : Says(Bound(n))) \/ (\E rule \in C : Says(rule))
  BY <1>1
<1>8. Group(g, s) = {} <=> F = {} /\ B = {} /\ C = {}
  BY <1>1
<1>9. (MeetsAll(s, g, t) <=> \A rule \in Group(g, s) : Says(rule))
      /\ (MeetsOne(s, g, t) <=> \E rule \in Group(g, s) : Says(rule))
  BY <1>2, <1>3, <1>4, <1>6, <1>7
<1> QED
  BY <1>5, <1>8, <1>9 DEF Says

\* The verdicts hold of every completion.
LEMMA PassSound ==
  ASSUME NEW s \in Schemes, NEW p \in Profiles
  PROVE  PassEarned(s, p)
<1> SUFFICES ASSUME Verdict(s, p) = "pass", NEW t \in Completions(p, s)
             PROVE  Meets(s, t)
  BY DEF PassEarned
<1>1. \A rule \in Group("all", s) : Holds(rule, t[rule.key])
  BY WhenPass, RulePassed DEF Group
<1>2. Group("any", s) = {} \/ \E rule \in Group("any", s) : Holds(rule, t[rule.key])
  BY WhenPass, RulePassed DEF Group
<1> QED
  BY <1>1, <1>2, GroupMeant DEF Meets, Groups

LEMMA FailSound ==
  ASSUME NEW s \in Schemes, NEW p \in Profiles, WellTyped(p)
  PROVE  FailKnown(s, p)
<1> SUFFICES ASSUME Verdict(s, p) = "fail", NEW t \in Completions(p, s)
             PROVE  ~Meets(s, t)
  BY DEF FailKnown
<1>1. \A rule \in Rules[s] : RuleState(rule, p) = "fail" => ~Holds(rule, t[rule.key])
  BY RuleFailed
<1>2. CASE \E rule \in Group("all", s) : RuleState(rule, p) = "fail"
  BY <1>1, <1>2, GroupMeant DEF Meets, Group, Groups
<1>3. CASE /\ Group("any", s) # {}
           /\ \A rule \in Group("any", s) : RuleState(rule, p) = "fail"
  BY <1>1, <1>3, GroupMeant DEF Meets, Group, Groups
<1> QED
  BY <1>2, <1>3, WhenFail

\* A verdict outlives every answer added to the profile.
LEMMA VerdictKept ==
  ASSUME NEW s \in Schemes, NEW p, NEW q, Extends(q, p),
         Verdict(s, p) \in {"pass", "fail"}
  PROVE  Verdict(s, q) = Verdict(s, p)
<1>1. \A rule \in Rules[s] : RuleState(rule, p) # "unknown"
                               => RuleState(rule, q) = RuleState(rule, p)
  BY RuleKept
<1>2. CASE Verdict(s, p) = "pass"
  <2>1. Verdict(s, q) = "pass"
    BY <1>1, <1>2, WhenPass DEF Group
  <2> QED
    BY <1>2, <2>1
<1>3. CASE Verdict(s, p) = "fail"
  <2>1. Verdict(s, q) = "fail"
    BY <1>1, <1>3, WhenFail DEF Group
  <2> QED
    BY <1>3, <2>1
<1> QED
  BY <1>2, <1>3

\* Once what was missing is answered, the scheme is decided.
LEMMA MissingDecides ==
  ASSUME NEW s \in Schemes, NEW p, NEW q, Extends(q, p), WellTyped(q),
         \A k \in Missing(s, p) : q[k] # Unanswered
  PROVE  Verdict(s, q) # "unknown"
<1> SUFFICES ASSUME NEW rule \in Rules[s], RuleState(rule, q) = "unknown"
             PROVE  FALSE
  BY WhenUnknown
<1>1. q[rule.key] = Unanswered
  BY RuleDecided
<1>2. RuleState(rule, p) = "unknown"
  BY RuleKept
<1>3. rule.key \in Missing(s, p)
  BY <1>2 DEF Missing
<1> QED
  BY <1>1, <1>3

-----------------------------------------------------------------------------
(* The requests *)

LEMMA BlankTyped == Blank \in Profiles /\ WellTyped(Blank)
BY DEF Blank, Profiles, WellTyped, Answers

LEMMA IdleTyped == Idle \in Request /\ Idle.kind # "public" /\ WellTyped(Idle.base)
                   /\ Idle.pc = "idle"
BY BlankTyped DEF Idle, Request, Asked

\* An answer of the right type is an answer.
LEMMA TypedIsAnswer ==
  ASSUME NEW k \in Attributes
  PROVE  Typed(k) \cup {Unanswered} \subseteq Answers
BY DEF Typed, Answers, Values

\* The row is inserted once: at most one open request has inserted it, and only
\* while there is none; every other request that got past get_or_create works on
\* the row that is there.
OneRow ==
  /\ \A r \in Reqs : req[r].made =>
       /\ row = NoRow /\ req[r].pc \in {"serve", "commit"}
       /\ \A q \in Reqs \ {r} : ~req[q].made
  /\ \A r \in Reqs :
       /\ req[r].pc \in {"serve", "commit"} /\ req[r].kind # "public" /\ ~req[r].made
            => row # NoRow
       /\ req[r].pc \in {"insert", "commit"} => req[r].kind # "public"

IInv == TypeOK /\ OneRow

\* The profile that a commit would store, and what it leaves: that, or the row
\* as it was.
Before(r) == IF req[r].made THEN Blank ELSE row
Stored(r) == [k \in Attributes |-> IF k \in Dirty(req[r]) THEN Applied(req[r])[k]
                                                          ELSE Before(r)[k]]

LEMMA CommitStores ==
  ASSUME IInv, NEW r \in Reqs, Commit(r)
  PROVE  /\ Stored(r) \in Profiles /\ WellTyped(Stored(r))
         /\ row' = IF \A k \in Dirty(req[r]) : Stored(r)[k] \in Storable[k] \cup {Unanswered}
                   THEN Stored(r) ELSE row
<1> DEFINE q == req[r]
<1>1. /\ q.pc = "commit"
      /\ row' = IF \A k \in Dirty(q) : Stored(r)[k] \in Storable[k] \cup {Unanswered}
                THEN Stored(r) ELSE row
  BY DEF Commit, Stored, Before
<1>2. \A k \in Dirty(q) : Applied(q)[k] \in Typed(k) \cup {Unanswered}
  BY <1>1 DEF Dirty, Applied, IInv, TypeOK
<1>3. Before(r) \in Profiles /\ WellTyped(Before(r))
  <2>1. CASE q.made
    BY <2>1, BlankTyped DEF Before
  <2>2. CASE ~q.made
    <3>1. row # NoRow
      BY <1>1, <2>2 DEF IInv, OneRow
    <3> QED
      BY <2>2, <3>1 DEF IInv, TypeOK, Before
  <2> QED
    BY <2>1, <2>2
<1>4. \A k \in Attributes : Stored(r)[k] \in Typed(k) \cup {Unanswered}
  BY <1>2, <1>3 DEF WellTyped, Stored
<1>5. Stored(r) = [k \in Attributes |-> Stored(r)[k]]
  BY DEF Stored
<1>6. Stored(r) \in Profiles /\ WellTyped(Stored(r))
  BY <1>4, <1>5, TypedIsAnswer DEF Profiles, WellTyped
<1> QED
  BY <1>1, <1>6

LEMMA TypeStep == IInv /\ [Next]_vars => TypeOK'
<1> SUFFICES ASSUME IInv, [Next]_vars PROVE TypeOK'
  OBVIOUS
<1> USE DEF TypeOK, IInv
<1>1. CASE UNCHANGED vars
  BY <1>1 DEF vars, WellTyped, Named
<1> SUFFICES ASSUME NEW r \in Reqs,
                    \/ \E kind \in {"get", "mine"} : Begin(r, kind, Asked)
                    \/ \E u \in Updates : Begin(r, "put", u)
                    \/ \E u \in Readings : Begin(r, "reading", u)
                    \/ \E u \in Vision : Begin(r, "vision", u)
                    \/ \E p \in Submitted : BeginPublic(r, p)
                    \/ Insert(r) \/ Serve(r) \/ ServeSwallowing(r) \/ Commit(r) \/ Abort(r)
             PROVE  TypeOK'
  BY <1>1 DEF Next, BeginGet, BeginMine, BeginUpdate, BeginReading, BeginVision
<1>2. ASSUME End(r) PROVE /\ req' \in [Reqs -> Request]
                          /\ \A z \in Reqs : req'[z].kind # "public" => WellTyped(req'[z].base)
                          /\ \A z \in Reqs : req'[z].pc = "commit" =>
                               \A k \in Named(req'[z]) :
                                  req'[z].updates[k] \in Typed(k) \cup {Unanswered}
  <2>1. req'[r] = Idle /\ \A z \in Reqs \ {r} : req'[z] = req[z]
    BY <1>2 DEF End
  <2>2. req' \in [Reqs -> Request]
    BY <1>2, IdleTyped DEF End
  <2> QED
    BY <2>1, <2>2, IdleTyped
<1>3. ASSUME NEW kind \in {"get", "mine", "put", "reading", "vision"},
             NEW u \in [Attributes -> Answers \cup {Untouched}], Begin(r, kind, u)
      PROVE  TypeOK'
  <2> DEFINE read == IF row = NoRow THEN Blank ELSE row
             new == [pc |-> IF row = NoRow THEN "insert" ELSE "serve", kind |-> kind,
                     updates |-> u, base |-> read, made |-> FALSE]
  <2>0. read \in Profiles /\ WellTyped(read)
    BY BlankTyped
  <2> HIDE DEF read
  <2>1. new \in Request /\ WellTyped(new.base) /\ new.pc # "commit"
    BY <2>0 DEF Request
  <2>2. row' = row /\ req' = [req EXCEPT ![r] = new]
    BY <1>3 DEF Begin, read
  <2> HIDE DEF new
  <2>3. req'[r] = new /\ \A z \in Reqs \ {r} : req'[z] = req[z]
    BY <2>2
  <2>4. req' \in [Reqs -> Request]
    BY <2>1, <2>2
  <2> QED
    BY <2>1, <2>2, <2>3, <2>4 DEF WellTyped
<1>4. CASE \E kind \in {"get", "mine"} : Begin(r, kind, Asked)
  <2>1. Asked \in [Attributes -> Answers \cup {Untouched}]
    BY DEF Asked
  <2> QED
    BY <1>3, <1>4, <2>1
<1>5. CASE \/ \E u \in Updates : Begin(r, "put", u)
           \/ \E u \in Readings : Begin(r, "reading", u)
           \/ \E u \in Vision : Begin(r, "vision", u)
  BY <1>3, <1>5, RequestsAssumption
<1>6. ASSUME NEW p \in Submitted, BeginPublic(r, p) PROVE TypeOK'
  <2> DEFINE new == [Idle EXCEPT !.pc = "serve", !.kind = "public", !.base = p]
  <2>1. p \in Profiles
    BY RequestsAssumption
  <2>2. new \in Request /\ new.kind = "public" /\ new.pc # "commit"
    BY <2>1, IdleTyped DEF Request, Idle
  <2>3. row' = row /\ req' = [req EXCEPT ![r] = new]
    BY <1>6 DEF BeginPublic
  <2> HIDE DEF new
  <2>4. req'[r] = new /\ \A z \in Reqs \ {r} : req'[z] = req[z]
    BY <2>3
  <2>5. req' \in [Reqs -> Request]
    BY <2>2, <2>3
  <2> QED
    BY <2>2, <2>3, <2>4, <2>5 DEF WellTyped
<1>7. CASE Insert(r)
  <2>1. row' = row
    BY <1>7 DEF Insert
  <2>2. CASE End(r)
    BY <1>2, <2>1, <2>2
  <2>3. CASE req' = [req EXCEPT ![r].pc = "serve", ![r].made = TRUE]
    <3>1. /\ req' \in [Reqs -> Request]
          /\ \A z \in Reqs \ {r} : req'[z] = req[z]
          /\ req'[r].pc = "serve" /\ req'[r].kind = req[r].kind
          /\ req'[r].base = req[r].base
      BY <2>3 DEF Request
    <3> QED
      BY <2>1, <3>1
  <2> QED
    BY <1>7, <2>2, <2>3 DEF Insert
<1>8. CASE Serve(r)
  <2>1. row' = row
    BY <1>8 DEF Serve
  <2>2. CASE End(r)
    BY <1>2, <2>1, <2>2
  <2>3. CASE /\ \A k \in Named(req[r]) : Fits(k, req[r].updates[k])
             /\ req' = [req EXCEPT ![r].pc = "commit"]
    <3>1. /\ req' \in [Reqs -> Request]
          /\ \A z \in Reqs \ {r} : req'[z] = req[z]
          /\ req'[r].kind = req[r].kind /\ req'[r].base = req[r].base
          /\ req'[r].updates = req[r].updates
      BY <2>3 DEF Request
    <3>2. \A k \in Named(req'[r]) : req'[r].updates[k] \in Typed(k) \cup {Unanswered}
      BY <2>3, <3>1 DEF Fits, Named
    <3> QED
      BY <2>1, <3>1, <3>2
  <2> QED
    BY <1>8, <2>2, <2>3 DEF Serve
<1>8a. CASE ServeSwallowing(r)
  <2>1. PICK before \in SUBSET {k \in Named(req[r]) : Fits(k, req[r].updates[k])} :
          req' = [req EXCEPT ![r].pc = "commit", ![r].updates =
                    [k \in Attributes |-> IF k \in before THEN req[r].updates[k] ELSE Untouched]]
    BY <1>8a DEF ServeSwallowing
  <2> DEFINE kept == [k \in Attributes |-> IF k \in before THEN req[r].updates[k] ELSE Untouched]
  <2>2. kept \in [Attributes -> Answers \cup {Untouched}]
    BY DEF Request
  <2>3. \A k \in Attributes : kept[k] # Untouched => kept[k] \in Typed(k) \cup {Unanswered}
    BY <2>1 DEF Fits
  <2>4. row' = row /\ req' = [req EXCEPT ![r].pc = "commit", ![r].updates = kept]
    BY <1>8a, <2>1 DEF ServeSwallowing
  <2> HIDE DEF kept
  <2>5. /\ req' \in [Reqs -> Request]
        /\ \A z \in Reqs \ {r} : req'[z] = req[z]
        /\ req'[r].kind = req[r].kind /\ req'[r].base = req[r].base
        /\ req'[r].updates = kept
    BY <2>2, <2>4 DEF Request
  <2>6. \A k \in Named(req'[r]) : req'[r].updates[k] \in Typed(k) \cup {Unanswered}
    BY <2>3, <2>5 DEF Named
  <2> QED
    BY <2>4, <2>5, <2>6
<1>9. CASE Commit(r)
  <2>1. row' \in Profiles \cup {NoRow} /\ (row' # NoRow => WellTyped(row'))
    BY <1>9, CommitStores
  <2>2. End(r)
    BY <1>9 DEF Commit
  <2> QED
    BY <1>2, <2>1, <2>2
<1>10. CASE Abort(r)
  BY <1>2, <1>10 DEF Abort
<1> QED
  BY <1>4, <1>5, <1>6, <1>7, <1>8, <1>8a, <1>9, <1>10

LEMMA OneRowStep == IInv /\ [Next]_vars => OneRow'
<1> SUFFICES ASSUME IInv, [Next]_vars PROVE OneRow'
  OBVIOUS
<1> USE DEF IInv, OneRow
<1>1. CASE UNCHANGED vars
  BY <1>1 DEF vars
<1> SUFFICES ASSUME NEW r \in Reqs,
                    \/ \E kind \in {"get", "mine"} : Begin(r, kind, Asked)
                    \/ \E u \in Updates : Begin(r, "put", u)
                    \/ \E u \in Readings : Begin(r, "reading", u)
                    \/ \E u \in Vision : Begin(r, "vision", u)
                    \/ \E p \in Submitted : BeginPublic(r, p)
                    \/ Insert(r) \/ Serve(r) \/ ServeSwallowing(r) \/ Commit(r) \/ Abort(r)
             PROVE  OneRow'
  BY <1>1 DEF Next, BeginGet, BeginMine, BeginUpdate, BeginReading, BeginVision
<1>2. req \in [Reqs -> Request]
  BY DEF TypeOK
<1>3. ASSUME End(r) PROVE /\ req'[r].pc = "idle" /\ ~req'[r].made
                          /\ \A z \in Reqs \ {r} : req'[z] = req[z]
  BY <1>2, <1>3 DEF End, Idle
<1>4. ASSUME NEW kind \in {"get", "mine", "put", "reading", "vision"}, NEW u, Begin(r, kind, u)
      PROVE  OneRow'
  <2>1. /\ row' = row /\ ~req'[r].made /\ req'[r].kind # "public"
        /\ req'[r].pc = IF row = NoRow THEN "insert" ELSE "serve"
        /\ \A z \in Reqs \ {r} : req'[z] = req[z]
    BY <1>2, <1>4 DEF Begin
  <2> QED
    BY <2>1
<1>5. CASE \E p \in Submitted : BeginPublic(r, p)
  <2>1. /\ row' = row /\ ~req'[r].made /\ req'[r].kind = "public"
        /\ req'[r].pc = "serve"
        /\ \A z \in Reqs \ {r} : req'[z] = req[z]
    BY <1>2, <1>5 DEF BeginPublic, Idle
  <2> QED
    BY <2>1
<1>6. CASE Insert(r)
  <2>1. CASE End(r)
    BY <1>3, <1>6, <2>1 DEF Insert
  <2>2. CASE row = NoRow /\ req' = [req EXCEPT ![r].pc = "serve", ![r].made = TRUE]
    <3>1. /\ req'[r].made /\ req'[r].pc = "serve" /\ req'[r].kind = req[r].kind
          /\ \A z \in Reqs \ {r} : req'[z] = req[z]
      BY <1>2, <2>2 DEF Request
    <3> QED
      BY <1>6, <2>2, <3>1 DEF Insert
  <2> QED
    BY <1>6, <2>1, <2>2 DEF Insert
<1>7. CASE Serve(r)
  <2>1. CASE End(r)
    BY <1>3, <1>7, <2>1 DEF Serve
  <2>2. CASE req[r].kind # "public" /\ req' = [req EXCEPT ![r].pc = "commit"]
    <3>1. /\ req'[r].made = req[r].made /\ req'[r].pc = "commit"
          /\ req'[r].kind = req[r].kind
          /\ \A z \in Reqs \ {r} : req'[z] = req[z]
      BY <1>2, <2>2 DEF Request
    <3> QED
      BY <1>7, <2>2, <3>1 DEF Serve
  <2> QED
    BY <1>7, <2>1, <2>2 DEF Serve
<1>7a. CASE ServeSwallowing(r)
  <2>1. PICK kept : req' = [req EXCEPT ![r].pc = "commit", ![r].updates = kept]
    BY <1>7a DEF ServeSwallowing
  <2>2. row' = row /\ req[r].pc = "serve" /\ req[r].kind # "public"
    BY <1>7a DEF ServeSwallowing
  <2>3. /\ req'[r].made = req[r].made /\ req'[r].pc = "commit"
        /\ req'[r].kind = req[r].kind
        /\ \A z \in Reqs \ {r} : req'[z] = req[z]
    BY <1>2, <2>1 DEF Request
  <2> QED
    BY <2>2, <2>3
<1>8. CASE Commit(r)
  <2>1. End(r) /\ req[r].pc = "commit"
    BY <1>8 DEF Commit
  <2>2. row # NoRow => row' # NoRow
    BY <1>8, CommitStores, RequestsAssumption
  <2> QED
    BY <1>3, <2>1, <2>2
<1>9. CASE Abort(r)
  BY <1>3, <1>9 DEF Abort
<1> QED
  BY <1>4, <1>5, <1>6, <1>7, <1>7a, <1>8, <1>9

LEMMA InitInv == Init => IInv
BY IdleTyped DEF Init, IInv, TypeOK, OneRow, Idle

LEMMA Invariance == Spec => []IInv
<1>1. IInv /\ [Next]_vars => IInv'
  BY TypeStep, OneRowStep DEF IInv
<1> QED
  BY InitInv, <1>1, PTL DEF Spec

-----------------------------------------------------------------------------
(* The theorems *)

\* Every variable keeps its type: what is stored fits its attributes, whatever
\* was sent and however requests overlap (user_profile.py:88-119).
THEOREM TypeCorrect == Spec => []TypeOK
<1>1. IInv => TypeOK
  BY DEF IInv
<1> QED
  BY Invariance, <1>1, PTL

\* A "pass" is never guessed and a "fail" made from a stored profile is known,
\* for any rules and answers (eligibility_matcher.py:17-36).
THEOREM VerdictsMeanWhatTheySay == Spec => []VerdictSound
<1>1. IInv => VerdictSound
  <2> SUFFICES ASSUME IInv PROVE VerdictSound
    OBVIOUS
  <2>1. \A r \in Reqs : req[r].base \in Profiles
    BY DEF IInv, TypeOK, Request
  <2>2. \A r \in FromStored : WellTyped(req[r].base)
    BY DEF IInv, TypeOK, FromStored
  <2>3. \A r \in Recommending : \A s \in Schemes : PassEarned(s, req[r].base)
    BY <2>1, PassSound DEF Recommending
  <2>4. \A r \in FromStored : \A s \in Schemes : FailKnown(s, req[r].base)
    BY <2>1, <2>2, FailSound DEF FromStored
  <2> QED
    BY <2>3, <2>4 DEF VerdictSound
<1> QED
  BY Invariance, <1>1, PTL

\* No added answer takes a verdict back (eligibility_matcher.py:142-163).
THEOREM AnswersOnlyAdd == Spec => []VerdictsLast
<1>1. VerdictsLast
  BY VerdictKept DEF VerdictsLast
<1> QED
  BY <1>1, PTL

\* Answering what is listed as missing decides a scheme
\* (eligibility_matcher.py:337-347).
THEOREM MissingListComplete == Spec => []MissingIsEnough
<1>1. IInv => MissingIsEnough
  <2> SUFFICES ASSUME IInv, NEW r \in FromStored, row # NoRow, Extends(row, req[r].base),
                      NEW s \in Schemes,
                      \A k \in Missing(s, req[r].base) : row[k] # Unanswered
               PROVE  Verdict(s, row) # "unknown"
    BY DEF MissingIsEnough
  <2>1. WellTyped(row)
    BY DEF IInv, TypeOK
  <2> QED
    BY <2>1, MissingDecides
<1> QED
  BY Invariance, <1>1, PTL

\* No request undoes an answer it did not name, or stores half an update
\* (user_profile.py:23-27, repositories/user_profile.py:23-36).
THEOREM NothingUndone == Spec => NamedKeysOnly
<1> DEFINE Kept(r) ==
      LET q == req[r]
          before == IF row = NoRow THEN Blank ELSE row IN
      /\ q.pc = "commit"
      /\ \A k \in Attributes \ Named(q) : row'[k] = before[k]
      /\ \A k \in Named(q) :
           \/ row'[k] = q.updates[k]
           \/ q.updates[k] = q.base[k] /\ row'[k] = before[k]
<1>1. IInv /\ [Next]_vars => [row' # row => row' # NoRow /\ \E r \in Reqs : Kept(r)]_vars
  <2> SUFFICES ASSUME IInv, Next, row' # row
               PROVE  row' # NoRow /\ \E r \in Reqs : Kept(r)
    BY DEF vars
  <2>1. PICK r \in Reqs : Commit(r)
    BY DEF Next, Begin, BeginGet, BeginMine, BeginUpdate, BeginReading, BeginVision,
           BeginPublic, Insert, Serve, ServeSwallowing, Abort
  <2>2. row' # NoRow
    BY <2>1, CommitStores, RequestsAssumption
  <2> DEFINE q == req[r]
             mine   == IF q.made THEN Blank ELSE row
             before == IF row = NoRow THEN Blank ELSE row
  <2>3. /\ q.pc = "commit"
        /\ row' = [k \in Attributes |-> IF k \in Dirty(q) THEN Applied(q)[k] ELSE mine[k]]
    BY <2>1 DEF Commit
  <2>4. mine = before
    BY <2>3 DEF IInv, OneRow
  <2> HIDE DEF mine, before
  <2>5. \A k \in Attributes \ Named(q) : row'[k] = before[k]
    BY <2>3, <2>4 DEF Dirty, Applied
  <2>6. \A k \in Named(q) : \/ row'[k] = q.updates[k]
                            \/ q.updates[k] = q.base[k] /\ row'[k] = before[k]
    BY <2>3, <2>4 DEF Dirty, Applied, Named
  <2> QED
    BY <2>2, <2>3, <2>5, <2>6 DEF before
<1> QED
  BY Invariance, <1>1, PTL DEF Spec, NamedKeysOnly

-----------------------------------------------------------------------------
(* The order of the list *)

\* The places tell which of two entries is ahead: whatever is ahead of the one
\* ahead is ahead of the other too.
LEMMA PlacesOrder ==
  ASSUME NEW n \in Nat, NEW sunk,
         NEW i \in 1..n, NEW j \in 1..n, Ahead(sunk, i, j)
  PROVE  Place(sunk, n, i) < Place(sunk, n, j)
<1> DEFINE all  == 1..n
           A(x) == {z \in all : Ahead(sunk, z, x)}
<1>1. IsFiniteSet(all)
  BY FS_Interval
<1>2. A(i) \subseteq A(j) /\ i \in A(j) /\ i \notin A(i)
  <2>1. ASSUME NEW x \in all, Ahead(sunk, x, i) PROVE Ahead(sunk, x, j)
    BY <2>1 DEF Ahead
  <2>2. ~Ahead(sunk, i, i)
    BY DEF Ahead
  <2> QED
    BY <2>1, <2>2
<1>3. IsFiniteSet(A(j))
  BY <1>1, FS_Subset
<1>4. /\ Cardinality(A(i)) <= Cardinality(A(j))
      /\ Cardinality(A(i)) # Cardinality(A(j)) /\ IsFiniteSet(A(i))
  BY <1>2, <1>3, FS_Subset
<1>5. Cardinality(A(i)) \in Nat /\ Cardinality(A(j)) \in Nat
  BY <1>3, <1>4, FS_CardinalityType
<1>6. Place(sunk, n, i) = 1 + Cardinality(A(i)) /\ Place(sunk, n, j) = 1 + Cardinality(A(j))
  BY DEF Place
<1> HIDE DEF A
<1> QED
  BY <1>4, <1>5, <1>6

\* Of two entries one is ahead.
LEMMA OneAhead ==
  ASSUME NEW n \in Nat, NEW sunk,
         NEW i \in 1..n, NEW j \in 1..n, i # j
  PROVE  Ahead(sunk, i, j) \/ Ahead(sunk, j, i)
BY DEF Ahead

\* Every place is taken by one entry: the places of two differ, and there are no
\* more places than entries.
LEMMA PlacesTaken ==
  ASSUME NEW n \in Nat, NEW sunk
  PROVE  /\ \A i \in 1..n : Place(sunk, n, i) \in 1..n
         /\ \A k \in 1..n : \E i \in 1..n : Place(sunk, n, i) = k
<1> DEFINE all == 1..n
           f   == [i \in all |-> Place(sunk, n, i)]
<1>1. IsFiniteSet(all) /\ Cardinality(all) = n
  BY FS_Interval
<1>2. ASSUME NEW i \in all PROVE Place(sunk, n, i) \in all
  <2> DEFINE A == {j \in all : Ahead(sunk, j, i)}
  <2>1. A \subseteq all \ {i}
    BY <1>1 DEF Ahead
  <2>2. IsFiniteSet(all \ {i}) /\ Cardinality(all \ {i}) = n - 1
    BY <1>1, FS_RemoveElement
  <2>3. IsFiniteSet(A) /\ Cardinality(A) <= n - 1
    BY <2>1, <2>2, FS_Subset
  <2>4. Cardinality(A) \in Nat
    BY <2>3, FS_CardinalityType
  <2>5. Place(sunk, n, i) = 1 + Cardinality(A)
    BY DEF Place
  <2> HIDE DEF A
  <2> QED
    BY <1>1, <2>3, <2>4, <2>5
<1>3. ASSUME NEW i \in all, NEW j \in all, Place(sunk, n, i) = Place(sunk, n, j)
      PROVE  i = j
  <2>1. Place(sunk, n, i) \in Int /\ Place(sunk, n, j) \in Int
    BY <1>1, <1>2
  <2> QED
    BY <1>3, <2>1, OneAhead, PlacesOrder
<1>4. f \in Injection(all, all)
  BY <1>2, <1>3 DEF Injection, IsInjective
<1>5. f \in Surjection(all, all)
  BY <1>1, <1>4, FS_Injection
<1> QED
  BY <1>2, <1>5 DEF Surjection

\* Eligibility ranks and does not filter (recommendation.py:10-29), whatever the
\* search found and whoever asks.
THEOREM NothingFiltered == Spec => []RankedNotFiltered
<1>1. ASSUME NEW p PROVE
        LET list == Ranked(Found, p)
            At(l, s) == CHOOSE i \in 1..Len(l) : l[i] = s
        IN /\ Len(list) = Len(Found)
           /\ \A i \in 1..Len(Found) : \E j \in 1..Len(list) : list[j] = Found[i]
           /\ \A i, j \in 1..Len(list) : i < j =>
                \/ Verdict(list[i], p) # "fail" /\ Verdict(list[j], p) = "fail"
                \/ /\ Verdict(list[i], p) = "fail" <=> Verdict(list[j], p) = "fail"
                   /\ At(Found, list[i]) < At(Found, list[j])
  <2> DEFINE n    == Len(Found)
             sunk == {i \in 1..n : Demoted(Found[i], p)}
             list == Ranked(Found, p)
             At(l, s) == CHOOSE i \in 1..Len(l) : l[i] = s
             Entry(k) == CHOOSE i \in 1..n : Place(sunk, n, i) = k
  <2>1. Found \in Seq(Schemes) /\ n \in Nat
    BY RequestsAssumption
  <2>2. ASSUME NEW k \in 1..n PROVE Entry(k) \in 1..n /\ Place(sunk, n, Entry(k)) = k
    BY <2>1, PlacesTaken
  <2>3. ASSUME NEW k \in 1..n PROVE list[k] = Found[Entry(k)]
    BY DEF Ranked
  <2>4. Len(list) = n
    BY <2>1 DEF Ranked
  <2> HIDE DEF n, list, Entry, sunk
  <2>5. ASSUME NEW i \in 1..n PROVE \E k \in 1..n : list[k] = Found[i]
    <3>1. Place(sunk, n, i) \in 1..n
      BY <2>1, PlacesTaken
    <3> DEFINE k == Place(sunk, n, i)
    <3>2. Entry(k) \in 1..n /\ Place(sunk, n, Entry(k)) = Place(sunk, n, i)
      BY <2>2, <3>1
    <3>3. ~Ahead(sunk, Entry(k), i) /\ ~Ahead(sunk, i, Entry(k))
      <4>1. Place(sunk, n, i) \in Int
        BY <2>1, <3>1
      <4> QED
        BY <2>1, <3>2, <4>1, PlacesOrder
    <3>4. Entry(k) = i
      BY <2>1, <3>2, <3>3, OneAhead
    <3> QED
      BY <2>3, <3>1, <3>4
  <2>6. ASSUME NEW k \in 1..n PROVE At(Found, list[k]) = Entry(k)
    BY <2>2, <2>3, FoundAssumption DEF n
  <2>7. ASSUME NEW k \in 1..n, NEW l \in 1..n, k < l
        PROVE  \/ Verdict(list[k], p) # "fail" /\ Verdict(list[l], p) = "fail"
               \/ /\ Verdict(list[k], p) = "fail" <=> Verdict(list[l], p) = "fail"
                  /\ At(Found, list[k]) < At(Found, list[l])
    <3>1. k \in Int /\ l \in Int
      BY <2>1
    <3>2. ~Ahead(sunk, Entry(l), Entry(k)) /\ Entry(k) # Entry(l)
      BY <2>1, <2>2, <2>7, <3>1, PlacesOrder
    <3>3. Ahead(sunk, Entry(k), Entry(l))
      BY <2>1, <2>2, <3>2, OneAhead
    <3> QED
      BY <2>2, <2>3, <2>6, <3>3 DEF Ahead, Demoted, sunk
  <2> QED
    BY <2>4, <2>5, <2>7 DEF list, n
<1>2. RankedNotFiltered
  BY <1>1 DEF RankedNotFiltered
<1> QED
  BY <1>2, PTL

-----------------------------------------------------------------------------
(* The rules *)

\* Whatever a source asks for, no two of its rules collide in the unique
\* constraint of scheme_eligibility_rules, which would abort the import
\* (eligibility_translator.py:133-142, db/models/scheme.py:410-416).
THEOREM RulesUnique ==
  ASSUME NEW s \in Schemes, NEW g \in Groups,
         NEW a \in Translated(Source[s][g], g), NEW b \in Translated(Source[s][g], g),
         a.key = b.key, a.op = b.op
  PROVE  a = b
<1> DEFINE block == Source[s][g]
           Flag(n)  == [group |-> g, key |-> Flags[n].key, op |-> "eq", value |-> Flags[n].value]
           Bound(n) == [group |-> g, key |-> Bounds[n].key, op |-> Bounds[n].op,
                        value |-> block[n]]
<1>1. \A n \in AskedFlags(block) : n \in DOMAIN Flags /\ n \in DOMAIN block /\ block[n] = Yes
  BY DEF AskedFlags
<1>2. \A n \in AskedBounds(block) : n \in DOMAIN Bounds
  BY DEF AskedBounds
<1>3. \A n \in AskedBounds(block) : Bounds[n].op \in {"gte", "lte"} /\ Bounds[n] =
         [key |-> Bounds[n].key, op |-> Bounds[n].op]
  BY <1>2, MapsAssumption
<1>4. /\ \/ \E n \in AskedFlags(block)  : a = Flag(n)
         \/ \E n \in AskedBounds(block) : a = Bound(n)
      /\ \/ \E n \in AskedFlags(block)  : b = Flag(n)
         \/ \E n \in AskedBounds(block) : b = Bound(n)
  BY DEF Translated
<1>5. ASSUME NEW m \in AskedFlags(block), NEW n \in AskedFlags(block), a = Flag(m), b = Flag(n)
      PROVE  m = n
  <2>1. Flags[m].key = Flags[n].key
    BY <1>5
  <2>2. m = n \/ {m, n} = {MustBe, MustNotBe}
    BY <1>1, <2>1, KeysAssumption
  <2>3. CASE {m, n} = {MustBe, MustNotBe}
    <3>1. Contradictory(block)
      BY <1>1, <2>3 DEF Contradictory
    <3>2. Flags[m].key = Flags[MustBe].key
      BY <2>1, <2>3
    <3> QED
      BY <3>1, <3>2 DEF AskedFlags
  <2> QED
    BY <2>2, <2>3
<1>6. ASSUME NEW m \in AskedBounds(block), NEW n \in AskedBounds(block), a = Bound(m), b = Bound(n)
      PROVE  m = n
  <2>1. Bounds[m] = Bounds[n]
    BY <1>3, <1>6
  <2> QED
    BY <1>2, <2>1, KeysAssumption
<1>7. ASSUME NEW m \in AskedFlags(block), NEW n \in AskedBounds(block)
      PROVE  Flag(m).op # Bound(n).op
  BY <1>3
<1> QED
  BY <1>4, <1>5, <1>6, <1>7

-----------------------------------------------------------------------------
(* What was read from a document *)

\* Every answer read from a document or fetched for an identity fits its
\* attribute, and the table admits it.
LEMMA ReadingsFit ==
  ASSUME NEW u \in Readings, NEW k \in Attributes, u[k] # Untouched
  PROVE  u[k] \in Typed(k) /\ u[k] \in Storable[k]
<1> DEFINE Sound(v) == CASE k = "age"           -> v \in 0..120
                         [] k = "annual_income" -> v \in Incomes
                         [] k = "state_code"    -> v \in Codes \cap Texts
                         [] OTHER               -> v \in Truths
<1>1. \A b \in BOOLEAN : Truth(b) \in Truths
  BY DEF Truth, Truths
<1>2. Yes \in Truths
  BY DEF Truths
<1>3. MH \in Codes \cap Texts
  BY ExtractionAssumption DEF Codes
<1>4. ASSUME NEW d \in Documents, u = Body(Read(d)) PROVE Sound(u[k])
  <2>1. k \in DOMAIN Read(d) /\ u[k] = Read(d)[k]
    BY <1>4 DEF Body
  <2>2. d.year \in Nat \cup {None} /\ d.state \in Texts \cup {None} /\ ThisYear \in Nat
    BY ExtractionAssumption
  <2>3. \A year \in Nat : AgeOf(year) \in 0..120
    BY <2>2 DEF AgeOf
  <2>4. d.state # None => d.state \in Codes \cap Texts
    BY <2>2 DEF Codes
  <2>5. CASE k = "age"
    <3>1. u[k] = IF d.year = None THEN 32 ELSE AgeOf(d.year)
      BY <2>1, <2>5 DEF Read
    <3> QED
      BY <2>2, <2>3, <2>5, <3>1
  <2>6. CASE k = "is_woman"
    <3>1. u[k] = Truth("female" \in d.words \/ "male" \notin d.words)
      BY <2>1, <2>6 DEF Read
    <3> QED
      BY <1>1, <2>6, <3>1
  <2>7. CASE k = "state_code"
    <3>1. u[k] = IF d.state = None THEN MH ELSE d.state
      BY <2>1, <2>7 DEF Read
    <3> QED
      BY <1>3, <2>4, <2>7, <3>1
  <2>8. CASE k \notin {"age", "is_woman", "state_code"}
    <3>1. u[k] = Yes /\ k \in {"is_farmer", "owns_cultivable_land"}
      BY <2>1, <2>8 DEF Read
    <3> QED
      BY <1>2, <3>1
  <2> QED
    BY <2>5, <2>6, <2>7, <2>8
<1>5. ASSUME NEW h \in Identities, u = Body(Fetched(h)) PROVE Sound(u[k])
  <2> DEFINE farmer == h % 3 = 0
             student == ~farmer /\ FetchedAge(h) <= 24
             n == Len(StateCodes)
  <2>1. k \in DOMAIN Fetched(h) /\ u[k] = Fetched(h)[k]
    BY <1>5 DEF Body
  <2>2. h \in Nat
    BY ExtractionAssumption
  <2>3. FetchedAge(h) \in 0..120
    BY <2>2 DEF FetchedAge
  <2>4. StateCodes[1 + (h % n)] \in Codes \cap Texts
    <3>1. n \in Nat \ {0}
      BY ExtractionAssumption
    <3> HIDE DEF n
    <3>2. 1 + (h % n) \in 1..n
      BY <2>2, <3>1
    <3> QED
      BY <3>2, ExtractionAssumption DEF Codes, n
  <2>5. CASE k = "age"
    BY <2>1, <2>3, <2>5 DEF Fetched
  <2>6. CASE k = "annual_income"
    <3>1. u[k] = IF farmer THEN 90000 ELSE IF student THEN 150000 ELSE 180000
      BY <2>1, <2>6 DEF Fetched
    <3> QED
      BY <2>6, <3>1 DEF Incomes
  <2>7. CASE k = "state_code"
    <3>1. u[k] = StateCodes[1 + (h % n)]
      BY <2>1, <2>7 DEF Fetched
    <3> QED
      BY <2>4, <2>7, <3>1
  <2>8. CASE k \in {"is_woman", "is_rural"}
    <3>1. u[k] = Truth(h % 2 = 0)
      BY <2>1, <2>8 DEF Fetched
    <3> QED
      BY <1>1, <2>8, <3>1
  <2>9. CASE k \notin {"age", "annual_income", "state_code", "is_woman", "is_rural"}
    <3>1. u[k] = Yes
      BY <2>1, <2>9 DEF Fetched
    <3> QED
      BY <1>2, <2>9, <3>1
  <2> QED
    BY <2>5, <2>6, <2>7, <2>8, <2>9
<1>6. Sound(u[k])
  BY <1>4, <1>5 DEF Readings
<1>7. u[k] \in Answers \cup {Untouched}
  BY RequestsAssumption
<1>8. u[k] \in 0..120 \cup Incomes => u[k] \in Numbers
  BY <1>7, TableAssumption DEF Answers, Values
<1>9. CASE k = "age"
  BY <1>6, <1>8, <1>9, TableAssumption DEF Typed
<1>10. CASE k = "annual_income"
  BY <1>6, <1>8, <1>10, TableAssumption DEF Typed
<1>11. CASE k = "state_code"
  BY <1>6, <1>11, TableAssumption DEF Typed
<1>12. CASE k \notin {"age", "annual_income", "state_code"}
  BY <1>6, <1>12, TableAssumption DEF Typed
<1> QED
  BY <1>9, <1>10, <1>11, <1>12

\* A request that saves a reading carries the whole of it.
Whole == \A r \in Reqs : req[r].kind = "reading" => req[r].updates \in Readings

LEMMA WholeStep == IInv /\ Whole /\ [Next]_vars => Whole'
<1> SUFFICES ASSUME IInv, Whole, [Next]_vars, NEW z \in Reqs, req'[z].kind = "reading"
             PROVE  req'[z].updates \in Readings
  BY DEF Whole
<1>1. req \in [Reqs -> Request]
  BY DEF IInv, TypeOK
<1>2. CASE UNCHANGED vars
  BY <1>2 DEF vars, Whole
<1>3. CASE Next
  <2>1. PICK r \in Reqs :
          \/ \E kind \in {"get", "mine"} : Begin(r, kind, Asked)
          \/ \E u \in Updates : Begin(r, "put", u)
          \/ \E u \in Readings : Begin(r, "reading", u)
          \/ \E u \in Vision : Begin(r, "vision", u)
          \/ \E p \in Submitted : BeginPublic(r, p)
          \/ Insert(r) \/ Serve(r) \/ ServeSwallowing(r) \/ Commit(r) \/ Abort(r)
    BY <1>3 DEF Next, BeginGet, BeginMine, BeginUpdate, BeginReading, BeginVision
  <2>2. CASE z # r
    <3>1. req'[z] = req[z]
      BY <2>1, <2>2, <1>1 DEF Begin, BeginPublic, Insert, Serve, ServeSwallowing, Commit, Abort, End
    <3> QED
      BY <3>1 DEF Whole
  <2>3. CASE z = r
    <3>1. CASE \E u \in Readings : Begin(r, "reading", u)
      BY <3>1, <2>3, <1>1 DEF Begin
    <3>2. ASSUME NEW kind, kind # "reading", NEW u, Begin(r, kind, u) PROVE FALSE
      BY <3>2, <2>3, <1>1 DEF Begin
    <3>3. ~ \E p \in Submitted : BeginPublic(r, p)
      BY <2>3, <1>1 DEF BeginPublic, Idle
    <3>4. ~ End(r)
      BY <2>3, <1>1 DEF End, Idle
    <3>5. ~ ServeSwallowing(r)
      <4>1. SUFFICES ASSUME ServeSwallowing(r) PROVE FALSE
        OBVIOUS
      <4>2. PICK kept : req' = [req EXCEPT ![r].pc = "commit", ![r].updates = kept]
        BY <4>1 DEF ServeSwallowing
      <4>3. req[r].kind = "reading"
        BY <4>2, <2>3, <1>1 DEF Request
      <4>4. \A k \in Named(req[r]) : Fits(k, req[r].updates[k])
        BY <4>3, ReadingsFit DEF Whole, Named, Fits
      <4> QED
        BY <4>1, <4>4 DEF ServeSwallowing
    <3>6. CASE Insert(r)
      <4>1. req' = [req EXCEPT ![r].pc = "serve", ![r].made = TRUE]
        BY <3>4, <3>6 DEF Insert
      <4> QED
        BY <4>1, <2>3, <1>1 DEF Whole, Request
    <3>7. CASE Serve(r)
      <4>1. req' = [req EXCEPT ![r].pc = "commit"]
        BY <3>4, <3>7 DEF Serve
      <4> QED
        BY <4>1, <2>3, <1>1 DEF Whole, Request
    <3> QED
      BY <2>1, <3>1, <3>2, <3>3, <3>4, <3>5, <3>6, <3>7 DEF Commit, Abort
  <2> QED
    BY <2>2, <2>3
<1> QED
  BY <1>2, <1>3

\* A document or an identity is saved whole, for any document and any identity
\* (profile_automation.py:293-310, routers/profile_automation.py:84, :115).
THEOREM ReadingsSavedWhole == Spec => ReadingsStored
<1> DEFINE Saved == \A r \in Reqs : Commit(r) /\ req[r].kind = "reading" =>
                      /\ req[r].updates \in Readings /\ row' # NoRow
                      /\ \A k \in Dirty(req[r]) : row'[k] = req[r].updates[k]
<1>1. Init => Whole
  BY DEF Init, Whole, Idle
<1>2. Spec => []Whole
  BY <1>1, WholeStep, Invariance, PTL DEF Spec
<1>3. IInv /\ Whole /\ [Next]_vars => [Saved]_vars
  <2> SUFFICES ASSUME IInv, Whole, NEW r \in Reqs, Commit(r), req[r].kind = "reading"
               PROVE  /\ req[r].updates \in Readings /\ row' # NoRow
                      /\ \A k \in Dirty(req[r]) : row'[k] = req[r].updates[k]
    OBVIOUS
  <2>1. req[r].updates \in Readings
    BY DEF Whole
  <2>2. \A k \in Dirty(req[r]) : /\ k \in Attributes /\ req[r].updates[k] # Untouched
                                 /\ Stored(r)[k] = req[r].updates[k]
    BY DEF Dirty, Applied, Named, Stored
  <2>3. \A k \in Dirty(req[r]) : Stored(r)[k] \in Storable[k]
    BY <2>1, <2>2, ReadingsFit
  <2>4. row' = Stored(r) /\ Stored(r) \in Profiles
    BY <2>3, CommitStores
  <2> QED
    BY <2>1, <2>2, <2>4, RequestsAssumption
<1> QED
  BY <1>2, <1>3, Invariance, PTL DEF Spec, ReadingsStored
=============================================================================
