---------------------------- MODULE Eligibility ----------------------------
(***************************************************************************)
(* Whom a scheme is for: the four-valued matcher                           *)
(* (services/eligibility_matcher.py) and the order it gives a result list  *)
(* (services/recommendation.py).  Both are pure functions of a profile and *)
(* of the rules stored for each scheme.                                    *)
(*                                                                         *)
(* A profile maps every attribute to an answer or to Unanswered: keys that *)
(* are absent and keys that are null read the same through profile.get,    *)
(* and the routes drop the keys they do not know.  Labels and explanations *)
(* are wording; numbers are whole.                                         *)
(***************************************************************************)
EXTENDS Translation, FiniteSets

CONSTANTS
  Float,  \* what float() makes of a text: a number, NaN, or Unanswered for a
          \* ValueError
  NaN

ASSUME ValuesAssumption ==
  /\ Numbers \subseteq Int /\ Yes # No
  /\ Truths \cap Numbers = {} /\ Truths \cap Texts = {} /\ Numbers \cap Texts = {}
  /\ Unanswered \notin Values /\ NaN \notin Numbers \cup {Unanswered}
  /\ Float \in [Texts -> Numbers \cup {NaN, Unanswered}]

Profiles == [Attributes -> Answers]
\* A profile whose answers fit their attributes, as every stored one does.
WellTyped(p) == \A k \in Attributes : p[k] \in Typed(k) \cup {Unanswered}

-----------------------------------------------------------------------------
(* One rule *)

\* _coerce_numeric
AsNumber(raw) == IF raw \in Numbers THEN raw
                 ELSE IF raw \in Texts THEN Float[raw] ELSE Unanswered

\* An answer the rule can be evaluated on; _coerce_boolean takes only booleans.
Usable(rule, raw) ==
  /\ raw # Unanswered
  /\ rule.value \in Truths  => raw \in Truths
  /\ rule.value \in Numbers => AsNumber(raw) # Unanswered

\* No comparison with NaN holds.
Holds(rule, raw) ==
  \/ rule.op = "eq" /\ raw = rule.value
  \/ /\ rule.op # "eq" /\ AsNumber(raw) \in Numbers
     /\ IF rule.op = "gte" THEN AsNumber(raw) >= rule.value
                           ELSE AsNumber(raw) <= rule.value

\* Mutant: a missing answer counts as a negative one.
MissingFails(rule, p) == IF Holds(rule, p[rule.key]) THEN "pass" ELSE "fail"
\* _evaluate_rule
RuleState(rule, p) ==
  IF ~Usable(rule, p[rule.key]) THEN "unknown"
  ELSE IF Holds(rule, p[rule.key]) THEN "pass" ELSE "fail"

-----------------------------------------------------------------------------
(* A scheme *)

\* Of the states that are present, the first in an order of domination.
Dominant(first, second, third, states) ==
  IF first \in states THEN first
  ELSE IF second \in states THEN second
  ELSE IF third \in states THEN third ELSE "not_applicable"

AndCombine(states) == Dominant("fail", "unknown", "pass", states)
OrCombine(states)  == Dominant("pass", "unknown", "fail", states)

Group(g, s) == {rule \in Rules[s] : rule.group = g}
States(g, s, p) == {RuleState(rule, p) : rule \in Group(g, s)}

\* evaluate_scheme
Verdict(s, p) == AndCombine({AndCombine(States("all", s, p)),
                               OrCombine(States("any", s, p))})

\* Mutant: only the mandatory rules are looked through.
MissingMandatory(s, p) ==
  {rule.key : rule \in {z \in Group("all", s) : RuleState(z, p) = "unknown"}}
\* missing_attributes
Missing(s, p) ==
  {rule.key : rule \in {z \in Rules[s] : RuleState(z, p) = "unknown"}}

-----------------------------------------------------------------------------
(* A result list *)

\* Mutant: everything short of a pass is demoted.
NotPassed(s, p) == Verdict(s, p) # "pass"
\* The sort key of recommend().
Demoted(s, p) == Verdict(s, p) = "fail"

\* A stable sort on it leaves entry i ahead of entry j, where sunk are those with
\* the later key, and so puts entry i behind all that are ahead of it.
Ahead(sunk, i, j) ==
  \/ i \notin sunk /\ j \in sunk
  \/ (i \in sunk <=> j \in sunk) /\ i < j
Place(sunk, n, i) == 1 + Cardinality({j \in 1..n : Ahead(sunk, j, i)})
Ranked(found, p) ==
  LET n    == Len(found)
      sunk == {i \in 1..n : Demoted(found[i], p)}
  IN  [k \in 1..n |-> found[CHOOSE i \in 1..n : Place(sunk, n, i) = k]]

-----------------------------------------------------------------------------
(* What the verdicts mean *)

\* The true values an answer leaves open: an answer that cannot be read leaves
\* all of them.
Open(k, raw) ==
  IF Kind[k] = "numeric" /\ AsNumber(raw) \in Numbers THEN {AsNumber(raw)}
  ELSE IF raw \in Typed(k) THEN {raw} ELSE Typed(k)

\* What a profile may stand for, in the attributes that a scheme asks about.
AsksAbout(s) == {rule.key : rule \in Rules[s]}
Completions(p, s) ==
  {t \in [AsksAbout(s) -> UNION {Open(k, p[k]) : k \in AsksAbout(s)}] :
     \A k \in AsksAbout(s) : t[k] \in Open(k, p[k])}

\* What a block of the source asks of a person of whom everything is known
\* (eligibility_translator.py:3-9, :38-75).
FlagMet(n, t) == t[Flags[n].key] = Flags[n].value
BoundMet(n, v, t) == IF Bounds[n].op = "gte" THEN t[Bounds[n].key] >= v
                                             ELSE t[Bounds[n].key] <= v

AskedCurated(s, g) == {rule \in Curated[s] : rule.group = g}
AsksNothing(s, g) ==
  AskedFlags(Source[s][g]) = {} /\ AskedBounds(Source[s][g]) = {} /\ AskedCurated(s, g) = {}
MeetsAll(s, g, t) ==
  /\ \A n \in AskedFlags(Source[s][g]) : FlagMet(n, t)
  /\ \A n \in AskedBounds(Source[s][g]) : BoundMet(n, Source[s][g][n], t)
  /\ \A rule \in AskedCurated(s, g) : Holds(rule, t[rule.key])
MeetsOne(s, g, t) ==
  \/ \E n \in AskedFlags(Source[s][g]) : FlagMet(n, t)
  \/ \E n \in AskedBounds(Source[s][g]) : BoundMet(n, Source[s][g][n], t)
  \/ \E rule \in AskedCurated(s, g) : Holds(rule, t[rule.key])

\* Two-valued logic: all of the first block, one of the second.
Meets(s, t) == MeetsAll(s, "all", t) /\ (AsksNothing(s, "any") \/ MeetsOne(s, "any", t))

PassEarned(s, p) == Verdict(s, p) = "pass" => \A t \in Completions(p, s) : Meets(s, t)
FailKnown(s, p)  == Verdict(s, p) = "fail" => \A t \in Completions(p, s) : ~Meets(s, t)

\* Every answer of p is still there in q.
Extends(q, p) == \A k \in Attributes : p[k] # Unanswered => q[k] = p[k]
=============================================================================
