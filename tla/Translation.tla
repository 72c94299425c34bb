---------------------------- MODULE Translation ----------------------------
(***************************************************************************)
(* The rules of a scheme: what services/eligibility_translator.py makes of *)
(* its `eligibility_json` when the scheme is imported, and what an         *)
(* operator entered by hand.                                               *)
(*                                                                         *)
(* A source has two blocks, each a dictionary from source keys to values   *)
(* of any type.  `false`, `null` and whatever is neither `true` nor a      *)
(* number where one is expected ask for nothing.  Labels and warnings are  *)
(* wording, and numbers are whole.                                         *)
(***************************************************************************)
EXTENDS Integers, Sequences

CONSTANTS
  Schemes, Attributes,
  Kind,        \* attribute_type of each attribute
  Yes, No,     \* the values True and False
  Numbers, Texts, Unanswered,
  Flags,       \* BOOLEAN_KEY_MAP: the attribute and the value a key asks for
  Bounds,      \* NUMERIC_KEY_MAP: the attribute and the comparison
  Source,      \* eligibility_json of each scheme, by group
  Curated      \* rules entered by an operator

Truths  == {Yes, No}
Values  == Truths \cup Numbers \cup Texts
Answers == Values \cup {Unanswered}

Typed(k) == IF Kind[k] = "boolean" THEN Truths
            ELSE IF Kind[k] = "numeric" THEN Numbers ELSE Texts

Groups == {"all", "any"}
Rule == [group : Groups, key : Attributes, op : {"eq", "gte", "lte"}, value : Values]

\* What exactly_one_value and known_attribute_key admit, and what the matcher
\* expects: equality for booleans and texts, bounds for numbers.
RuleFits(rule) ==
  /\ rule \in Rule /\ rule.value \in Typed(rule.key)
  /\ rule.op = "eq" <=> Kind[rule.key] # "numeric"

MustBe    == "is_govt_employee"
MustNotBe == "not_govt_employee"

ASSUME MapsAssumption ==
  /\ Kind \in [Attributes -> {"boolean", "numeric", "text"}]
  /\ Flags \in [DOMAIN Flags -> [key : Attributes, value : Truths]]
  /\ Bounds \in [DOMAIN Bounds -> [key : Attributes, op : {"gte", "lte"}]]
  /\ \A n \in DOMAIN Flags  : Kind[Flags[n].key] = "boolean"
  /\ \A n \in DOMAIN Bounds : Kind[Bounds[n].key] = "numeric"

\* No two keys stand for one attribute, but for the pair that is its own negation;
\* no two bounds for one comparison.
ASSUME KeysAssumption ==
  /\ {MustBe, MustNotBe} \subseteq DOMAIN Flags
  /\ Flags[MustBe].key = Flags[MustNotBe].key
  /\ \A m, n \in DOMAIN Flags : Flags[m].key = Flags[n].key =>
       m = n \/ {m, n} = {MustBe, MustNotBe}
  /\ \A m, n \in DOMAIN Bounds : Bounds[m] = Bounds[n] => m = n

ASSUME SourceAssumption ==
  /\ DOMAIN Source = Schemes
  /\ \A s \in Schemes : DOMAIN Source[s] = Groups
  /\ Curated \in [Schemes -> SUBSET {rule \in Rule : RuleFits(rule)}]

-----------------------------------------------------------------------------
\* _has_contradictory_govt_flags
Contradictory(block) ==
  /\ {MustBe, MustNotBe} \subseteq DOMAIN block
  /\ block[MustBe] = Yes /\ block[MustNotBe] = Yes

\* The flags a block asks for; neither of a contradictory pair.
AskedFlags(block) ==
  {n \in DOMAIN Flags \cap DOMAIN block :
     /\ block[n] = Yes
     /\ ~(Contradictory(block) /\ Flags[n].key = Flags[MustBe].key)}
AskedBounds(block) == {n \in DOMAIN Bounds \cap DOMAIN block : block[n] \in Numbers}

\* Mutant: of the contradictory pair both become rules.
TranslatedBlindly(block, g) ==
  {[group |-> g, key |-> Flags[n].key, op |-> "eq", value |-> Flags[n].value] :
     n \in {f \in DOMAIN Flags \cap DOMAIN block : block[f] = Yes}}
  \cup
  {[group |-> g, key |-> Bounds[n].key, op |-> Bounds[n].op, value |-> block[n]] :
     n \in AskedBounds(block)}
\* _translate_block
Translated(block, g) ==
  {[group |-> g, key |-> Flags[n].key, op |-> "eq", value |-> Flags[n].value] :
     n \in AskedFlags(block)}
  \cup
  {[group |-> g, key |-> Bounds[n].key, op |-> Bounds[n].op, value |-> block[n]] :
     n \in AskedBounds(block)}

\* scheme_eligibility_rules, once the scheme is imported.
Rules == [s \in Schemes |-> Curated[s] \cup UNION {Translated(Source[s][g], g) : g \in Groups}]
=============================================================================
