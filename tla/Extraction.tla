----------------------------- MODULE Extraction -----------------------------
(***************************************************************************)
(* services/profile_automation.py: the answers read out of a document or   *)
(* fetched for an identity number, as the body of an update of the         *)
(* profile.                                                                *)
(*                                                                         *)
(* Of a document's text only what the patterns look for is kept: the words *)
(* it shows, a year of birth and the first state it names.  Names,         *)
(* numbers, districts and the confidence are presentation.  An identity is *)
(* the hash of its number; the four sample personas are bodies of the same *)
(* kind.  What the vision model answers is anything.                       *)
(***************************************************************************)
EXTENDS Eligibility

CONSTANTS
  Documents,  \* the texts that are scanned
  Identities, \* hashes of identity numbers
  StateCodes,     \* STATE_NAME_TO_CODE, a sequence of codes
  MH,         \* the code of Maharashtra
  ThisYear,
  Untouched,  \* no such key in the body
  None        \* not found in the text

Words == {"pan", "voter_id", "ration_card", "kisan", "female", "male"}
ASSUME ExtractionAssumption ==
  /\ Documents \subseteq [words : SUBSET Words, year : Nat \cup {None},
                          state : Texts \cup {None}]
  /\ Identities \subseteq Nat /\ ThisYear \in Nat
  /\ StateCodes \in Seq(Texts) /\ StateCodes # <<>> /\ MH \in Texts

\* The body of an update that holds these answers; attributes outside the
\* vocabulary are passed over (apply_partial_update).
Body(answers) == [k \in Attributes |-> IF k \in DOMAIN answers THEN answers[k] ELSE Untouched]
Truth(b) == IF b THEN Yes ELSE No

-----------------------------------------------------------------------------
(* A document: parse_document_text_heuristic *)

\* The kinds of document are tried in this order.
IsKisanCard(d) == "kisan" \in d.words /\ d.words \cap {"pan", "voter_id", "ration_card"} = {}

\* Mutant: the age is not clamped.
PlainAge(year) == ThisYear - year
\* Whatever year is printed, the age is one that the table accepts.
AgeOf(year) == LET age == ThisYear - year IN
  IF age < 1 THEN 1 ELSE IF age > 120 THEN 120 ELSE age

\* What is not found gets a default, which overwrites the user's own answer.
Read(d) ==
  [k \in {"age", "is_woman", "state_code"}
         \cup (IF IsKisanCard(d) THEN {"is_farmer", "owns_cultivable_land"} ELSE {}) |->
     CASE k = "age"        -> IF d.year = None THEN 32 ELSE AgeOf(d.year)
       [] k = "is_woman"   -> Truth("female" \in d.words \/ "male" \notin d.words)
       [] k = "state_code" -> IF d.state = None THEN MH ELSE d.state
       [] OTHER            -> Yes]

-----------------------------------------------------------------------------
(* An identity: fetch_digilocker_profile *)

Incomes == {90000, 150000, 180000}
FetchedAge(h) == 22 + (h % 48)
Fetched(h) ==
  LET farmer == h % 3 = 0
      student == ~farmer /\ FetchedAge(h) <= 24
  IN [k \in {"age", "is_woman", "state_code", "is_rural", "annual_income"}
            \cup (IF h % 3 = 1 THEN {"is_obc", "has_bpl_card"} ELSE {})
            \cup (IF h % 3 = 2 THEN {"is_sc_st"} ELSE {})
            \cup (IF farmer THEN {"is_farmer", "owns_cultivable_land"} ELSE {})
            \cup (IF student THEN {"is_student"} ELSE {}) |->
        CASE k = "age"           -> FetchedAge(h)
          [] k = "is_woman"      -> Truth(h % 2 = 0)
          [] k = "is_rural"      -> Truth(h % 2 = 0)
          [] k = "state_code"    -> StateCodes[1 + (h % Len(StateCodes))]
          [] k = "annual_income" -> IF farmer THEN 90000 ELSE IF student THEN 150000 ELSE 180000
          [] OTHER               -> Yes]

\* The codes that a document or an identity can give.
Codes == {StateCodes[i] : i \in 1..Len(StateCodes)} \cup {MH}
         \cup ({d.state : d \in Documents} \ {None})

\* What the two endpoints may try to save.
Readings == {Body(Read(d)) : d \in Documents} \cup {Body(Fetched(h)) : h \in Identities}
=============================================================================
