----------------------------- MODULE MCProfiles -----------------------------
(* Two devices of one account; three flags, a number and a text of the real  *)
(* vocabulary, and schemes whose sources cover an empty block of either      *)
(* kind, both bounds of a number, a requirement and its opposite, the        *)
(* contradictory pair, and values that ask for nothing.                      *)
EXTENDS Profiles, TLC

CONSTANTS KL, digits, word, widow, youth, local, anyone, odd

MCKind  == "is_woman" :> "boolean" @@ "is_farmer" :> "boolean"
        @@ "is_govt_employee" :> "boolean"
        @@ "age" :> "numeric" @@ "state_code" :> "text"
MCFloat == KL :> Unanswered @@ MH :> Unanswered @@ digits :> 32 @@ word :> NaN

Flag(k, v) == [key |-> k, value |-> v]
MCFlags  == "is_woman" :> Flag("is_woman", Yes)
         @@ "is_farmer" :> Flag("is_farmer", Yes)
         @@ "is_govt_employee" :> Flag("is_govt_employee", Yes)
         @@ "not_govt_employee" :> Flag("is_govt_employee", No)
MCBounds == "min_age" :> [key |-> "age", op |-> "gte"]
         @@ "max_age" :> [key |-> "age", op |-> "lte"]

Blob(all, any) == [g \in {"all", "any"} |-> IF g = "all" THEN all ELSE any]
MCSource == widow  :> Blob("is_woman" :> Yes @@ "min_age" :> 32, <<>>)
         @@ youth  :> Blob("max_age" :> 1 @@ "is_farmer" :> No, "is_woman" :> Yes)
         @@ local  :> Blob(<<>>, "min_age" :> 32)
         @@ anyone :> Blob("is_govt_employee" :> Yes @@ "not_govt_employee" :> Yes
                           @@ "max_age" :> Unanswered @@ "born_after" :> Unanswered, <<>>)
         @@ odd    :> Blob("not_govt_employee" :> Yes @@ "min_age" :> Yes,
                           "is_govt_employee" :> Yes @@ "is_farmer" :> Yes)

InState == [group |-> "any", key |-> "state_code", op |-> "eq", value |-> KL]
MCCurated == [s \in Schemes |-> IF s \in {youth, local} THEN {InState} ELSE {}]

MCStorable == [k \in Attributes |-> CASE k = "age"        -> {1, 32, 120}
                                      [] k = "state_code" -> {KL, MH}
                                      [] OTHER            -> {Yes, No}]

Answered(w, f, g, a, s) == "is_woman" :> w @@ "is_farmer" :> f @@ "is_govt_employee" :> g
                           @@ "age" :> a @@ "state_code" :> s
X == Untouched
MCUpdates == {Answered(Yes, X, No, 32, X), Answered(Unanswered, X, X, X, X),
              Answered(X, X, X, 130, X), Answered(No, X, X, X, 1)}
MCVision == {Answered(No, digits, X, X, X)}
MCSubmitted == {Answered(Yes, Yes, No, digits, 1), Answered(digits, No, No, word, KL),
                Answered(Yes, Yes, Yes, Yes, KL), Answered(digits, Yes, digits, KL, Unanswered),
                Answered(No, No, Yes, digits, MH)}
MCFound == <<youth, odd, anyone, widow, local>>

\* A year of birth that is out of range; an identity of 32 years.
MCDocuments == {[words |-> {"kisan", "male"}, year |-> 1850, state |-> KL]}
MCStateCodes == <<MH, KL>>

Symmetry == Permutations(Reqs)
=============================================================================
