--------------------------- MODULE ImporterProofs ---------------------------
(***************************************************************************)
(* What the importer promises, for any files, schemes and number of runs   *)
(* that overlap.  The hard part is the slugs: a run hands them out from a  *)
(* set it read before its first batch, while other runs store schemes; the *)
(* invariant says what such a set still knows of the table, and that an    *)
(* open batch never holds the slug of a scheme stored since.               *)
(***************************************************************************)
EXTENDS Importer, FiniteSetTheorems, WellFoundedInduction, TLAPS

\* Only an open batch has rows of its own, and none of them is held back.
Batches == \A r \in Runs :
  /\ run[r].pc \in {"ready", "terms", "begun"} => run[r].start = run[r].at
  /\ run[r].pc # "batch" => run[r].staged = Nothing
  /\ \A s \in Upserted(r) : s \notin run[r].frozen

\* The categories and tags of a run that has begun exist, or are about to.
TermsReady ==
  /\ \A r \in Runs : run[r].pc = "terms" =>
       Terms[run[r].file] \subseteq terms \cup run[r].missing
  /\ \A r \in Runs : run[r].pc \in {"begun", "batch"} =>
       Terms[run[r].file] \subseteq terms

\* What a run read is still there: its schemes are stored, under slugs it
\* counts as used.
SnapshotStands == \A r \in Runs :
  /\ IsFiniteSet(run[r].used)
  /\ \A s \in Schemes : run[r].body[s] # Absent =>
       s \in Stored /\ slug[s] \in run[r].used

\* Within a run, a scheme of the snapshot keeps its slug, and any other has one
\* that was free.
HandedOut == \A r \in Runs : \A s \in Upserted(r) :
  /\ run[r].staged[s] \in run[r].used
  /\ run[r].body[s] # Absent => run[r].staged[s] = slug[s]
  /\ run[r].body[s] = Absent => \A z \in Schemes :
       run[r].body[z] # Absent => run[r].staged[s] # slug[z]

\* Every scheme has a slug of its own, and so has each that an open batch
\* inserts.
OwnSlugs ==
  /\ \A s, z \in Stored : s # z => slug[s] # slug[z]
  /\ \A r \in Runs : \A s, z \in Upserted(r) : s # z => run[r].staged[s] # run[r].staged[z]
  /\ \A r \in Runs : \A s \in Upserted(r) \ Stored, z \in Stored : run[r].staged[s] # slug[z]
  /\ \A q, r \in Runs : q # r =>
       \A s \in Upserted(r) \ Stored, z \in Upserted(q) \ Stored :
         run[r].staged[s] # run[q].staged[z]

\* field_changes has every difference of the batch, applied or held back.
Noted == \A r \in Runs :
  /\ \A s \in Upserted(r) : Difference(r, s, TRUE) \subseteq run[r].notes
  /\ run[r].pc = "batch" => \A i \in run[r].start + 1..run[r].at :
       Records[run[r].file][i] \in run[r].frozen =>
         Difference(r, Records[run[r].file][i], FALSE) \subseteq run[r].notes

IInv == /\ TypeOK /\ WholeScheme /\ Batches /\ TermsReady /\ SnapshotStands
        /\ HandedOut /\ OwnSlugs /\ Noted

-----------------------------------------------------------------------------
\* Each suffix makes a slug of its own.
LEMMA SuffixesDiffer ==
  ASSUME NEW name \in Slugs, NEW n \in Nat \ {0}
  PROVE  /\ Suffixed(name, n) \in Slugs
         /\ \A m \in Nat \ {0} : m # n => Suffixed(name, m) # Suffixed(name, n)
<1>1. ASSUME NEW m \in Nat \ {0}, m # 1
      PROVE  /\ Suffixed(name, m) \in Slugs /\ Suffixed(name, m) # name
             /\ Suffixed(name, m)[Len(name) + 1] = m
  BY <1>1 DEF Suffixed, Slugs
<1>2. Suffixed(name, 1) = name
  BY DEF Suffixed
<1> QED
  BY <1>1, <1>2

\* Some suffix is free: there are more suffixes than slugs in use.
LEMMA SuffixFree ==
  ASSUME NEW used, IsFiniteSet(used), NEW name \in Slugs
  PROVE  \E n \in 1..Cardinality(used) + 1 : Suffixed(name, n) \notin used
<1> DEFINE N == Cardinality(used) + 1
           f == [n \in 1..N |-> Suffixed(name, n)]
<1>1. Cardinality(used) \in Nat
  BY FS_CardinalityType
<1>2. IsFiniteSet(1..N) /\ Cardinality(1..N) = N
  BY <1>1, FS_Interval
<1> SUFFICES ASSUME \A n \in 1..N : Suffixed(name, n) \in used
             PROVE  FALSE
  OBVIOUS
<1>3. f \in [1..N -> used]
  OBVIOUS
<1>4. PICK x, y \in 1..N : x # y /\ f[x] = f[y]
  <2> HIDE DEF f
  <2> QED
    BY <1>1, <1>2, <1>3, FS_PigeonHole
<1> QED
  BY <1>1, <1>4, SuffixesDiffer

\* A set of positive numbers that is not empty has a least one.
LEMMA LeastNumber ==
  ASSUME NEW S \in SUBSET (Nat \ {0}), S # {}
  PROVE  \E n \in S : \A m \in 1..n - 1 : m \notin S
<1> DEFINE R == StrictSubsetOrdering(Nat)
           T == {1..n : n \in S}
<1>1. T \subseteq FiniteSubsetsOf(Nat) /\ T # {}
  <2>1. \A n \in S : IsFiniteSet(1..n) /\ 1..n \subseteq Nat
    BY FS_Interval
  <2> QED
    BY <2>1 DEF FiniteSubsetsOf
<1>2. IsWellFoundedOn(R, FiniteSubsetsOf(Nat))
  BY FS_StrictSubsetOrderingWellFounded
<1>3. PICK x \in T : \A y \in T : <<y, x>> \notin R
  <2> HIDE DEF R, T
  <2> QED
    BY <1>1, <1>2, WFMin
<1>4. PICK n \in S : x = 1..n
  OBVIOUS
<1>5. ASSUME NEW m \in 1..n - 1, m \in S
      PROVE  FALSE
  <2>1. 1..m \in T /\ 1..m \subseteq 1..n /\ n \in 1..n /\ n \notin 1..m
    BY <1>5
  <2>2. <<1..m, 1..n>> \in R
    BY <2>1 DEF StrictSubsetOrdering
  <2> QED
    BY <1>3, <1>4, <2>1, <2>2
<1> QED
  BY <1>5

\* _unique_slug always finds a slug, and one that is not in use.
LEMMA UniqueSlugFree ==
  ASSUME NEW used, IsFiniteSet(used), NEW name \in Slugs
  PROVE  UniqueSlug(used, name) \in Slugs \ used
<1> DEFINE N == Cardinality(used) + 1
           Free(n) == Suffixed(name, n) \notin used
           S == {n \in 1..N : Free(n)}
<1>1. Cardinality(used) \in Nat
  BY FS_CardinalityType
<1>2. S # {} /\ S \in SUBSET (Nat \ {0})
  BY <1>1, SuffixFree
<1>3. PICK n \in S : \A m \in 1..n - 1 : m \notin S
  BY <1>2, LeastNumber
<1>4. \E k \in 1..N : Free(k) /\ \A m \in 1..k - 1 : ~Free(m)
  <2>1. \A m \in 1..n - 1 : m \in 1..N
    BY <1>1, <1>3
  <2> QED
    BY <1>3, <2>1
<1> DEFINE k == CHOOSE i \in 1..N : Free(i) /\ \A m \in 1..i - 1 : ~Free(m)
<1>5. k \in 1..N /\ Free(k)
  BY <1>4
<1>6. UniqueSlug(used, name) = Suffixed(name, k)
  BY DEF UniqueSlug
<1> HIDE DEF k
<1>7. k \in Nat \ {0}
  BY <1>1, <1>5
<1> QED
  BY <1>5, <1>6, <1>7, SuffixesDiffer

-----------------------------------------------------------------------------
LEMMA InitInv == Init => IInv
<1> SUFFICES ASSUME Init PROVE IInv
  OBVIOUS
<1>1. /\ Stored = {} /\ run \in [Runs -> Locals]
      /\ \A r \in Runs : /\ run[r].pc = "ready" /\ run[r].staged = Nothing
                         /\ run[r].body = [s \in Schemes |-> Absent]
                         /\ run[r].used = {} /\ run[r].start = 0 /\ run[r].at = 0
  <2>1. \A r \in Runs : \E f \in Files :
          run[r] = [pc |-> "ready", file |-> f, missing |-> {},
                    body |-> [s \in Schemes |-> Absent], frozen |-> {},
                    used |-> {}, at |-> 0, start |-> 0,
                    staged |-> Nothing, notes |-> {}]
    BY DEF Init
  <2>2. /\ Nothing \in [Schemes -> Slugs \cup {NoSlug}]
        /\ [s \in Schemes |-> Absent] \in [Schemes -> Contents \cup {Absent}]
    BY DEF Nothing
  <2>3. ASSUME NEW r \in Runs
        PROVE  run[r] \in Locals
    <3>1. PICK f \in Files :
            run[r] = [pc |-> "ready", file |-> f, missing |-> {},
                      body |-> [s \in Schemes |-> Absent], frozen |-> {},
                      used |-> {}, at |-> 0, start |-> 0,
                      staged |-> Nothing, notes |-> {}]
      BY <2>1
    <3> QED
      BY <2>2, <3>1 DEF Locals
  <2>4. run \in [Runs -> Locals]
    BY <2>3 DEF Init
  <2>5. Stored = {}
    BY DEF Init, Stored
  <2> QED
    BY <2>1, <2>4, <2>5
<1>2. \A r \in Runs : Upserted(r) = {}
  BY <1>1 DEF Upserted, Nothing
<1>3. TypeOK
  BY <1>1 DEF Init, TypeOK, Contents
<1>4. WholeScheme /\ TermsReady
  BY <1>1 DEF Init, WholeScheme, TermsReady
<1>5. Batches /\ HandedOut /\ OwnSlugs
  BY <1>1, <1>2 DEF Batches, HandedOut, OwnSlugs
<1>6. SnapshotStands
  BY <1>1, FS_EmptySet DEF SnapshotStands
<1>7. Noted
  <2>1. \A r \in Runs : run[r].start + 1..run[r].at = {}
    BY <1>1
  <2> QED
    BY <1>2, <2>1 DEF Noted
<1> QED
  BY <1>3, <1>4, <1>5, <1>6, <1>7 DEF IInv

\* A run's local state stays well formed when one field is replaced.
LEMMA FieldsKept ==
  ASSUME NEW l \in Locals
  PROVE  /\ \A x \in {"ready", "terms", "begun", "batch", "closing", "finished", "failed"} :
              [l EXCEPT !.pc = x] \in Locals
         /\ \A x \in SUBSET AllTerms : [l EXCEPT !.missing = x] \in Locals
         /\ \A x \in [Schemes -> Contents \cup {Absent}] : [l EXCEPT !.body = x] \in Locals
         /\ \A x \in SUBSET Schemes : [l EXCEPT !.frozen = x] \in Locals
         /\ \A x \in SUBSET Slugs : [l EXCEPT !.used = x] \in Locals
         /\ \A x \in Nat : /\ [l EXCEPT !.at = x] \in Locals
                           /\ [l EXCEPT !.start = x] \in Locals
         /\ \A x \in [Schemes -> Slugs \cup {NoSlug}] : [l EXCEPT !.staged = x] \in Locals
         /\ \A x \in SUBSET Change : [l EXCEPT !.notes = x] \in Locals
BY DEF Locals

\* The record that a run has come to is a scheme.
LEMMA CurrentScheme ==
  ASSUME TypeOK, NEW r \in Runs, InBatch(r)
  PROVE  Current(r) \in Schemes
<1>1. /\ run[r].at \in Nat /\ run[r].start \in Nat /\ run[r].file \in Files
  BY DEF TypeOK, Locals
<1>2. Records[run[r].file] \in Seq(Schemes) /\ BatchSize \in Nat
  BY <1>1, FilesAssumption
<1>3. run[r].at + 1 \in 1..Len(Records[run[r].file])
  BY <1>1, <1>2 DEF InBatch, BatchEnd
<1> QED
  BY <1>2, <1>3 DEF Current

LEMMA DifferenceType ==
  ASSUME TypeOK, NEW r \in Runs, NEW s \in Schemes, NEW applied \in BOOLEAN
  PROVE  Difference(r, s, applied) \subseteq Change
BY DEF TypeOK, Locals, Difference, Change, Contents

LEMMA HoldBackInv ==
  ASSUME IInv, NEW r \in Runs, HoldBack(r)
  PROVE  IInv'
<1> USE DEF IInv
<1> DEFINE s == Current(r)
<1>1. s \in Schemes /\ s \in run[r].frozen
  BY CurrentScheme DEF HoldBack
<1>2. /\ run' \in [Runs -> Locals]
      /\ \A q \in Runs : /\ run'[q].pc = run[q].pc /\ run'[q].file = run[q].file
                         /\ run'[q].missing = run[q].missing
                         /\ run'[q].body = run[q].body /\ run'[q].frozen = run[q].frozen
                         /\ run'[q].used = run[q].used /\ run'[q].start = run[q].start
                         /\ run'[q].staged = run[q].staged
      /\ \A q \in Runs \ {r} : run'[q] = run[q]
      /\ run'[r].at = run[r].at + 1
      /\ run'[r].notes = run[r].notes \cup Difference(r, s, FALSE)
  <2>1. Difference(r, s, FALSE) \subseteq Change
    BY <1>1, DifferenceType
  <2> DEFINE l == [run[r] EXCEPT !.at = @ + 1,
                                 !.notes = @ \cup Difference(r, s, FALSE)]
  <2>2. l \in Locals
    <3>1. run[r] \in Locals
      BY DEF TypeOK
    <3>2. run[r].notes \cup Difference(r, s, FALSE) \in SUBSET Change
      BY <2>1, <3>1 DEF Locals
    <3>3. run[r].at + 1 \in Nat
      BY <3>1 DEF Locals
    <3> QED
      BY <3>1, <3>2, <3>3, FieldsKept
  <2>3. run' = [run EXCEPT ![r] = l]
    BY DEF HoldBack, TypeOK, Locals
  <2> QED
    BY <2>2, <2>3 DEF TypeOK, Locals
<1>3. UNCHANGED table
  BY DEF HoldBack
<1>4. TypeOK' /\ WholeScheme' /\ TermsReady'
  BY <1>2, <1>3 DEF TypeOK, WholeScheme, TermsReady, table, schemes, Stored
<1>5. /\ Stored' = Stored /\ \A q \in Runs : Upserted(q)' = Upserted(q)
  BY <1>2, <1>3 DEF Stored, Upserted, table, schemes
<1>0. run[r].pc = "batch"
  BY DEF HoldBack, InBatch
<1>6. Batches' /\ SnapshotStands' /\ HandedOut' /\ OwnSlugs'
  BY <1>0, <1>2, <1>3, <1>5
     DEF Batches, SnapshotStands, HandedOut, OwnSlugs, table, schemes
<1>7. Noted'
  <2>2. ASSUME NEW q \in Runs, run[q].pc = "batch",
               NEW i \in (run[q].start + 1..run[q].at)',
               (Records[run[q].file][i] \in run[q].frozen)'
        PROVE  (Difference(q, Records[run[q].file][i], FALSE) \subseteq run[q].notes)'
    <3>1. run[q].start \in Nat /\ run[q].at \in Nat
      BY DEF TypeOK, Locals
    <3>2. Records[run[q].file][i] \in Schemes
      BY <1>2, <2>2 DEF TypeOK, Locals
    <3>3. CASE i \in run[q].start + 1..run[q].at
      <4>1. Difference(q, Records[run[q].file][i], FALSE) \subseteq run[q].notes
        BY <1>2, <2>2, <3>3 DEF Noted
      <4> QED
        BY <1>2, <3>2, <4>1 DEF Difference
    <3>4. CASE i \notin run[q].start + 1..run[q].at
      <4>1. q = r /\ i = run[r].at + 1
        BY <1>2, <2>2, <3>1, <3>4
      <4> QED
        BY <1>2, <3>2, <4>1 DEF Current, Difference
    <3> QED
      BY <3>3, <3>4
  <2> QED
    <3>1. ASSUME NEW q \in Runs, NEW z \in Upserted(q)'
          PROVE  (Difference(q, z, TRUE) \subseteq run[q].notes)'
      BY <1>2, <1>5, <3>1 DEF Noted, Difference
    <3> QED
      BY <1>2, <2>2, <3>1 DEF Noted
<1> QED
  BY <1>4, <1>6, <1>7

\* A run outside its batches has no row and no slug in its hands.
LEMMA OutsideBatchInv ==
  ASSUME IInv, NEW r \in Runs, NEW l \in Locals, run' = [run EXCEPT ![r] = l],
         UNCHANGED table, l.pc \notin {"begun", "batch"}, l.staged = Nothing,
         l.pc = "terms" => Terms[l.file] \subseteq terms \cup l.missing,
         l.pc \in {"ready", "terms"} => l.start = l.at,
         l.body = run[r].body, l.frozen = run[r].frozen, l.used = run[r].used
  PROVE  IInv'
<1> USE DEF IInv
<1>1. /\ run' \in [Runs -> Locals] /\ run'[r] = l
      /\ \A q \in Runs \ {r} : run'[q] = run[q]
  BY DEF TypeOK
<1>2. UNCHANGED <<body, kids, slug, verified, log, terms>>
  BY DEF table, schemes
<1>3. /\ Stored' = Stored /\ Upserted(r)' = {}
      /\ \A q \in Runs \ {r} : Upserted(q)' = Upserted(q)
  BY <1>1, <1>2 DEF Stored, Upserted, Nothing
<1>4. TypeOK' /\ WholeScheme' /\ TermsReady'
  BY <1>1, <1>2 DEF TypeOK, WholeScheme, TermsReady, Stored
<1>5. Batches' /\ SnapshotStands'
  BY <1>1, <1>2, <1>3 DEF Batches, SnapshotStands
<1>6. HandedOut' /\ OwnSlugs'
  BY <1>1, <1>2, <1>3 DEF HandedOut, OwnSlugs
<1>7. Noted'
  BY <1>1, <1>3 DEF Noted, Difference
<1> QED
  BY <1>4, <1>5, <1>6, <1>7

LEMMA ReadTermsInv ==
  ASSUME IInv, NEW r \in Runs, ReadTerms(r)
  PROVE  IInv'
<1> DEFINE l == [run[r] EXCEPT !.pc = "terms", !.missing = Missing(run[r].file)]
<1>1. run \in [Runs -> Locals] /\ run[r] \in Locals
  BY DEF IInv, TypeOK
<1>2. run[r].file \in Files /\ Missing(run[r].file) \in SUBSET AllTerms
  BY <1>1 DEF Locals, Missing, AllTerms
<1>3. l \in Locals
  BY <1>1, <1>2, FieldsKept
<1>4. /\ l.pc = "terms" /\ l.missing = Terms[run[r].file] \ terms /\ l.file = run[r].file
      /\ l.staged = run[r].staged /\ l.start = run[r].start /\ l.at = run[r].at
      /\ l.body = run[r].body /\ l.frozen = run[r].frozen /\ l.used = run[r].used
  BY <1>1 DEF Locals, Missing
<1>5. run' = [run EXCEPT ![r] = l] /\ UNCHANGED table
  BY <1>1 DEF ReadTerms
<1>6. run[r].staged = Nothing /\ run[r].start = run[r].at
  BY DEF ReadTerms, IInv, Batches
<1> HIDE DEF l
<1> QED
  BY <1>3, <1>4, <1>5, <1>6, OutsideBatchInv

LEMMA FinishInv ==
  ASSUME IInv, NEW r \in Runs, Finish(r)
  PROVE  IInv'
<1> DEFINE l == [run[r] EXCEPT !.pc = "finished"]
<1>1. run \in [Runs -> Locals] /\ run[r] \in Locals
  BY DEF IInv, TypeOK
<1>2. l \in Locals
  BY <1>1, FieldsKept
<1>3. /\ l.pc = "finished" /\ l.staged = run[r].staged
      /\ l.body = run[r].body /\ l.frozen = run[r].frozen /\ l.used = run[r].used
  BY <1>1 DEF Locals
<1>4. run' = [run EXCEPT ![r] = l] /\ UNCHANGED table
  BY <1>1 DEF Finish
<1>5. run[r].staged = Nothing
  BY DEF Finish, IInv, Batches
<1> HIDE DEF l
<1> QED
  BY <1>2, <1>3, <1>4, <1>5, OutsideBatchInv

LEMMA FailInv ==
  ASSUME IInv, NEW r \in Runs, Fail(r)
  PROVE  IInv'
<1> DEFINE l == [run[r] EXCEPT !.pc = "failed", !.missing = {},
                               !.staged = Nothing, !.notes = {}]
<1>1. run \in [Runs -> Locals] /\ run[r] \in Locals
  BY DEF IInv, TypeOK
<1>2. Nothing \in [Schemes -> Slugs \cup {NoSlug}]
  BY DEF Nothing
<1>3. l \in Locals
  BY <1>1, <1>2, FieldsKept
<1>4. /\ l.pc = "failed" /\ l.staged = Nothing
      /\ l.body = run[r].body /\ l.frozen = run[r].frozen /\ l.used = run[r].used
  BY <1>1 DEF Locals
<1>5. run' = [run EXCEPT ![r] = l] /\ UNCHANGED table
  BY <1>1 DEF Fail
<1> HIDE DEF l
<1> QED
  BY <1>3, <1>4, <1>5, OutsideBatchInv

LEMMA BeginInv ==
  ASSUME IInv, NEW r \in Runs, Begin(r)
  PROVE  IInv'
<1> USE DEF IInv
<1> DEFINE l == [run[r] EXCEPT !.pc = "begun", !.missing = {}]
<1>1. run \in [Runs -> Locals] /\ run[r] \in Locals
  BY DEF TypeOK
<1>2. l \in Locals
  BY <1>1, FieldsKept
<1>3. /\ l.pc = "begun" /\ l.file = run[r].file /\ l.staged = run[r].staged
      /\ l.start = run[r].start /\ l.at = run[r].at
      /\ l.body = run[r].body /\ l.frozen = run[r].frozen /\ l.used = run[r].used
  BY <1>1 DEF Locals
<1>4. run' = [run EXCEPT ![r] = l]
  BY <1>1 DEF Begin
<1> HIDE DEF l
<1>5. /\ run' \in [Runs -> Locals] /\ run'[r] = l
      /\ \A q \in Runs \ {r} : run'[q] = run[q]
  BY <1>1, <1>2, <1>4
<1>6. /\ UNCHANGED <<body, kids, slug, verified, log>>
      /\ terms' = terms \cup run[r].missing /\ run[r].pc = "terms"
  BY DEF Begin, schemes
<1>7. l.staged = Nothing /\ l.start = l.at
  BY <1>3, <1>6 DEF Batches
<1>8. /\ Stored' = Stored /\ Upserted(r)' = {}
      /\ \A q \in Runs \ {r} : Upserted(q)' = Upserted(q)
  BY <1>5, <1>6, <1>7 DEF Stored, Upserted, Nothing
<1>9. TypeOK'
  BY <1>1, <1>5, <1>6, <1>8 DEF TypeOK, Locals
<1>10. WholeScheme' /\ TermsReady'
  BY <1>3, <1>5, <1>6, <1>8 DEF WholeScheme, TermsReady
<1>11. Batches' /\ SnapshotStands'
  BY <1>3, <1>5, <1>6, <1>7, <1>8 DEF Batches, SnapshotStands
<1>12. HandedOut' /\ OwnSlugs'
  BY <1>5, <1>6, <1>8 DEF HandedOut, OwnSlugs
<1>13. Noted'
  BY <1>3, <1>5, <1>8 DEF Noted, Difference
<1> QED
  BY <1>9, <1>10, <1>11, <1>12, <1>13

LEMMA SnapshotInv ==
  ASSUME IInv, NEW r \in Runs, Snapshot(r)
  PROVE  IInv'
<1> USE DEF IInv
<1> DEFINE taken == {slug[s] : s \in Stored}
           l == [run[r] EXCEPT !.pc = "batch", !.body = body,
                               !.frozen = verified, !.used = taken]
<1>1. /\ run \in [Runs -> Locals] /\ run[r] \in Locals
      /\ body \in [Schemes -> Contents \cup {Absent}] /\ verified \in SUBSET Schemes
      /\ Stored \subseteq Schemes /\ \A s \in Stored : slug[s] \in Slugs
  BY DEF TypeOK, Stored
<1>2. taken \in SUBSET Slugs /\ IsFiniteSet(taken)
  <2> DEFINE f == [s \in Stored |-> slug[s]]
  <2>1. f \in Surjection(Stored, taken)
    BY DEF Surjection
  <2>2. IsFiniteSet(Stored)
    BY <1>1, FilesAssumption, FS_Subset
  <2> HIDE DEF f, taken
  <2>3. IsFiniteSet(taken)
    BY <2>1, <2>2, FS_Surjection
  <2> QED
    BY <1>1, <2>3 DEF taken
<1> HIDE DEF taken
<1>3. l \in Locals
  <2>1. [run[r] EXCEPT !.pc = "batch", !.body = body] \in Locals
    BY <1>1, FieldsKept
  <2> QED
    BY <1>1, <1>2, <2>1, FieldsKept
<1>4. /\ l.pc = "batch" /\ l.body = body /\ l.frozen = verified /\ l.used = taken
      /\ l.file = run[r].file /\ l.staged = run[r].staged
      /\ l.start = run[r].start /\ l.at = run[r].at
  BY <1>1 DEF Locals
<1>5. run' = [run EXCEPT ![r] = l]
  BY <1>1 DEF Snapshot, taken
<1> HIDE DEF l
<1>6. /\ run' \in [Runs -> Locals] /\ run'[r] = l
      /\ \A q \in Runs \ {r} : run'[q] = run[q]
  BY <1>1, <1>3, <1>5
<1>7. /\ UNCHANGED <<body, kids, slug, verified, log>>
      /\ terms' = terms /\ run[r].pc = "begun"
  BY DEF Snapshot, table, schemes
<1>8. l.staged = Nothing /\ l.start = l.at
  BY <1>4, <1>7 DEF Batches
<1>9. /\ Stored' = Stored /\ Upserted(r)' = {}
      /\ \A q \in Runs \ {r} : Upserted(q)' = Upserted(q)
  BY <1>6, <1>7, <1>8 DEF Stored, Upserted, Nothing
<1>10. TypeOK'
  BY <1>1, <1>6, <1>7, <1>9 DEF TypeOK, Locals
<1>11. WholeScheme' /\ TermsReady'
  BY <1>4, <1>6, <1>7, <1>9 DEF WholeScheme, TermsReady
<1>12. Batches' /\ SnapshotStands'
  <2>1. \A s \in Stored : slug[s] \in taken
    BY DEF taken
  <2> QED
    BY <1>2, <1>4, <1>6, <1>7, <1>8, <1>9, <2>1 DEF Batches, SnapshotStands, Stored
<1>13. HandedOut' /\ OwnSlugs'
  BY <1>6, <1>7, <1>9 DEF HandedOut, OwnSlugs
<1>14. Noted'
  <2>1. run[r].at \in Nat /\ l.start + 1..l.at = {}
    BY <1>1, <1>4, <1>8 DEF Locals
  <2> QED
    BY <1>6, <1>9, <2>1 DEF Noted, Difference
<1> QED
  BY <1>10, <1>11, <1>12, <1>13, <1>14

\* The slug an upsert presents is new to the run, unless its scheme is not.
LEMMA SlugPresented ==
  ASSUME IInv, NEW r \in Runs, NEW s \in Schemes,
         NEW g, g = IF run[r].body[s] = Absent THEN UniqueSlug(run[r].used, Name[s])
                    ELSE slug[s]
  PROVE  /\ g \in Slugs
         /\ run[r].body[s] = Absent => g \notin run[r].used
         /\ run[r].body[s] # Absent => s \in Stored /\ g = slug[s] /\ g \in run[r].used
<1> USE DEF IInv
<1>1. CASE run[r].body[s] = Absent
  <2>1. IsFiniteSet(run[r].used) /\ Name[s] \in Slugs
    BY FilesAssumption DEF SnapshotStands, Slugs
  <2>2. UniqueSlug(run[r].used, Name[s]) \in Slugs \ run[r].used
    BY <2>1, UniqueSlugFree
  <2> QED
    BY <1>1, <2>2
<1>2. CASE run[r].body[s] # Absent
  <2>1. s \in Stored /\ slug[s] \in run[r].used
    BY <1>2 DEF SnapshotStands
  <2>2. slug[s] \in Slugs
    BY <2>1 DEF TypeOK
  <2> QED
    BY <1>2, <2>1, <2>2
<1> QED
  BY <1>1, <1>2

LEMMA UpsertInv ==
  ASSUME IInv, NEW r \in Runs, Upsert(r)
  PROVE  IInv'
<1> USE DEF IInv
<1> DEFINE s == Current(r)
           g == IF run[r].body[s] = Absent THEN UniqueSlug(run[r].used, Name[s])
                ELSE slug[s]
           d == Difference(r, s, TRUE)
           l == [run[r] EXCEPT !.at = @ + 1, !.staged = [@ EXCEPT ![s] = g],
                               !.used = @ \cup {g}, !.notes = @ \cup d]
<1>1. /\ s \in Schemes /\ s \notin run[r].frozen /\ run[r].pc = "batch"
      /\ s \notin Stored => /\ \A z \in Stored : slug[z] # g
                            /\ \A q \in Others(r), z \in Schemes : run[q].staged[z] # g
  BY CurrentScheme DEF Upsert, InBatch
<1>2. run' = [run EXCEPT ![r] = l]
  <2>1. run' = [run EXCEPT ![r].at = run[r].at + 1, ![r].staged[s] = g,
                           ![r].used = run[r].used \cup {g},
                           ![r].notes = run[r].notes \cup d]
    BY DEF Upsert, UsedWith
  <2>2. run \in [Runs -> Locals]
    BY DEF TypeOK
  <2> HIDE DEF g, d, s
  <2> QED
    BY <2>1, <2>2
<1>3. UNCHANGED <<body, kids, slug, verified, log, terms>>
  BY DEF Upsert, table, schemes
<1>4. /\ g \in Slugs
      /\ run[r].body[s] = Absent => g \notin run[r].used
      /\ run[r].body[s] # Absent => s \in Stored /\ g = slug[s] /\ g \in run[r].used
  <2> HIDE DEF s
  <2> QED
    BY <1>1, SlugPresented
<1>5. d \subseteq Change
  BY <1>1, DifferenceType
<1> HIDE DEF g, d
<1>6. /\ run \in [Runs -> Locals] /\ run[r] \in Locals
      /\ run[r].staged \in [Schemes -> Slugs \cup {NoSlug}]
  BY DEF TypeOK, Locals
<1>7. l \in Locals
  <2>1. /\ run[r].at + 1 \in Nat /\ run[r].used \cup {g} \in SUBSET Slugs
        /\ [run[r].staged EXCEPT ![s] = g] \in [Schemes -> Slugs \cup {NoSlug}]
        /\ run[r].notes \cup d \in SUBSET Change
    <3>1. run[r].at + 1 \in Nat
      BY <1>6 DEF Locals
    <3>2. run[r].used \cup {g} \in SUBSET Slugs
      BY <1>4, <1>6 DEF Locals
    <3>3. [run[r].staged EXCEPT ![s] = g] \in [Schemes -> Slugs \cup {NoSlug}]
      BY <1>4, <1>6
    <3>4. run[r].notes \cup d \in SUBSET Change
      BY <1>5, <1>6 DEF Locals
    <3> QED
      BY <3>1, <3>2, <3>3, <3>4
  <2>2. [run[r] EXCEPT !.at = @ + 1, !.staged = [@ EXCEPT ![s] = g]] \in Locals
    BY <1>6, <2>1, FieldsKept
  <2> QED
    BY <1>6, <2>1, <2>2, FieldsKept
<1>8. /\ l.pc = "batch" /\ l.body = run[r].body /\ l.frozen = run[r].frozen
      /\ l.used = run[r].used \cup {g} /\ l.file = run[r].file
      /\ l.staged = [run[r].staged EXCEPT ![s] = g]
      /\ l.start = run[r].start /\ l.at = run[r].at + 1
      /\ l.notes = run[r].notes \cup d
  BY <1>1, <1>6 DEF Locals
<1> HIDE DEF l
<1>9. /\ run' \in [Runs -> Locals] /\ run'[r] = l
      /\ \A q \in Runs \ {r} : run'[q] = run[q]
  BY <1>2, <1>6, <1>7
<1>10. /\ Stored' = Stored /\ Upserted(r)' = Upserted(r) \cup {s}
       /\ \A q \in Runs \ {r} : Upserted(q)' = Upserted(q)
       /\ \A z \in Schemes : run'[r].staged[z] = IF z = s THEN g ELSE run[r].staged[z]
       /\ \A q \in Runs : Upserted(q) \subseteq Schemes
  BY <1>1, <1>3, <1>4, <1>6, <1>8, <1>9, NoneAssumption DEF Stored, Upserted
<1>11. TypeOK' /\ WholeScheme' /\ TermsReady'
  BY <1>1, <1>3, <1>8, <1>9, <1>10 DEF TypeOK, WholeScheme, TermsReady
<1>12. Batches' /\ SnapshotStands'
  <2>1. IsFiniteSet(run[r].used \cup {g})
    BY FS_AddElement DEF SnapshotStands
  <2> QED
    <3>1. Batches'
      BY <1>1, <1>8, <1>9, <1>10 DEF Batches
    <3>2. \A q \in Runs : IsFiniteSet(run'[q].used)
      BY <1>8, <1>9, <2>1 DEF SnapshotStands
    <3>3. \A q \in Runs, z \in Schemes :
            run'[q].body[z] # Absent => z \in Stored /\ slug[z] \in run'[q].used
      BY <1>8, <1>9 DEF SnapshotStands
    <3> QED
      BY <1>3, <1>10, <3>1, <3>2, <3>3 DEF SnapshotStands
<1>13. HandedOut'
  <2>1. ASSUME NEW q \in Runs, NEW z \in Upserted(q)'
        PROVE  /\ run'[q].staged[z] \in run'[q].used
               /\ run'[q].body[z] # Absent => run'[q].staged[z] = slug[z]
               /\ run'[q].body[z] = Absent => \A y \in Schemes :
                    run'[q].body[y] # Absent => run'[q].staged[z] # slug[y]
    <3>1. CASE q # r
      BY <1>9, <1>10, <2>1, <3>1 DEF HandedOut
    <3>2. CASE q = r /\ z # s
      BY <1>8, <1>9, <1>10, <2>1, <3>2 DEF HandedOut
    <3>3. CASE q = r /\ z = s
      <4>1. run'[r].staged[s] = g /\ g \in run'[r].used /\ run'[r].body = run[r].body
        BY <1>1, <1>8, <1>9, <1>10
      <4>2. \A y \in Schemes : run[r].body[y] # Absent => slug[y] \in run[r].used
        BY DEF SnapshotStands
      <4> QED
        BY <1>4, <3>3, <4>1, <4>2
    <3> QED
      BY <3>1, <3>2, <3>3
  <2> QED
    BY <1>3, <2>1 DEF HandedOut
<1>14. OwnSlugs'
  <2>1. \A z \in Upserted(r) : z # s => run[r].staged[z] # g
    <3>1. CASE run[r].body[s] = Absent
      BY <1>4, <3>1 DEF HandedOut
    <3>2. CASE run[r].body[s] # Absent
      <4> SUFFICES ASSUME NEW z \in Upserted(r), z # s
                   PROVE  run[r].staged[z] # slug[s]
        BY <1>4, <3>2
      <4>1. CASE run[r].body[z] = Absent
        BY <1>1, <3>2, <4>1 DEF HandedOut
      <4>2. CASE run[r].body[z] # Absent
        <5>1. z \in Stored /\ s \in Stored
          BY <1>1, <1>10, <3>2, <4>2 DEF SnapshotStands
        <5> QED
          BY <4>2, <5>1 DEF HandedOut, OwnSlugs
      <4> QED
        BY <4>1, <4>2
    <3> QED
      BY <3>1, <3>2
  <2>2. s \notin Stored => \A q \in Runs \ {r} : \A z \in Upserted(q) : run[q].staged[z] # g
    <3>1. \A q \in Runs : Upserted(q) # {} => run[q].pc = "batch"
      BY DEF Batches, Upserted, Nothing
    <3> QED
      BY <1>1, <1>10, <3>1 DEF Others
  <2>3. \A y, z \in Stored' : y # z => slug'[y] # slug'[z]
    BY <1>3, <1>10 DEF OwnSlugs
  <2>4. ASSUME NEW q \in Runs, NEW y \in Upserted(q)', NEW z \in Upserted(q)', y # z
        PROVE  run'[q].staged[y] # run'[q].staged[z]
    <3>1. CASE q # r
      BY <1>9, <1>10, <2>4, <3>1 DEF OwnSlugs
    <3>2. CASE q = r
      BY <1>1, <1>10, <2>1, <2>4, <3>2 DEF OwnSlugs
    <3> QED
      BY <3>1, <3>2
  <2>5. ASSUME NEW q \in Runs, NEW y \in Upserted(q)' \ Stored', NEW z \in Stored'
        PROVE  run'[q].staged[y] # slug'[z]
    <3>1. CASE q # r
      BY <1>3, <1>9, <1>10, <2>5, <3>1 DEF OwnSlugs
    <3>2. CASE q = r
      BY <1>1, <1>3, <1>10, <2>5, <3>2 DEF OwnSlugs
    <3> QED
      BY <3>1, <3>2
  <2>6. ASSUME NEW p \in Runs, NEW q \in Runs, p # q,
               NEW y \in Upserted(q)' \ Stored', NEW z \in Upserted(p)' \ Stored'
        PROVE  run'[q].staged[y] # run'[p].staged[z]
    <3>1. CASE q # r /\ p # r
      BY <1>9, <1>10, <2>6, <3>1 DEF OwnSlugs
    <3>2. CASE q = r
      BY <1>1, <1>9, <1>10, <2>2, <2>6, <3>2 DEF OwnSlugs
    <3>3. CASE p = r
      BY <1>1, <1>9, <1>10, <2>2, <2>6, <3>3 DEF OwnSlugs
    <3> QED
      BY <3>1, <3>2, <3>3
  <2> QED
    BY <2>3, <2>4, <2>5, <2>6 DEF OwnSlugs
<1>15. Noted'
  <2>1. ASSUME NEW q \in Runs, NEW z \in Upserted(q)'
        PROVE  (Difference(q, z, TRUE) \subseteq run[q].notes)'
    <3>1. CASE q # r
      BY <1>9, <1>10, <2>1, <3>1 DEF Noted, Difference
    <3>2. CASE q = r /\ z \in Upserted(r)
      BY <1>8, <1>9, <3>2 DEF Noted, Difference
    <3>3. CASE q = r /\ z = s
      BY <1>8, <1>9, <3>3 DEF d, Difference
    <3> QED
      BY <1>10, <2>1, <3>1, <3>2, <3>3
  <2>2. ASSUME NEW q \in Runs, run'[q].pc = "batch",
               NEW i \in (run[q].start + 1..run[q].at)',
               (Records[run[q].file][i] \in run[q].frozen)'
        PROVE  (Difference(q, Records[run[q].file][i], FALSE) \subseteq run[q].notes)'
    <3>1. CASE q # r
      BY <1>9, <2>2, <3>1 DEF Noted, Difference
    <3>2. CASE q = r
      <4>1. run[r].start \in Nat /\ run[r].at \in Nat
        BY <1>6 DEF Locals
      <4>2. i # run[r].at + 1
        BY <1>1, <1>8, <1>9, <2>2, <3>2 DEF Current
      <4>3. i \in run[r].start + 1..run[r].at
        BY <1>8, <1>9, <2>2, <3>2, <4>1, <4>2
      <4>4. Difference(r, Records[run[r].file][i], FALSE) \subseteq run[r].notes
        BY <1>1, <1>8, <1>9, <2>2, <3>2, <4>3 DEF Noted
      <4> QED
        BY <1>8, <1>9, <3>2, <4>4 DEF Difference
    <3> QED
      BY <3>1, <3>2
  <2> QED
    BY <2>1, <2>2 DEF Noted
<1> QED
  BY <1>11, <1>12, <1>13, <1>14, <1>15

\* What a commit of a batch does to the table.
LEMMA Committed ==
  ASSUME IInv, NEW r \in Runs, CommitBatch(r)
  PROVE  /\ run[r].pc = "batch" /\ Upserted(r) \subseteq Schemes
         /\ run[r].file \in Files
         /\ body' = [s \in Schemes |-> IF s \in Upserted(r) THEN run[r].file ELSE body[s]]
         /\ kids' = body'
         /\ Stored' = Stored \cup Upserted(r)
         /\ \A s \in Stored : slug'[s] = slug[s]
         /\ \A s \in Upserted(r) \ Stored : slug'[s] = run[r].staged[s]
         /\ \A s \in Schemes \ Stored' : slug'[s] = NoSlug
         /\ slug' \in [Schemes -> Slugs \cup {NoSlug}]
         /\ \A s \in Upserted(r) : run[r].staged[s] \in Slugs
<1> USE DEF IInv
<1>1. /\ Upserted(r) \subseteq Schemes /\ run[r].file \in Files
      /\ run[r].staged \in [Schemes -> Slugs \cup {NoSlug}]
  BY DEF Upserted, TypeOK, Locals
<1>2. /\ run[r].pc = "batch"
      /\ body' = [s \in Schemes |-> IF s \in Upserted(r) THEN run[r].file ELSE body[s]]
      /\ kids' = [s \in Schemes |-> IF s \in Upserted(r) THEN run[r].file ELSE kids[s]]
      /\ slug' = [s \in Schemes |-> IF s \in Upserted(r) THEN SlugKept(r, s) ELSE slug[s]]
  BY DEF CommitBatch, Children
<1>3. kids' = body'
  BY <1>2 DEF WholeScheme
<1>4. Stored' = Stored \cup Upserted(r)
  BY <1>1, <1>2, NoneAssumption DEF Stored
<1>5. \A s \in Upserted(r) : run[r].staged[s] \in Slugs
  BY <1>1 DEF Upserted
<1>6. \A s \in Stored : s \in Schemes /\ slug[s] \in Slugs
  BY DEF Stored, TypeOK
<1>7. \A s \in Schemes : slug'[s] = IF s \in Upserted(r) \ Stored THEN run[r].staged[s]
                                    ELSE slug[s]
  BY <1>2 DEF SlugKept
<1>8. \A s \in Schemes \ Stored' : slug'[s] = NoSlug
  BY <1>4, <1>7 DEF TypeOK
<1>9. slug' \in [Schemes -> Slugs \cup {NoSlug}]
  <2>1. \A s \in Schemes : slug'[s] \in Slugs \cup {NoSlug}
    BY <1>5, <1>7 DEF TypeOK
  <2> QED
    BY <1>2, <2>1
<1> QED
  BY <1>1, <1>2, <1>3, <1>4, <1>5, <1>6, <1>7, <1>8, <1>9

LEMMA CommitBatchInv ==
  ASSUME IInv, NEW r \in Runs, CommitBatch(r)
  PROVE  IInv'
<1> USE DEF IInv
<1> DEFINE after == IF run[r].at = Len(Records[run[r].file]) THEN "closing" ELSE "batch"
           l == [run[r] EXCEPT !.start = run[r].at, !.staged = Nothing,
                               !.notes = {}, !.pc = after]
<1>1. run \in [Runs -> Locals] /\ run[r] \in Locals
  BY DEF TypeOK
<1>2. /\ run' = [run EXCEPT ![r] = l]
      /\ UNCHANGED <<verified, terms>> /\ log' = log \cup run[r].notes
  BY <1>1 DEF CommitBatch, Logged
<1>3. l \in Locals
  <2>1. run[r].at \in Nat /\ Nothing \in [Schemes -> Slugs \cup {NoSlug}]
    BY <1>1 DEF Locals, Nothing
  <2>2. [run[r] EXCEPT !.start = run[r].at, !.staged = Nothing, !.notes = {}] \in Locals
    BY <1>1, <2>1, FieldsKept
  <2> QED
    BY <2>2, FieldsKept
<1>4. /\ l.body = run[r].body /\ l.frozen = run[r].frozen /\ l.used = run[r].used
      /\ l.file = run[r].file /\ l.staged = Nothing /\ l.notes = {}
      /\ l.start = run[r].at /\ l.at = run[r].at
      /\ l.pc \in {"closing", "batch"}
  BY <1>1 DEF Locals
<1> HIDE DEF l
<1>5. /\ run' \in [Runs -> Locals] /\ run'[r] = l
      /\ \A q \in Runs \ {r} : run'[q] = run[q]
  BY <1>1, <1>2, <1>3
<1>6. /\ run[r].pc = "batch" /\ Upserted(r) \subseteq Schemes
      /\ run[r].file \in Files
      /\ body' = [s \in Schemes |-> IF s \in Upserted(r) THEN run[r].file ELSE body[s]]
      /\ kids' = body'
      /\ Stored' = Stored \cup Upserted(r)
      /\ \A s \in Stored : slug'[s] = slug[s]
      /\ \A s \in Upserted(r) \ Stored : slug'[s] = run[r].staged[s]
      /\ \A s \in Schemes \ Stored' : slug'[s] = NoSlug
      /\ slug' \in [Schemes -> Slugs \cup {NoSlug}]
      /\ \A s \in Upserted(r) : run[r].staged[s] \in Slugs
  BY Committed
<1>7. /\ Upserted(r)' = {} /\ \A q \in Runs \ {r} : Upserted(q)' = Upserted(q)
  BY <1>4, <1>5 DEF Upserted, Nothing
<1>8. TypeOK'
  <2>1. body' \in [Schemes -> Contents \cup {Absent}]
    BY <1>6 DEF TypeOK, Contents
  <2>2. \A s \in Schemes : slug'[s] = NoSlug <=> s \notin Stored'
    <3>1. \A s \in Stored : slug[s] \in Slugs
      BY DEF Stored, TypeOK
    <3> QED
      BY <1>6, <3>1, NoneAssumption
  <2>3. verified \subseteq Stored' /\ log' \subseteq Change
    BY <1>1, <1>2, <1>6 DEF TypeOK, Locals
  <2> QED
    BY <1>2, <1>5, <1>6, <2>1, <2>2, <2>3 DEF TypeOK
<1>9. WholeScheme' /\ TermsReady'
  <2>1. Terms[run[r].file] \subseteq terms
    BY <1>6 DEF TermsReady
  <2>2. \A s \in Stored' : body'[s] \in Files => Terms[body'[s]] \subseteq terms
    BY <1>6, <2>1 DEF WholeScheme, Stored
  <2> QED
    BY <1>2, <1>4, <1>5, <1>6, <2>1, <2>2 DEF WholeScheme, TermsReady
<1>10. Batches' /\ SnapshotStands'
  BY <1>4, <1>5, <1>6, <1>7 DEF Batches, SnapshotStands
<1>11. HandedOut'
  <2>1. \A q \in Runs, z \in Schemes : run[q].body[z] # Absent => slug'[z] = slug[z]
    BY <1>6 DEF SnapshotStands
  <2>2. \A q \in Runs : Upserted(q) \subseteq Schemes
    BY DEF Upserted
  <2> QED
    BY <1>5, <1>7, <2>1, <2>2 DEF HandedOut
<1>12. OwnSlugs'
  <2>1. \A s, z \in Stored' : s # z => slug'[s] # slug'[z]
    BY <1>6 DEF OwnSlugs
  <2>2. \A q \in Runs : \A s, z \in Upserted(q)' : s # z => run'[q].staged[s] # run'[q].staged[z]
    BY <1>5, <1>7 DEF OwnSlugs
  <2>3. ASSUME NEW q \in Runs, NEW s \in Upserted(q)' \ Stored', NEW z \in Stored'
        PROVE  run'[q].staged[s] # slug'[z]
    <3>1. q # r /\ s \in Upserted(q) \ Stored /\ run'[q] = run[q]
      BY <1>5, <1>6, <1>7, <2>3
    <3>2. CASE z \in Stored
      BY <1>6, <3>1, <3>2 DEF OwnSlugs
    <3>3. CASE z \in Upserted(r) \ Stored
      BY <1>6, <3>1, <3>3 DEF OwnSlugs
    <3> QED
      BY <1>6, <3>2, <3>3
  <2>4. ASSUME NEW p \in Runs, NEW q \in Runs, p # q,
               NEW s \in Upserted(q)' \ Stored', NEW z \in Upserted(p)' \ Stored'
        PROVE  run'[q].staged[s] # run'[p].staged[z]
    BY <1>5, <1>6, <1>7, <2>4 DEF OwnSlugs
  <2> QED
    BY <2>1, <2>2, <2>3, <2>4 DEF OwnSlugs
<1>13. Noted'
  <2>1. run[r].at \in Nat /\ l.start + 1..l.at = {}
    BY <1>1, <1>4 DEF Locals
  <2> QED
    BY <1>5, <1>7, <2>1 DEF Noted, Difference
<1> QED
  BY <1>8, <1>9, <1>10, <1>11, <1>12, <1>13

\* An administrator changes what a scheme says, never its slug.
LEMMA AdministratorInv ==
  ASSUME IInv, NEW s \in Schemes, Verify(s) \/ Unverify(s)
  PROVE  IInv'
<1> USE DEF IInv
<1>1. /\ UNCHANGED <<slug, log, terms, run>> /\ verified' \subseteq Stored
      /\ body' \in [Schemes -> Contents \cup {Absent}] /\ kids' = body'
      /\ \A z \in Schemes : body'[z] \in {body[z], Manual}
                            /\ (body'[z] = Manual => z \in Stored)
  <2>1. CASE Verify(s)
    <3>1. /\ UNCHANGED <<slug, log, terms, run>> /\ s \in Stored
          /\ verified' = verified \cup {s}
      BY <2>1 DEF Verify
    <3>2. PICK c \in {body[s], Manual} :
            /\ body' = [body EXCEPT ![s] = c]
            /\ kids' = [kids EXCEPT ![s] = IF c = body[s] THEN @ ELSE c]
      BY <2>1 DEF Verify
    <3>3. /\ body \in [Schemes -> Contents \cup {Absent}] /\ kids = body
          /\ verified \subseteq Stored
      BY DEF TypeOK, WholeScheme
    <3>4. c \in Contents \cup {Absent} /\ kids' = body'
      BY <3>2, <3>3 DEF Contents
    <3>5. \A z \in Schemes : body'[z] = IF z = s THEN c ELSE body[z]
      BY <3>2, <3>3
    <3>6. body' \in [Schemes -> Contents \cup {Absent}] /\ verified' \subseteq Stored
      BY <3>1, <3>2, <3>3, <3>4
    <3>7. \A z \in Schemes : z \in Stored <=> body[z] # Absent
      BY DEF Stored
    <3>8. \A z \in Schemes : body'[z] \in {body[z], Manual}
                             /\ (body'[z] = Manual => z \in Stored)
      BY <3>1, <3>2, <3>5, <3>7, NoneAssumption
    <3> QED
      BY <3>1, <3>4, <3>6, <3>8
  <2>2. CASE Unverify(s)
    BY <2>2, NoneAssumption DEF Unverify, WholeScheme, TypeOK, Stored
  <2> QED
    BY <2>1, <2>2
<1>2. Stored' = Stored
  BY <1>1, NoneAssumption DEF Stored, Contents
<1>3. TypeOK' /\ TermsReady'
  BY <1>1, <1>2 DEF TypeOK, TermsReady
<1>4. WholeScheme'
  BY <1>1, <1>2, NoneAssumption DEF WholeScheme, Stored
<1>5. Batches' /\ SnapshotStands' /\ HandedOut' /\ OwnSlugs'
  BY <1>1, <1>2 DEF Batches, SnapshotStands, HandedOut, OwnSlugs, Upserted
<1>6. Noted'
  BY <1>1 DEF Noted, Upserted, Difference
<1> QED
  BY <1>3, <1>4, <1>5, <1>6

LEMMA StutterInv ==
  ASSUME IInv, UNCHANGED vars
  PROVE  IInv'
<1>1. UNCHANGED <<body, kids, slug, verified, log, terms, run>>
  BY DEF vars, table, schemes
<1>2. TypeOK' /\ WholeScheme' /\ Batches' /\ TermsReady' /\ SnapshotStands'
  BY <1>1 DEF IInv, TypeOK, WholeScheme, Batches, TermsReady, SnapshotStands,
              Stored, Upserted
<1>3. HandedOut' /\ OwnSlugs' /\ Noted'
  BY <1>1 DEF IInv, HandedOut, OwnSlugs, Noted, Stored, Upserted, Difference
<1> QED
  BY <1>2, <1>3 DEF IInv

LEMMA NextInv == IInv /\ [Next]_vars => IInv'
<1> SUFFICES ASSUME IInv, [Next]_vars PROVE IInv'
  OBVIOUS
<1>1. ASSUME NEW r \in Runs, ReadTerms(r) PROVE IInv'
  BY <1>1, ReadTermsInv
<1>2. ASSUME NEW r \in Runs, Begin(r) PROVE IInv'
  BY <1>2, BeginInv
<1>3. ASSUME NEW r \in Runs, HoldBack(r) PROVE IInv'
  BY <1>3, HoldBackInv
<1>4. ASSUME NEW r \in Runs, Upsert(r) PROVE IInv'
  BY <1>4, UpsertInv
<1>5. ASSUME NEW r \in Runs, CommitBatch(r) PROVE IInv'
  BY <1>5, CommitBatchInv
<1>6. ASSUME NEW r \in Runs, Finish(r) PROVE IInv'
  BY <1>6, FinishInv
<1>7. ASSUME NEW r \in Runs, Fail(r) PROVE IInv'
  BY <1>7, FailInv
<1>8. ASSUME NEW s \in Schemes, Verify(s) \/ Unverify(s) PROVE IInv'
  BY <1>8, AdministratorInv
<1>9. ASSUME NEW r \in Runs, Snapshot(r) PROVE IInv'
  BY <1>9, SnapshotInv
<1> QED
  BY <1>1, <1>2, <1>3, <1>4, <1>5, <1>6, <1>7, <1>8, <1>9, StutterInv DEF Next

-----------------------------------------------------------------------------
LEMMA Invariance == Spec => []IInv
BY InitInv, NextInv, PTL DEF Spec

\* The state of the table and of every run is well formed.
THEOREM TypeCorrect == Spec => []TypeOK
<1>1. IInv => TypeOK
  BY DEF IInv
<1> QED
  BY <1>1, Invariance, PTL

\* A scheme is whole whatever fails, is held back or runs at the same time
\* (pipeline.py:17-23), and its categories and tags exist.
THEOREM SchemesAreWhole == Spec => []WholeScheme
<1>1. IInv => WholeScheme
  BY DEF IInv
<1> QED
  BY <1>1, Invariance, PTL

\* However many runs overlap, no two schemes are stored under one slug, and no
\* run hands one slug to two schemes (_unique_slug, pipeline.py:149-166).
THEOREM SlugsAreOwn == Spec => []SlugsResolved
<1>1. IInv => SlugsResolved
  <2> SUFFICES ASSUME IInv PROVE SlugsResolved
    OBVIOUS
  <2>1. \A s \in Stored : s \in Schemes /\ slug[s] # NoSlug
    BY DEF IInv, TypeOK, Stored
  <2>2. \A r \in Runs, s, z \in Schemes :
          s # z /\ s \in Upserted(r) => run[r].staged[s] # run[r].staged[z]
    BY DEF IInv, OwnSlugs, Upserted
  <2>3. \A s, z \in Schemes : s # z /\ s \in Stored => slug[s] # slug[z]
    BY <2>1 DEF IInv, OwnSlugs, TypeOK
  <2> QED
    BY <2>2, <2>3 DEF SlugsResolved
<1> QED
  BY <1>1, Invariance, PTL

\* A stored scheme keeps its slug through every import (pipeline.py:9-13).
THEOREM LinksAreKept == Spec => LinksLast
<1>1. IInv /\ [Next]_vars => [\A s \in Stored : slug'[s] = slug[s]]_vars
  <2> SUFFICES ASSUME IInv, [Next]_vars PROVE \A s \in Stored : slug'[s] = slug[s]
    OBVIOUS
  <2>1. ASSUME NEW r \in Runs, CommitBatch(r)
        PROVE  \A s \in Stored : slug'[s] = slug[s]
    BY <2>1, Committed
  <2>2. ASSUME NEW r \in Runs, ~CommitBatch(r),
               \/ ReadTerms(r) \/ Begin(r) \/ Snapshot(r) \/ HoldBack(r) \/ Upsert(r)
               \/ CommitBatch(r) \/ Finish(r) \/ Fail(r)
        PROVE  slug' = slug
    BY <2>2 DEF ReadTerms, Begin, Snapshot, HoldBack, Upsert, Finish, Fail, table, schemes
  <2>3. ASSUME NEW s \in Schemes, Verify(s) \/ Unverify(s)
        PROVE  slug' = slug
    BY <2>3 DEF Verify, Unverify
  <2>4. UNCHANGED vars => slug' = slug
    BY DEF vars, table, schemes
  <2> QED
    BY <2>1, <2>2, <2>3, <2>4 DEF Next
<1> QED
  BY <1>1, Invariance, PTL DEF Spec, LinksLast

\* A run never touches a scheme that was officially verified when it began, and
\* leaves what it would have changed for review (pipeline.py:29-33).
THEOREM VerifiedHeldBack == Spec => HeldBack
<1> DEFINE A == \A r \in Runs : CommitBatch(r) =>
                  \A i \in run[r].start + 1..run[r].at :
                    LET s == Records[run[r].file][i] IN
                      s \in run[r].frozen =>
                        /\ body'[s] = body[s] /\ kids'[s] = kids[s]
                        /\ Difference(r, s, FALSE) \subseteq log'
<1>1. IInv => A
  <2> SUFFICES ASSUME IInv, NEW r \in Runs, CommitBatch(r),
                      NEW i \in run[r].start + 1..run[r].at,
                      Records[run[r].file][i] \in run[r].frozen
               PROVE  LET s == Records[run[r].file][i] IN
                        /\ body'[s] = body[s] /\ kids'[s] = kids[s]
                        /\ Difference(r, s, FALSE) \subseteq log'
    OBVIOUS
  <2> DEFINE s == Records[run[r].file][i]
  <2>1. s \in Schemes /\ s \notin Upserted(r)
    BY DEF IInv, TypeOK, Locals, Batches
  <2>2. run[r].pc = "batch" /\ log' = log \cup run[r].notes
    BY DEF CommitBatch, Logged
  <2>3. Difference(r, s, FALSE) \subseteq run[r].notes
    BY <2>2 DEF IInv, Noted
  <2>4. body'[s] = body[s] /\ kids'[s] = kids[s]
    BY <2>1, Committed DEF IInv, WholeScheme
  <2> QED
    BY <2>2, <2>3, <2>4
<1>2. IInv /\ [Next]_vars => [A]_vars
  BY <1>1
<1> QED
  BY <1>2, Invariance, PTL DEF Spec, HeldBack

\* Whatever an import changes has its row in scheme_field_changes
\* (pipeline.py:25-37).
THEOREM ChangesAreLogged == Spec => ChangesLogged
<1> DEFINE A == \A s \in Stored : body'[s] \notin {body[s], Manual} =>
                  \E r \in Runs :
                    /\ run[r].file = body'[s]
                    /\ run[r].body[s] = body[s] =>
                         [scheme |-> s, run |-> r, old |-> body[s], new |-> body'[s],
                          applied |-> TRUE] \in log'
<1>1. IInv /\ [Next]_vars => A
  <2> SUFFICES ASSUME IInv, [Next]_vars, NEW s \in Stored, body'[s] \notin {body[s], Manual}
               PROVE  \E r \in Runs :
                        /\ run[r].file = body'[s]
                        /\ run[r].body[s] = body[s] =>
                             [scheme |-> s, run |-> r, old |-> body[s], new |-> body'[s],
                              applied |-> TRUE] \in log'
    OBVIOUS
  <2>0. s \in Schemes /\ body[s] # Absent
    BY DEF Stored
  <2>1. ASSUME NEW r \in Runs, CommitBatch(r)
        PROVE  /\ run[r].file = body'[s]
               /\ run[r].body[s] = body[s] =>
                    [scheme |-> s, run |-> r, old |-> body[s], new |-> body'[s],
                     applied |-> TRUE] \in log'
    <3>1. s \in Upserted(r) /\ body'[s] = run[r].file
      BY <2>0, <2>1, Committed
    <3>2. Difference(r, s, TRUE) \subseteq log'
      BY <2>1, <3>1 DEF IInv, Noted, CommitBatch, Logged
    <3> QED
      BY <2>0, <3>1, <3>2 DEF Difference
  <2>2. ASSUME NEW r \in Runs, ~CommitBatch(r),
               \/ ReadTerms(r) \/ Begin(r) \/ Snapshot(r) \/ HoldBack(r) \/ Upsert(r)
               \/ CommitBatch(r) \/ Finish(r) \/ Fail(r)
        PROVE  body' = body
    BY <2>2 DEF ReadTerms, Begin, Snapshot, HoldBack, Upsert, Finish, Fail, table, schemes
  <2>3. ASSUME NEW z \in Schemes, Verify(z) \/ Unverify(z)
        PROVE  body'[s] \in {body[s], Manual}
    BY <2>0, <2>3 DEF Verify, Unverify, IInv, TypeOK
  <2>4. UNCHANGED vars => body' = body
    BY DEF vars, table, schemes
  <2> QED
    BY <2>1, <2>2, <2>3, <2>4 DEF Next
<1>2. IInv /\ [Next]_vars => [A]_vars
  BY <1>1
<1> QED
  BY <1>2, Invariance, PTL DEF Spec, ChangesLogged
=============================================================================
