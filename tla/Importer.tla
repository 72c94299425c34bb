------------------------------ MODULE Importer ------------------------------
(***************************************************************************)
(* run_import (importer/pipeline.py): a batch job that loads a source file *)
(* into schemes and the tables that hang off it, batch by batch, while an  *)
(* administrator works on the same rows and perhaps a second import runs.  *)
(* A batch is one READ COMMITTED transaction; a failure rolls back only    *)
(* the batch at hand and ends the run, and starting a new run is how an    *)
(* import is resumed.                                                      *)
(*                                                                         *)
(* What a file says of a scheme is represented by the file itself: the     *)
(* content of a scheme is the file it was imported from, or Manual once    *)
(* an administrator has edited it.                                         *)
(***************************************************************************)
EXTENDS Naturals, Sequences, FiniteSets

CONSTANTS Schemes,    \* scheme_ids
          Words, Name, \* the name of each scheme, slugified: its words and numbers
          Files,      \* contents of a source file
          Records,    \* Records[f]: the scheme_ids of f, in the file's order
          Terms,      \* Terms[f]: the slugs of the categories and tags f names
          BatchSize,
          Runs,       \* executions of run_import
          Absent, Manual, NoSlug

ASSUME FilesAssumption ==
  /\ BatchSize \in Nat \ {0} /\ IsFiniteSet(Schemes)
  /\ Name \in [Schemes -> Seq(Words \cup Nat)]
  /\ Records \in [Files -> Seq(Schemes)]
  \* run_import relies on a scheme_id appearing once in a file
  /\ \A f \in Files : \A i, j \in 1..Len(Records[f]) :
       Records[f][i] = Records[f][j] => i = j

Contents == Files \cup {Manual}
AllTerms == UNION {Terms[f] : f \in Files}
Slugs    == Seq(Words \cup Nat)

ASSUME NoneAssumption == /\ Absent \notin Files /\ Manual \notin Files
                         /\ Absent # Manual /\ NoSlug \notin Slugs

VARIABLES
  body,      \* committed columns of a schemes row
  kids,      \* its committed tags, benefits, documents and rules
  slug,      \* its slug
  verified,  \* rows whose verification_status is officially_verified
  log,       \* scheme_field_changes
  terms,     \* slugs of the rows of categories and tags
  run        \* the state of each run of the import

schemes == <<body, kids, slug, verified, log>>
table == <<schemes, terms>>
vars == <<table, run>>

Change == [scheme : Schemes, run : Runs, old : Contents, new : Files,
           applied : BOOLEAN]

\* A run: its file, the categories and tags it finds missing, the snapshot it
\* compares with (_fetch_existing_scheme_rows), used_slugs, the number of
\* records behind it, and the batch at hand: where it starts, the rows it has
\* upserted, each with the slug of its INSERT, and its field_changes.
Locals == [pc : {"ready", "terms", "begun", "batch", "closing", "finished", "failed"},
           file : Files, missing : SUBSET AllTerms, body : [Schemes -> Contents \cup {Absent}],
           frozen : SUBSET Schemes, used : SUBSET Slugs, at : Nat,
           start : Nat, staged : [Schemes -> Slugs \cup {NoSlug}], notes : SUBSET Change]

Stored       == {s \in Schemes : body[s] # Absent}
Upserted(r)  == {s \in Schemes : run[r].staged[s] # NoSlug}
Others(r)    == {q \in Runs \ {r} : run[q].pc = "batch"}
Nothing      == [s \in Schemes |-> NoSlug]

-----------------------------------------------------------------------------
Init ==
  /\ body = [s \in Schemes |-> Absent] /\ kids = [s \in Schemes |-> Absent]
  /\ slug = [s \in Schemes |-> NoSlug]
  /\ verified = {} /\ log = {} /\ terms = {}
  /\ run \in [Runs -> {[pc |-> "ready", file |-> f, missing |-> {},
                        body |-> [s \in Schemes |-> Absent], frozen |-> {},
                        used |-> {}, at |-> 0, start |-> 0,
                        staged |-> Nothing, notes |-> {}] : f \in Files}]

\* The slugs of a file that have no row yet.
Missing(f) == Terms[f] \ terms

\* _upsert_categories and _upsert_tags read which slugs have a row ...
ReadTerms(r) ==
  /\ run[r].pc = "ready"
  /\ run' = [run EXCEPT ![r].pc = "terms", ![r].missing = Missing(run[r].file)]
  /\ UNCHANGED table

\* ... and insert the others, which can only fail once a run beside this one
\* has created one of them.  They are committed with the ImportRun row.
Begin(r) ==
  /\ run[r].pc = "terms" /\ run[r].missing \cap terms = {}
  /\ terms' = terms \cup run[r].missing
  /\ run' = [run EXCEPT ![r].pc = "begun", ![r].missing = {}]
  /\ UNCHANGED schemes

\* The snapshot, and the slugs in use by it.
Snapshot(r) ==
  /\ run[r].pc = "begun"
  /\ run' = [run EXCEPT ![r].pc = "batch", ![r].body = body, ![r].frozen = verified,
                        ![r].used = {slug[s] : s \in Stored}]
  /\ UNCHANGED table

\* Where the batch at hand ends, and the record it has come to.
BatchEnd(r) == LET total == Len(Records[run[r].file])
                   full  == run[r].start + BatchSize
               IN  IF full < total THEN full ELSE total
Current(r)  == Records[run[r].file][run[r].at + 1]
InBatch(r)  == run[r].pc = "batch" /\ run[r].at < BatchEnd(r)

\* The row that compare-before-write leaves in scheme_field_changes, if the
\* file says something new of a scheme the snapshot knows.
Difference(r, s, applied) ==
  LET old == run[r].body[s] IN
  IF old \in {Absent, run[r].file} THEN {}
  ELSE {[scheme |-> s, run |-> r, old |-> old, new |-> run[r].file,
         applied |-> applied]}

\* base, then base-2, base-3, ...: which may be another scheme's name.
Suffixed(name, n) == IF n = 1 THEN name ELSE Append(name, n)

\* The first of them that this run does not know to be taken.
UniqueSlug(used, name) ==
  LET Free(n) == Suffixed(name, n) \notin used
  IN  Suffixed(name, CHOOSE n \in 1..Cardinality(used) + 1 :
                       Free(n) /\ \A m \in 1..n - 1 : ~Free(m))

\* Mutant: used.add(slug) is forgotten.
UsedUnchanged(used, g) == used
\* used_slugs after a slug was handed out.
UsedWith(used, g) == used \cup {g}

\* Mutant: a held-back scheme is passed over without recording its differences.
PassOver(r) ==
  /\ InBatch(r) /\ Current(r) \in run[r].frozen
  /\ run' = [run EXCEPT ![r].at = @ + 1]
  /\ UNCHANGED table
\* A record whose scheme the snapshot has as officially verified.
HoldBack(r) ==
  /\ InBatch(r) /\ Current(r) \in run[r].frozen
  /\ run' = [run EXCEPT ![r].at = @ + 1,
                ![r].notes = @ \cup Difference(r, Current(r), FALSE)]
  /\ UNCHANGED table

\* Any other record: INSERT ... ON CONFLICT (scheme_id) DO UPDATE, and the child
\* tables.  It waits for a run that has written the same scheme, or inserted
\* the same slug, in an open batch; an INSERT of a slug that is taken can only
\* fail.
Upsert(r) ==
  LET s == Current(r)
      g == IF run[r].body[s] = Absent THEN UniqueSlug(run[r].used, Name[s])
           ELSE slug[s] IN
  /\ InBatch(r) /\ s \notin run[r].frozen
  /\ \A q \in Others(r) : run[q].staged[s] = NoSlug
  /\ s \notin Stored => /\ \A z \in Stored : slug[z] # g
                       /\ \A q \in Others(r), z \in Schemes : run[q].staged[z] # g
  /\ run' = [run EXCEPT ![r].at = @ + 1, ![r].staged[s] = g,
                ![r].used = UsedWith(@, g),
                ![r].notes = @ \cup Difference(r, s, TRUE)]
  /\ UNCHANGED table

\* Mutant: ON CONFLICT also sets the slug.
SlugRewritten(r, s) == run[r].staged[s]
\* Mutant: the slug is looked up and never handed out.
SlugLookedUp(r, s) == slug[s]
\* The slug of an upserted scheme: that of its first INSERT.
SlugKept(r, s) == IF s \in Stored THEN slug[s] ELSE run[r].staged[s]

\* Mutant: the child tables of a held-back scheme are imported all the same.
ChildrenAlways(r) == {Records[run[r].file][i] : i \in run[r].start + 1..run[r].at}
\* The schemes whose child tables the batch has rewritten.
Children(r) == Upserted(r)

\* Mutant: only what was held back is recorded.
LoggedPending(r) == {n \in run[r].notes : ~n.applied}
\* The rows of scheme_field_changes a batch inserts.
Logged(r) == run[r].notes

CommitBatch(r) ==
  /\ run[r].pc = "batch" /\ run[r].at = BatchEnd(r)
  /\ body' = [s \in Schemes |-> IF s \in Upserted(r) THEN run[r].file ELSE body[s]]
  /\ kids' = [s \in Schemes |-> IF s \in Children(r) THEN run[r].file ELSE kids[s]]
  /\ slug' = [s \in Schemes |-> IF s \in Upserted(r) THEN SlugKept(r, s) ELSE slug[s]]
  /\ log' = log \cup Logged(r)
  /\ run' = [run EXCEPT ![r].start = run[r].at, ![r].staged = Nothing,
                ![r].notes = {},
                ![r].pc = IF run[r].at = Len(Records[run[r].file])
                          THEN "closing" ELSE "batch"]
  /\ UNCHANGED <<verified, terms>>

\* finished_at and the report.
Finish(r) ==
  /\ run[r].pc = "closing"
  /\ run' = [run EXCEPT ![r].pc = "finished"]
  /\ UNCHANGED table

\* A data error, a dropped connection, a deadlock or a crash: the batch at hand
\* is rolled back and the run ends with finished_at NULL.
Fail(r) ==
  /\ run[r].pc \in {"terms", "begun", "batch", "closing"}
  /\ run' = [run EXCEPT ![r].pc = "failed", ![r].missing = {},
                        ![r].staged = Nothing, ![r].notes = {}]
  /\ UNCHANGED table

\* An administrator checks a scheme against the official page and corrects it
\* where it is wrong; it waits for the row of an open batch.
Verify(s) ==
  /\ s \in Stored \ verified /\ \A r \in Runs : s \notin Upserted(r)
  /\ verified' = verified \cup {s}
  /\ \E c \in {body[s], Manual} :
       /\ body' = [body EXCEPT ![s] = c]
       /\ kids' = [kids EXCEPT ![s] = IF c = body[s] THEN @ ELSE c]
  /\ UNCHANGED <<slug, log, terms, run>>

\* ... or withdraws the verdict.
Unverify(s) ==
  /\ s \in verified /\ \A r \in Runs : s \notin Upserted(r)
  /\ verified' = verified \ {s}
  /\ UNCHANGED <<body, kids, slug, log, terms, run>>

-----------------------------------------------------------------------------
Next ==
  \/ \E r \in Runs : \/ ReadTerms(r) \/ Begin(r) \/ Snapshot(r) \/ HoldBack(r) \/ Upsert(r)
                     \/ CommitBatch(r) \/ Finish(r) \/ Fail(r)
  \/ \E s \in Schemes : Verify(s) \/ Unverify(s)

Spec == Init /\ [][Next]_vars

-----------------------------------------------------------------------------
TypeOK ==
  /\ body \in [Schemes -> Contents \cup {Absent}]
  /\ kids \in [Schemes -> Contents \cup {Absent}]
  /\ slug \in [Schemes -> Slugs \cup {NoSlug}]
  /\ \A s \in Schemes : slug[s] = NoSlug <=> s \notin Stored
  /\ verified \subseteq Stored /\ log \subseteq Change
  /\ terms \subseteq AllTerms
  /\ run \in [Runs -> Locals]

\* A scheme is whole (module docstring, pipeline.py:17-23): its columns and its
\* child tables always come from the same import or the same administrator,
\* whatever failed, was held back or ran at the same time, and every category
\* and tag an import gave it has its row.
WholeScheme ==
  /\ kids = body
  /\ \A s \in Stored : body[s] \in Files => Terms[body[s]] \subseteq terms

\* A run by itself resolves every collision of names (_unique_slug,
\* pipeline.py:149-166): no run ever hands one slug to two schemes, so that only
\* a run beside it can make its INSERT fail, and no two stored schemes share one.
SlugsResolved ==
  \A r \in Runs, s, z \in Schemes :
    /\ s # z /\ s \in Upserted(r) => run[r].staged[s] # run[r].staged[z]
    /\ s # z /\ s \in Stored => slug[s] # slug[z]

\* A scheme's address is for ever (pipeline.py:9-13): once stored, it keeps its
\* slug through every later import, held back or not.
LinksLast == [][\A s \in Stored : slug'[s] = slug[s]]_vars

\* A batch publishes only what it accounts for (pipeline.py:25-37): a scheme an
\* import changes, and nobody else changed since the run's snapshot, gets a row
\* of scheme_field_changes that says what it was and what it became.
ChangesLogged ==
  [][\A s \in Stored : body'[s] \notin {body[s], Manual} =>
       \E r \in Runs :
         /\ run[r].file = body'[s]
         /\ run[r].body[s] = body[s] =>
              [scheme |-> s, run |-> r, old |-> body[s], new |-> body'[s],
               applied |-> TRUE] \in log']_vars

\* A scheme that was officially verified when a run began is none of its
\* business (pipeline.py:29-33): no batch of the run touches it, and what the
\* file would have changed is left for review.
HeldBack ==
  [][\A r \in Runs : CommitBatch(r) =>
       \A i \in run[r].start + 1..run[r].at :
         LET s == Records[run[r].file][i] IN
           s \in run[r].frozen =>
             /\ body'[s] = body[s] /\ kids'[s] = kids[s]
             /\ Difference(r, s, FALSE) \subseteq log']_vars

\* What the module docstring says of an administrator's verdict: a scheme that
\* is officially verified is never changed by an import.
NeverClobbered ==
  [][\A r \in Runs : CommitBatch(r) =>
       \A s \in verified : body'[s] = body[s] /\ kids'[s] = kids[s]]_vars
=============================================================================
