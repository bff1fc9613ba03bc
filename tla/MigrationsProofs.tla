-------------------------- MODULE MigrationsProofs --------------------------
(***************************************************************************)
(* Proofs about the migrations, for any number of accounts, documents and  *)
(* jobs and any rows the application may have written.                     *)
(***************************************************************************)
EXTENDS Migrations, TLAPS

(***************************************************************************)
(* The inductive invariant.                                                *)
(***************************************************************************)
Revisions == 0..HeadRevision

Database ==
  [ok        : BOOLEAN,
   rev       : Revisions,
   tables    : BOOLEAN,
   labels    : SUBSET AllStatuses,
   default   : {"none"} \cup AllStatuses,
   index     : SUBSET AllStatuses,
   ids       : {"none", "integer", "uuid"},
   fks       : BOOLEAN,
   dangling  : BOOLEAN,
   failedAt  : BOOLEAN,
   fileName  : {"absent", "quotes", "empty", "none"},
   unique    : SUBSET {"object_key", "document_type"},
   accounts  : SUBSET Accounts,
   documents : SUBSET Documents,
   jobs      : [Jobs -> AllStatuses \cup {"absent"}],
   artifacts : SUBSET [job : Jobs, key : Jobs \cup Documents]]

(* The schema of each revision, from the first. *)
LabelsAt(n) == IF n < 5 THEN AllStatuses ELSE AllStatuses \ {"CREATED"}
DefaultAt(n) == IF n < 5 THEN "CREATED" ELSE "QUEUED"
IndexAt(n) == IF n < 4 THEN {} ELSE IF n = 4 THEN Unfinished ELSE {"QUEUED", "STARTED"}
IdsAt(n) == IF n < 6 THEN "integer" ELSE "uuid"
UniqueAt(n) == IF n < 8 THEN {"object_key"} ELSE {"document_type"}

Built(n, d) == /\ d.tables
               /\ d.labels = LabelsAt(n)
               /\ d.default = DefaultAt(n)
               /\ d.index = IndexAt(n)
               /\ d.ids = IdsAt(n)
               /\ d.fks
               /\ d.failedAt <=> n >= 2
               /\ d.unique = UniqueAt(n)

(* The rows are such as the schema accepts. *)
Fits(d) == /\ ~d.dangling
           /\ \A j \in Jobs : d.jobs[j] \in d.labels \cup {"absent"}
           /\ ~Duplicates(d.jobs, d.index)

(* No tables; the enum types may have been left behind. *)
Base(d) == /\ ~d.tables /\ ~d.failedAt /\ ~d.fks /\ ~d.dangling
           /\ d.labels \in {{}, AllStatuses}
           /\ d.default = "none" /\ d.index = {}
           /\ d.accounts = {} /\ d.documents = {} /\ d.jobs = NoJobs /\ d.artifacts = {}

(* A database at revision n. *)
At(n, d) == d.ok /\ IF n = 0 THEN Base(d) ELSE Built(n, d) /\ Fits(d)

MigrationInv == db \in Database /\ At(db.rev, db)

(***************************************************************************)
(* What the statements do.                                                 *)
(***************************************************************************)

(* Every field other than the named ones is as it was. *)
Same(changed, d, r) ==
  /\ "tables" \notin changed => r.tables = d.tables
  /\ "labels" \notin changed => r.labels = d.labels
  /\ "default" \notin changed => r.default = d.default
  /\ "index" \notin changed => r.index = d.index
  /\ "ids" \notin changed => r.ids = d.ids
  /\ "fks" \notin changed => r.fks = d.fks
  /\ "dangling" \notin changed => r.dangling = d.dangling
  /\ "failedAt" \notin changed => r.failedAt = d.failedAt
  /\ "unique" \notin changed => r.unique = d.unique
  /\ "accounts" \notin changed => r.accounts = d.accounts
  /\ "documents" \notin changed => r.documents = d.documents
  /\ "jobs" \notin changed => r.jobs = d.jobs
  /\ "artifacts" \notin changed => r.artifacts = d.artifacts

(* A statement that raises in the case named, and else changes the fields  *)
(* named, takes d to r.                                                    *)
Ran(d, r, raises, changed) ==
  /\ r \in Database
  /\ r.ok <=> d.ok /\ ~raises
  /\ r.ok => Same(changed, d, r)

(* The case of an error is the same for all of them. *)
LEMMA ExecRan ==
  ASSUME NEW d \in Database, NEW raises \in BOOLEAN, NEW result \in Database, NEW changed,
         d.ok /\ ~raises => result.ok /\ Same(changed, d, result)
  PROVE  /\ Ran(d, Exec(d, raises, result), raises, changed)
         /\ Exec(d, raises, result).ok => Exec(d, raises, result) = result
<1>1. CASE d.ok /\ ~raises
  BY <1>1 DEF Exec, Ran
<1>2. CASE ~(d.ok /\ ~raises)
  <2>1. Exec(d, raises, result) = [d EXCEPT !.ok = FALSE]
    BY <1>2 DEF Exec
  <2>2. Exec(d, raises, result) \in Database /\ ~Exec(d, raises, result).ok
    BY <2>1 DEF Database
  <2>3. QED
    BY <1>2, <2>2 DEF Ran
<1>3. QED
  BY <1>1, <1>2

(* jobs.failed_at is added or dropped. *)
LEMMA SetFailedAtRan ==
  ASSUME NEW d \in Database, NEW present \in BOOLEAN
  PROVE  LET r == SetFailedAt(d, present)
         IN  Ran(d, r, FALSE, {"failedAt"}) /\ (r.ok => r.failedAt = present)
<1> DEFINE e == [d EXCEPT !.failedAt = present]
<1>1. e \in Database /\ e.ok = d.ok /\ e.failedAt = present
  BY DEF Database
<1>2. Same({"failedAt"}, d, e)
  BY DEF Database, Same
<1> HIDE DEF e
<1>3. QED
  BY <1>1, <1>2, ExecRan DEF SetFailedAt, e

(* documents.file_name is added, dropped, or changes its default. *)
LEMMA SetFileNameRan ==
  ASSUME NEW d \in Database, NEW default \in {"absent", "quotes", "empty", "none"}
  PROVE  LET r == SetFileName(d, default)
         IN  /\ Ran(d, r, FALSE, {"fileName"})
             /\ r.ok => r.fileName = default
<1> DEFINE e == [d EXCEPT !.fileName = default]
<1>1. e \in Database /\ e.ok = d.ok /\ e.fileName = default
  BY DEF Database
<1>2. Same({"fileName"}, d, e)
  BY DEF Database, Same
<1> HIDE DEF e
<1>3. QED
  BY <1>1, <1>2, ExecRan DEF SetFileName, e

(* jobs.status changes its default. *)
LEMMA SetDefaultRan ==
  ASSUME NEW d \in Database, NEW to \in {"none"} \cup AllStatuses
  PROVE  LET r == SetDefault(d, to)
         IN  /\ Ran(d, r, FALSE, {"default"})
             /\ r.ok => r.default = to
<1> DEFINE e == [d EXCEPT !.default = to]
<1>1. e \in Database /\ e.ok = d.ok /\ e.default = to
  BY DEF Database
<1>2. Same({"default"}, d, e)
  BY DEF Database, Same
<1> HIDE DEF e
<1>3. QED
  BY <1>1, <1>2, ExecRan DEF SetDefault, e

(* The index raises where it exists or finds two rows of one document. *)
LEMMA CreateIndexRan ==
  ASSUME NEW d \in Database, NEW over \in SUBSET AllStatuses
  PROVE  LET r == CreateIndex(d, over)
         IN  /\ Ran(d, r, d.index # {} \/ Duplicates(d.jobs, over), {"index"})
             /\ r.ok => r.index = over
<1> DEFINE e == [d EXCEPT !.index = over]
<1>1. e \in Database /\ e.ok = d.ok /\ e.index = over
  BY DEF Database
<1>2. Same({"index"}, d, e)
  BY DEF Database, Same
<1>3. (d.index # {} \/ Duplicates(d.jobs, over)) \in BOOLEAN
  BY DEF Duplicates
<1> HIDE DEF e
<1>4. QED
  BY <1>1, <1>2, <1>3, ExecRan DEF CreateIndex, e

(* DROP INDEX IF EXISTS never raises. *)
LEMMA DropIndexIfExistsRan ==
  ASSUME NEW d \in Database
  PROVE  LET r == DropIndexIfExists(d)
         IN  /\ Ran(d, r, FALSE, {"index"})
             /\ r.ok => r.index = {}
<1> DEFINE e == [d EXCEPT !.index = {}]
<1>1. e \in Database /\ e.ok = d.ok /\ e.index = {}
  BY DEF Database
<1>2. Same({"index"}, d, e)
  BY DEF Database, Same
<1> HIDE DEF e
<1>3. QED
  BY <1>1, <1>2, ExecRan DEF DropIndexIfExists, e

(* A new enum raises where something refers to the old one or a row has a  *)
(* status that is not among its labels.                                    *)
LEMMA RetypeStatusRan ==
  ASSUME NEW d \in Database, NEW labels \in SUBSET AllStatuses
  PROVE  LET r == RetypeStatus(d, labels)
         IN  /\ Ran(d, r,
                    \/ d.index # {} \/ d.default # "none"
                    \/ \E j \in Jobs : d.jobs[j] \notin labels \cup {"absent"},
                    {"labels"})
             /\ r.ok => r.labels = labels
<1> DEFINE e == [d EXCEPT !.labels = labels]
<1>1. e \in Database /\ e.ok = d.ok /\ e.labels = labels
  BY DEF Database
<1>2. Same({"labels"}, d, e)
  BY DEF Database, Same
<1>3. (\/ d.index # {} \/ d.default # "none"
       \/ \E j \in Jobs : d.jobs[j] \notin labels \cup {"absent"}) \in BOOLEAN
  BY SMT
<1> HIDE DEF e
<1>4. QED
  BY <1>1, <1>2, <1>3, ExecRan DEF RetypeStatus, e

(* The foreign keys are dropped. *)
LEMMA DropFksRan ==
  ASSUME NEW d \in Database
  PROVE  LET r == DropFks(d)
         IN  /\ Ran(d, r, FALSE, {"fks"})
             /\ r.ok => r.fks = FALSE
<1> DEFINE e == [d EXCEPT !.fks = FALSE]
<1>1. e \in Database /\ e.ok = d.ok /\ e.fks = FALSE
  BY DEF Database
<1>2. Same({"fks"}, d, e)
  BY DEF Database, Same
<1> HIDE DEF e
<1>3. QED
  BY <1>1, <1>2, ExecRan DEF DropFks, e

(* The foreign keys raise where a row refers to nothing. *)
LEMMA CreateFksRan ==
  ASSUME NEW d \in Database
  PROVE  LET r == CreateFks(d)
         IN  /\ Ran(d, r, d.dangling, {"fks"})
             /\ r.ok => r.fks = TRUE
<1> DEFINE e == [d EXCEPT !.fks = TRUE]
<1>1. e \in Database /\ e.ok = d.ok /\ e.fks = TRUE
  BY DEF Database
<1>2. Same({"fks"}, d, e)
  BY DEF Database, Same
<1>3. (d.dangling) \in BOOLEAN
  BY DEF Database
<1> HIDE DEF e
<1>4. QED
  BY <1>1, <1>2, <1>3, ExecRan DEF CreateFks, e

(* A unique constraint raises where two artifacts agree on what it names. *)
LEMMA CreateUniqueRan ==
  ASSUME NEW d \in Database, NEW on \in {"object_key", "document_type"}
  PROVE  LET r == CreateUnique(d, on)
         IN  /\ Ran(d, r, Conflicting(d.artifacts, on), {"unique"})
             /\ r.ok => r.unique = d.unique \cup {on}
<1> DEFINE e == [d EXCEPT !.unique = @ \cup {on}]
<1>1. e \in Database /\ e.ok = d.ok /\ e.unique = d.unique \cup {on}
  BY DEF Database
<1>2. Same({"unique"}, d, e)
  BY DEF Database, Same
<1>3. (Conflicting(d.artifacts, on)) \in BOOLEAN
  BY DEF Conflicting
<1> HIDE DEF e
<1>4. QED
  BY <1>1, <1>2, <1>3, ExecRan DEF CreateUnique, e

(* DROP CONSTRAINT IF EXISTS never raises. *)
LEMMA DropUniqueIfExistsRan ==
  ASSUME NEW d \in Database, NEW on \in {"object_key", "document_type"}
  PROVE  LET r == DropUniqueIfExists(d, on)
         IN  /\ Ran(d, r, FALSE, {"unique"})
             /\ r.ok => r.unique = d.unique \ {on}
<1> DEFINE e == [d EXCEPT !.unique = @ \ {on}]
<1>1. e \in Database /\ e.ok = d.ok /\ e.unique = d.unique \ {on}
  BY DEF Database
<1>2. Same({"unique"}, d, e)
  BY DEF Database, Same
<1> HIDE DEF e
<1>3. QED
  BY <1>1, <1>2, ExecRan DEF DropUniqueIfExists, e

(* drop_index raises where there is no index. *)
LEMMA DropIndexRan ==
  ASSUME NEW d \in Database
  PROVE  LET r == DropIndex(d)
         IN  Ran(d, r, d.index = {}, {"index"}) /\ (r.ok => r.index = {})
<1> DEFINE e == DropIndexIfExists(d)
<1>1. Ran(d, e, FALSE, {"index"}) /\ (e.ok => e.index = {})
  BY DropIndexIfExistsRan
<1> HIDE DEF e
<1>2. e \in Database /\ (d.ok => e.ok /\ Same({"index"}, d, e))
  BY <1>1 DEF Ran
<1>3. (d.index = {}) \in BOOLEAN
  OBVIOUS
<1>4. QED
  BY <1>1, <1>2, <1>3, ExecRan DEF DropIndex, e

(* drop_constraint raises where there is no such constraint. *)
LEMMA DropUniqueRan ==
  ASSUME NEW d \in Database, NEW on \in {"object_key", "document_type"}
  PROVE  LET r == DropUnique(d, on)
         IN  /\ Ran(d, r, on \notin d.unique, {"unique"})
             /\ r.ok => r.unique = d.unique \ {on}
<1> DEFINE e == DropUniqueIfExists(d, on)
<1>1. Ran(d, e, FALSE, {"unique"}) /\ (e.ok => e.unique = d.unique \ {on})
  BY DropUniqueIfExistsRan
<1> HIDE DEF e
<1>2. e \in Database /\ (d.ok => e.ok /\ Same({"unique"}, d, e))
  BY <1>1 DEF Ran
<1>3. (on \notin d.unique) \in BOOLEAN
  OBVIOUS
<1>4. QED
  BY <1>1, <1>2, <1>3, ExecRan DEF DropUnique, e

Filled(jobs) == [j \in Jobs |-> IF jobs[j] = "CREATED" THEN "QUEUED" ELSE jobs[j]]

(* The backfill only changes the status of jobs, and raises where the      *)
(* index finds two of the new ones.                                        *)
LEMMA BackfillRan ==
  ASSUME NEW d \in Database
  PROVE  LET r == Backfill(d)
         IN  /\ Ran(d, r, Duplicates(Filled(d.jobs), d.index), {"jobs"})
             /\ r.ok => r.jobs = Filled(d.jobs)
<1> DEFINE e == [d EXCEPT !.jobs = Filled(d.jobs)]
<1>1. Filled(d.jobs) \in [Jobs -> AllStatuses \cup {"absent"}]
  BY DEF Filled, Database, AllStatuses
<1>2. e \in Database /\ e.ok = d.ok /\ e.jobs = Filled(d.jobs)
  BY <1>1 DEF Database
<1>3. Same({"jobs"}, d, e)
  BY DEF Database, Same
<1>4. /\ Backfill(d) = Exec(d, Duplicates(Filled(d.jobs), d.index), e)
      /\ Duplicates(Filled(d.jobs), d.index) \in BOOLEAN
  BY DEF Backfill, Filled, Duplicates
<1> HIDE DEF e
<1>5. QED
  BY <1>2, <1>3, <1>4, ExecRan

(* The keys change type unless something still refers to them, and leave   *)
(* references dangling unless there are no rows.                           *)
LEMMA RetypeIdsRan ==
  ASSUME NEW d \in Database, NEW to \in {"integer", "uuid"}
  PROVE  LET r == RetypeIds(d, to)
         IN  /\ Ran(d, r, d.fks \/ d.index # {}, {"ids", "dangling"})
             /\ r.ok => r.ids = to /\ r.dangling = (d.jobs # NoJobs \/ d.artifacts # {})
<1> DEFINE dangles == d.jobs # NoJobs \/ d.artifacts # {}
           e == [d EXCEPT !.ids = to, !.dangling = dangles]
<1>1. dangles \in BOOLEAN /\ (d.fks \/ d.index # {}) \in BOOLEAN
  OBVIOUS
<1> HIDE DEF dangles
<1>2. e \in Database /\ e.ok = d.ok /\ e.ids = to /\ e.dangling = dangles
  BY <1>1 DEF Database
<1>3. Same({"ids", "dangling"}, d, e)
  BY DEF Database, Same
<1>4. RetypeIds(d, to) = Exec(d, d.fks \/ d.index # {}, e)
  BY DEF RetypeIds, dangles
<1> HIDE DEF e
<1>5. QED
  BY <1>1, <1>2, <1>3, <1>4, ExecRan DEF dangles

(* The truncation of the UUID scripts empties three tables and no other. *)
LEMMA TruncateAllRan ==
  ASSUME NEW d \in Database
  PROVE  LET r == Truncate(d, {"artifacts", "jobs", "documents"})
         IN  /\ Ran(d, r, FALSE, {"artifacts", "jobs", "documents"})
             /\ r.ok => r.artifacts = {} /\ r.jobs = NoJobs /\ r.documents = {}
<1> DEFINE e == [d EXCEPT !.accounts = @, !.documents = {}, !.jobs = NoJobs, !.artifacts = {}]
<1>1. NoJobs \in [Jobs -> AllStatuses \cup {"absent"}]
  BY DEF NoJobs
<1>2. e \in Database /\ e.ok = d.ok /\ e.artifacts = {} /\ e.jobs = NoJobs /\ e.documents = {}
  BY <1>1 DEF Database
<1>3. Same({"artifacts", "jobs", "documents"}, d, e)
  BY DEF Database, Same
<1>4. Truncate(d, {"artifacts", "jobs", "documents"}) = Exec(d, FALSE, e)
  BY DEF Truncate
<1> HIDE DEF e
<1>5. QED
  BY <1>2, <1>3, <1>4, ExecRan

(* Nothing refers to artifacts: their truncation cascades nowhere. *)
LEMMA TruncateArtifactsRan ==
  ASSUME NEW d \in Database
  PROVE  LET r == Truncate(d, {"artifacts"})
         IN  Ran(d, r, FALSE, {"artifacts"}) /\ (r.ok => r.artifacts = {})
<1> DEFINE e == [d EXCEPT !.accounts = @, !.documents = @, !.jobs = @, !.artifacts = {}]
<1>2. e \in Database /\ e.ok = d.ok /\ e.artifacts = {}
  BY DEF Database
<1>3. Same({"artifacts"}, d, e)
  BY DEF Database, Same
<1>4. Truncate(d, {"artifacts"}) = Exec(d, FALSE, e)
  BY DEF Truncate
<1> HIDE DEF e
<1>5. QED
  BY <1>2, <1>3, <1>4, ExecRan

Created == {"tables", "labels", "default", "ids", "fks", "unique"}

(* The first script raises where a table or the enum type exists. *)
LEMMA CreateTablesRan ==
  ASSUME NEW d \in Database
  PROVE  LET r == CreateTables(d)
         IN  /\ Ran(d, r, d.tables \/ d.labels # {}, Created)
             /\ r.ok => /\ r.tables = TRUE /\ r.labels = AllStatuses /\ r.default = "CREATED"
                        /\ r.ids = "integer" /\ r.fks = TRUE /\ r.unique = {"object_key"}
<1>1. PICK e : e = [d EXCEPT !.tables = TRUE, !.labels = AllStatuses, !.default = "CREATED"]
  OBVIOUS
<1>2. AllStatuses \in SUBSET AllStatuses /\ "CREATED" \in {"none"} \cup AllStatuses
  BY DEF AllStatuses
<1>3. /\ e \in Database /\ e.ok = d.ok
      /\ e.tables = TRUE /\ e.labels = AllStatuses /\ e.default = "CREATED"
  BY <1>1, <1>2 DEF Database
<1>4. Same({"tables", "labels", "default"}, d, e)
  BY <1>1 DEF Database, Same
<1>5. PICK f : f = [e EXCEPT !.ids = "integer", !.fks = TRUE, !.unique = {"object_key"}]
  OBVIOUS
<1>6. /\ f \in Database /\ f.ok = e.ok
      /\ f.ids = "integer" /\ f.fks = TRUE /\ f.unique = {"object_key"}
  BY <1>3, <1>5 DEF Database
<1>7. Same({"ids", "fks", "unique"}, e, f)
  BY <1>3, <1>5 DEF Database, Same
<1>8. Same(Created, d, f) /\ f.tables = TRUE /\ f.labels = AllStatuses /\ f.default = "CREATED"
  BY <1>3, <1>4, <1>7 DEF Same, Created
<1> DEFINE taken == d.tables \/ d.labels # {}
           r == Exec(d, taken, f)
<1>9. taken \in BOOLEAN /\ CreateTables(d) = r
  BY <1>1, <1>5 DEF CreateTables
<1> HIDE DEF taken
<1>10. Ran(d, r, taken, Created) /\ (r.ok => r = f)
  BY <1>3, <1>6, <1>8, <1>9, ExecRan
<1> HIDE DEF r
<1>11. r.ok => /\ r.tables = TRUE /\ r.labels = AllStatuses /\ r.default = "CREATED"
               /\ r.ids = "integer" /\ r.fks = TRUE /\ r.unique = {"object_key"}
  BY <1>6, <1>8, <1>10
<1>12. QED
  BY <1>9, <1>10, <1>11 DEF taken

(***************************************************************************)
(* What the revisions do.                                                  *)
(***************************************************************************)

(* The rows that a script may lose, by the revisions it runs. *)
Keeps(revisions, d, r) ==
  1 \notin revisions =>
    /\ d.accounts \subseteq r.accounts
    /\ 6 \notin revisions => /\ d.documents \subseteq r.documents
                             /\ \A j \in Jobs : d.jobs[j] # "absent" => r.jobs[j] # "absent"
    /\ revisions \cap {6, 8} = {} => d.artifacts \subseteq r.artifacts

(* When the upgrade to revision n applies. *)
Admits(n, d) == /\ n = 1 => d.labels = {}
                /\ n = 4 => ~Duplicates(d.jobs, Unfinished)

(* The upgrade to revision n takes d to r. *)
GoesUp(n, d, r) ==
  /\ r \in Database
  /\ ~d.ok => ~r.ok
  /\ At(n - 1, d) => /\ r.ok <=> Admits(n, d)
                     /\ r.ok => At(n, r) /\ Keeps({n}, d, r) /\ (n < 4 => r.jobs = d.jobs)

(* The downgrade from revision n takes d to r. *)
GoesDown(n, d, r) == At(n, d) => r \in Database /\ At(n - 1, r) /\ Keeps({n}, d, r)

(* The tables are created unless the enum type is there. *)
LEMMA InitialUpGoes == ASSUME NEW d \in Database PROVE GoesUp(1, d, InitialUp(d))
<1> DEFINE r == InitialUp(d)
<1>1. /\ Ran(d, r, d.tables \/ d.labels # {}, Created)
      /\ r.ok => /\ r.tables = TRUE /\ r.labels = AllStatuses /\ r.default = "CREATED"
                 /\ r.ids = "integer" /\ r.fks = TRUE /\ r.unique = {"object_key"}
  BY CreateTablesRan DEF InitialUp
<1> HIDE DEF r
<1>2. r \in Database /\ (~d.ok => ~r.ok)
  BY <1>1 DEF Ran
<1>3. At(0, d) => (r.ok <=> Admits(1, d))
  BY <1>1 DEF Ran, At, Base, Admits
<1>4. At(0, d) /\ r.ok => At(1, r) /\ r.jobs = d.jobs
  BY <1>1 DEF Ran, Same, Created, At, Base, Built, Fits, LabelsAt, DefaultAt, IndexAt, IdsAt,
              UniqueAt, Duplicates, NoJobs
<1>5. Keeps({1}, d, r)
  BY DEF Keeps
<1>6. QED
  BY <1>2, <1>3, <1>4, <1>5 DEF GoesUp, r

(* jobs.failed_at comes. *)
LEMMA AddFailedAtUpGoes == ASSUME NEW d \in Database PROVE GoesUp(2, d, AddFailedAtUp(d))
<1> DEFINE r == AddFailedAtUp(d)
<1>1. Ran(d, r, FALSE, {"failedAt"}) /\ (r.ok => r.failedAt = TRUE)
  BY SetFailedAtRan DEF AddFailedAtUp
<1> HIDE DEF r
<1>2. At(1, d) => r.ok /\ At(2, r)
  BY <1>1 DEF Ran, Same, At, Built, Fits, LabelsAt, DefaultAt, IndexAt, IdsAt, UniqueAt
<1>3. r.ok => Keeps({2}, d, r) /\ r.jobs = d.jobs
  BY <1>1 DEF Ran, Same, Keeps
<1>4. QED
  BY <1>1, <1>2, <1>3 DEF GoesUp, Ran, Admits, r

(* documents.file_name comes. *)
LEMMA AddFileNameUpGoes == ASSUME NEW d \in Database PROVE GoesUp(3, d, AddFileNameUp(d))
<1> DEFINE r == AddFileNameUp(d)
<1>1. Ran(d, r, FALSE, {"fileName"})
  BY SetFileNameRan DEF AddFileNameUp
<1> HIDE DEF r
<1>2. At(2, d) => r.ok /\ At(3, r)
  BY <1>1 DEF Ran, Same, At, Built, Fits, LabelsAt, DefaultAt, IndexAt, IdsAt, UniqueAt
<1>3. r.ok => Keeps({3}, d, r) /\ r.jobs = d.jobs
  BY <1>1 DEF Ran, Same, Keeps
<1>4. QED
  BY <1>1, <1>2, <1>3 DEF GoesUp, Ran, Admits, r

(* The index comes, unless a document has two unfinished jobs. *)
LEMMA AddActiveIndexUpGoes == ASSUME NEW d \in Database PROVE GoesUp(4, d, AddActiveIndexUp(d))
<1> DEFINE r == AddActiveIndexUp(d)
<1>0. Unfinished \in SUBSET AllStatuses
  BY DEF Unfinished, AllStatuses
<1>1. /\ Ran(d, r, d.index # {} \/ Duplicates(d.jobs, Unfinished), {"index"})
      /\ r.ok => r.index = Unfinished
  BY <1>0, CreateIndexRan DEF AddActiveIndexUp
<1> HIDE DEF r
<1>2. At(3, d) => (r.ok <=> Admits(4, d))
  BY <1>1 DEF Ran, At, Built, IndexAt, Admits
<1>3. At(3, d) /\ r.ok => At(4, r)
  BY <1>1 DEF Ran, Same, At, Built, Fits, LabelsAt, DefaultAt, IndexAt, IdsAt, UniqueAt
<1>4. r.ok => Keeps({4}, d, r)
  BY <1>1 DEF Ran, Same, Keeps
<1>5. QED
  BY <1>1, <1>2, <1>3, <1>4 DEF GoesUp, Ran, r

(* The backfill leaves no CREATED row, loses none, and makes no document   *)
(* active twice that was not unfinished twice.                             *)
LEMMA FilledFits ==
  ASSUME NEW jobs \in [Jobs -> AllStatuses \cup {"absent"}]
  PROVE  /\ \A j \in Jobs : Filled(jobs)[j] \in (AllStatuses \ {"CREATED"}) \cup {"absent"}
         /\ \A j \in Jobs : jobs[j] # "absent" => Filled(jobs)[j] # "absent"
         /\ ~Duplicates(jobs, Unfinished) => /\ ~Duplicates(Filled(jobs), Unfinished)
                                             /\ ~Duplicates(Filled(jobs), {"QUEUED", "STARTED"})
<1>1. \A j \in Jobs : /\ Filled(jobs)[j] \in (AllStatuses \ {"CREATED"}) \cup {"absent"}
                      /\ jobs[j] # "absent" => Filled(jobs)[j] # "absent"
                      /\ Filled(jobs)[j] \in Unfinished => jobs[j] \in Unfinished
  BY DEF Filled, AllStatuses, Unfinished
<1>2. ~Duplicates(jobs, Unfinished) => ~Duplicates(Filled(jobs), Unfinished)
  BY <1>1 DEF Duplicates
<1>3. ~Duplicates(Filled(jobs), Unfinished) => ~Duplicates(Filled(jobs), {"QUEUED", "STARTED"})
  BY DEF Duplicates, Unfinished
<1>4. QED
  BY <1>1, <1>2, <1>3

(* CREATED leaves the enum: after the backfill no row is in the way of the *)
(* new type or of the new index.                                           *)
LEMMA RemoveCreatedUpGoes == ASSUME NEW d \in Database PROVE GoesUp(5, d, RemoveCreatedUp(d))
<1> DEFINE kept == AllStatuses \ {"CREATED"}
           active == {"QUEUED", "STARTED"}
           filled == Backfill(d)
           dropped == DropIndex(filled)
           bare == SetDefault(dropped, "none")
           retyped == RetypeStatus(bare, kept)
           indexed == CreateIndex(retyped, active)
           r == SetDefault(indexed, "QUEUED")
<1>0. /\ kept \in SUBSET AllStatuses /\ active \in SUBSET AllStatuses
      /\ "none" \in {"none"} \cup AllStatuses /\ "QUEUED" \in {"none"} \cup AllStatuses
  BY DEF AllStatuses
<1>1. /\ Ran(d, filled, Duplicates(Filled(d.jobs), d.index), {"jobs"})
      /\ filled.ok => filled.jobs = Filled(d.jobs)
  BY BackfillRan
<1> HIDE DEF filled
<1>2. Ran(filled, dropped, filled.index = {}, {"index"}) /\ (dropped.ok => dropped.index = {})
  BY <1>1, DropIndexRan DEF Ran
<1> HIDE DEF dropped
<1>3. Ran(dropped, bare, FALSE, {"default"}) /\ (bare.ok => bare.default = "none")
  BY <1>0, <1>2, SetDefaultRan DEF Ran
<1> HIDE DEF bare
<1>4. /\ Ran(bare, retyped,
             \/ bare.index # {} \/ bare.default # "none"
             \/ \E j \in Jobs : bare.jobs[j] \notin kept \cup {"absent"},
             {"labels"})
      /\ retyped.ok => retyped.labels = kept
  BY <1>0, <1>3, RetypeStatusRan DEF Ran
<1> HIDE DEF retyped
<1>5. /\ Ran(retyped, indexed, retyped.index # {} \/ Duplicates(retyped.jobs, active), {"index"})
      /\ indexed.ok => indexed.index = active
  BY <1>0, <1>4, CreateIndexRan DEF Ran
<1> HIDE DEF indexed
<1>6. Ran(indexed, r, FALSE, {"default"}) /\ (r.ok => r.default = "QUEUED")
  BY <1>0, <1>5, SetDefaultRan DEF Ran
<1>7. r = RemoveCreatedUp(d)
  BY DEF RemoveCreatedUp, indexed, retyped, bare, dropped, filled
<1> HIDE DEF r
<1>8. r \in Database /\ (~d.ok => ~r.ok)
  BY <1>1, <1>2, <1>3, <1>4, <1>5, <1>6 DEF Ran
<1>9. ASSUME At(4, d)
      PROVE  r.ok /\ At(5, r) /\ Keeps({5}, d, r)
  <2>1. /\ d.ok /\ d.index = Unfinished /\ Unfinished # {}
        /\ ~Duplicates(d.jobs, Unfinished)
        /\ ~Duplicates(Filled(d.jobs), Unfinished)
        /\ d.jobs \in [Jobs -> AllStatuses \cup {"absent"}]
    <3>1. /\ d.ok /\ d.index = Unfinished /\ ~Duplicates(d.jobs, Unfinished)
          /\ d.jobs \in [Jobs -> AllStatuses \cup {"absent"}]
      BY <1>9 DEF At, Built, Fits, IndexAt, Database
    <3>2. QED
      BY <3>1, FilledFits DEF Unfinished
  <2>2. bare.ok /\ Same({"jobs", "index", "default"}, d, bare)
    BY <1>1, <1>2, <1>3, <2>1 DEF Ran, Same
  <2>3. bare.index = {} /\ bare.default = "none" /\ bare.jobs = Filled(d.jobs)
    BY <1>1, <1>2, <1>3, <2>2 DEF Ran, Same
  <2>4. /\ retyped.ok /\ Same({"jobs", "index", "default", "labels"}, d, retyped)
        /\ retyped.jobs = Filled(d.jobs) /\ retyped.index = {}
    BY <1>4, <2>1, <2>2, <2>3, FilledFits DEF Ran, Same
  <2>5. r.ok /\ Same({"jobs", "index", "default", "labels"}, d, r)
    BY <1>5, <1>6, <2>1, <2>4, FilledFits DEF Ran, Same
  <2>6. r.jobs = Filled(d.jobs) /\ r.labels = kept /\ r.index = active /\ r.default = "QUEUED"
    BY <1>4, <1>5, <1>6, <2>4, <2>5 DEF Ran, Same
  <2>7. At(5, r)
    BY <1>9, <2>1, <2>5, <2>6, FilledFits
       DEF Same, At, Built, Fits, LabelsAt, DefaultAt, IndexAt, IdsAt, UniqueAt
  <2>8. Keeps({5}, d, r)
    BY <2>1, <2>5, <2>6, FilledFits DEF Same, Keeps
  <2>9. QED
    BY <2>5, <2>7, <2>8
<1>10. QED
  BY <1>7, <1>8, <1>9 DEF GoesUp, Admits

(* Changing the type of the keys, in either direction. *)
LEMMA RetypeGoes ==
  ASSUME NEW d \in Database, NEW to \in {"integer", "uuid"}
  PROVE  LET r == Retype(d, {"artifacts", "jobs", "documents"}, to)
         IN  /\ r \in Database
             /\ r.ok = d.ok
             /\ r.ok => /\ Same({"index", "fks", "artifacts", "jobs", "documents", "ids", "dangling"},
                                d, r)
                        /\ r.index = {"QUEUED", "STARTED"} /\ r.fks = TRUE /\ r.ids = to
                        /\ r.dangling = FALSE /\ r.jobs = NoJobs
<1> DEFINE active == {"QUEUED", "STARTED"}
           rows == {"artifacts", "jobs", "documents"}
           dropped == DropIndexIfExists(d)
           bare == DropFks(dropped)
           empty == Truncate(bare, rows)
           retyped == RetypeIds(empty, to)
           linked == CreateFks(retyped)
           r == CreateIndex(linked, active)
<1>0. active \in SUBSET AllStatuses
  BY DEF AllStatuses
<1>1. Ran(d, dropped, FALSE, {"index"}) /\ (dropped.ok => dropped.index = {})
  BY DropIndexIfExistsRan
<1> HIDE DEF dropped
<1>2. Ran(dropped, bare, FALSE, {"fks"}) /\ (bare.ok => bare.fks = FALSE)
  BY <1>1, DropFksRan DEF Ran
<1> HIDE DEF bare
<1>3. /\ Ran(bare, empty, FALSE, rows)
      /\ empty.ok => empty.artifacts = {} /\ empty.jobs = NoJobs /\ empty.documents = {}
  BY <1>2, TruncateAllRan DEF Ran
<1> HIDE DEF empty
<1>4. /\ Ran(empty, retyped, empty.fks \/ empty.index # {}, {"ids", "dangling"})
      /\ retyped.ok => /\ retyped.ids = to
                       /\ retyped.dangling = (empty.jobs # NoJobs \/ empty.artifacts # {})
  BY <1>3, RetypeIdsRan DEF Ran
<1> HIDE DEF retyped
<1>5. Ran(retyped, linked, retyped.dangling, {"fks"}) /\ (linked.ok => linked.fks = TRUE)
  BY <1>4, CreateFksRan DEF Ran
<1> HIDE DEF linked
<1>6. /\ Ran(linked, r, linked.index # {} \/ Duplicates(linked.jobs, active), {"index"})
      /\ r.ok => r.index = active
  BY <1>0, <1>5, CreateIndexRan DEF Ran
<1>7. r = Retype(d, rows, to)
  BY DEF Retype, linked, retyped, empty, bare, dropped
<1> HIDE DEF r
<1>8. r \in Database /\ (~d.ok => ~r.ok) /\ d.ok \in BOOLEAN /\ r.ok \in BOOLEAN
  BY <1>1, <1>2, <1>3, <1>4, <1>5, <1>6 DEF Ran, Database
<1>9. ASSUME d.ok
      PROVE  /\ r.ok
             /\ Same({"index", "fks", "artifacts", "jobs", "documents", "ids", "dangling"}, d, r)
             /\ r.index = active /\ r.fks = TRUE /\ r.ids = to /\ r.dangling = FALSE
             /\ r.jobs = NoJobs
  <2>1. /\ empty.ok /\ empty.index = {} /\ empty.fks = FALSE
        /\ empty.artifacts = {} /\ empty.jobs = NoJobs
        /\ Same({"index", "fks", "artifacts", "jobs", "documents"}, d, empty)
    BY <1>1, <1>2, <1>3, <1>9 DEF Ran, Same
  <2>2. retyped.ok /\ Same({"ids", "dangling"}, empty, retyped)
        /\ retyped.ids = to /\ retyped.dangling = FALSE
    BY <1>4, <2>1 DEF Ran
  <2>3. linked.ok /\ linked.index = {} /\ linked.jobs = NoJobs
    BY <1>5, <2>1, <2>2 DEF Ran, Same
  <2>4. ~Duplicates(NoJobs, active)
    BY DEF Duplicates, NoJobs
  <2>5. r.ok
    BY <1>6, <2>3, <2>4 DEF Ran
  <2>6. QED
    BY <1>5, <1>6, <2>1, <2>2, <2>3, <2>5 DEF Ran, Same
<1>10. QED
  BY <1>7, <1>8, <1>9

(* The keys become UUIDs. *)
LEMMA UuidPrimaryKeysUpGoes ==
  ASSUME NEW d \in Database PROVE GoesUp(6, d, UuidPrimaryKeysUp(d))
<1> DEFINE r == UuidPrimaryKeysUp(d)
<1>1. /\ r \in Database
      /\ r.ok = d.ok
      /\ r.ok => /\ Same({"index", "fks", "artifacts", "jobs", "documents", "ids", "dangling"},
                         d, r)
                 /\ r.index = {"QUEUED", "STARTED"} /\ r.fks = TRUE /\ r.ids = "uuid"
                 /\ r.dangling = FALSE /\ r.jobs = NoJobs
  BY RetypeGoes DEF UuidPrimaryKeysUp
<1> HIDE DEF r
<1>2. At(5, d) => r.ok /\ At(6, r)
  BY <1>1 DEF Same, At, Built, Fits, LabelsAt, DefaultAt, IndexAt, IdsAt, UniqueAt, NoJobs,
              Duplicates
<1>3. r.ok => Keeps({6}, d, r)
  BY <1>1 DEF Same, Keeps
<1>4. QED
  BY <1>1, <1>2, <1>3 DEF GoesUp, Admits, r

(* documents.file_name goes. *)
LEMMA DropFileNameUpGoes == ASSUME NEW d \in Database PROVE GoesUp(7, d, DropFileNameUp(d))
<1> DEFINE r == DropFileNameUp(d)
<1>1. Ran(d, r, FALSE, {"fileName"})
  BY SetFileNameRan DEF DropFileNameUp
<1> HIDE DEF r
<1>2. At(6, d) => r.ok /\ At(7, r)
  BY <1>1 DEF Ran, Same, At, Built, Fits, LabelsAt, DefaultAt, IndexAt, IdsAt, UniqueAt
<1>3. r.ok => Keeps({7}, d, r)
  BY <1>1 DEF Ran, Same, Keeps
<1>4. QED
  BY <1>1, <1>2, <1>3 DEF GoesUp, Ran, Admits, r

(* The artifacts go before their constraint is replaced, so that no row    *)
(* can be in the way of the new one.                                       *)
LEMMA ArtifactUniqueUpGoes == ASSUME NEW d \in Database PROVE GoesUp(8, d, ArtifactUniqueUp(d))
<1> DEFINE empty == Truncate(d, {"artifacts"})
           free == DropUniqueIfExists(empty, "object_key")
           r == CreateUnique(free, "document_type")
<1>1. Ran(d, empty, FALSE, {"artifacts"}) /\ (empty.ok => empty.artifacts = {})
  BY TruncateArtifactsRan
<1> HIDE DEF empty
<1>2. /\ Ran(empty, free, FALSE, {"unique"})
      /\ free.ok => free.unique = empty.unique \ {"object_key"}
  BY <1>1, DropUniqueIfExistsRan DEF Ran
<1> HIDE DEF free
<1>3. /\ Ran(free, r, Conflicting(free.artifacts, "document_type"), {"unique"})
      /\ r.ok => r.unique = free.unique \cup {"document_type"}
  BY <1>2, CreateUniqueRan DEF Ran
<1>4. r = ArtifactUniqueUp(d)
  BY DEF ArtifactUniqueUp, free, empty
<1> HIDE DEF r
<1>5. r \in Database /\ (~d.ok => ~r.ok)
  BY <1>1, <1>2, <1>3 DEF Ran
<1>6. d.ok => r.ok
  BY <1>1, <1>2, <1>3 DEF Ran, Same, Conflicting
<1>7. r.ok => /\ Same({"artifacts", "unique"}, d, r)
              /\ r.unique = (d.unique \ {"object_key"}) \cup {"document_type"}
  BY <1>1, <1>2, <1>3 DEF Ran, Same
<1>8. At(7, d) => r.ok /\ At(8, r)
  BY <1>6, <1>7 DEF Same, At, Built, Fits, LabelsAt, DefaultAt, IndexAt, IdsAt, UniqueAt
<1>9. r.ok => Keeps({8}, d, r)
  BY <1>7 DEF Same, Keeps
<1>10. QED
  BY <1>4, <1>5, <1>8, <1>9 DEF GoesUp, Admits

(* And so on the way down. *)
LEMMA ArtifactUniqueDownGoes ==
  ASSUME NEW d \in Database PROVE GoesDown(8, d, ArtifactUniqueDown(d))
<1> DEFINE empty == Truncate(d, {"artifacts"})
           free == DropUnique(empty, "document_type")
           r == CreateUnique(free, "object_key")
<1>1. Ran(d, empty, FALSE, {"artifacts"}) /\ (empty.ok => empty.artifacts = {})
  BY TruncateArtifactsRan
<1> HIDE DEF empty
<1>2. /\ Ran(empty, free, "document_type" \notin empty.unique, {"unique"})
      /\ free.ok => free.unique = empty.unique \ {"document_type"}
  BY <1>1, DropUniqueRan DEF Ran
<1> HIDE DEF free
<1>3. /\ Ran(free, r, Conflicting(free.artifacts, "object_key"), {"unique"})
      /\ r.ok => r.unique = free.unique \cup {"object_key"}
  BY <1>2, CreateUniqueRan DEF Ran
<1>4. r = ArtifactUniqueDown(d)
  BY DEF ArtifactUniqueDown, free, empty
<1> HIDE DEF r
<1>5. r \in Database
  BY <1>1, <1>2, <1>3 DEF Ran
<1>6. ASSUME At(8, d)
      PROVE  At(7, r) /\ Keeps({8}, d, r)
  <2>1. d.ok /\ d.unique = {"document_type"}
    BY <1>6 DEF At, Built, UniqueAt
  <2>2. /\ r.ok /\ Same({"artifacts", "unique"}, d, r)
        /\ r.unique = (d.unique \ {"document_type"}) \cup {"object_key"}
    BY <1>1, <1>2, <1>3, <2>1 DEF Ran, Same, Conflicting
  <2>3. At(7, r)
    BY <1>6, <2>1, <2>2
       DEF Same, At, Built, Fits, LabelsAt, DefaultAt, IndexAt, IdsAt, UniqueAt
  <2>4. QED
    BY <2>2, <2>3 DEF Same, Keeps
<1>7. QED
  BY <1>4, <1>5, <1>6 DEF GoesDown

(* documents.file_name returns, with another default than it had. *)
LEMMA DropFileNameDownGoes ==
  ASSUME NEW d \in Database PROVE GoesDown(7, d, DropFileNameDown(d))
<1> DEFINE e == SetFileName(d, "empty")
           r == SetFileName(e, "none")
<1>1. Ran(d, e, FALSE, {"fileName"})
  BY SetFileNameRan
<1> HIDE DEF e
<1>2. Ran(e, r, FALSE, {"fileName"})
  BY <1>1, SetFileNameRan DEF Ran
<1>3. r = DropFileNameDown(d)
  BY DEF DropFileNameDown, e
<1> HIDE DEF r
<1>4. r \in Database /\ (d.ok => r.ok /\ Same({"fileName"}, d, r))
  BY <1>1, <1>2 DEF Ran, Same
<1>5. At(7, d) => At(6, r)
  BY <1>4 DEF Same, At, Built, Fits, LabelsAt, DefaultAt, IndexAt, IdsAt, UniqueAt
<1>6. At(7, d) => Keeps({7}, d, r)
  BY <1>4 DEF At, Same, Keeps
<1>7. QED
  BY <1>3, <1>4, <1>5, <1>6 DEF GoesDown

(* The keys become integers again. *)
LEMMA UuidPrimaryKeysDownGoes ==
  ASSUME NEW d \in Database PROVE GoesDown(6, d, UuidPrimaryKeysDown(d))
<1> DEFINE r == UuidPrimaryKeysDown(d)
<1>1. /\ r \in Database
      /\ r.ok = d.ok
      /\ r.ok => /\ Same({"index", "fks", "artifacts", "jobs", "documents", "ids", "dangling"},
                         d, r)
                 /\ r.index = {"QUEUED", "STARTED"} /\ r.fks = TRUE /\ r.ids = "integer"
                 /\ r.dangling = FALSE /\ r.jobs = NoJobs
  BY RetypeGoes DEF UuidPrimaryKeysDown
<1> HIDE DEF r
<1>2. At(6, d) => r.ok /\ At(5, r)
  BY <1>1 DEF Same, At, Built, Fits, LabelsAt, DefaultAt, IndexAt, IdsAt, UniqueAt, NoJobs,
              Duplicates
<1>3. r.ok => Keeps({6}, d, r)
  BY <1>1 DEF Same, Keeps
<1>4. QED
  BY <1>1, <1>2, <1>3 DEF GoesDown, r

(* CREATED returns to the enum and to the index; no row has it yet, so the *)
(* wider index finds no more than the narrower one did.                    *)
LEMMA RemoveCreatedDownGoes ==
  ASSUME NEW d \in Database PROVE GoesDown(5, d, RemoveCreatedDown(d))
<1> DEFINE dropped == DropIndex(d)
           bare == SetDefault(dropped, "none")
           retyped == RetypeStatus(bare, AllStatuses)
           defaulted == SetDefault(retyped, "CREATED")
           r == CreateIndex(defaulted, Unfinished)
<1>0. /\ AllStatuses \in SUBSET AllStatuses /\ Unfinished \in SUBSET AllStatuses
      /\ "none" \in {"none"} \cup AllStatuses /\ "CREATED" \in {"none"} \cup AllStatuses
  BY DEF AllStatuses, Unfinished
<1>1. Ran(d, dropped, d.index = {}, {"index"}) /\ (dropped.ok => dropped.index = {})
  BY DropIndexRan
<1> HIDE DEF dropped
<1>2. Ran(dropped, bare, FALSE, {"default"}) /\ (bare.ok => bare.default = "none")
  BY <1>0, <1>1, SetDefaultRan DEF Ran
<1> HIDE DEF bare
<1>3. /\ Ran(bare, retyped,
             \/ bare.index # {} \/ bare.default # "none"
             \/ \E j \in Jobs : bare.jobs[j] \notin AllStatuses \cup {"absent"},
             {"labels"})
      /\ retyped.ok => retyped.labels = AllStatuses
  BY <1>0, <1>2, RetypeStatusRan DEF Ran
<1> HIDE DEF retyped
<1>4. Ran(retyped, defaulted, FALSE, {"default"}) /\ (defaulted.ok => defaulted.default = "CREATED")
  BY <1>0, <1>3, SetDefaultRan DEF Ran
<1> HIDE DEF defaulted
<1>5. /\ Ran(defaulted, r, defaulted.index # {} \/ Duplicates(defaulted.jobs, Unfinished),
             {"index"})
      /\ r.ok => r.index = Unfinished
  BY <1>0, <1>4, CreateIndexRan DEF Ran
<1>6. r = RemoveCreatedDown(d)
  BY DEF RemoveCreatedDown, defaulted, retyped, bare, dropped
<1> HIDE DEF r
<1>7. r \in Database
  BY <1>1, <1>2, <1>3, <1>4, <1>5 DEF Ran
<1>8. ASSUME At(5, d)
      PROVE  At(4, r) /\ Keeps({5}, d, r)
  <2>1. /\ d.ok /\ d.index = {"QUEUED", "STARTED"} /\ d.labels = AllStatuses \ {"CREATED"}
        /\ ~Duplicates(d.jobs, {"QUEUED", "STARTED"})
        /\ \A j \in Jobs : d.jobs[j] \in (AllStatuses \ {"CREATED"}) \cup {"absent"}
    BY <1>8 DEF At, Built, Fits, IndexAt, LabelsAt
  <2>2. ~Duplicates(d.jobs, Unfinished)
    BY <2>1 DEF Duplicates, Unfinished
  <2>3. /\ bare.ok /\ bare.index = {} /\ bare.default = "none"
        /\ Same({"index", "default"}, d, bare)
    BY <1>1, <1>2, <2>1 DEF Ran, Same
  <2>4. /\ defaulted.ok /\ defaulted.index = {} /\ defaulted.labels = AllStatuses
        /\ defaulted.default = "CREATED"
        /\ Same({"index", "default", "labels"}, d, defaulted)
    BY <1>3, <1>4, <2>1, <2>3 DEF Ran, Same
  <2>5. /\ r.ok /\ r.index = Unfinished /\ r.labels = AllStatuses /\ r.default = "CREATED"
        /\ Same({"index", "default", "labels"}, d, r)
    BY <1>5, <2>2, <2>4 DEF Ran, Same
  <2>6. At(4, r)
    BY <1>8, <2>1, <2>2, <2>5
       DEF Same, At, Built, Fits, LabelsAt, DefaultAt, IndexAt, IdsAt, UniqueAt
  <2>7. QED
    BY <2>5, <2>6 DEF Same, Keeps
<1>9. QED
  BY <1>6, <1>7, <1>8 DEF GoesDown

(* The index goes. *)
LEMMA AddActiveIndexDownGoes ==
  ASSUME NEW d \in Database PROVE GoesDown(4, d, AddActiveIndexDown(d))
<1> DEFINE r == AddActiveIndexDown(d)
<1>1. Ran(d, r, FALSE, {"index"}) /\ (r.ok => r.index = {})
  BY DropIndexIfExistsRan DEF AddActiveIndexDown
<1> HIDE DEF r
<1>2. At(4, d) => At(3, r)
  BY <1>1 DEF Ran, Same, At, Built, Fits, LabelsAt, DefaultAt, IndexAt, IdsAt, UniqueAt,
              Duplicates
<1>3. At(4, d) => Keeps({4}, d, r)
  BY <1>1 DEF At, Ran, Same, Keeps
<1>4. QED
  BY <1>1, <1>2, <1>3 DEF GoesDown, Ran, r

(* documents.file_name goes. *)
LEMMA AddFileNameDownGoes ==
  ASSUME NEW d \in Database PROVE GoesDown(3, d, AddFileNameDown(d))
<1> DEFINE r == AddFileNameDown(d)
<1>1. Ran(d, r, FALSE, {"fileName"})
  BY SetFileNameRan DEF AddFileNameDown
<1> HIDE DEF r
<1>2. At(3, d) => At(2, r)
  BY <1>1 DEF Ran, Same, At, Built, Fits, LabelsAt, DefaultAt, IndexAt, IdsAt, UniqueAt
<1>3. At(3, d) => Keeps({3}, d, r)
  BY <1>1 DEF At, Ran, Same, Keeps
<1>4. QED
  BY <1>1, <1>2, <1>3 DEF GoesDown, Ran, r

(* jobs.failed_at goes. *)
LEMMA AddFailedAtDownGoes ==
  ASSUME NEW d \in Database PROVE GoesDown(2, d, AddFailedAtDown(d))
<1> DEFINE r == AddFailedAtDown(d)
<1>1. Ran(d, r, FALSE, {"failedAt"}) /\ (r.ok => r.failedAt = FALSE)
  BY SetFailedAtRan DEF AddFailedAtDown
<1> HIDE DEF r
<1>2. At(2, d) => At(1, r)
  BY <1>1 DEF Ran, Same, At, Built, Fits, LabelsAt, DefaultAt, IndexAt, IdsAt, UniqueAt
<1>3. At(2, d) => Keeps({2}, d, r)
  BY <1>1 DEF At, Ran, Same, Keeps
<1>4. QED
  BY <1>1, <1>2, <1>3 DEF GoesDown, Ran, r

(* The database a command may start from. *)
LEMMA EmptyIsBase ==
  EmptyDb \in Database /\ At(0, EmptyDb) /\ EmptyDb.rev = 0 /\ EmptyDb.labels = {}
<1>1. EmptyDb \in Database
  BY DEF EmptyDb, Database, NoJobs, Revisions, HeadRevision
<1>2. QED
  BY <1>1 DEF EmptyDb, At, Base

(* The tables go, the enum type stays. *)
LEMMA InitialDownGoes == ASSUME NEW d \in Database PROVE GoesDown(1, d, InitialDown(d))
<1> DEFINE r == [EmptyDb EXCEPT !.labels = d.labels]
<1>1. d.labels \in SUBSET AllStatuses
  BY DEF Database
<1>2. r \in Database /\ r.labels = d.labels
  BY <1>1, EmptyIsBase DEF Database
<1>3. r.ok /\ Same({"labels"}, EmptyDb, r)
  BY EmptyIsBase DEF EmptyDb, Same
<1>4. At(1, d) => InitialDown(d) = r /\ d.labels = AllStatuses
  BY DEF At, InitialDown, DropTables, Exec, Built, LabelsAt
<1> HIDE DEF r
<1>5. d.labels = AllStatuses => At(0, r)
  BY <1>2, <1>3, EmptyIsBase DEF At, Base, Same
<1>6. Keeps({1}, d, r)
  BY DEF Keeps
<1>7. QED
  BY <1>2, <1>4, <1>5, <1>6 DEF GoesDown

(***************************************************************************)
(* What a command does.                                                    *)
(***************************************************************************)

(* No script on the way from d up to revision m raises: the two that can   *)
(* depend on the enum type and the rows of d, whatever ran before them.    *)
Clear(d, m) == /\ d.rev = 0 /\ m >= 1 => d.labels = {}
               /\ d.rev < 4 /\ m >= 4 => ~Duplicates(d.jobs, Unfinished)

(* An upgrade from d that has come to revision m, with x. *)
Came(d, m, x) ==
  /\ x \in Database
  /\ x.ok <=> Clear(d, m)
  /\ x.ok => /\ At(m, x) /\ Keeps((d.rev + 1)..m, d, x)
             /\ m < 4 => x.jobs = d.jobs
             /\ m = d.rev => x.labels = d.labels

(* A downgrade from d that has come to revision m, with x. *)
Back(d, m, x) == x \in Database /\ At(m, x) /\ Keeps((m + 1)..d.rev, d, x)

(* Where either is once the script of n has had its turn. *)
Reached(d, to, n) == IF n < d.rev THEN d.rev ELSE IF n > to THEN to ELSE n
Left(d, to, n) == IF n > d.rev THEN d.rev ELSE IF n < to THEN to ELSE n

(* What two scripts keep, both keep. *)
LEMMA KeepsBoth ==
  ASSUME NEW first, NEW second, NEW d, NEW x, NEW y,
         Keeps(first, d, x), Keeps(second, x, y)
  PROVE  Keeps(first \cup second, d, y)
BY DEF Keeps

(* The script of one more revision runs, or is not on the way. *)
LEMMA OneUp ==
  ASSUME NEW d \in Database, NEW to \in Revisions, d.rev <= to, NEW n \in 1..HeadRevision,
         NEW x, Came(d, Reached(d, to, n - 1), x), NEW y, GoesUp(n, x, y)
  PROVE  Came(d, Reached(d, to, n), IF d.rev < n /\ n <= to THEN y ELSE x)
<1>0. d.rev \in 0..8 /\ to \in 0..8 /\ n \in 1..8
  BY DEF Database, Revisions, HeadRevision
<1>1. CASE d.rev < n /\ n <= to
  <2>1. Reached(d, to, n - 1) = n - 1 /\ Reached(d, to, n) = n
    BY <1>0, <1>1 DEF Reached
  <2>2. Came(d, n - 1, x)
    BY <2>1
  <2>3. y \in Database
    BY DEF GoesUp
  <2>4. CASE ~x.ok
    BY <1>0, <1>1, <2>1, <2>2, <2>3, <2>4 DEF Came, Clear, GoesUp
  <2>5. CASE x.ok
    <3>1. At(n - 1, x) /\ Keeps((d.rev + 1)..(n - 1), d, x) /\ Clear(d, n - 1)
      BY <2>2, <2>5 DEF Came
    <3>2. y.ok <=> Admits(n, x)
      BY <3>1 DEF GoesUp
    <3>3. Admits(n, x) <=> Clear(d, n)
      <4>1. n = 1 => d.rev = 0 /\ x.labels = d.labels
        BY <1>0, <1>1, <2>2, <2>5 DEF Came
      <4>2. n = 4 => x.jobs = d.jobs
        BY <1>0, <2>2, <2>5 DEF Came
      <4>3. QED
        BY <1>0, <1>1, <3>1, <4>1, <4>2 DEF Admits, Clear
    <3>4. y.ok => At(n, y) /\ Keeps({n}, x, y) /\ (n < 4 => y.jobs = d.jobs)
      BY <1>0, <2>2, <2>5, <3>1 DEF GoesUp, Came
    <3>5. (d.rev + 1)..n = ((d.rev + 1)..(n - 1)) \cup {n}
      BY <1>0, <1>1
    <3>6. y.ok => Keeps(((d.rev + 1)..(n - 1)) \cup {n}, d, y)
      BY <3>1, <3>4, KeepsBoth
    <3>7. y.ok => Keeps((d.rev + 1)..n, d, y)
      BY <3>5, <3>6, Zenon
    <3>8. Came(d, n, y)
      BY <1>0, <1>1, <2>3, <3>2, <3>3, <3>4, <3>7 DEF Came
    <3>9. QED
      BY <1>1, <2>1, <3>8
  <2>6. QED
    BY <2>4, <2>5
<1>2. CASE ~(d.rev < n /\ n <= to)
  <2>1. Reached(d, to, n - 1) = Reached(d, to, n)
    BY <1>0, <1>2 DEF Reached
  <2>2. QED
    BY <1>2, <2>1
<1>3. QED
  BY <1>1, <1>2

(* The same on the way down. *)
LEMMA OneDown ==
  ASSUME NEW d \in Database, NEW to \in Revisions, to <= d.rev, NEW n \in 1..HeadRevision,
         NEW x, Back(d, Left(d, to, n), x), NEW y, GoesDown(n, x, y)
  PROVE  Back(d, Left(d, to, n - 1), IF to < n /\ n <= d.rev THEN y ELSE x)
<1>0. d.rev \in 0..8 /\ to \in 0..8 /\ n \in 1..8
  BY DEF Database, Revisions, HeadRevision
<1>1. CASE to < n /\ n <= d.rev
  <2>1. Left(d, to, n) = n /\ Left(d, to, n - 1) = n - 1
    BY <1>0, <1>1 DEF Left
  <2>2. At(n, x) /\ Keeps((n + 1)..d.rev, d, x)
    BY <2>1 DEF Back
  <2>3. y \in Database /\ At(n - 1, y) /\ Keeps({n}, x, y)
    BY <2>2 DEF GoesDown
  <2>4. ((n - 1) + 1)..d.rev = ((n + 1)..d.rev) \cup {n}
    BY <1>0, <1>1
  <2>5. Keeps(((n + 1)..d.rev) \cup {n}, d, y)
    BY <2>2, <2>3, KeepsBoth
  <2>6. QED
    BY <1>1, <2>1, <2>3, <2>4, <2>5 DEF Back
<1>2. CASE ~(to < n /\ n <= d.rev)
  <2>1. Left(d, to, n - 1) = Left(d, to, n)
    BY <1>0, <1>2 DEF Left
  <2>2. QED
    BY <1>2, <2>1
<1>3. QED
  BY <1>1, <1>2

(* alembic upgrade. *)
LEMMA UpgradedCame ==
  ASSUME NEW d \in Database, At(d.rev, d), NEW to \in Revisions, d.rev <= to
  PROVE  Came(d, to, Upgraded(d, to))
<1> DEFINE step(n, before, after) == IF d.rev < n /\ n <= to THEN after ELSE before
           d1 == step(1, d,  InitialUp(d))
           d2 == step(2, d1, AddFailedAtUp(d1))
           d3 == step(3, d2, AddFileNameUp(d2))
           d4 == step(4, d3, AddActiveIndexUp(d3))
           d5 == step(5, d4, RemoveCreatedUp(d4))
           d6 == step(6, d5, UuidPrimaryKeysUp(d5))
           d7 == step(7, d6, DropFileNameUp(d6))
           d8 == step(8, d7, ArtifactUniqueUp(d7))
<1>0. d.rev \in 0..8 /\ to \in 0..8 /\ HeadRevision = 8
  BY DEF Database, Revisions, HeadRevision
<1>1. Came(d, Reached(d, to, 0), d)
  <2>1. Reached(d, to, 0) = d.rev
    BY <1>0 DEF Reached
  <2>2. d.ok /\ Clear(d, d.rev) /\ Keeps((d.rev + 1)..d.rev, d, d)
    BY <1>0 DEF At, Clear, Keeps
  <2>3. QED
    BY <2>1, <2>2 DEF Came
<1>2. Came(d, Reached(d, to, 1), d1)
  BY <1>0, <1>1, InitialUpGoes, OneUp
<1> HIDE DEF d1
<1>3. Came(d, Reached(d, to, 2), d2)
  BY <1>0, <1>2, AddFailedAtUpGoes, OneUp DEF Came
<1> HIDE DEF d2
<1>4. Came(d, Reached(d, to, 3), d3)
  BY <1>0, <1>3, AddFileNameUpGoes, OneUp DEF Came
<1> HIDE DEF d3
<1>5. Came(d, Reached(d, to, 4), d4)
  BY <1>0, <1>4, AddActiveIndexUpGoes, OneUp DEF Came
<1> HIDE DEF d4
<1>6. Came(d, Reached(d, to, 5), d5)
  BY <1>0, <1>5, RemoveCreatedUpGoes, OneUp DEF Came
<1> HIDE DEF d5
<1>7. Came(d, Reached(d, to, 6), d6)
  BY <1>0, <1>6, UuidPrimaryKeysUpGoes, OneUp DEF Came
<1> HIDE DEF d6
<1>8. Came(d, Reached(d, to, 7), d7)
  BY <1>0, <1>7, DropFileNameUpGoes, OneUp DEF Came
<1> HIDE DEF d7
<1>9. Came(d, Reached(d, to, 8), d8)
  BY <1>0, <1>8, ArtifactUniqueUpGoes, OneUp DEF Came
<1>10. Upgraded(d, to) = d8
  BY DEF Upgraded, d1, d2, d3, d4, d5, d6, d7
<1>11. Reached(d, to, 8) = to
  BY <1>0 DEF Reached
<1>12. QED
  BY <1>9, <1>10, <1>11

(* alembic downgrade. *)
LEMMA DowngradedBack ==
  ASSUME NEW d \in Database, At(d.rev, d), NEW to \in Revisions, to <= d.rev
  PROVE  Back(d, to, Downgraded(d, to))
<1> DEFINE step(n, before, after) == IF to < n /\ n <= d.rev THEN after ELSE before
           d7 == step(8, d,  ArtifactUniqueDown(d))
           d6 == step(7, d7, DropFileNameDown(d7))
           d5 == step(6, d6, UuidPrimaryKeysDown(d6))
           d4 == step(5, d5, RemoveCreatedDown(d5))
           d3 == step(4, d4, AddActiveIndexDown(d4))
           d2 == step(3, d3, AddFileNameDown(d3))
           d1 == step(2, d2, AddFailedAtDown(d2))
           d0 == step(1, d1, InitialDown(d1))
<1>0. d.rev \in 0..8 /\ to \in 0..8 /\ HeadRevision = 8
  BY DEF Database, Revisions, HeadRevision
<1>1. Back(d, Left(d, to, 8), d)
  <2>1. Left(d, to, 8) = d.rev
    BY <1>0 DEF Left
  <2>2. QED
    BY <2>1 DEF Back, Keeps
<1>2. Back(d, Left(d, to, 7), d7)
  BY <1>0, <1>1, ArtifactUniqueDownGoes, OneDown
<1> HIDE DEF d7
<1>3. Back(d, Left(d, to, 6), d6)
  BY <1>0, <1>2, DropFileNameDownGoes, OneDown DEF Back
<1> HIDE DEF d6
<1>4. Back(d, Left(d, to, 5), d5)
  BY <1>0, <1>3, UuidPrimaryKeysDownGoes, OneDown DEF Back
<1> HIDE DEF d5
<1>5. Back(d, Left(d, to, 4), d4)
  BY <1>0, <1>4, RemoveCreatedDownGoes, OneDown DEF Back
<1> HIDE DEF d4
<1>6. Back(d, Left(d, to, 3), d3)
  BY <1>0, <1>5, AddActiveIndexDownGoes, OneDown DEF Back
<1> HIDE DEF d3
<1>7. Back(d, Left(d, to, 2), d2)
  BY <1>0, <1>6, AddFileNameDownGoes, OneDown DEF Back
<1> HIDE DEF d2
<1>8. Back(d, Left(d, to, 1), d1)
  BY <1>0, <1>7, AddFailedAtDownGoes, OneDown DEF Back
<1> HIDE DEF d1
<1>9. Back(d, Left(d, to, 0), d0)
  BY <1>0, <1>8, InitialDownGoes, OneDown DEF Back
<1>10. Downgraded(d, to) = d0
  BY DEF Downgraded, d1, d2, d3, d4, d5, d6, d7
<1>11. Left(d, to, 0) = to
  BY <1>0 DEF Left
<1>12. QED
  BY <1>9, <1>10, <1>11

(* The revision recorded at the end says nothing of the tables. *)
LEMMA Renumbered ==
  ASSUME NEW x \in Database, NEW to \in Revisions
  PROVE  LET r == [x EXCEPT !.rev = to]
         IN  /\ r \in Database /\ r.rev = to /\ r.ok = x.ok /\ Same({}, x, r)
             /\ At(to, x) => At(to, r)
             /\ \A d, revisions : Keeps(revisions, d, x) => Keeps(revisions, d, r)
<1> DEFINE r == [x EXCEPT !.rev = to]
<1>1. r \in Database /\ r.rev = to /\ r.ok = x.ok
  BY DEF Database
<1>2. Same({}, x, r)
  BY DEF Database, Same
<1> HIDE DEF r
<1>3. At(to, x) => At(to, r)
  BY <1>1, <1>2 DEF Same, At, Base, Built, Fits
<1>4. \A d, revisions : Keeps(revisions, d, x) => Keeps(revisions, d, r)
  BY <1>2 DEF Same, Keeps
<1>5. QED
  BY <1>1, <1>2, <1>3, <1>4 DEF r

(* A command that goes up fails exactly where the enum type is left over   *)
(* or the index does not admit the rows.                                   *)
LEMMA MigratedUp ==
  ASSUME NEW d \in Database, At(d.rev, d), NEW to \in Revisions, d.rev <= to
  PROVE  LET r == Migrated(d, to)
         IN  /\ r \in Database /\ r.rev = to
             /\ r.ok <=> Clear(d, to)
             /\ r.ok => At(to, r) /\ Keeps((d.rev + 1)..to, d, r)
<1> DEFINE x == Upgraded(d, to)
<1>1. Came(d, to, x)
  BY UpgradedCame
<1>2. Migrated(d, to) = [x EXCEPT !.rev = to]
  BY DEF Migrated
<1> HIDE DEF x
<1>3. x \in Database
  BY <1>1 DEF Came
<1>4. QED
  BY <1>1, <1>2, <1>3, Renumbered DEF Came

(* A command that goes down does not fail. *)
LEMMA MigratedDown ==
  ASSUME NEW d \in Database, At(d.rev, d), NEW to \in Revisions, to < d.rev
  PROVE  LET r == Migrated(d, to)
         IN  /\ r \in Database /\ r.rev = to /\ r.ok
             /\ At(to, r) /\ Keeps((to + 1)..d.rev, d, r)
<1> DEFINE x == Downgraded(d, to)
<1>0. d.rev \in 0..8 /\ to \in 0..8
  BY DEF Database, Revisions, HeadRevision
<1>1. Back(d, to, x)
  BY <1>0, DowngradedBack
<1>2. Migrated(d, to) = [x EXCEPT !.rev = to]
  BY <1>0 DEF Migrated
<1> HIDE DEF x
<1>3. x \in Database /\ x.ok
  BY <1>1 DEF Back, At
<1>4. QED
  BY <1>1, <1>2, <1>3, Renumbered DEF Back

(* The application adds rows, and takes none away: r is d with some more.  *)
Grew(d, r) == /\ r \in Database /\ r.ok = d.ok /\ r.rev = d.rev
              /\ Same({"accounts", "documents", "jobs", "artifacts"}, d, r)
              /\ Keeps({}, d, r)

(* A command keeps the invariant, and what its scripts do not declare. *)
LEMMA MoveKeeps ==
  ASSUME MigrationInv, NEW to \in Revisions, MoveTo(to)
  PROVE  /\ MigrationInv'
         /\ db'.rev = to
         /\ IF db.rev <= to THEN Keeps((db.rev + 1)..to, db, db')
                            ELSE Keeps((to + 1)..db.rev, db, db')
<1>0. db \in Database /\ At(db.rev, db) /\ db.rev \in 0..8 /\ to \in 0..8
  BY DEF MigrationInv, Database, Revisions, HeadRevision
<1>1. db' = Migrated(db, to) /\ Migrated(db, to).ok
  BY DEF MoveTo
<1>2. CASE db.rev <= to
  BY <1>0, <1>1, <1>2, MigratedUp DEF MigrationInv
<1>3. CASE to < db.rev
  BY <1>0, <1>1, <1>3, MigratedDown DEF MigrationInv
<1>4. QED
  BY <1>0, <1>2, <1>3

(* A new account. *)
LEMMA AddAccountKeeps ==
  ASSUME MigrationInv, NEW a \in Accounts, AddAccount(a)
  PROVE  MigrationInv' /\ Grew(db, db')
<1>1. db \in Database /\ At(db.rev, db) /\ db.tables
  BY DEF MigrationInv, AddAccount
<1>2. db' = [db EXCEPT !.accounts = @ \cup {a}]
  BY DEF AddAccount
<1>3. /\ db' \in Database /\ db'.ok = db.ok /\ db'.rev = db.rev
      /\ db'.accounts = db.accounts \cup {a}
  BY <1>1, <1>2 DEF Database
<1>4. Same({"accounts"}, db, db')
  BY <1>1, <1>2 DEF Database, Same
<1>5. db.rev # 0
  BY <1>1 DEF At, Base
<1>6. At(db'.rev, db')
  BY <1>1, <1>3, <1>4, <1>5 DEF Same, At, Built, Fits
<1>7. Grew(db, db')
  BY <1>3, <1>4 DEF Same, Keeps, Grew
<1>8. QED
  BY <1>3, <1>6, <1>7 DEF MigrationInv

(* A new document. *)
LEMMA AddDocumentKeeps ==
  ASSUME MigrationInv, NEW d \in Documents, AddDocument(d)
  PROVE  MigrationInv' /\ Grew(db, db')
<1>1. db \in Database /\ At(db.rev, db) /\ db.tables
  BY DEF MigrationInv, AddDocument
<1>2. db' = [db EXCEPT !.documents = @ \cup {d}]
  BY DEF AddDocument
<1>3. /\ db' \in Database /\ db'.ok = db.ok /\ db'.rev = db.rev
      /\ db'.documents = db.documents \cup {d}
  BY <1>1, <1>2 DEF Database
<1>4. Same({"documents"}, db, db')
  BY <1>1, <1>2 DEF Database, Same
<1>5. db.rev # 0
  BY <1>1 DEF At, Base
<1>6. At(db'.rev, db')
  BY <1>1, <1>3, <1>4, <1>5 DEF Same, At, Built, Fits
<1>7. Grew(db, db')
  BY <1>3, <1>4 DEF Same, Keeps, Grew
<1>8. QED
  BY <1>3, <1>6, <1>7 DEF MigrationInv

(* A job is inserted, or its status changes. *)
LEMMA WriteJobKeeps ==
  ASSUME MigrationInv, NEW j \in Jobs, NEW status \in AllStatuses, WriteJob(j, status)
  PROVE  MigrationInv' /\ Grew(db, db')
<1> DEFINE jobs == [db.jobs EXCEPT ![j] = status]
<1>1. /\ db \in Database /\ At(db.rev, db)
      /\ DocOf[j] \in db.documents /\ status \in db.labels /\ ~Duplicates(jobs, db.index)
      /\ db' = [db EXCEPT !.jobs = jobs]
  BY DEF MigrationInv, WriteJob
<1>2. db.jobs \in [Jobs -> AllStatuses \cup {"absent"}]
  BY <1>1 DEF Database
<1>3. /\ jobs \in [Jobs -> AllStatuses \cup {"absent"}]
      /\ \A k \in Jobs : db.jobs[k] # "absent" => jobs[k] # "absent"
      /\ \A k \in Jobs : jobs[k] \in {db.jobs[k], status}
  BY <1>2 DEF AllStatuses
<1> HIDE DEF jobs
<1>4. db' \in Database /\ db'.ok = db.ok /\ db'.rev = db.rev /\ db'.jobs = jobs
  BY <1>1, <1>3 DEF Database
<1>5. Same({"jobs"}, db, db')
  BY <1>1 DEF Database, Same
<1>6. db.rev # 0
  BY <1>1 DEF At, Base
<1>7. Fits(db')
  BY <1>1, <1>3, <1>4, <1>5, <1>6 DEF Same, At, Fits
<1>8. At(db'.rev, db')
  BY <1>1, <1>4, <1>5, <1>6, <1>7 DEF Same, At, Built
<1>9. Grew(db, db')
  BY <1>3, <1>4, <1>5 DEF Same, Keeps, Grew
<1>10. QED
  BY <1>4, <1>8, <1>9 DEF MigrationInv

(* A new artifact. *)
LEMMA WriteArtifactKeeps ==
  ASSUME MigrationInv, NEW j \in Jobs, NEW key \in Jobs \cup Documents, WriteArtifact(j, key)
  PROVE  MigrationInv' /\ Grew(db, db')
<1> DEFINE artifacts == db.artifacts \cup {[job |-> j, key |-> key]}
<1>1. /\ db \in Database /\ At(db.rev, db) /\ db.jobs[j] # "absent"
      /\ db' = [db EXCEPT !.artifacts = artifacts]
  BY DEF MigrationInv, WriteArtifact, Rows
<1>2. artifacts \in SUBSET [job : Jobs, key : Jobs \cup Documents] /\ db.artifacts \subseteq artifacts
  BY <1>1 DEF Database
<1> HIDE DEF artifacts
<1>3. db' \in Database /\ db'.ok = db.ok /\ db'.rev = db.rev /\ db'.artifacts = artifacts
  BY <1>1, <1>2 DEF Database
<1>4. Same({"artifacts"}, db, db')
  BY <1>1 DEF Database, Same
<1>5. db.rev # 0
  BY <1>1 DEF At, Base, NoJobs
<1>6. At(db'.rev, db')
  BY <1>1, <1>3, <1>4, <1>5 DEF Same, At, Built, Fits
<1>7. Grew(db, db')
  BY <1>2, <1>3, <1>4 DEF Same, Keeps, Grew
<1>8. QED
  BY <1>3, <1>6, <1>7 DEF MigrationInv

(* Every step of the next-state relation is a command or adds rows. *)
LEMMA StepKeeps ==
  ASSUME MigrationInv, Next
  PROVE  /\ MigrationInv'
         /\ \/ Grew(db, db')
            \/ \E to \in Revisions : MoveTo(to)
<1>1. CASE Migrate
  <2>1. HeadRevision \in Revisions /\ MoveTo(HeadRevision)
    BY <1>1 DEF Migrate, Revisions, HeadRevision
  <2>2. QED
    BY <2>1, MoveKeeps
<1>2. CASE \E to \in 0..HeadRevision : MoveTo(to)
  BY <1>2, MoveKeeps DEF Revisions
<1>3. CASE \E a \in Accounts : AddAccount(a)
  BY <1>3, AddAccountKeeps
<1>4. CASE \E d \in Documents : AddDocument(d)
  BY <1>4, AddDocumentKeeps
<1>5. CASE \E j \in Jobs, status \in AllStatuses : WriteJob(j, status)
  BY <1>5, WriteJobKeeps
<1>6. CASE \E j \in Jobs, key \in Jobs \cup Documents :
             key \in {j, DocOf[j]} /\ WriteArtifact(j, key)
  BY <1>6, WriteArtifactKeeps
<1>7. QED
  BY <1>1, <1>2, <1>3, <1>4, <1>5, <1>6 DEF Next

(***************************************************************************)
(* The theorems.                                                           *)
(***************************************************************************)

(* At every revision, however it was reached, the tables have exactly the  *)
(* schema of that revision and rows that it accepts.                       *)
THEOREM MigrationInvariant == Spec => []MigrationInv
<1>1. Init => MigrationInv
  BY EmptyIsBase DEF Init, MigrationInv
<1>2. MigrationInv /\ [Next]_db => MigrationInv'
  <2>1. CASE Next
    BY <2>1, StepKeeps
  <2>2. CASE UNCHANGED db
    BY <2>2 DEF MigrationInv
  <2>3. QED
    BY <2>1, <2>2
<1>3. QED
  BY <1>1, <1>2, PTL DEF Spec

(* `alembic upgrade head` fails in the two cases named and in no other,    *)
(* whatever rows the application has written.                              *)
THEOREM UpgradeSucceedsEverywhere == Spec => []UpgradeSucceeds
<1>1. MigrationInv => UpgradeSucceeds
  <2>1. SUFFICES ASSUME MigrationInv
                 PROVE  Migrated(db, HeadRevision).ok <=> Clear(db, HeadRevision)
    BY DEF UpgradeSucceeds, Clear, HeadRevision
  <2>2. db \in Database /\ At(db.rev, db) /\ HeadRevision \in Revisions /\ db.rev <= HeadRevision
    BY <2>1 DEF MigrationInv, Database, Revisions, HeadRevision
  <2>3. QED
    BY <2>2, MigratedUp
<1>2. QED
  BY <1>1, MigrationInvariant, PTL

(* No downgrade fails, from any revision to any earlier one. *)
THEOREM DowngradeSucceedsEverywhere == Spec => []DowngradeSucceeds
<1>1. MigrationInv => DowngradeSucceeds
  <2>1. SUFFICES ASSUME MigrationInv, NEW to \in 0..db.rev
                 PROVE  Migrated(db, to).ok
    BY DEF DowngradeSucceeds
  <2>2. db \in Database /\ At(db.rev, db) /\ db.rev \in 0..8 /\ to \in Revisions
    BY <2>1 DEF MigrationInv, Database, Revisions, HeadRevision
  <2>3. CASE to < db.rev
    BY <2>2, <2>3, MigratedDown
  <2>4. CASE to = db.rev
    <3>1. Clear(db, to)
      BY <2>2, <2>4 DEF Clear
    <3>2. QED
      BY <2>2, <2>4, <3>1, MigratedUp
  <2>5. QED
    BY <2>2, <2>3, <2>4
<1>2. QED
  BY <1>1, MigrationInvariant, PTL

(* From one_active_job_per_document on, no document has two unfinished     *)
(* jobs: where the index does not cover CREATED, no row has that status.   *)
THEOREM OneUnfinishedJobAlways == Spec => []OneUnfinishedJob
<1>1. MigrationInv => OneUnfinishedJob
  <2>1. SUFFICES ASSUME MigrationInv, db.rev >= 4
                 PROVE  ~Duplicates(db.jobs, Unfinished)
    BY DEF OneUnfinishedJob
  <2>2. db.rev \in 0..8 /\ Built(db.rev, db) /\ Fits(db)
    BY <2>1 DEF MigrationInv, At, Database, Revisions, HeadRevision
  <2>3. CASE db.rev = 4
    BY <2>2, <2>3 DEF Built, Fits, IndexAt
  <2>4. CASE db.rev > 4
    <3>1. db.index = {"QUEUED", "STARTED"} /\ db.labels = AllStatuses \ {"CREATED"}
      BY <2>2, <2>4 DEF Built, IndexAt, LabelsAt
    <3>2. \A j \in Jobs : db.jobs[j] # "CREATED"
      BY <2>2, <3>1 DEF Fits
    <3>3. QED
      BY <2>2, <3>1, <3>2 DEF Fits, Duplicates, Unfinished
  <2>5. QED
    BY <2>1, <2>2, <2>3, <2>4
<1>2. QED
  BY <1>1, MigrationInvariant, PTL

(* Whatever path led to a revision, its schema is the one that upgrades    *)
(* alone give an empty database.                                           *)
THEOREM DowngradeReverses == Spec => []DowngradeReversesSchema
<1>1. MigrationInv => DowngradeReversesSchema
  <2>1. SUFFICES ASSUME MigrationInv, db.rev >= 1
                 PROVE  Schema(db) = Schema(Migrated(EmptyDb, db.rev))
    BY DEF DowngradeReversesSchema
  <2>2. db \in Database /\ db.rev \in Revisions /\ db.rev \in 1..8 /\ Built(db.rev, db)
    BY <2>1 DEF MigrationInv, At, Database, Revisions, HeadRevision
  <2> DEFINE fresh == Migrated(EmptyDb, db.rev)
  <2>3. Clear(EmptyDb, db.rev)
    <3>1. ~Duplicates(EmptyDb.jobs, Unfinished)
      BY DEF EmptyDb, NoJobs, Duplicates, Unfinished
    <3>2. QED
      BY <3>1, EmptyIsBase DEF Clear
  <2>4. fresh \in Database /\ At(db.rev, fresh)
    BY <2>2, <2>3, EmptyIsBase, MigratedUp
  <2> HIDE DEF fresh
  <2>5. Built(db.rev, fresh)
    BY <2>2, <2>4 DEF At
  <2>6. db.fks = fresh.fks /\ db.failedAt = fresh.failedAt
    BY <2>2, <2>4, <2>5 DEF Built, Database
  <2>7. Schema(db) = Schema(fresh)
    BY <2>2, <2>5, <2>6 DEF Built, Schema
  <2>8. QED
    BY <2>7 DEF fresh
<1>2. QED
  BY <1>1, MigrationInvariant, PTL

(* No command loses rows but those its scripts declare: accounts never     *)
(* while the tables stay, documents and jobs only across the change of     *)
(* keys, artifacts only there and across the new constraint.               *)
THEOREM LossIsDeclared == Spec => LossOnlyWhereDeclared
<1> DEFINE crosses(n) == (db.rev >= n) # (db'.rev >= n)
           Declared == ~crosses(1) =>
             /\ db.accounts \subseteq db'.accounts
             /\ ~crosses(6) => /\ db.documents \subseteq db'.documents
                               /\ \A j \in Rows : db'.jobs[j] # "absent"
             /\ ~crosses(6) /\ ~crosses(8) => db.artifacts \subseteq db'.artifacts
<1>1. MigrationInv /\ [Next]_db => [Declared]_db
  <2>1. SUFFICES ASSUME MigrationInv, Next
                 PROVE  Declared
    OBVIOUS
  <2>2. db.rev \in 0..8
    BY <2>1 DEF MigrationInv, Database, Revisions, HeadRevision
  <2>3. CASE Grew(db, db')
    BY <2>3 DEF Grew, Keeps, Rows
  <2>4. CASE \E to \in Revisions : MoveTo(to)
    <3>1. PICK to \in Revisions : MoveTo(to)
      BY <2>4
    <3>2. /\ db'.rev = to /\ to \in 0..8
          /\ IF db.rev <= to THEN Keeps((db.rev + 1)..to, db, db')
                             ELSE Keeps((to + 1)..db.rev, db, db')
      BY <2>1, <3>1, MoveKeeps DEF Revisions, HeadRevision
    <3>3. CASE db.rev <= to
      BY <2>2, <3>2, <3>3 DEF Keeps, Rows
    <3>4. CASE to < db.rev
      BY <2>2, <3>2, <3>4 DEF Keeps, Rows
    <3>5. QED
      BY <2>2, <3>2, <3>3, <3>4
  <2>5. QED
    BY <2>1, <2>3, <2>4, StepKeeps
<1>2. QED
  BY <1>1, MigrationInvariant, PTL DEF Spec, LossOnlyWhereDeclared
=============================================================================
