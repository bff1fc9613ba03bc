----------------------------- MODULE Migrations -----------------------------
(***************************************************************************)
(* The chain of schema revisions under shared/migrations, with data in the *)
(* tables.  A revision is two sequences of statements; a statement takes   *)
(* the database to the next one or raises, and env.py runs a whole         *)
(* `alembic upgrade` or `downgrade` in one transaction, so a command that  *)
(* meets an error leaves the database as it was.  Between commands the     *)
(* application of the day may write any row that the schema accepts.       *)
(***************************************************************************)
EXTENDS Naturals

CONSTANTS
  Accounts,
  Documents,
  Jobs,
  DocOf      \* the document of each job

ASSUME JobsHaveDocuments == DocOf \in [Jobs -> Documents]

VARIABLE db

(***************************************************************************)
(* The database.                                                           *)
(***************************************************************************)
AllStatuses == {"CREATED", "QUEUED", "STARTED", "COMPLETED", "FAILED"}
Unfinished == {"CREATED", "QUEUED", "STARTED"}

NoJobs == [j \in Jobs |-> "absent"]

EmptyDb ==
  [ok        |-> TRUE,       \* FALSE once a statement has raised
   rev       |-> 0,          \* alembic_version: position in the chain
   tables    |-> FALSE,
   labels    |-> {},         \* of type job_status_enum; {}: no such type
   default   |-> "none",     \* server default of jobs.status
   index     |-> {},         \* statuses one_active_job_per_document covers
   ids       |-> "none",     \* type of the id and reference columns
   fks       |-> FALSE,      \* the foreign keys among the three tables
   dangling  |-> FALSE,      \* references rewritten by a change of type
   failedAt  |-> FALSE,      \* jobs.failed_at
   fileName  |-> "absent",   \* documents.file_name: its server default
   unique    |-> {},         \* unique constraints of artifacts
   accounts  |-> {},
   documents |-> {},
   jobs      |-> NoJobs,     \* the status of each job row
   artifacts |-> {}]         \* [job, key] of each artifact row

Rows == {j \in Jobs : db.jobs[j] # "absent"}

(* Two rows of one document whose status the set contains. *)
Duplicates(jobs, statuses) ==
  \E j, k \in Jobs : /\ j # k
                     /\ DocOf[j] = DocOf[k]
                     /\ {jobs[j], jobs[k]} \subseteq statuses

(* What a unique constraint of artifacts compares. *)
ArtifactKey(a, constraint) == IF constraint = "object_key" THEN a.key ELSE DocOf[a.job]

Conflicting(artifacts, constraint) ==
  \E a, b \in artifacts : a # b /\ ArtifactKey(a, constraint) = ArtifactKey(b, constraint)

(***************************************************************************)
(* The statements: each takes a database to the next one.  Nothing runs    *)
(* after a statement that raised.                                          *)
(***************************************************************************)
Exec(d, raises, result) == IF d.ok /\ ~raises THEN result ELSE [d EXCEPT !.ok = FALSE]

CreateTables(d) ==
  Exec(d, d.tables \/ d.labels # {},
       [d EXCEPT !.tables = TRUE, !.labels = AllStatuses, !.default = "CREATED",
                 !.ids = "integer", !.fks = TRUE, !.unique = {"object_key"}])

(* The enum types stay. *)
DropTables(d) == Exec(d, FALSE, [EmptyDb EXCEPT !.labels = d.labels])

SetFailedAt(d, present) == Exec(d, FALSE, [d EXCEPT !.failedAt = present])
SetFileName(d, default) == Exec(d, FALSE, [d EXCEPT !.fileName = default])
SetDefault(d, to) == Exec(d, FALSE, [d EXCEPT !.default = to])

CreateIndex(d, over) ==
  Exec(d, d.index # {} \/ Duplicates(d.jobs, over), [d EXCEPT !.index = over])

DropIndexIfExists(d) == Exec(d, FALSE, [d EXCEPT !.index = {}])
DropIndex(d) == Exec(d, d.index = {}, DropIndexIfExists(d))

(* The index of the day watches the update. *)
Backfill(d) ==
  LET filled == [j \in Jobs |-> IF d.jobs[j] = "CREATED" THEN "QUEUED" ELSE d.jobs[j]]
  IN  Exec(d, Duplicates(filled, d.index), [d EXCEPT !.jobs = filled])

(* The type of jobs.status is replaced: no index or default may refer to   *)
(* the old one, and each row needs a label of the new one.                 *)
RetypeStatus(d, labels) ==
  Exec(d, \/ d.index # {} \/ d.default # "none"
          \/ \E j \in Jobs : d.jobs[j] \notin labels \cup {"absent"},
       [d EXCEPT !.labels = labels])

DropFks(d) == Exec(d, FALSE, [d EXCEPT !.fks = FALSE])
CreateFks(d) == Exec(d, d.dangling, [d EXCEPT !.fks = TRUE])

(* CASCADE follows the foreign keys that are there. *)
Truncate(d, named) ==
  LET cascades == d.fks /\ named \cap {"documents", "jobs"} # {}
      emptied == named \cup (IF cascades THEN {"artifacts"} ELSE {})
                       \cup (IF cascades /\ "documents" \in named THEN {"jobs"} ELSE {})
  IN  Exec(d, FALSE, [d EXCEPT !.accounts  = IF "accounts" \in emptied THEN {} ELSE @,
                               !.documents = IF "documents" \in emptied THEN {} ELSE @,
                               !.jobs      = IF "jobs" \in emptied THEN NoJobs ELSE @,
                               !.artifacts = IF "artifacts" \in emptied THEN {} ELSE @])

(* References that rows hold are not carried over to the new type. *)
RetypeIds(d, to) ==
  Exec(d, d.fks \/ d.index # {},
       [d EXCEPT !.ids = to, !.dangling = d.jobs # NoJobs \/ d.artifacts # {}])

CreateUnique(d, on) ==
  Exec(d, Conflicting(d.artifacts, on), [d EXCEPT !.unique = @ \cup {on}])

DropUniqueIfExists(d, on) == Exec(d, FALSE, [d EXCEPT !.unique = @ \ {on}])
DropUnique(d, on) == Exec(d, on \notin d.unique, DropUniqueIfExists(d, on))

(***************************************************************************)
(* The revisions, oldest first, up and down.                               *)
(***************************************************************************)
InitialUp(d) == CreateTables(d)
InitialDown(d) == DropTables(d)

AddFailedAtUp(d) == SetFailedAt(d, TRUE)
AddFailedAtDown(d) == SetFailedAt(d, FALSE)

(* The default is a string of two quotes. *)
AddFileNameUp(d) == SetFileName(d, "quotes")
AddFileNameDown(d) == SetFileName(d, "absent")

(* Mutant: CREATED is not covered. *)
MutantAddActiveIndexUp(d) == CreateIndex(d, {"QUEUED", "STARTED"})

AddActiveIndexUp(d) == CreateIndex(d, Unfinished)
AddActiveIndexDown(d) == DropIndexIfExists(d)

RemoveCreatedUp(d) ==
  LET filled  == Backfill(d)
      bare    == SetDefault(DropIndex(filled), "none")
      retyped == RetypeStatus(bare, AllStatuses \ {"CREATED"})
  IN  SetDefault(CreateIndex(retyped, {"QUEUED", "STARTED"}), "QUEUED")

(* Mutant: the downgrade forgets that CREATED is back. *)
MutantRemoveCreatedDown(d) ==
  LET bare    == SetDefault(DropIndex(d), "none")
      retyped == RetypeStatus(bare, AllStatuses)
  IN  CreateIndex(SetDefault(retyped, "CREATED"), {"QUEUED", "STARTED"})

RemoveCreatedDown(d) ==
  LET bare    == SetDefault(DropIndex(d), "none")
      retyped == RetypeStatus(bare, AllStatuses)
  IN  CreateIndex(SetDefault(retyped, "CREATED"), Unfinished)

(* Up and down differ in the type only. *)
Retype(d, named, to) ==
  LET bare    == DropFks(DropIndexIfExists(d))
      retyped == RetypeIds(Truncate(bare, named), to)
  IN  CreateIndex(CreateFks(retyped), {"QUEUED", "STARTED"})

(* Mutant: on the way down the rows are left to CASCADE, which finds no    *)
(* foreign key to follow any more.                                         *)
MutantUuidPrimaryKeysDown(d) == Retype(d, {"documents"}, "integer")

UuidPrimaryKeysUp(d) == Retype(d, {"artifacts", "jobs", "documents"}, "uuid")
UuidPrimaryKeysDown(d) == Retype(d, {"artifacts", "jobs", "documents"}, "integer")

DropFileNameUp(d) == SetFileName(d, "absent")
DropFileNameDown(d) == SetFileName(SetFileName(d, "empty"), "none")

(* Mutant: the jobs the artifacts came from go with them. *)
MutantArtifactUniqueUp(d) ==
  CreateUnique(DropUniqueIfExists(Truncate(d, {"artifacts", "jobs"}), "object_key"),
               "document_type")

ArtifactUniqueUp(d) ==
  CreateUnique(DropUniqueIfExists(Truncate(d, {"artifacts"}), "object_key"), "document_type")
ArtifactUniqueDown(d) ==
  CreateUnique(DropUnique(Truncate(d, {"artifacts"}), "document_type"), "object_key")

HeadRevision == 8

(***************************************************************************)
(* alembic upgrade and downgrade: the revisions between here and there.    *)
(***************************************************************************)
Upgraded(d, to) ==
  LET step(n, before, after) == IF d.rev < n /\ n <= to THEN after ELSE before
      d1 == step(1, d,  InitialUp(d))
      d2 == step(2, d1, AddFailedAtUp(d1))
      d3 == step(3, d2, AddFileNameUp(d2))
      d4 == step(4, d3, AddActiveIndexUp(d3))
      d5 == step(5, d4, RemoveCreatedUp(d4))
      d6 == step(6, d5, UuidPrimaryKeysUp(d5))
      d7 == step(7, d6, DropFileNameUp(d6))
  IN  step(8, d7, ArtifactUniqueUp(d7))

Downgraded(d, to) ==
  LET step(n, before, after) == IF to < n /\ n <= d.rev THEN after ELSE before
      d7 == step(8, d,  ArtifactUniqueDown(d))
      d6 == step(7, d7, DropFileNameDown(d7))
      d5 == step(6, d6, UuidPrimaryKeysDown(d6))
      d4 == step(5, d5, RemoveCreatedDown(d5))
      d3 == step(4, d4, AddActiveIndexDown(d4))
      d2 == step(3, d3, AddFileNameDown(d3))
      d1 == step(2, d2, AddFailedAtDown(d2))
  IN  step(1, d1, InitialDown(d1))

Migrated(d, to) ==
  [(IF d.rev <= to THEN Upgraded(d, to) ELSE Downgraded(d, to)) EXCEPT !.rev = to]

Init == db = EmptyDb

(* One command, one transaction. *)
MoveTo(to) == /\ to # db.rev
              /\ Migrated(db, to).ok
              /\ db' = Migrated(db, to)

(* `cli migrate`, and what `cli setup` runs. *)
Migrate == MoveTo(HeadRevision)

(***************************************************************************)
(* The application's writes, within what the schema of the day accepts.    *)
(***************************************************************************)
AddAccount(a) == /\ db.tables
                 /\ db' = [db EXCEPT !.accounts = @ \cup {a}]

AddDocument(d) == /\ db.tables /\ db.accounts # {}
                  /\ db' = [db EXCEPT !.documents = @ \cup {d}]

(* A row is inserted, or its status updated: an insert needs its document, *)
(* and the index rejects a second row it covers.                           *)
WriteJob(j, status) ==
  LET jobs == [db.jobs EXCEPT ![j] = status]
  IN  /\ DocOf[j] \in db.documents
      /\ status \in db.labels
      /\ ~Duplicates(jobs, db.index)
      /\ db' = [db EXCEPT !.jobs = jobs]

(* Keys were per job once, and are per document since the last revision. *)
WriteArtifact(j, key) ==
  LET artifacts == db.artifacts \cup {[job |-> j, key |-> key]}
  IN  /\ j \in Rows
      /\ \A u \in db.unique : ~Conflicting(artifacts, u)
      /\ db' = [db EXCEPT !.artifacts = artifacts]

Next == \/ Migrate
        \/ \E to \in 0..HeadRevision : MoveTo(to)
        \/ \E a \in Accounts : AddAccount(a)
        \/ \E d \in Documents : AddDocument(d)
        \/ \E j \in Jobs, status \in AllStatuses : WriteJob(j, status)
        \/ \E j \in Jobs, key \in Jobs \cup Documents :
             key \in {j, DocOf[j]} /\ WriteArtifact(j, key)

Spec == Init /\ [][Next]_db

(***************************************************************************)
(* What must hold whatever the tables contain.                             *)
(***************************************************************************)
(* `cli migrate` reaches head whatever rows the tables hold: no CREATED    *)
(* row that the backfill turns into QUEUED collides with another active    *)
(* job, no value is left that the new enum or a new constraint rejects.    *)
(* It fails in two cases, and only these: rows from before                 *)
(* one_active_job_per_document that the index does not admit, and a        *)
(* database once downgraded to base, where job_status_enum is left behind. *)
UpgradeSucceeds ==
  Migrated(db, HeadRevision).ok <=>
    /\ db.rev < 4 => ~Duplicates(db.jobs, Unfinished)
    /\ db.rev = 0 => db.labels = {}

(* Every downgrade can be run, from every revision and with any rows. *)
DowngradeSucceeds == \A to \in 0..db.rev : Migrated(db, to).ok

(* The index is dropped and rebuilt, over other statuses, by five of the   *)
(* scripts; on neither side of any of them does a document have two        *)
(* unfinished jobs.                                                        *)
OneUnfinishedJob == db.rev >= 4 => ~Duplicates(db.jobs, Unfinished)

(* Rows are lost only by the scripts that declare it: documents and jobs   *)
(* by the change to UUIDs, artifacts by that and by the new constraint,    *)
(* accounts by neither; dropping the tables apart.                         *)
LossOnlyWhereDeclared ==
  [][LET crosses(n) == (db.rev >= n) # (db'.rev >= n)
     IN  ~crosses(1) =>
           /\ db.accounts \subseteq db'.accounts
           /\ ~crosses(6) => /\ db.documents \subseteq db'.documents
                             /\ \A j \in Rows : db'.jobs[j] # "absent"
           /\ ~crosses(6) /\ ~crosses(8) => db.artifacts \subseteq db'.artifacts]_db

(* A downgrade reverses the schema: enum, default, index, types, keys and  *)
(* constraints are those that upgrades alone produce at that revision.     *)
(* Left out is the default of documents.file_name, which does not return.  *)
Schema(d) == <<d.labels, d.default, d.index, d.ids, d.fks, d.failedAt, d.unique>>

DowngradeReversesSchema ==
  db.rev >= 1 => Schema(db) = Schema(Migrated(EmptyDb, db.rev))
=============================================================================
