------------------------------ MODULE JobTable ------------------------------
(***************************************************************************)
(* The rows of PostgreSQL that coordinate the processes: jobs and          *)
(* artifacts.  Every operator below is one committed transaction; row      *)
(* locks and the partial unique index make the database itself serialise   *)
(* them.                                                                   *)
(***************************************************************************)
EXTENDS Environment

VARIABLES
  status,       \* jobs.status, ABSENT while there is no such row
  attempts,     \* jobs.attempts
  error,        \* jobs.error_message: the attempt whose exception it quotes, 0 for NULL
  stamps,       \* queued_at, started_at, completed_at and failed_at of the job, by the
                \* status they go with, 0 for NULL: a clock read when n transactions
                \* had been committed on the row shows n + 1
  commits,      \* history: transactions committed on the row
  artifactJob,  \* artifacts.job_id of the document's MARKDOWN row
  createdOver   \* history: the upload the job was requested for

columnVars == <<error, stamps, commits>>
tableVars == <<status, attempts, columnVars, artifactJob, createdOver>>

JobStatus == {"QUEUED", "STARTED", "COMPLETED", "FAILED"}
Active == {"QUEUED", "STARTED"}
Terminal == {"COMPLETED", "FAILED"}

TableTypeOK ==
  /\ status \in [Jobs -> JobStatus \cup {"ABSENT"}]
  /\ attempts \in [Jobs -> Nat]
  /\ error \in [Jobs -> Nat]
  /\ stamps \in [Jobs -> [JobStatus -> Nat]]
  /\ commits \in [Jobs -> Nat]
  /\ artifactJob \in [Documents -> Jobs \cup {Nothing}]
  /\ createdOver \in [Jobs -> 0..MaxVersion]

TableInit ==
  /\ status = [j \in Jobs |-> "ABSENT"]
  /\ attempts = [j \in Jobs |-> 0]
  /\ error = [j \in Jobs |-> 0]
  /\ stamps = [j \in Jobs |-> [s \in JobStatus |-> 0]]
  /\ commits = [j \in Jobs |-> 0]
  /\ artifactJob = [d \in Documents |-> Nothing]
  /\ createdOver = [j \in Jobs |-> 0]

(* Mutant: the index forgets the jobs that still wait in the queue. *)
MutantActiveJobExists(d) == \E j \in Jobs : DocOf[j] = d /\ status[j] = "STARTED"

(* The predicate of the index one_active_job_per_document. *)
ActiveJobExists(d) == \E j \in Jobs : DocOf[j] = d /\ status[j] \in Active

(* What now() can have shown to a caller that came to the statement when   *)
(* the row had seen `earliest` commits: the clock is read before the       *)
(* statement is sent, and others may commit until it takes effect.         *)
Readings(j, earliest) == (earliest + 1) .. (commits[j] + 1)

(* Mutant: a time once recorded is kept. *)
MutantStamp(j, new, earliest) ==
  /\ commits' = [commits EXCEPT ![j] = @ + 1]
  /\ \E now \in Readings(j, earliest) :
       stamps' = [stamps EXCEPT ![j] = [@ EXCEPT ![new] = IF @ = 0 THEN now ELSE @]]

(* _STATUS_TIMESTAMP: the status written names the column that gets now(). *)
Stamp(j, new, earliest) ==
  /\ commits' = [commits EXCEPT ![j] = @ + 1]
  /\ \E now \in Readings(j, earliest) :
       stamps' = [stamps EXCEPT ![j] = [@ EXCEPT ![new] = now]]

(* JobRepository.create *)
CreateJob(j, version) ==
  /\ status[j] = "ABSENT"
  /\ ~ActiveJobExists(DocOf[j])
  /\ status' = [status EXCEPT ![j] = "QUEUED"]
  /\ Stamp(j, "QUEUED", 0)
  /\ createdOver' = [createdOver EXCEPT ![j] = version]
  /\ UNCHANGED <<attempts, error, artifactJob>>

(* The columns an UPDATE of the status to new writes.  An error message is *)
(* written when there is one, and no UPDATE clears it.                     *)
WriteColumns(j, new, message, earliest) ==
  /\ status' = [status EXCEPT ![j] = new]
  /\ Stamp(j, new, earliest)
  /\ attempts' = IF new = "STARTED" THEN [attempts EXCEPT ![j] = @ + 1] ELSE attempts
  /\ error' = IF message # 0 THEN [error EXCEPT ![j] = message] ELSE error
  /\ UNCHANGED createdOver

(* Mutant: the UPDATE does not compare the status before it swaps it. *)
MutantUpdateStatus(j, new, expected, message, earliest) == WriteColumns(j, new, message, earliest)

(* JobRepository.update_status: a compare-and-swap on the status column    *)
(* that counts an attempt when, and only when, the job starts.             *)
UpdateStatus(j, new, expected, message, earliest) ==
  /\ status[j] = expected
  /\ WriteColumns(j, new, message, earliest)

(* ArtifactRepository.create: INSERT ... ON CONFLICT (document_id,         *)
(* artifact_type) DO UPDATE.                                               *)
UpsertArtifact(j) == artifactJob' = [artifactJob EXCEPT ![DocOf[j]] = j]
=============================================================================
