----------------------------- MODULE WorkerKill -----------------------------
(***************************************************************************)
(* The chaos scenario worker-kill, run against the pipeline: a script that *)
(* submits a document, waits until its job is STARTED, looks up in the     *)
(* logs which container claimed it, kills that container with SIGKILL and  *)
(* watches the row for a minute.  The script sees the stack only through   *)
(* psql, docker and rabbitmqctl, while the stack goes on.                  *)
(*                                                                         *)
(*   submit, process, answer   driving the API                             *)
(*   wait      in wait_for_status(job_id, "started", timeout=15)           *)
(*   find      in _find_claiming_worker                                    *)
(*   kill      about to kill the container found                           *)
(*   watch     in watch(job_id, duration=60)                               *)
(*   depth     about to read the queue's depth and write the summary       *)
(*   restore   in the finally                                              *)
(*   returned, raised   run(ctx) has ended                                 *)
(***************************************************************************)
EXTENDS Pipeline

CONSTANTS Target,   \* the job whose id start_processing returns
          Unset     \* None, or a value not computed yet

ASSUME TargetAssumption == Target \in Jobs

VARIABLES
  unlogged,  \* workers whose claim is committed, "job_started" not yet logged
  logs,      \* workers whose log has a "job_started" line of the job
  spc,       \* where the script is
  started,   \* the snapshot wait_for_status returned
  claimer,   \* the container _find_claiming_worker returned
  final,     \* the last snapshot watch has recorded
  summary,   \* what the report says in the end
  hit        \* history: the attempt that the kill interrupted, 0 for none

logVars == <<unlogged, logs>>
scriptVars == <<spc, started, claimer, final, summary, hit>>
allVars == <<vars, logVars, scriptVars>>

Body == {"submit", "process", "answer", "wait", "find", "kill", "watch", "depth"}
Ended == {"returned", "raised"}
TargetDocument == DocOf[Target]

ScenarioInit ==
  /\ Init
  /\ unlogged = {} /\ logs = {}
  /\ spc = "submit"
  /\ started = Unset /\ claimer = Unset /\ final = Unset /\ summary = Unset
  /\ hit = 0

Script(from, to) == spc = from /\ spc' = to

(* The except clause: scenario_error, and a summary that says no more. *)
Raised(e) == summary' = [error |-> e]

(***************************************************************************)
(* What the script reads.                                                  *)
(***************************************************************************)
(* _parse_row lowers the label of the enum. *)
Lower == [ABSENT |-> "absent", QUEUED |-> "queued", STARTED |-> "started",
          COMPLETED |-> "completed", FAILED |-> "failed"]

Snapshot == [status |-> Lower[status[Target]], attempts |-> attempts[Target]]

ReachedTerminal(snap) == snap.status \in {"completed", "failed"}

(* rabbitmqctl's `messages`: unlike the API's depth it also counts what is *)
(* delivered and unacknowledged.                                           *)
ListedDepth == Depth + Cardinality({w \in Workers : unacked[w] # Nothing})

(* docker compose ps shows the containers that run. *)
WorkerContainers == {w \in Workers : wpc[w] \notin Down}

(***************************************************************************)
(* The stack, on its own.  Nothing restarts a container but the script.    *)
(* The log line follows the commit of the claim, and precedes the rest.    *)
(***************************************************************************)
StackWorks(w) ==
  /\ w \notin unlogged
  /\ WorkerStep(w)
  /\ unlogged' = IF wpc[w] = "claim" /\ wpc'[w] = "fetch" THEN unlogged \cup {w} ELSE unlogged
  /\ UNCHANGED <<rpc, logs, scriptVars>>

LogStarted(w) ==
  /\ w \in unlogged
  /\ unlogged' = unlogged \ {w}
  /\ logs' = logs \cup {w}
  /\ UNCHANGED <<vars, scriptVars>>

StackDelivers == /\ \E w \in Workers, m \in Messages : Deliver(w, m)
                 /\ UNCHANGED <<rpc, logVars, scriptVars>>

StackAnswers == RequestStep(Target) /\ UNCHANGED <<workerVars, logVars, scriptVars>>

(***************************************************************************)
(* The script.                                                             *)
(***************************************************************************)
SubmitDocument ==
  /\ Script("submit", "process")
  /\ ClientUpload(TargetDocument)
  /\ UNCHANGED <<logVars, started, claimer, final, summary, hit>>

StartProcessing ==
  /\ Script("process", "answer")
  /\ StartRequest(Target)
  /\ UNCHANGED <<workerVars, logVars, started, claimer, final, summary, hit>>

(* Any answer but 201 raises. *)
ProcessingAnswered ==
  /\ rpc[Target] \in Answers
  /\ IF rpc[Target] = "accepted" THEN Script("answer", "wait") /\ UNCHANGED summary
                                 ELSE Script("answer", "restore") /\ Raised("refused")
  /\ UNCHANGED <<vars, logVars, started, claimer, final, hit>>

(* One of its polls sees the status it waits for. *)
WaitForStatus ==
  /\ Script("wait", "find")
  /\ Snapshot.status = "started"
  /\ started' = Snapshot
  /\ UNCHANGED <<vars, logVars, claimer, final, summary, hit>>

(* The poll after the deadline still does not: TimeoutError.  The job may  *)
(* have been STARTED between two polls.                                    *)
WaitTimesOut ==
  /\ Script("wait", "restore")
  /\ Snapshot.status # "started"
  /\ Raised("timeout")
  /\ UNCHANGED <<vars, logVars, started, claimer, final, hit>>

(* Some line that names the job; docker merges the logs of the containers  *)
(* in no particular order.                                                 *)
FindClaimingWorker ==
  /\ Script("find", "kill")
  /\ claimer' \in logs \cap WorkerContainers
  /\ UNCHANGED <<vars, logVars, started, final, summary, hit>>

NoClaimingWorker ==
  /\ Script("find", "restore")
  /\ logs = {}
  /\ Raised("no_log_line")
  /\ UNCHANGED <<vars, logVars, started, claimer, final, hit>>

(* The attempt a kill of the worker interrupts. *)
Interrupted(w) == IF wpc[w] \in Processing \cup {"failing"} /\ status[Target] = "STARTED"
                  THEN attempts[Target] ELSE 0

(* Mutant: docker stop in place of docker kill. *)
MutantKillClaimer ==
  /\ Script("kill", "watch")
  /\ stop' = [stop EXCEPT ![claimer] = TRUE]
  /\ hit' = Interrupted(claimer)
  /\ UNCHANGED <<faults, sharedVars, wpc, localVars, since, rpc, logVars, started, claimer, final,
                 summary>>

KillClaimer ==
  /\ Script("kill", "watch")
  /\ Kill(claimer)
  /\ hit' = Interrupted(claimer)
  /\ unlogged' = unlogged \ {claimer}
  /\ UNCHANGED <<rpc, logs, started, claimer, final, summary>>

(* A snapshot is recorded when its status is not the last one recorded. *)
Watch ==
  /\ Script("watch", "watch")
  /\ final # Unset => final.status # Snapshot.status
  /\ final' = Snapshot
  /\ UNCHANGED <<vars, logVars, started, claimer, summary, hit>>

(* Mutant: the watch goes on until the job is finished. *)
MutantWatchEnds ==
  /\ Script("watch", "depth")
  /\ ReachedTerminal(Snapshot)
  /\ UNCHANGED <<vars, logVars, started, claimer, final, summary, hit>>

WatchEnds ==
  /\ Script("watch", "depth")
  /\ UNCHANGED <<vars, logVars, started, claimer, final, summary, hit>>

(* Mutant: the attempt count is that of the snapshot taken before the kill. *)
MutantSummarise ==
  /\ Script("depth", "restore")
  /\ LET last == IF final = Unset THEN started ELSE final
     IN  summary' = [error |-> "none", status |-> last.status, attempts |-> started.attempts,
                     terminal |-> ReachedTerminal(last), depth |-> ListedDepth]
  /\ UNCHANGED <<vars, logVars, started, claimer, final, hit>>

Summarise ==
  /\ Script("depth", "restore")
  /\ LET last == IF final = Unset THEN started ELSE final
     IN  summary' = [error |-> "none", status |-> last.status, attempts |-> last.attempts,
                     terminal |-> ReachedTerminal(last), depth |-> ListedDepth]
  /\ UNCHANGED <<vars, logVars, started, claimer, final, hit>>

(* A request, a query or a docker command fails: the report says so. *)
ScriptRaises ==
  /\ spc \in Body /\ spc' = "restore"
  /\ Raised("failed")
  /\ UNCHANGED <<vars, logVars, started, claimer, final, hit>>

(* The finally: containers that do not run are started again. *)
ScaleWorkers ==
  /\ Script("restore", "returned")
  /\ wpc' = [w \in Workers |-> IF wpc[w] \in Down THEN "idle" ELSE wpc[w]]
  /\ UNCHANGED <<faults, sharedVars, localVars, since, stop, rpc, logVars, started, claimer, final,
                 summary, hit>>

(* docker compose fails inside the finally: run() raises, and the report   *)
(* is lost.                                                                *)
ScaleRaises ==
  /\ Script("restore", "raised")
  /\ UNCHANGED <<vars, logVars, started, claimer, final, summary, hit>>

ScriptStep ==
  \/ SubmitDocument \/ StartProcessing \/ ProcessingAnswered
  \/ WaitForStatus \/ WaitTimesOut \/ FindClaimingWorker \/ NoClaimingWorker
  \/ KillClaimer \/ Watch \/ WatchEnds \/ Summarise \/ ScaleWorkers

ScenarioNext ==
  \/ ScriptStep \/ ScriptRaises \/ ScaleRaises
  \/ \E w \in Workers : StackWorks(w) \/ LogStarted(w)
  \/ StackDelivers \/ StackAnswers

(***************************************************************************)
(* The script and every live process go on, and the broker delivers.  The  *)
(* script's deadlines pass: they are monotonic clocks, read in every round *)
(* of its loops.                                                           *)
(***************************************************************************)
ScenarioSpec ==
  /\ ScenarioInit /\ [][ScenarioNext]_allVars
  /\ WF_allVars(ScriptStep)
  /\ \A w \in Workers : WF_allVars(StackWorks(w)) /\ WF_allVars(LogStarted(w))
  /\ WF_allVars(StackDelivers) /\ WF_allVars(StackAnswers)

(***************************************************************************)
(* What the scenario shows.                                                *)
(***************************************************************************)
(* The scenario's "Expected": a job whose worker was killed in the middle  *)
(* of an attempt is stuck.  It stays STARTED at that attempt, through the  *)
(* redelivery of its message and after the container is back.              *)
KilledJobIsStuck ==
  hit # 0 => status[Target] = "STARTED" /\ attempts[Target] = hit

(* A verdict of the report stands: with reached_terminal=True the row has  *)
(* that status and attempt count for good, so the kill has missed the job; *)
(* otherwise the row has been attempted at least as often as reported.     *)
ReportStands ==
  summary # Unset /\ summary.error = "none" =>
    /\ summary.attempts <= attempts[Target]
    /\ summary.terminal => /\ Snapshot.status = summary.status
                           /\ Snapshot.attempts = summary.attempts
                           /\ hit = 0

(* The scenario ends, and unless docker itself fails every container runs  *)
(* again, wherever the script was when something went wrong.               *)
ScenarioEnds ==
  spc = "submit" ~> spc = "raised" \/ (spc = "returned" /\ WorkerContainers = Workers)
=============================================================================
