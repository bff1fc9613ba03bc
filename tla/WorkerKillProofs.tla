-------------------------- MODULE WorkerKillProofs --------------------------
(***************************************************************************)
(* Proofs about the worker-kill scenario, for any number of workers,       *)
(* attempts, uploads and faults.  The scenario's steps are steps of the    *)
(* pipeline, except for the finally of the script, which starts all dead   *)
(* containers at once; so the invariants of the pipeline carry over, and   *)
(* the five kinds of step say what a step can do to the job's row.         *)
(***************************************************************************)
EXTENDS WorkerKill, PipelineProofs

(* The script drives one job; nobody else creates one. *)
OnlyTarget == \A j \in Jobs : j # Target => status[j] = "ABSENT"

(* The container to kill is a worker. *)
FoundClaimer == spc = "kill" => claimer \in Workers

StackInv == TypeInv /\ OwnershipInv /\ OnlyTarget /\ FoundClaimer

(***************************************************************************)
(* The stack under the scenario.                                           *)
(***************************************************************************)

(* Starting the dead containers gives nobody a claim. *)
LEMMA ScaleKind ==
  ASSUME TypeInv, ScaleWorkers
  PROVE  TypeInv' /\ StepKind
<1>1. Quiet
  BY DEF ScaleWorkers, Quiet, Keeps, Owning, Processing, Down, TypeInv, TypeOK, WorkerTypeOK,
         sharedVars, tableVars, columnVars, localVars
<1>2. TypeInv'
  <2>1. TableTypeOK' /\ BrokerTypeOK' /\ StoreTypeOK' /\ EndpointTypeOK' /\ faults' \in 0..MaxFaults
    BY TableSame
       DEF ScaleWorkers, sharedVars, brokerVars, storeVars, TypeInv, TypeOK, BrokerTypeOK,
           StoreTypeOK, EndpointTypeOK
  <2>2. WorkerTypeOK' /\ HandsFull'
    BY DEF ScaleWorkers, localVars, TypeInv, TypeOK, WorkerTypeOK, HandsFull, Steps, Down
  <2>3. QED
    BY <2>1, <2>2 DEF TypeInv, TypeOK
<1>3. QED
  BY <1>1, <1>2 DEF StepKind

(* Every step of the scenario is one of the pipeline, one of the script    *)
(* alone, or the finally.                                                  *)
LEMMA ScenarioStep ==
  ASSUME StackInv, [ScenarioNext]_allVars
  PROVE  [Next]_vars \/ ScaleWorkers
<1>1. ASSUME NEW w \in Workers, StackWorks(w) \/ LogStarted(w)
      PROVE  [Next]_vars
  BY <1>1 DEF StackWorks, LogStarted, Next, Work, vars
<1>2. CASE StackDelivers
  BY <1>2 DEF StackDelivers, Next, Work
<1>3. CASE StackAnswers \/ StartProcessing
  BY <1>3, TargetAssumption DEF StackAnswers, StartProcessing, Next, Request
<1>4. CASE SubmitDocument
  BY <1>4, TargetAssumption, DocAssumption DEF SubmitDocument, TargetDocument, Next
<1>5. CASE KillClaimer
  BY <1>5 DEF KillClaimer, Script, StackInv, FoundClaimer, Next, Work, WorkerFault
<1>6. CASE \/ ProcessingAnswered \/ WaitForStatus \/ WaitTimesOut \/ FindClaimingWorker
           \/ NoClaimingWorker \/ Watch \/ WatchEnds \/ Summarise \/ ScriptRaises \/ ScaleRaises
  BY <1>6
     DEF ProcessingAnswered, WaitForStatus, WaitTimesOut, FindClaimingWorker, NoClaimingWorker,
         Watch, WatchEnds, Summarise, ScriptRaises, ScaleRaises
<1>7. CASE UNCHANGED allVars
  BY <1>7 DEF allVars
<1>8. QED
  BY <1>1, <1>2, <1>3, <1>4, <1>5, <1>6, <1>7 DEF ScenarioNext, ScriptStep

(* Only the request of the scenario creates a job, and a worker updates    *)
(* only rows that are there.                                               *)
LEMMA OnlyTargetStep ==
  ASSUME StackInv, [ScenarioNext]_allVars
  PROVE  OnlyTarget'
<1>0. status \in [Jobs -> JobStatus \cup {"ABSENT"}] /\ OnlyTarget
  BY DEF StackInv, TypeInv, TypeOK, TableTypeOK
<1> USE <1>0 DEF OnlyTarget, tableVars, sharedVars
<1>1. ASSUME NEW w \in Workers, WorkerStep(w)
      PROVE  OnlyTarget'
  <2>1. CASE Claim(w) \/ Complete(w) \/ HandleFailure(w)
    BY <2>1 DEF Claim, Complete, HandleFailure, CommitResult, UpdateStatus, WriteColumns
  <2>2. CASE \/ TakeMessage(w) \/ BreakOnStop(w) \/ LoadJob(w) \/ AckDrop(w) \/ ClaimConflict(w)
             \/ FetchDocument(w) \/ StoreMarkdown(w) \/ ProcessingError(w) \/ AckDone(w)
             \/ FailureConflict(w) \/ Reenqueue(w) \/ AckFailed(w)
    BY <2>2 DEF TakeMessage, BreakOnStop, LoadJob, AckDrop, ClaimConflict, FetchDocument,
        StoreMarkdown, ProcessingError, AckDone, FailureConflict, Reenqueue, AckFailed
  <2>3. QED
    BY <1>1, <2>1, <2>2 DEF WorkerStep
<1>2. CASE RequestStep(Target)
  BY <1>2, TargetAssumption
     DEF RequestStep, CheckDepth, InsertJob, RejectActiveJob, EnqueueJob, CreateJob
<1>3. ASSUME UNCHANGED status
      PROVE  OnlyTarget'
  BY <1>3
<1>4. ASSUME ScriptStep \/ ScriptRaises \/ ScaleRaises \/ StackDelivers \/ UNCHANGED allVars
      PROVE  UNCHANGED status
  BY <1>4
     DEF ScriptStep, ScriptRaises, ScaleRaises, StackDelivers, Deliver, SubmitDocument,
         ClientUpload, StartProcessing, StartRequest, ProcessingAnswered, WaitForStatus,
         WaitTimesOut, FindClaimingWorker, NoClaimingWorker, KillClaimer, Kill, Watch,
         WatchEnds, Summarise, ScaleWorkers, allVars, vars
<1>5. ASSUME NEW w \in Workers, LogStarted(w)
      PROVE  UNCHANGED status
  BY <1>5 DEF LogStarted, vars
<1>6. QED
  BY <1>1, <1>2, <1>3, <1>4, <1>5 DEF ScenarioNext, StackWorks, StackAnswers

(* The script kills only a container it has found. *)
LEMMA FoundStep ==
  ASSUME FoundClaimer, [ScenarioNext]_allVars
  PROVE  FoundClaimer'
<1>1. CASE FindClaimingWorker
  BY <1>1 DEF FindClaimingWorker, FoundClaimer, WorkerContainers
<1>2. CASE UNCHANGED <<spc, claimer>>
  BY <1>2 DEF FoundClaimer
<1>3. CASE spc' # "kill"
  BY <1>3 DEF FoundClaimer
<1>4. QED
  BY <1>1, <1>2, <1>3
     DEF ScenarioNext, ScriptStep, ScriptRaises, ScaleRaises, StackDelivers, StackWorks,
         StackAnswers, LogStarted, SubmitDocument, StartProcessing, ProcessingAnswered,
         WaitForStatus, WaitTimesOut, NoClaimingWorker, KillClaimer, Watch, WatchEnds,
         Summarise, ScaleWorkers, Script, scriptVars, allVars

(* The invariant of the stack is kept by every step of the scenario, and   *)
(* every such step is of one of the five kinds.                            *)
LEMMA StackStep ==
  ASSUME StackInv, [ScenarioNext]_allVars
  PROVE  StackInv' /\ StepKind
<1>1. TypeInv' /\ StepKind
  BY ScenarioStep, ScaleKind, TypeStep, StepKinds DEF StackInv
<1>2. OwnershipInv'
  BY <1>1, OwnershipStep DEF StackInv
<1>3. QED
  BY <1>1, <1>2, OnlyTargetStep, FoundStep DEF StackInv

(***************************************************************************)
(* A killed job is stuck.                                                  *)
(***************************************************************************)

(* Nobody holds the job any more. *)
Abandoned(n) == /\ status[Target] = "STARTED" /\ attempts[Target] = n
                /\ \A w \in Workers : wpc[w] \in Owning => cur[w] # Target

Stuck == hit # 0 => Abandoned(hit)

(* No step of any kind moves a STARTED job that nobody holds: a redelivery *)
(* finds it STARTED and is dropped.                                        *)
LEMMA AbandonedStays ==
  ASSUME TypeInv, StepKind, NEW n, Abandoned(n)
  PROVE  Abandoned(n)'
<1> USE TargetAssumption
    DEF Abandoned, TypeInv, TypeOK, TableTypeOK, HandsFull, Keeps, OthersKeep, Owning, Processing,
        Steps
<1>1. CASE Quiet
  BY <1>1 DEF Quiet
<1>2. ASSUME NEW j \in Jobs, Created(j) PROVE Abandoned(n)'
  BY <1>2 DEF Created
<1>3. ASSUME NEW w \in Workers, Started(w) PROVE Abandoned(n)'
  BY <1>3 DEF Started, UpdateStatus, WriteColumns
<1>4. ASSUME NEW w \in Workers, Finished(w) PROVE Abandoned(n)'
  <2>1. cur[w] \in Jobs /\ cur[w] # Target
    BY <1>4 DEF Finished
  <2>2. status' = [status EXCEPT ![cur[w]] = "COMPLETED"] /\ attempts' = attempts
    BY <1>4 DEF Finished, UpdateStatus, WriteColumns
  <2>3. \A v \in Workers : wpc'[v] \in Owning => cur'[v] # Target
    BY <1>4, <2>1 DEF Finished
  <2>4. QED
    BY <2>1, <2>2, <2>3
<1>5. ASSUME NEW w \in Workers, GaveBack(w) PROVE Abandoned(n)'
  BY <1>5 DEF GaveBack, UpdateStatus, WriteColumns, FailureStatus
<1>6. QED
  BY <1>1, <1>2, <1>3, <1>4, <1>5 DEF StepKind

(* The kill interrupts an attempt only if its victim was the one owner. *)
LEMMA KillAbandons ==
  ASSUME StackInv, KillClaimer, hit' # 0
  PROVE  Stuck'
<1>1. /\ claimer \in Workers
      /\ hit' = Interrupted(claimer)
      /\ Die(claimer, "killed", unacked)
      /\ UNCHANGED <<status, attempts>>
  BY DEF StackInv, FoundClaimer, KillClaimer, Script, Kill, tableVars
<1>2. /\ wpc[claimer] \in Processing \cup {"failing"}
      /\ status[Target] = "STARTED" /\ hit' = attempts[Target]
  BY <1>1 DEF Interrupted
<1>3. cur[claimer] = Target
  BY <1>1, <1>2
     DEF StackInv, TypeInv, HandsFull, OwnershipInv, Owned, OnlyTarget, Processing, Steps
<1>4. \A w \in Workers : w # claimer /\ wpc[w] \in Owning => cur[w] # Target
  BY <1>1, <1>2, <1>3 DEF StackInv, OwnershipInv, Exclusive, Holders, Owning, Processing
<1>5. /\ wpc' = [wpc EXCEPT ![claimer] = "killed"]
      /\ \A w \in Workers : w # claimer => cur'[w] = cur[w]
  BY <1>1 DEF Die, Forget, StackInv, TypeInv, TypeOK, WorkerTypeOK
<1>6. \A w \in Workers : wpc'[w] \in Owning => cur'[w] # Target
  BY <1>1, <1>4, <1>5 DEF StackInv, TypeInv, TypeOK, WorkerTypeOK, Owning, Processing
<1>7. QED
  BY <1>1, <1>2, <1>6 DEF Stuck, Abandoned

(* Only the kill is recorded as a hit. *)
LEMMA HitStep ==
  ASSUME [ScenarioNext]_allVars, ~KillClaimer
  PROVE  hit' = hit
BY DEF ScenarioNext, ScriptStep, ScriptRaises, ScaleRaises, StackDelivers, StackWorks,
       StackAnswers, LogStarted, SubmitDocument, StartProcessing, ProcessingAnswered,
       WaitForStatus, WaitTimesOut, FindClaimingWorker, NoClaimingWorker, Watch, WatchEnds,
       Summarise, ScaleWorkers, scriptVars, allVars

(* What the kill has interrupted stays interrupted. *)
LEMMA StuckStep ==
  ASSUME StackInv, Stuck, [ScenarioNext]_allVars
  PROVE  Stuck'
<1>1. CASE KillClaimer
  BY <1>1, KillAbandons DEF Stuck
<1>2. CASE ~KillClaimer
  <2>1. hit' = hit
    BY <1>2, HitStep
  <2>2. \A n : Abandoned(n) => Abandoned(n)'
    BY StackStep, AbandonedStays DEF StackInv
  <2>3. QED
    BY <2>1, <2>2 DEF Stuck
<1>3. QED
  BY <1>1, <1>2

(***************************************************************************)
(* The report.                                                             *)
(***************************************************************************)
Verdicts == {"completed", "failed"}

(* A status and an attempt count once read from the row: the row has not   *)
(* gone back since, and has not moved at all if it was a verdict.          *)
ReadBefore(s, n) == /\ n \in Nat /\ n <= attempts[Target]
                    /\ s \in Verdicts => s = Lower[status[Target]] /\ n = attempts[Target]

Snapshots == /\ spc \in {"find", "kill", "watch", "depth"} =>
                  ReadBefore(started.status, started.attempts)
             /\ final # Unset => ReadBefore(final.status, final.attempts)

Reported == summary # Unset /\ summary.error = "none" =>
              /\ ReadBefore(summary.status, summary.attempts)
              /\ summary.terminal => summary.status \in Verdicts

ScenarioInv == StackInv /\ Stuck /\ Snapshots /\ Reported

(* Lowering the label keeps verdicts apart from the rest. *)
LEMMA LowerVerdict ==
  ASSUME NEW s \in JobStatus \cup {"ABSENT"}
  PROVE  /\ Lower[s] \in Verdicts <=> s \in Terminal
         /\ Lower[s] = "started" <=> s = "STARTED"
BY DEF Lower, Verdicts, JobStatus, Terminal

(* Attempts are only ever added, and a verdict is never revised. *)
LEMMA RowAdvances ==
  ASSUME TypeInv, StepKind
  PROVE  /\ attempts[Target] \in Nat /\ attempts'[Target] \in Nat
         /\ attempts[Target] <= attempts'[Target]
         /\ status[Target] \in Terminal =>
              status'[Target] = status[Target] /\ attempts'[Target] = attempts[Target]
<1> USE TargetAssumption
    DEF TypeInv, TypeOK, TableTypeOK, HandsFull, Steps, Terminal
<1>1. CASE Quiet
  BY <1>1 DEF Quiet
<1>2. ASSUME NEW j \in Jobs, Created(j)
      PROVE  /\ attempts' = attempts
             /\ status[Target] \in Terminal => status'[Target] = status[Target]
  BY <1>2 DEF Created
<1>3. ASSUME NEW w \in Workers, Started(w)
      PROVE  /\ attempts'[Target] \in Nat
             /\ attempts[Target] <= attempts'[Target]
             /\ status[Target] \in Terminal =>
                  status'[Target] = status[Target] /\ attempts'[Target] = attempts[Target]
  BY <1>3 DEF Started, UpdateStatus, WriteColumns
<1>4. ASSUME NEW w \in Workers, Finished(w) \/ GaveBack(w)
      PROVE  /\ attempts' = attempts
             /\ status[Target] \in Terminal => status'[Target] = status[Target]
  BY <1>4 DEF Finished, GaveBack, UpdateStatus, WriteColumns, FailureStatus
<1>5. QED
  BY <1>1, <1>2, <1>3, <1>4 DEF StepKind

(* So what was read remains a true account of the past. *)
LEMMA ReadStays ==
  ASSUME StackInv, [ScenarioNext]_allVars, NEW s, NEW n, ReadBefore(s, n)
  PROVE  ReadBefore(s, n)'
<1>1. TypeInv /\ StepKind /\ status[Target] \in JobStatus \cup {"ABSENT"}
  BY StackStep, TargetAssumption DEF StackInv, TypeInv, TypeOK, TableTypeOK
<1>2. s \in Verdicts => status[Target] \in Terminal
  BY <1>1, LowerVerdict DEF ReadBefore
<1>3. QED
  BY <1>1, <1>2, RowAdvances DEF ReadBefore

(* A snapshot taken now. *)
LEMMA ReadNow ==
  ASSUME StackInv
  PROVE  ReadBefore(Snapshot.status, Snapshot.attempts)
BY TargetAssumption DEF StackInv, TypeInv, TypeOK, TableTypeOK, ReadBefore, Snapshot

(* The snapshots stay true; a new one is true when it is taken. *)
LEMMA SnapshotsStep ==
  ASSUME StackInv, Snapshots, [ScenarioNext]_allVars
  PROVE  Snapshots'
<1>1. \A s, n : ReadBefore(s, n) => ReadBefore(s, n)'
  BY ReadStays
<1>2. CASE WaitForStatus
  BY <1>1, <1>2, ReadNow DEF WaitForStatus, Snapshots, Script
<1>3. CASE Watch
  BY <1>1, <1>3, ReadNow DEF Watch, Snapshots, Script
<1>4. ASSUME UNCHANGED <<started, final>>,
             spc' \in {"find", "kill", "watch", "depth"} => spc \in {"find", "kill", "watch", "depth"}
      PROVE  Snapshots'
  BY <1>1, <1>4 DEF Snapshots
<1>5. CASE ~WaitForStatus /\ ~Watch
  <2>1. /\ UNCHANGED <<started, final>>
        /\ spc' \in {"find", "kill", "watch", "depth"} => spc \in {"find", "kill", "watch", "depth"}
    BY <1>5
       DEF ScenarioNext, ScriptStep, ScriptRaises, ScaleRaises, StackDelivers, StackWorks,
           StackAnswers, LogStarted, SubmitDocument, StartProcessing, ProcessingAnswered,
           WaitTimesOut, FindClaimingWorker, NoClaimingWorker, KillClaimer, WatchEnds,
           Summarise, ScaleWorkers, Script, scriptVars, allVars
  <2>2. QED
    BY <1>4, <2>1
<1>6. QED
  BY <1>2, <1>3, <1>5

(* The summary repeats the last snapshot. *)
LEMMA ReportedStep ==
  ASSUME StackInv, Snapshots, Reported, [ScenarioNext]_allVars
  PROVE  Reported'
<1>1. \A s, n : ReadBefore(s, n) => ReadBefore(s, n)'
  BY ReadStays
<1>2. CASE Summarise
  <2>1. PICK last \in {started, final} :
          /\ ReadBefore(last.status, last.attempts)
          /\ summary' = [error |-> "none", status |-> last.status, attempts |-> last.attempts,
                         terminal |-> ReachedTerminal(last), depth |-> ListedDepth]
    BY <1>2 DEF Summarise, Script, Snapshots
  <2>2. QED
    BY <1>1, <2>1 DEF Reported, ReachedTerminal, Verdicts
<1>3. ASSUME NEW e, e # "none", Raised(e)
      PROVE  Reported'
  BY <1>3 DEF Raised, Reported
<1>4. CASE UNCHANGED summary
  BY <1>1, <1>4 DEF Reported
<1>5. QED
  BY <1>2, <1>3, <1>4
     DEF ScenarioNext, ScriptStep, ScriptRaises, ScaleRaises, StackDelivers, StackWorks,
         StackAnswers, LogStarted, SubmitDocument, StartProcessing, ProcessingAnswered,
         WaitForStatus, WaitTimesOut, FindClaimingWorker, NoClaimingWorker, KillClaimer, Watch,
         WatchEnds, ScaleWorkers, scriptVars, allVars

(* The invariant holds in every state of the scenario. *)
LEMMA ScenarioAlways == ScenarioSpec => []ScenarioInv
<1>1. ScenarioInit => ScenarioInv
  <2> SUFFICES ASSUME ScenarioInit
               PROVE  ScenarioInv
    OBVIOUS
  <2>1. TypeInv /\ OwnershipInv
    BY TypeInit, OwnershipInit DEF ScenarioInit
  <2>2. OnlyTarget
    BY DEF ScenarioInit, Init, TableInit, OnlyTarget
  <2>3. FoundClaimer /\ Stuck /\ Snapshots /\ Reported
    BY DEF ScenarioInit, FoundClaimer, Stuck, Snapshots, Reported
  <2>4. QED
    BY <2>1, <2>2, <2>3 DEF ScenarioInv, StackInv
<1>2. ScenarioInv /\ [ScenarioNext]_allVars => ScenarioInv'
  BY StackStep, StuckStep, SnapshotsStep, ReportedStep DEF ScenarioInv
<1>3. QED
  BY <1>1, <1>2, PTL DEF ScenarioSpec

(* A job whose worker the scenario kills in the middle of an attempt stays *)
(* STARTED at that attempt for good, whatever is redelivered and whichever *)
(* containers are started again: nothing in the code takes a STARTED job   *)
(* over.                                                                   *)
THEOREM KilledJobAlwaysStuck == ScenarioSpec => []KilledJobIsStuck
<1>1. ScenarioInv => KilledJobIsStuck
  BY DEF ScenarioInv, Stuck, Abandoned, KilledJobIsStuck
<1>2. QED
  BY ScenarioAlways, <1>1, PTL

(* What the report says of the job remains true after the script has gone. *)
THEOREM ReportAlwaysStands == ScenarioSpec => []ReportStands
<1>1. ScenarioInv => ReportStands
  <2> SUFFICES ASSUME ScenarioInv, summary # Unset, summary.error = "none"
               PROVE  /\ summary.attempts <= attempts[Target]
                      /\ summary.terminal => /\ Snapshot.status = summary.status
                                             /\ Snapshot.attempts = summary.attempts
                                             /\ hit = 0
    BY DEF ReportStands
  <2>1. /\ ReadBefore(summary.status, summary.attempts)
        /\ summary.terminal => summary.status \in Verdicts
    BY DEF ScenarioInv, Reported
  <2>2. status[Target] \in JobStatus \cup {"ABSENT"}
    BY TargetAssumption DEF ScenarioInv, StackInv, TypeInv, TypeOK, TableTypeOK
  <2>3. summary.terminal => status[Target] \in Terminal
    BY <2>1, <2>2, LowerVerdict DEF ReadBefore
  <2>4. status[Target] \in Terminal => hit = 0
    BY DEF ScenarioInv, Stuck, Abandoned, Terminal
  <2>5. QED
    BY <2>1, <2>3, <2>4 DEF ReadBefore, Snapshot
<1>2. QED
  BY ScenarioAlways, <1>1, PTL

(* Killing containers and starting them again, even several at once, never *)
(* takes a job off its life cycle: the stuck job is one that makes no      *)
(* further step, not one that made a wrong one.                            *)
THEOREM ScenarioKeepsLifecycle == ScenarioSpec => LifecycleSpec
<1>1. ScenarioInit => Lifecycle!Init
  BY DEF ScenarioInit, Init, TableInit, Lifecycle!Init
<1>2. ScenarioInv /\ [ScenarioNext]_allVars => [Lifecycle!Next]_<<status, attempts>>
  BY StackStep, LifecycleStep DEF ScenarioInv, StackInv
<1>3. QED
  BY <1>1, <1>2, ScenarioAlways, PTL DEF ScenarioSpec, LifecycleSpec, Lifecycle!Spec
=============================================================================
