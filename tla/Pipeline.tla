------------------------------ MODULE Pipeline ------------------------------
(***************************************************************************)
(* The whole pipeline: clients that upload, the API's processing endpoint, *)
(* the queue, the workers and the two stores they share.                   *)
(***************************************************************************)
EXTENDS Consumer, ProcessEndpoint

vars == <<faults, tableVars, brokerVars, storeVars, workerVars, rpc>>

TypeOK == /\ faults \in 0..MaxFaults
          /\ TableTypeOK
          /\ BrokerTypeOK
          /\ StoreTypeOK
          /\ WorkerTypeOK
          /\ EndpointTypeOK

Init == /\ faults = 0
        /\ TableInit
        /\ BrokerInit
        /\ StoreInit
        /\ WorkerInit
        /\ EndpointInit

ClientUpload(d) == Upload(d) /\ UNCHANGED <<faults, tableVars, brokerVars, workerVars, rpc>>

Request(j) ==
  /\ StartRequest(j) \/ RequestStep(j) \/ RequestError(j) \/ EnqueueError(j)
  /\ UNCHANGED workerVars

Work(w) ==
  /\ \/ WorkerStep(w) \/ WorkerFault(w) \/ Restart(w)
     \/ \E m \in Messages : Deliver(w, m)
  /\ UNCHANGED rpc

Next == \/ \E d \in Documents : ClientUpload(d)
        \/ \E j \in Jobs : Request(j)
        \/ \E w \in Workers : Work(w)
        \/ PublishPoison /\ UNCHANGED rpc

Spec == Init /\ [][Next]_vars

(***************************************************************************)
(* A worker and a request that can go on do, the broker delivers while a   *)
(* channel has room, and the orchestrator replaces a process that ended.   *)
(* A worker can go on when the call it waits for returns or raises: every  *)
(* call does, except a parse that hangs, which is a fault.  Clients and    *)
(* faults are free.                                                        *)
(***************************************************************************)
Fairness ==
  /\ \A w \in Workers : /\ WF_vars(WorkerStep(w) /\ UNCHANGED rpc)
                        /\ WF_vars(Restart(w) /\ UNCHANGED rpc)
  /\ WF_vars(\E w \in Workers, m \in Messages : Deliver(w, m) /\ UNCHANGED rpc)
  /\ \A j \in Jobs : WF_vars(RequestStep(j) /\ UNCHANGED workerVars)

FairSpec == Spec /\ Fairness

(***************************************************************************)
(* Who owns a job.                                                         *)
(***************************************************************************)
Holders == {w \in Workers : wpc[w] \in Processing \cup {"failing", "ack_done"}}

(* No two workers ever process one document at the same time: the object   *)
(* artifacts/{account}/{document}.md and the artifact row have one writer, *)
(* whatever is redelivered, duplicated or retried.                         *)
OneWriter ==
  \A v, w \in Workers :
    /\ v # w
    /\ wpc[v] \in Processing
    /\ wpc[w] \in Processing
    => DocOf[cur[v]] # DocOf[cur[w]]

(* The claim a worker acts on is the current one: while it processes, the  *)
(* job is STARTED and the attempt number it got from the claiming UPDATE   *)
(* is still the row's, so _handle_failure may decide from that copy.       *)
ClaimIsCurrent ==
  \A w \in Workers : wpc[w] \in Processing =>
    status[cur[w]] = "STARTED" /\ att[w] = attempts[cur[w]]

(* jobs.attempts never exceeds max_attempts; a job in the queue has an     *)
(* attempt left, and FAILED is written only when none is.                  *)
AttemptsLedger ==
  \A j \in Jobs :
    /\ attempts[j] <= MaxAttempts
    /\ status[j] = "QUEUED" => attempts[j] < MaxAttempts
    /\ status[j] = "FAILED" => attempts[j] = MaxAttempts

(* A job's row tells its story, whatever was retried, redelivered or       *)
(* reported twice, although update_status reads the clock before it sends  *)
(* the UPDATE.  A requeue is later than the attempt it follows, an outcome *)
(* later than everything before it and the only one, and a job started     *)
(* once was started after it was queued.  error_message quotes the last    *)
(* attempt of a job that is QUEUED or FAILED and the attempt before of one *)
(* that is STARTED or COMPLETED.  The README computes processing latency   *)
(* and failure rate from these columns.                                    *)
RowTellsStory ==
  \A j \in Jobs :
    LET at(s) == stamps[j][s]
        outcome == IF status[j] \in Terminal THEN {status[j]} ELSE {}
    IN  /\ status[j] = "QUEUED" => at("QUEUED") > at("STARTED")
        /\ status[j] # "QUEUED" /\ attempts[j] = 1 => at("STARTED") > at("QUEUED")
        /\ \A s \in Terminal : IF s \in outcome THEN \A r \in Active : at(s) > at(r)
                                              ELSE at(s) = 0
        /\ status[j] \in {"QUEUED", "FAILED"} => error[j] = attempts[j]
        /\ status[j] \in {"STARTED", "COMPLETED"} => error[j] = attempts[j] - 1

(* A message never names a job whose row is not committed: enqueue comes   *)
(* after commit, so a worker cannot ack away a job it does not see yet.    *)
MessageHasRow ==
  \A j \in Jobs :
    ready[j] > 0 \/ (\E w \in Workers : j \in {unacked[w], buffered[w], cur[w]})
      => status[j] # "ABSENT"

(* The pipeline implements the job life cycle clients are told about.      *)
Lifecycle == INSTANCE JobLifecycle
LifecycleSpec == Lifecycle!Spec

(***************************************************************************)
(* Why: the inductive invariant behind the properties above and below.     *)
(***************************************************************************)
(* A worker past the parsing of its message holds the id of a job. *)
HandsFull == \A w \in Workers : wpc[w] \in Steps \ {"drop"} => cur[w] \in Jobs

(* What a claim entitles to: the job is STARTED at the attempt the worker  *)
(* counted, or has been COMPLETED by this very worker.                     *)
Owned ==
  \A w \in Workers :
    /\ wpc[w] \in Processing \cup {"failing"} =>
         \/ status[cur[w]] = "STARTED" /\ att[w] = attempts[cur[w]]
         \/ wpc[w] = "failing" /\ status[cur[w]] = "COMPLETED"
    /\ wpc[w] = "ack_done" => status[cur[w]] = "COMPLETED"

Exclusive == \A v, w \in Holders : v # w => cur[v] # cur[w]

OneActiveJob ==
  \A j, k \in Jobs :
    status[j] \in Active /\ status[k] \in Active /\ DocOf[j] = DocOf[k] => j = k

(***************************************************************************)
(* What the client can download.                                           *)
(***************************************************************************)
(* A document has an artifact row exactly when one of its jobs completed,  *)
(* and the row names such a job.                                           *)
ArtifactRecorded ==
  \A d \in Documents :
    LET completed == {j \in Jobs : DocOf[j] = d /\ status[j] = "COMPLETED"}
    IN  IF completed = {} THEN artifactJob[d] = Nothing ELSE artifactJob[d] \in completed

(* Once a job is COMPLETED, the document's Markdown was made from an       *)
(* upload at least as new as the one the job was created over.             *)
ArtifactFresh ==
  \A j \in Jobs : status[j] = "COMPLETED" => markdown[DocOf[j]] >= createdOver[j]

(* A retry, a duplicate or a late attempt never replaces the Markdown of a *)
(* newer upload by that of an older one.                                   *)
MarkdownAdvances == [][\A d \in Documents : markdown'[d] >= markdown[d]]_vars

(***************************************************************************)
(* No job is lost.                                                         *)
(***************************************************************************)
(* Somebody will still publish the job, or has a delivery of it that the   *)
(* broker would repeat.                                                    *)
Carried(j) ==
  \/ ready[j] > 0
  \/ rpc[j] = "enqueue"
  \/ \E w \in Workers : \/ unacked[w] = j /\ buffered[w] = j
                        \/ unacked[w] = j /\ wpc[w] \in {"load", "claim"}
                        \/ cur[w] = j /\ wpc[w] = "requeue"

(* A QUEUED job has a message, or a process about to publish one: no       *)
(* interleaving of redeliveries, drops and retries acks away the last one. *)
(* The one exception is a job whose request failed after the commit of its *)
(* row: then the client was told that something went wrong.                *)
QueuedIsCarried ==
  \A j \in Jobs : status[j] = "QUEUED" => Carried(j) \/ rpc[j] = "failed"

(* A STARTED job is in the hands of a live worker, the only process that   *)
(* can complete it, requeue it or fail it.                                 *)
StartedIsHeld ==
  \A j \in Jobs : status[j] = "STARTED" =>
    \E w \in Workers : cur[w] = j /\ wpc[w] \in Processing \cup {"failing"}

(* Retries and nacks bypass the depth check and concurrent requests race   *)
(* past it, yet the queue exceeds the threshold by no more than the        *)
(* requests in flight and one message per worker.                          *)
DepthBounded == Depth <= (Threshold - 1) + MaxInFlight + Cardinality(Workers)

(***************************************************************************)
(* What eventually happens.                                                *)
(***************************************************************************)
(* A worker wedged in a parse sits on m: it works on m, or m was pushed to *)
(* it after its connection had been lost and restored.  Or all are wedged. *)
OutOfReach(m) ==
  \/ \E w \in Workers : wpc[w] = "wedged" /\ m \in {cur[w], buffered[w]}
  \/ \A w \in Workers : wpc[w] = "wedged"

(* Every queued job is eventually COMPLETED or FAILED, unless a parse that *)
(* never returns keeps it or its message: nothing bounds process().        *)
EveryJobTerminates ==
  \A j \in Jobs : status[j] = "QUEUED" ~> status[j] \in Terminal \/ OutOfReach(j)

(* A malformed message leaves the system for good, and one wedged worker   *)
(* does not keep the others from settling it.                              *)
PoisonDrains ==
  ready[Poison] > 0 ~>
    \/ /\ ready[Poison] = 0
       /\ \A w \in Workers : Poison \notin {unacked[w], buffered[w], cur[w]}
    \/ OutOfReach(Poison)

(***************************************************************************)
(* What the repository's documents say, and the code does not do.          *)
(***************************************************************************)
(* README: on SIGTERM the worker finishes the current job and stops. *)
StopIsHonoured == \A w \in Workers : stop[w] ~> wpc[w] \in Down
=============================================================================
