--------------------------- MODULE PipelineProofs ---------------------------
(***************************************************************************)
(* Proofs about the pipeline, for any number of documents, jobs, workers,  *)
(* attempts, uploads and faults.                                           *)
(***************************************************************************)
EXTENDS Pipeline, TLAPS

(***************************************************************************)
(* Type correctness.  It is inductive together with HandsFull: the claim   *)
(* reads the row of the job the worker holds, so it must hold one.         *)
(***************************************************************************)
TypeInv == TypeOK /\ HandsFull

(* The initial state is well typed and no worker holds a message. *)
LEMMA TypeInit == Init => TypeInv
  BY DocAssumption, AttemptsAssumption, LimitAssumption, MessageAssumption, FaultAssumption
     DEF Init, TypeInv, TypeOK, HandsFull, TableInit, BrokerInit, StoreInit, WorkerInit,
         EndpointInit, TableTypeOK, BrokerTypeOK, StoreTypeOK, WorkerTypeOK, EndpointTypeOK,
         Steps, Messages

(* A transaction that touches no row leaves the tables well typed. *)
LEMMA TableSame == TableTypeOK /\ UNCHANGED tableVars => TableTypeOK'
  BY DEF TableTypeOK, tableVars, columnVars

(* So does a status update, with or without the artifact's upsert. *)
LEMMA TableUpdated ==
  ASSUME TableTypeOK, NEW j \in Jobs, NEW new \in JobStatus, NEW expected,
         NEW message \in Nat, NEW earliest \in Nat,
         UpdateStatus(j, new, expected, message, earliest),
         UNCHANGED artifactJob \/ UpsertArtifact(j)
  PROVE  TableTypeOK'
<1>1. error' \in [Jobs -> Nat] /\ status' \in [Jobs -> JobStatus \cup {"ABSENT"}]
  BY DEF TableTypeOK, UpdateStatus, WriteColumns
<1>2. stamps' \in [Jobs -> [JobStatus -> Nat]] /\ commits' \in [Jobs -> Nat]
  BY DEF TableTypeOK, UpdateStatus, WriteColumns, Stamp, Readings
<1>3. attempts' \in [Jobs -> Nat]
  BY DEF TableTypeOK, UpdateStatus, WriteColumns
<1>4. artifactJob' \in [Documents -> Jobs \cup {Nothing}]
  BY DocAssumption DEF TableTypeOK, UpsertArtifact
<1>. QED BY <1>1, <1>2, <1>3, <1>4 DEF TableTypeOK, UpdateStatus, WriteColumns

(* And so does the insertion of a job. *)
LEMMA TableCreated ==
  ASSUME TableTypeOK, NEW j \in Jobs, NEW version \in 0..MaxVersion, CreateJob(j, version)
  PROVE  TableTypeOK'
  BY DEF TableTypeOK, CreateJob, Stamp, Readings, JobStatus

(* A worker that acks and returns to the loop stays well typed. *)
LEMMA TypeAck ==
  ASSUME TypeInv, NEW w \in Workers, NEW from, AckAndReturn(w, from),
         UNCHANGED <<tableVars, storeVars, faults, rpc>>
  PROVE  TypeInv'
  BY MessageAssumption, LimitAssumption, TableSame
     DEF TypeInv, TypeOK, HandsFull, BrokerTypeOK, StoreTypeOK, WorkerTypeOK,
         EndpointTypeOK, storeVars, Steps, Updating, AckAndReturn, Goto, Forget, AfterAck

(* A worker process that ends, for whatever reason and with whatever still *)
(* unacknowledged, leaves a well typed state.                              *)
LEMMA TypeDie ==
  ASSUME TypeInv, NEW w \in Workers, NEW how \in Down,
         NEW outstanding \in [Workers -> Messages \cup {Nothing}],
         Die(w, how, outstanding), TableTypeOK', UNCHANGED <<storeVars, rpc>>,
         faults' \in 0..MaxFaults
  PROVE  TypeInv'
  BY MessageAssumption, LimitAssumption
     DEF TypeInv, TypeOK, HandsFull, BrokerTypeOK, StoreTypeOK, WorkerTypeOK,
         EndpointTypeOK, storeVars, Steps, Down, Die, Forget, ReturnDelivery

(* Every step of the pipeline keeps the state well typed. *)
LEMMA TypeStep == TypeInv /\ [Next]_vars => TypeInv'
<1> SUFFICES ASSUME TypeInv, [Next]_vars PROVE TypeInv'
  OBVIOUS
<1>0. /\ UNCHANGED tableVars => TableTypeOK'
      /\ \A w \in Workers : att[w] \in Nat /\ FailureStatus(w) \in JobStatus
      /\ attempts \in [Jobs -> Nat] /\ commits \in [Jobs -> Nat]
  BY TableSame DEF TypeInv, TypeOK, TableTypeOK, WorkerTypeOK, FailureStatus, JobStatus
<1> USE <1>0, DocAssumption, AttemptsAssumption, LimitAssumption, MessageAssumption,
        FaultAssumption
    DEF TypeInv, TypeOK, HandsFull, BrokerTypeOK, StoreTypeOK, WorkerTypeOK, EndpointTypeOK,
        brokerVars, storeVars, workerVars, localVars, sharedVars, Steps, Down, Updating,
        JobStatus, InFlight, Answers, Messages
<1>1. ASSUME NEW w \in Workers, TakeMessage(w), UNCHANGED rpc PROVE TypeInv'
  BY <1>1 DEF TakeMessage
<1>2. ASSUME NEW w \in Workers, BreakOnStop(w), UNCHANGED rpc PROVE TypeInv'
  BY <1>2 DEF BreakOnStop, Die, Forget, ReturnDelivery
<1>3. ASSUME NEW w \in Workers, LoadJob(w), UNCHANGED rpc PROVE TypeInv'
  BY <1>3 DEF LoadJob, Goto
<1>4. ASSUME NEW w \in Workers, AckDrop(w), UNCHANGED rpc PROVE TypeInv'
  BY <1>4, TypeAck, TypeDie DEF AckDrop, AckRaises
<1>5. ASSUME NEW w \in Workers, Claim(w), UNCHANGED rpc PROVE TypeInv'
  <2>1. TableTypeOK'
    BY <1>5, TableUpdated DEF Claim, Goto
  <2>. QED BY <1>5, <2>1 DEF Claim, Goto
<1>6. ASSUME NEW w \in Workers, ClaimConflict(w), UNCHANGED rpc PROVE TypeInv'
  BY <1>6 DEF ClaimConflict, Goto
<1>7. ASSUME NEW w \in Workers, FetchDocument(w), UNCHANGED rpc PROVE TypeInv'
  BY <1>7 DEF FetchDocument, Goto
<1>8. ASSUME NEW w \in Workers, StoreMarkdown(w), UNCHANGED rpc PROVE TypeInv'
  BY <1>8 DEF StoreMarkdown, Goto, PutMarkdown
<1>9. ASSUME NEW w \in Workers, Complete(w), UNCHANGED rpc PROVE TypeInv'
  <2>1. TableTypeOK'
    BY <1>9, TableUpdated DEF Complete, Goto, CommitResult
  <2>. QED BY <1>9, <2>1 DEF Complete, Goto
<1>10. ASSUME NEW w \in Workers, ProcessingError(w), UNCHANGED rpc PROVE TypeInv'
  BY <1>10 DEF ProcessingError, Goto, PutMarkdown, Processing
<1>11. ASSUME NEW w \in Workers, AckDone(w), UNCHANGED rpc PROVE TypeInv'
  BY <1>11, TypeAck DEF AckDone, Goto
<1>12. ASSUME NEW w \in Workers, HandleFailure(w), UNCHANGED rpc PROVE TypeInv'
  <2>1. TableTypeOK'
    BY <1>12, TableUpdated DEF HandleFailure, Goto
  <2>. QED BY <1>12, <2>1 DEF HandleFailure, Goto
<1>13. ASSUME NEW w \in Workers, FailureConflict(w), UNCHANGED rpc PROVE TypeInv'
  BY <1>13 DEF FailureConflict, Goto
<1>14. ASSUME NEW w \in Workers, Reenqueue(w), UNCHANGED rpc PROVE TypeInv'
  BY <1>14 DEF Reenqueue, Goto, Publish
<1>15. ASSUME NEW w \in Workers, AckFailed(w), UNCHANGED rpc PROVE TypeInv'
  BY <1>15, TypeAck, TypeDie DEF AckFailed, AckRaises
<1>16. ASSUME NEW w \in Workers, LoadFails(w), UNCHANGED rpc PROVE TypeInv'
  BY <1>16 DEF LoadFails, Fault, Die, Forget, ReturnDelivery
<1>17. ASSUME NEW w \in Workers, DropCommitFails(w), UNCHANGED rpc PROVE TypeInv'
  <2>1. AfterAck(w) \in [Workers -> Messages \cup {Nothing}]
    BY DEF AfterAck
  <2>. QED BY <1>17, <2>1, TypeDie DEF DropCommitFails, Fault
<1>18. ASSUME NEW w \in Workers, ClaimDbError(w), UNCHANGED rpc PROVE TypeInv'
  <2>1. CASE Die(w, "exited", unacked)
    BY <1>18, <2>1, TypeDie DEF ClaimDbError, Fault
  <2>2. CASE Goto(w, "claim", "idle") /\ Forget(w) /\ Nack(w) /\ UNCHANGED buffered
    BY <1>18, <2>2 DEF ClaimDbError, Fault, Goto, Forget, Nack, ReturnDelivery
  <2>. QED BY <1>18, <2>1, <2>2 DEF ClaimDbError
<1>19. ASSUME NEW w \in Workers, ClaimCommitFails(w), UNCHANGED rpc PROVE TypeInv'
  <2>1. TableTypeOK'
    BY <1>19, TableUpdated DEF ClaimCommitFails
  <2>. QED BY <1>19, <2>1, TypeDie DEF ClaimCommitFails, Fault
<1>20. ASSUME NEW w \in Workers, CompleteAmbiguous(w), UNCHANGED rpc PROVE TypeInv'
  <2>1. TableTypeOK'
    BY <1>20, TableUpdated DEF CompleteAmbiguous, Goto, CommitResult
  <2>. QED BY <1>20, <2>1 DEF CompleteAmbiguous, Goto, Fault
<1>21. ASSUME NEW w \in Workers, FailureDbError(w), UNCHANGED rpc PROVE TypeInv'
  <2>1. TableTypeOK'
    BY <1>21, TableUpdated DEF FailureDbError
  <2>. QED BY <1>21, <2>1, TypeDie DEF FailureDbError, Fault
<1>22. ASSUME NEW w \in Workers, ReenqueueError(w), UNCHANGED rpc PROVE TypeInv'
  <2>1. CASE Die(w, "exited", unacked)
    BY <1>22, <2>1, TypeDie DEF ReenqueueError, Fault
  <2>2. CASE Goto(w, "requeue", "ack_failed")
    BY <1>22, <2>2 DEF ReenqueueError, Fault, Goto, Publish, Die
  <2>. QED BY <1>22, <2>1, <2>2 DEF ReenqueueError
<1>23. ASSUME NEW w \in Workers, Kill(w), UNCHANGED rpc PROVE TypeInv'
  BY <1>23 DEF Kill, Fault, Die, Forget, ReturnDelivery
<1>24. ASSUME NEW w \in Workers, LoseConnection(w), UNCHANGED rpc PROVE TypeInv'
  BY <1>24 DEF LoseConnection, Fault, ReturnDelivery
<1>25. ASSUME NEW w \in Workers, RequestStop(w), UNCHANGED rpc PROVE TypeInv'
  BY <1>25 DEF RequestStop, Fault
<1>26. ASSUME NEW w \in Workers, Restart(w), UNCHANGED rpc PROVE TypeInv'
  BY <1>26 DEF Restart
<1>27. ASSUME NEW w \in Workers, NEW m \in Messages, Deliver(w, m), UNCHANGED rpc PROVE TypeInv'
  BY <1>27 DEF Deliver, Push
<1>28. ASSUME NEW j \in Jobs, StartRequest(j), UNCHANGED workerVars PROVE TypeInv'
  BY <1>28 DEF StartRequest, Answer
<1>29. ASSUME NEW j \in Jobs, CheckDepth(j), UNCHANGED workerVars PROVE TypeInv'
  BY <1>29 DEF CheckDepth, Answer
<1>30. ASSUME NEW j \in Jobs, InsertJob(j), UNCHANGED workerVars PROVE TypeInv'
  <2>1. TableTypeOK'
    BY <1>30, TableCreated DEF InsertJob
  <2>. QED BY <1>30, <2>1 DEF InsertJob, Answer
<1>31. ASSUME NEW j \in Jobs, RejectActiveJob(j), UNCHANGED workerVars PROVE TypeInv'
  BY <1>31 DEF RejectActiveJob, Answer
<1>32. ASSUME NEW j \in Jobs, EnqueueJob(j), UNCHANGED workerVars PROVE TypeInv'
  BY <1>32 DEF EnqueueJob, Answer, Publish
<1>33. ASSUME NEW j \in Jobs, RequestError(j), UNCHANGED workerVars PROVE TypeInv'
  <2>1. TableTypeOK'
    BY <1>33, TableCreated DEF RequestError
  <2>. QED BY <1>33, <2>1 DEF RequestError, Fault, Answer
<1>34. ASSUME NEW j \in Jobs, EnqueueError(j), UNCHANGED workerVars PROVE TypeInv'
  BY <1>34 DEF EnqueueError, Fault, Answer, Publish
<1>35. ASSUME PublishPoison, UNCHANGED rpc PROVE TypeInv'
  BY <1>35 DEF PublishPoison, Publish, Fault
<1>36. ASSUME NEW d \in Documents, ClientUpload(d) PROVE TypeInv'
  BY <1>36 DEF ClientUpload, Upload
<1>37. ASSUME NEW w \in Workers, Hang(w), UNCHANGED rpc PROVE TypeInv'
  BY <1>37 DEF Hang, Goto, Fault
<1>38. CASE UNCHANGED vars
  BY <1>38 DEF vars
<1>. QED
  BY <1>1, <1>2, <1>3, <1>4, <1>5, <1>6, <1>7, <1>8, <1>9, <1>10, <1>11, <1>12, <1>13,
      <1>14, <1>15, <1>16, <1>17, <1>18, <1>19, <1>20, <1>21, <1>22, <1>23, <1>24,
      <1>25, <1>26, <1>27, <1>28, <1>29, <1>30, <1>31, <1>32, <1>33, <1>34, <1>35,
      <1>36, <1>37, <1>38 DEF Next, Request, RequestStep, Work, WorkerStep, WorkerFault

(* Type correctness: in every reachable state the rows, the queue, the     *)
(* objects, the workers and the requests are what their declarations say.  *)
THEOREM TypeCorrect == Spec => []TypeOK
<1>1. TypeInv => TypeOK
  BY DEF TypeInv
<1>. QED BY <1>1, TypeInit, TypeStep, PTL DEF Spec

(***************************************************************************)
(* Five kinds of step.  All that matters to the ownership of jobs is what  *)
(* becomes of the rows and which worker acts on which claim, and seen that *)
(* way the forty-odd steps of the pipeline fall into five kinds.           *)
(***************************************************************************)
Owning == Processing \cup {"failing", "ack_done"}

(* The worker gains no claim by the step. *)
Keeps(w) ==
  wpc'[w] \in Owning =>
    /\ cur'[w] = cur[w] /\ att'[w] = att[w]
    /\ wpc[w] \in Owning
    /\ wpc'[w] \in Processing => wpc[w] \in Processing
    /\ wpc'[w] = "ack_done" => wpc[w] = "ack_done"

OthersKeep(w) == \A v \in Workers : v # w => Keeps(v)

Quiet == /\ UNCHANGED <<status, attempts, columnVars, artifactJob>>
         /\ \A w \in Workers : Keeps(w)

Created(j) == /\ status[j] = "ABSENT"
              /\ ~ActiveJobExists(DocOf[j])
              /\ status' = [status EXCEPT ![j] = "QUEUED"]
              /\ Stamp(j, "QUEUED", 0)
              /\ UNCHANGED <<attempts, error, artifactJob>>
              /\ \A w \in Workers : Keeps(w)

Started(w) == /\ wpc[w] = "claim"
              /\ UpdateStatus(cur[w], "STARTED", "QUEUED", 0, since[w])
              /\ \/ wpc'[w] = "fetch" /\ cur'[w] = cur[w] /\ att'[w] = attempts[cur[w]] + 1
                 \/ wpc'[w] \notin Owning
              /\ UNCHANGED artifactJob
              /\ OthersKeep(w)

Finished(w) == /\ wpc[w] = "complete"
               /\ UpdateStatus(cur[w], "COMPLETED", "STARTED", 0, since[w])
               /\ UpsertArtifact(cur[w])
               /\ wpc'[w] \in {"ack_done", "failing"}
               /\ cur'[w] = cur[w]
               /\ OthersKeep(w)

GaveBack(w) == /\ wpc[w] = "failing"
               /\ UpdateStatus(cur[w], FailureStatus(w), "STARTED", att[w], since[w])
               /\ wpc'[w] \notin Owning
               /\ UNCHANGED artifactJob
               /\ OthersKeep(w)

StepKind == \/ Quiet
            \/ \E j \in Jobs : Created(j)
            \/ \E w \in Workers : Started(w) \/ Finished(w) \/ GaveBack(w)

(* Every step of the pipeline is of one of the five kinds. *)
LEMMA StepKinds == TypeInv /\ [Next]_vars => StepKind
<1> SUFFICES ASSUME TypeInv, [Next]_vars PROVE StepKind
  OBVIOUS
<1> USE DEF TypeInv, TypeOK, TableTypeOK, WorkerTypeOK, tableVars, columnVars, workerVars,
        localVars, sharedVars, Owning, Processing, Down, Keeps, OthersKeep
<1>1. ASSUME NEW w \in Workers, TakeMessage(w) PROVE Quiet
  BY <1>1 DEF TakeMessage, Quiet
<1>2. ASSUME NEW w \in Workers, BreakOnStop(w) PROVE Quiet
  BY <1>2 DEF BreakOnStop, Die, Forget, Quiet
<1>3. ASSUME NEW w \in Workers, LoadJob(w) PROVE Quiet
  BY <1>3 DEF LoadJob, Goto, Quiet
<1>4. ASSUME NEW w \in Workers, AckDrop(w) PROVE Quiet
  BY <1>4 DEF AckDrop, AckAndReturn, AckRaises, Goto, Die, Forget, Quiet
<1>5. ASSUME NEW w \in Workers, Claim(w) PROVE Started(w)
  BY <1>5 DEF Claim, Goto, UpdateStatus, WriteColumns, Started
<1>6. ASSUME NEW w \in Workers, ClaimConflict(w) PROVE Quiet
  BY <1>6 DEF ClaimConflict, Goto, Quiet
<1>7. ASSUME NEW w \in Workers, FetchDocument(w) PROVE Quiet
  BY <1>7 DEF FetchDocument, Goto, Quiet
<1>8. ASSUME NEW w \in Workers, StoreMarkdown(w) PROVE Quiet
  BY <1>8 DEF StoreMarkdown, Goto, Quiet
<1>9. ASSUME NEW w \in Workers, Complete(w) PROVE Finished(w)
  BY <1>9 DEF Complete, Goto, CommitResult, UpdateStatus, Finished
<1>10. ASSUME NEW w \in Workers, ProcessingError(w) PROVE Quiet
  BY <1>10 DEF ProcessingError, Goto, Processing, Quiet
<1>11. ASSUME NEW w \in Workers, AckDone(w) PROVE Quiet
  BY <1>11 DEF AckDone, AckAndReturn, Goto, Forget, Quiet
<1>12. ASSUME NEW w \in Workers, HandleFailure(w) PROVE GaveBack(w)
  BY <1>12 DEF HandleFailure, Goto, UpdateStatus, FailureStatus, GaveBack
<1>13. ASSUME NEW w \in Workers, FailureConflict(w) PROVE Quiet
  BY <1>13 DEF FailureConflict, Goto, Quiet
<1>14. ASSUME NEW w \in Workers, Reenqueue(w) PROVE Quiet
  BY <1>14 DEF Reenqueue, Goto, Quiet
<1>15. ASSUME NEW w \in Workers, AckFailed(w) PROVE Quiet
  BY <1>15 DEF AckFailed, AckAndReturn, AckRaises, Goto, Die, Forget, Quiet
<1>16. ASSUME NEW w \in Workers, LoadFails(w) PROVE Quiet
  BY <1>16 DEF LoadFails, Die, Forget, Quiet
<1>17. ASSUME NEW w \in Workers, DropCommitFails(w) PROVE Quiet
  BY <1>17 DEF DropCommitFails, Die, Forget, Quiet
<1>18. ASSUME NEW w \in Workers, ClaimDbError(w) PROVE Quiet
  BY <1>18 DEF ClaimDbError, Goto, Die, Forget, Quiet
<1>19. ASSUME NEW w \in Workers, ClaimCommitFails(w) PROVE Quiet \/ Started(w)
  BY <1>19 DEF ClaimCommitFails, UpdateStatus, Die, Forget, Quiet, Started
<1>20. ASSUME NEW w \in Workers, CompleteAmbiguous(w) PROVE Finished(w)
  BY <1>20 DEF CompleteAmbiguous, Goto, CommitResult, UpdateStatus, Finished
<1>21. ASSUME NEW w \in Workers, FailureDbError(w) PROVE Quiet \/ GaveBack(w)
  BY <1>21 DEF FailureDbError, UpdateStatus, FailureStatus, Die, Forget, Quiet,
      GaveBack
<1>22. ASSUME NEW w \in Workers, ReenqueueError(w) PROVE Quiet
  BY <1>22 DEF ReenqueueError, Goto, Die, Forget, Quiet
<1>23. ASSUME NEW w \in Workers, Kill(w) PROVE Quiet
  BY <1>23 DEF Kill, Die, Forget, Quiet
<1>24. ASSUME NEW w \in Workers, LoseConnection(w) PROVE Quiet
  BY <1>24 DEF LoseConnection, Quiet
<1>25. ASSUME NEW w \in Workers, RequestStop(w) PROVE Quiet
  BY <1>25 DEF RequestStop, Quiet
<1>26. ASSUME NEW w \in Workers, Restart(w) PROVE Quiet
  BY <1>26 DEF Restart, Quiet
<1>27. ASSUME NEW w \in Workers, NEW m \in Messages, Deliver(w, m) PROVE Quiet
  BY <1>27 DEF Deliver, Quiet
<1>28. ASSUME NEW j \in Jobs, StartRequest(j), UNCHANGED workerVars PROVE Quiet
  BY <1>28 DEF StartRequest, Answer, Quiet
<1>29. ASSUME NEW j \in Jobs, CheckDepth(j), UNCHANGED workerVars PROVE Quiet
  BY <1>29 DEF CheckDepth, Answer, Quiet
<1>30. ASSUME NEW j \in Jobs, InsertJob(j), UNCHANGED workerVars PROVE Created(j)
  BY <1>30 DEF InsertJob, Answer, CreateJob, Created
<1>31. ASSUME NEW j \in Jobs, RejectActiveJob(j), UNCHANGED workerVars PROVE Quiet
  BY <1>31 DEF RejectActiveJob, Answer, Quiet
<1>32. ASSUME NEW j \in Jobs, EnqueueJob(j), UNCHANGED workerVars PROVE Quiet
  BY <1>32 DEF EnqueueJob, Answer, Quiet
<1>33. ASSUME NEW j \in Jobs, RequestError(j), UNCHANGED workerVars PROVE Quiet \/ Created(j)
  BY <1>33 DEF RequestError, Answer, CreateJob, Quiet, Created
<1>34. ASSUME NEW j \in Jobs, EnqueueError(j), UNCHANGED workerVars PROVE Quiet
  BY <1>34 DEF EnqueueError, Answer, Quiet
<1>35. ASSUME PublishPoison PROVE Quiet
  BY <1>35 DEF PublishPoison, Quiet
<1>36. ASSUME NEW d \in Documents, ClientUpload(d) PROVE Quiet
  BY <1>36 DEF ClientUpload, Upload, Quiet
<1>37. ASSUME NEW w \in Workers, Hang(w) PROVE Quiet
  BY <1>37 DEF Hang, Goto, Quiet
<1>38. CASE UNCHANGED vars
  BY <1>38 DEF vars, Quiet, StepKind
<1> HIDE DEF TypeInv, Owning, Processing, Down, Keeps, OthersKeep, workerVars
<1>39. ASSUME NEW w \in Workers, Work(w) PROVE StepKind
  BY <1>39, <1>37, <1>1, <1>2, <1>3, <1>4, <1>5, <1>6, <1>7, <1>8, <1>9, <1>10, <1>11, <1>12,
     <1>13, <1>14, <1>15, <1>16, <1>17, <1>18, <1>19, <1>20, <1>21, <1>22, <1>23, <1>24,
     <1>25, <1>26, <1>27 DEF Work, WorkerStep, WorkerFault, StepKind
<1>40. ASSUME NEW j \in Jobs, Request(j) PROVE StepKind
  BY <1>40, <1>28, <1>29, <1>30, <1>31, <1>32, <1>33, <1>34 DEF Request, RequestStep, StepKind
<1>. QED
  BY <1>35, <1>36, <1>38, <1>39, <1>40 DEF Next, StepKind

(***************************************************************************)
(* Ownership.                                                              *)
(***************************************************************************)
(* A job without a row has not been attempted. *)
Untried == \A j \in Jobs : status[j] = "ABSENT" => attempts[j] = 0

OwnershipInv == Owned /\ Exclusive /\ OneActiveJob /\ AttemptsLedger /\ Untried

(* At the start there is no row and no worker at work. *)
LEMMA OwnershipInit == Init => OwnershipInv
  BY AttemptsAssumption
     DEF Init, TableInit, WorkerInit, OwnershipInv, Owned, Exclusive, OneActiveJob,
         AttemptsLedger, Untried, Holders, Processing, Active

(* Each of the five kinds of step preserves the ownership invariant. *)
LEMMA OwnershipStep == TypeInv /\ OwnershipInv /\ StepKind => OwnershipInv'
<1> SUFFICES ASSUME TypeInv, OwnershipInv, StepKind PROVE OwnershipInv'
  OBVIOUS
<1>0. /\ status \in [Jobs -> JobStatus \cup {"ABSENT"}]
      /\ attempts \in [Jobs -> Nat]
      /\ WorkerTypeOK /\ HandsFull
  BY DEF TypeInv, TypeOK, TableTypeOK
<1> USE <1>0, AttemptsAssumption, DocAssumption
    DEF WorkerTypeOK, HandsFull, OwnershipInv, Owned, Exclusive,
        OneActiveJob, AttemptsLedger, Untried, Holders, Owning, Processing, Active, JobStatus,
        Steps, Keeps, OthersKeep
<1>1. CASE Quiet
  BY <1>1 DEF Quiet
<1>2. ASSUME NEW j \in Jobs, Created(j) PROVE OwnershipInv'
  BY <1>2 DEF Created, ActiveJobExists
<1>3. ASSUME NEW w \in Workers, Started(w) PROVE OwnershipInv'
  BY <1>3 DEF Started, UpdateStatus, WriteColumns
<1>4. ASSUME NEW w \in Workers, Finished(w) PROVE OwnershipInv'
  BY <1>4 DEF Finished, UpdateStatus, WriteColumns
<1>5. ASSUME NEW w \in Workers, GaveBack(w) PROVE OwnershipInv'
  <2>1. /\ cur[w] \in Jobs
        /\ status[cur[w]] = "STARTED"
        /\ att[w] = attempts[cur[w]]
        /\ status' = [status EXCEPT ![cur[w]] = FailureStatus(w)]
        /\ attempts' = attempts
    BY <1>5 DEF GaveBack, UpdateStatus, WriteColumns, FailureStatus
  <2>2. wpc'[w] \notin Owning /\ \A v \in Workers : v # w => Keeps(v)
    BY <1>5 DEF GaveBack
  <2>3. Exclusive'
    BY <2>2
  <2>4. Owned'
    <3>1. SUFFICES ASSUME NEW v \in Workers, v # w, wpc'[v] \in Owning
                   PROVE  status'[cur'[v]] = status[cur[v]]
      BY <2>1, <2>2, <3>1
    <3>2. cur'[v] = cur[v] /\ cur[v] # cur[w] /\ cur[v] \in Jobs
      BY <2>2, <3>1, <1>5 DEF GaveBack
    <3>. QED BY <2>1, <3>2
  <2>5. OneActiveJob' /\ AttemptsLedger' /\ Untried'
    BY <2>1 DEF FailureStatus
  <2>. QED BY <2>3, <2>4, <2>5
<1>. QED BY <1>1, <1>2, <1>3, <1>4, <1>5 DEF StepKind

(* Type correctness and ownership hold in every reachable state. *)
LEMMA OwnershipAlways == Spec => [](TypeInv /\ OwnershipInv)
<1>1. Init => TypeInv /\ OwnershipInv
  BY TypeInit, OwnershipInit
<1>2. TypeInv /\ OwnershipInv /\ [Next]_vars => TypeInv' /\ OwnershipInv'
  BY TypeStep, StepKinds, OwnershipStep
<1>. QED BY <1>1, <1>2, PTL DEF Spec

(* Whoever owns a job is the only writer of its document. *)
LEMMA OneWriterState == TypeInv /\ OwnershipInv => OneWriter
  BY DEF TypeInv, TypeOK, WorkerTypeOK, HandsFull, Steps, OwnershipInv, Owned, Exclusive,
         OneActiveJob, OneWriter, Holders, Processing, Active

(* Whatever is redelivered, duplicated, retried or crashes, no two workers *)
(* process the same document at a time.                                    *)
THEOREM OneWriterAlways == Spec => []OneWriter
  BY OneWriterState, OwnershipAlways, PTL

(* The attempt number on which _handle_failure decides is never stale.     *)
THEOREM ClaimAlwaysCurrent == Spec => []ClaimIsCurrent
<1>1. OwnershipInv => ClaimIsCurrent
  BY DEF OwnershipInv, Owned, ClaimIsCurrent, Processing
<1>. QED BY <1>1, OwnershipAlways, PTL

(* No job is attempted more than max_attempts times or given up earlier.   *)
THEOREM AttemptsAlwaysBounded == Spec => []AttemptsLedger
<1>1. OwnershipInv => AttemptsLedger
  BY DEF OwnershipInv
<1>. QED BY <1>1, OwnershipAlways, PTL

(***************************************************************************)
(* The story a row tells.  The clock is read before the UPDATE is sent, so *)
(* a time may be older than a commit made in between.  Not so for a worker *)
(* that completes a job or records its failure: it owns the job, and the   *)
(* row has not changed since it came to the statement (OwnerUndisturbed).  *)
(* A claimer may be late, but it has seen the row (ClaimAfterCreation).    *)
(***************************************************************************)
StampsPast == \A j \in Jobs : \A s \in JobStatus : stamps[j][s] <= commits[j]

NoRowNoStory ==
  \A j \in Jobs :
    IF status[j] = "ABSENT"
    THEN commits[j] = 0 /\ error[j] = 0 /\ \A s \in JobStatus : stamps[j][s] = 0
    ELSE commits[j] >= 1

QueuedAtCreation ==
  \A j \in Jobs : status[j] = "QUEUED" /\ attempts[j] = 0 => stamps[j]["QUEUED"] = 1

OwnerUndisturbed ==
  \A w \in Workers : wpc[w] \in {"complete", "failing"} /\ status[cur[w]] = "STARTED" =>
    since[w] = commits[cur[w]]

ClaimAfterCreation == \A w \in Workers : wpc[w] = "claim" => since[w] >= 1

StoryInv == /\ RowTellsStory /\ StampsPast /\ NoRowNoStory /\ QueuedAtCreation
            /\ OwnerUndisturbed /\ ClaimAfterCreation

(* At the start there is no row. *)
LEMMA StoryInit == Init => StoryInv
  BY DEF Init, TableInit, WorkerInit, StoryInv, RowTellsStory, StampsPast, NoRowNoStory,
         QueuedAtCreation, OwnerUndisturbed, ClaimAfterCreation, JobStatus, Terminal

(* Where a worker's next reading of the clock may date from: it stays      *)
(* where it was, or comes to the statement now.                            *)
Dated(w) ==
  wpc'[w] \in Updating =>
    /\ cur'[w] = cur[w]
    /\ \/ wpc'[w] = wpc[w] /\ since'[w] = since[w]
       \/ /\ since'[w] = commits[cur[w]]
          /\ wpc'[w] = "claim" => status[cur[w]] = "QUEUED" /\ cur[w] \in Jobs

(* Every step of the pipeline leaves every worker so. *)
LEMMA Dating == TypeInv /\ [Next]_vars => \A w \in Workers : Dated(w)
<1> SUFFICES ASSUME TypeInv, [Next]_vars, NEW v \in Workers PROVE Dated(v)
  OBVIOUS
<1> USE DEF TypeInv, TypeOK, WorkerTypeOK, HandsFull, workerVars, localVars, Dated, Updating,
        Down, Steps
<1>1. ASSUME NEW w \in Workers,
             \/ TakeMessage(w) \/ BreakOnStop(w) \/ LoadJob(w) \/ AckDrop(w)
             \/ ClaimConflict(w) \/ AckDone(w) \/ FailureConflict(w)
             \/ Reenqueue(w) \/ AckFailed(w)
      PROVE  Dated(v)
  BY <1>1 DEF TakeMessage, BreakOnStop, LoadJob, AckDrop, ClaimConflict, AckDone,
      FailureConflict, Reenqueue, AckFailed, AckAndReturn, AckRaises, Goto, Die, Forget
<1>2. ASSUME NEW w \in Workers,
             \/ Claim(w) \/ Complete(w) \/ HandleFailure(w) \/ CompleteAmbiguous(w)
             \/ FetchDocument(w) \/ StoreMarkdown(w) \/ ProcessingError(w) \/ Hang(w)
      PROVE  Dated(v)
  BY <1>2 DEF Claim, Complete, HandleFailure, CompleteAmbiguous, FetchDocument, StoreMarkdown,
      ProcessingError, Hang, Goto
<1>3. ASSUME NEW w \in Workers,
             \/ LoadFails(w) \/ DropCommitFails(w) \/ ClaimDbError(w) \/ ClaimCommitFails(w)
             \/ FailureDbError(w) \/ ReenqueueError(w) \/ Kill(w)
      PROVE  Dated(v)
  BY <1>3 DEF LoadFails, DropCommitFails, ClaimDbError, ClaimCommitFails, FailureDbError,
      ReenqueueError, Kill, Goto, Die, Forget
<1>4. ASSUME NEW w \in Workers,
             \/ LoseConnection(w) \/ RequestStop(w) \/ Restart(w)
             \/ \E m \in Messages : Deliver(w, m)
      PROVE  Dated(v)
  BY <1>4 DEF LoseConnection, RequestStop, Restart, Deliver
<1>5. ASSUME UNCHANGED workerVars PROVE Dated(v)
  BY <1>5
<1>6. PublishPoison \/ (\E d \in Documents : ClientUpload(d)) \/ UNCHANGED vars
        \/ (\E j \in Jobs : Request(j)) => UNCHANGED workerVars
  BY DEF PublishPoison, ClientUpload, vars, Request
<1> HIDE DEF TypeInv, Dated, workerVars
<1>7. ASSUME NEW w \in Workers, Work(w) PROVE Dated(v)
  BY <1>7, <1>1, <1>2, <1>3, <1>4 DEF Work, WorkerStep, WorkerFault
<1>. QED BY <1>5, <1>6, <1>7 DEF Next

(* A status update of one row leaves the others alone, and the time it     *)
(* records lies between the caller's arrival and the commit.               *)
LEMMA StampEffect ==
  ASSUME TableTypeOK, StampsPast, NEW j \in Jobs, NEW new \in JobStatus,
         NEW earliest \in Nat, Stamp(j, new, earliest)
  PROVE  /\ StampsPast'
         /\ commits' = [commits EXCEPT ![j] = @ + 1]
         /\ \A k \in Jobs : k # j => stamps'[k] = stamps[k]
         /\ \A s \in JobStatus : s # new => stamps'[j][s] = stamps[j][s]
         /\ stamps'[j][new] > earliest /\ stamps'[j][new] <= commits[j] + 1
         /\ earliest = commits[j] =>
              \A s \in JobStatus : s # new => stamps'[j][new] > stamps'[j][s]
         /\ stamps' \in [Jobs -> [JobStatus -> Nat]]
<1>1. PICK now \in Readings(j, earliest) :
        stamps' = [stamps EXCEPT ![j] = [@ EXCEPT ![new] = now]]
  BY DEF Stamp
<1>2. now \in Nat /\ now > earliest /\ now <= commits[j] + 1
  BY <1>1 DEF Readings, TableTypeOK
<1>3. commits' = [commits EXCEPT ![j] = @ + 1]
  BY DEF Stamp
<1>. QED BY <1>1, <1>2, <1>3 DEF TableTypeOK, StampsPast

(* The step does not touch the row. *)
SameRow(j) == /\ status'[j] = status[j] /\ attempts'[j] = attempts[j]
              /\ error'[j] = error[j] /\ stamps'[j] = stamps[j] /\ commits'[j] = commits[j]

RowStory == RowTellsStory /\ StampsPast /\ NoRowNoStory /\ QueuedAtCreation

(* Each of the five kinds of step preserves what is said of the rows. *)
LEMMA RowStep ==
  ASSUME TypeInv, OwnershipInv, StoryInv, StepKind
  PROVE  RowStory'
<1>0. /\ TableTypeOK /\ since \in [Workers -> Nat]
      /\ \A w \in Workers : wpc[w] \in {"claim", "complete", "failing"} => cur[w] \in Jobs
  BY DEF TypeInv, TypeOK, WorkerTypeOK, HandsFull, Steps
<1>1. CASE Quiet
  BY <1>1 DEF Quiet, columnVars, StoryInv, RowStory, RowTellsStory, StampsPast, NoRowNoStory,
              QueuedAtCreation
<1>2. ASSUME NEW j \in Jobs, Created(j) PROVE RowStory'
  <2>1. attempts[j] = 0 /\ error[j] = 0 /\ commits[j] = 0 /\ \A s \in JobStatus : stamps[j][s] = 0
    BY <1>2 DEF Created, OwnershipInv, Untried, StoryInv, NoRowNoStory
  <2>2. /\ StampsPast'
        /\ commits' = [commits EXCEPT ![j] = 1]
        /\ \A k \in Jobs : k # j => stamps'[k] = stamps[k]
        /\ \A s \in JobStatus : s # "QUEUED" => stamps'[j][s] = 0
        /\ stamps'[j]["QUEUED"] = 1
    BY <1>0, <1>2, <2>1, StampEffect DEF Created, StoryInv, TableTypeOK, JobStatus
  <2>3. /\ status'[j] = "QUEUED" /\ attempts'[j] = 0 /\ error'[j] = 0
        /\ \A k \in Jobs : k # j => SameRow(k)
    BY <1>0, <1>2, <2>1, <2>2 DEF Created, TableTypeOK, SameRow
  <2>. QED BY <1>0, <2>1, <2>2, <2>3
      DEF SameRow, StoryInv, RowStory, RowTellsStory, NoRowNoStory, QueuedAtCreation, TableTypeOK,
          JobStatus, Terminal, Active
<1>3. ASSUME NEW w \in Workers, Started(w) PROVE RowStory'
  <2> DEFINE j == cur[w]
  <2>1. j \in Jobs /\ since[w] \in Nat /\ since[w] >= 1
    BY <1>0, <1>3 DEF Started, StoryInv, ClaimAfterCreation
  <2>2. /\ status[j] = "QUEUED" /\ status' = [status EXCEPT ![j] = "STARTED"]
        /\ Stamp(j, "STARTED", since[w])
        /\ attempts' = [attempts EXCEPT ![j] = @ + 1] /\ error' = error
    BY <1>3 DEF Started, UpdateStatus, WriteColumns
  <2>3. /\ StampsPast'
        /\ commits' = [commits EXCEPT ![j] = @ + 1]
        /\ \A k \in Jobs : k # j => stamps'[k] = stamps[k]
        /\ \A s \in JobStatus : s # "STARTED" => stamps'[j][s] = stamps[j][s]
        /\ stamps'[j]["STARTED"] > since[w] /\ stamps'[j]["STARTED"] \in Nat
    BY <1>0, <2>1, <2>2, StampEffect DEF StoryInv, JobStatus
  <2>4. \A k \in Jobs : k # j => SameRow(k)
    BY <1>0, <2>2, <2>3 DEF TableTypeOK, SameRow
  <2>5. /\ status'[j] = "STARTED" /\ attempts'[j] = attempts[j] + 1 /\ error'[j] = error[j]
        /\ attempts[j] \in Nat /\ commits[j] \in Nat /\ commits'[j] = commits[j] + 1
    BY <1>0, <2>1, <2>2, <2>3 DEF TableTypeOK
  <2>6. attempts[j] = 0 => stamps[j]["QUEUED"] = 1
    BY <2>1, <2>2 DEF StoryInv, QueuedAtCreation
  <2> HIDE DEF j
  <2>. QED BY <1>0, <2>1, <2>2, <2>3, <2>4, <2>5, <2>6
      DEF SameRow, StoryInv, RowStory, RowTellsStory, NoRowNoStory, QueuedAtCreation, JobStatus,
          Terminal, Active
<1>4. ASSUME NEW w \in Workers, Finished(w) PROVE RowStory'
  <2> DEFINE j == cur[w]
  <2>1. j \in Jobs /\ status[j] = "STARTED" /\ since[w] = commits[j] /\ commits[j] \in Nat
    BY <1>0, <1>4 DEF Finished, UpdateStatus, StoryInv, OwnerUndisturbed, TableTypeOK
  <2>2. /\ status' = [status EXCEPT ![j] = "COMPLETED"]
        /\ Stamp(j, "COMPLETED", commits[j])
        /\ attempts' = attempts /\ error' = error
    BY <1>4, <2>1 DEF Finished, UpdateStatus, WriteColumns
  <2>3. /\ StampsPast'
        /\ commits' = [commits EXCEPT ![j] = @ + 1]
        /\ \A k \in Jobs : k # j => stamps'[k] = stamps[k]
        /\ \A s \in JobStatus : s # "COMPLETED" =>
              stamps'[j][s] = stamps[j][s] /\ stamps'[j]["COMPLETED"] > stamps[j][s]
    BY <1>0, <2>1, <2>2, StampEffect DEF StoryInv, JobStatus
  <2>4. \A k \in Jobs : k # j => SameRow(k)
    BY <1>0, <2>2, <2>3 DEF TableTypeOK, SameRow
  <2>5. status'[j] = "COMPLETED" /\ commits'[j] = commits[j] + 1
    BY <1>0, <2>1, <2>2, <2>3 DEF TableTypeOK
  <2> HIDE DEF j
  <2>. QED BY <1>0, <2>1, <2>2, <2>3, <2>4, <2>5
      DEF SameRow, StoryInv, RowStory, RowTellsStory, NoRowNoStory, QueuedAtCreation, JobStatus,
          Terminal, Active
<1>5. ASSUME NEW w \in Workers, GaveBack(w) PROVE RowStory'
  <2> DEFINE j == cur[w]
             new == FailureStatus(w)
  <2>1. j \in Jobs /\ status[j] = "STARTED" /\ since[w] = commits[j] /\ commits[j] \in Nat
    BY <1>0, <1>5 DEF GaveBack, UpdateStatus, StoryInv, OwnerUndisturbed, TableTypeOK
  <2>2. att[w] = attempts[j] /\ attempts[j] \in Nat /\ attempts[j] # 0 /\ error[j] = attempts[j] - 1
    BY <1>0, <1>5, <2>1 DEF GaveBack, OwnershipInv, Owned, StoryInv, RowTellsStory, TableTypeOK
  <2>3. new \in {"QUEUED", "FAILED"}
    BY DEF FailureStatus
  <2>4. /\ status' = [status EXCEPT ![j] = new]
        /\ Stamp(j, new, commits[j])
        /\ attempts' = attempts /\ error' = [error EXCEPT ![j] = attempts[j]]
    BY <1>5, <2>1, <2>2, <2>3 DEF GaveBack, UpdateStatus, WriteColumns
  <2> HIDE DEF j, new
  <2>5. /\ StampsPast'
        /\ commits' = [commits EXCEPT ![j] = @ + 1]
        /\ \A k \in Jobs : k # j => stamps'[k] = stamps[k]
        /\ \A s \in JobStatus : s # new =>
              stamps'[j][s] = stamps[j][s] /\ stamps'[j][new] > stamps[j][s]
    BY <1>0, <2>1, <2>3, <2>4, StampEffect DEF StoryInv, JobStatus
  <2>6. \A k \in Jobs : k # j => SameRow(k)
    BY <1>0, <2>4, <2>5 DEF TableTypeOK, SameRow
  <2>7. /\ status'[j] = new /\ commits'[j] = commits[j] + 1
        /\ attempts'[j] = attempts[j] /\ error'[j] = attempts[j]
    BY <1>0, <2>1, <2>4, <2>5 DEF TableTypeOK
  <2>. QED BY <1>0, <2>1, <2>2, <2>3, <2>5, <2>6, <2>7
      DEF SameRow, StoryInv, RowStory, RowTellsStory, NoRowNoStory, QueuedAtCreation, JobStatus,
          Terminal, Active
<1>. QED BY <1>1, <1>2, <1>3, <1>4, <1>5 DEF StepKind

(* And what is said of the workers: nobody commits on a row that another   *)
(* worker has STARTED.                                                     *)
LEMMA ArrivalStep ==
  ASSUME TypeInv, OwnershipInv, StoryInv, StepKind, \A w \in Workers : Dated(w)
  PROVE  OwnerUndisturbed' /\ ClaimAfterCreation'
<1>0. /\ status \in [Jobs -> JobStatus \cup {"ABSENT"}] /\ commits \in [Jobs -> Nat]
      /\ \A w \in Workers : wpc[w] \in Steps \ {"drop"} => cur[w] \in Jobs
  BY DEF TypeInv, TypeOK, TableTypeOK, HandsFull
<1>1. ASSUME NEW w \in Workers, wpc'[w] = "claim" PROVE since'[w] >= 1
  BY <1>0, <1>1 DEF Dated, Updating, StoryInv, ClaimAfterCreation, NoRowNoStory
<1>2. ASSUME NEW v \in Workers, wpc'[v] \in {"complete", "failing"}, status'[cur'[v]] = "STARTED"
      PROVE  since'[v] = commits'[cur'[v]]
  <2>1. cur'[v] = cur[v] /\ wpc[v] \in Owning /\ cur[v] \in Jobs
        /\ (status[cur[v]] = "STARTED" \/ status[cur[v]] = "COMPLETED")
    <3>1. wpc[v] \in Owning
      BY <1>2 DEF StepKind, Quiet, Created, Started, Finished, GaveBack, Keeps, OthersKeep,
                  Owning, Processing
    <3>2. cur'[v] = cur[v]
      BY <1>2 DEF Dated, Updating
    <3>. QED BY <1>0, <3>1, <3>2 DEF Owning, Processing, Steps, OwnershipInv, Owned
  <2>2. status'[cur[v]] = status[cur[v]] /\ commits'[cur[v]] = commits[cur[v]]
    <3>1. CASE Quiet
      BY <3>1 DEF Quiet, columnVars
    <3>2. ASSUME NEW j \in Jobs, Created(j)
          PROVE  status'[cur[v]] = status[cur[v]] /\ commits'[cur[v]] = commits[cur[v]]
      BY <1>0, <2>1, <3>2 DEF Created, Stamp
    <3>3. ASSUME NEW w \in Workers, Started(w)
          PROVE  status'[cur[v]] = status[cur[v]] /\ commits'[cur[v]] = commits[cur[v]]
      BY <1>0, <2>1, <3>3 DEF Started, UpdateStatus, WriteColumns, Stamp
    <3>4. ASSUME NEW w \in Workers, Finished(w) \/ GaveBack(w)
          PROVE  status'[cur[v]] = status[cur[v]] /\ commits'[cur[v]] = commits[cur[v]]
      <4>1. wpc[w] \in Owning /\ cur[w] \in Jobs
        BY <1>0, <3>4 DEF Finished, GaveBack, Owning, Processing, Steps
      <4>2. status'[cur[w]] # "STARTED"
        BY <1>0, <3>4, <4>1 DEF Finished, GaveBack, UpdateStatus, WriteColumns, FailureStatus
      <4>3. cur[v] # cur[w]
        BY <1>2, <2>1, <4>2
      <4>. QED BY <1>0, <2>1, <3>4, <4>3 DEF Finished, GaveBack, UpdateStatus, WriteColumns, Stamp
    <3>. QED BY <3>1, <3>2, <3>3, <3>4 DEF StepKind
  <2>. QED BY <1>2, <2>1, <2>2 DEF Dated, Updating, StoryInv, OwnerUndisturbed
<1>. QED BY <1>1, <1>2 DEF OwnerUndisturbed, ClaimAfterCreation

(* Retries, duplicates and lost acknowledgements never garble a job's row, *)
(* though the clock is read before the UPDATE: a requeue and an outcome    *)
(* are later than what they follow, one outcome is recorded, a job started *)
(* once was started after it was queued, and the error message is that of  *)
(* the last attempt that failed.                                           *)
THEOREM RowAlwaysTellsStory == Spec => []RowTellsStory
<1>1. Init => TypeInv /\ OwnershipInv /\ StoryInv
  BY TypeInit, OwnershipInit, StoryInit
<1>2. TypeInv /\ OwnershipInv /\ StoryInv /\ [Next]_vars
        => TypeInv' /\ OwnershipInv' /\ StoryInv'
  BY TypeStep, StepKinds, Dating, OwnershipStep, RowStep, ArrivalStep DEF StoryInv, RowStory
<1>3. StoryInv => RowTellsStory
  BY DEF StoryInv
<1>. QED BY <1>1, <1>2, <1>3, PTL DEF Spec

(***************************************************************************)
(* The life cycle clients are told about.                                  *)
(***************************************************************************)
(* Each of the five kinds of step is a step of the abstract life cycle, or *)
(* changes nothing it shows.                                               *)
LEMMA LifecycleStep ==
  ASSUME TypeInv, OwnershipInv, StepKind
  PROVE  [Lifecycle!Next]_<<status, attempts>>
<1>0. /\ status \in [Jobs -> JobStatus \cup {"ABSENT"}]
      /\ attempts \in [Jobs -> Nat]
      /\ WorkerTypeOK /\ HandsFull
  BY DEF TypeInv, TypeOK, TableTypeOK
<1> USE <1>0, AttemptsAssumption
    DEF WorkerTypeOK, HandsFull, Steps, OwnershipInv, Processing
<1>1. CASE Quiet
  BY <1>1 DEF Quiet
<1>2. ASSUME NEW j \in Jobs, Created(j) PROVE Lifecycle!Queue(j)
  BY <1>2 DEF Created, ActiveJobExists, Active, Lifecycle!Queue, Lifecycle!Move,
              Lifecycle!Unfinished
<1>3. ASSUME NEW w \in Workers, Started(w) PROVE Lifecycle!Start(cur[w]) /\ cur[w] \in Jobs
  BY <1>3 DEF Started, UpdateStatus, WriteColumns, AttemptsLedger, Lifecycle!Start, Lifecycle!Move
<1>4. ASSUME NEW w \in Workers, Finished(w)
      PROVE  Lifecycle!Succeed(cur[w]) /\ cur[w] \in Jobs
  BY <1>4 DEF Finished, UpdateStatus, WriteColumns, Lifecycle!Succeed, Lifecycle!Move
<1>5. ASSUME NEW w \in Workers, GaveBack(w)
      PROVE  /\ Lifecycle!Retry(cur[w]) \/ Lifecycle!GiveUp(cur[w])
             /\ cur[w] \in Jobs
  <2>1. cur[w] \in Jobs /\ status[cur[w]] = "STARTED" /\ att[w] = attempts[cur[w]]
    BY <1>5 DEF GaveBack, UpdateStatus, Owned
  <2>2. /\ status' = [status EXCEPT ![cur[w]] = FailureStatus(w)]
        /\ attempts' = attempts
    BY <1>5 DEF GaveBack, UpdateStatus, WriteColumns, FailureStatus
  <2>3. attempts[cur[w]] \in Nat /\ attempts[cur[w]] <= MaxAttempts
    BY <2>1 DEF AttemptsLedger
  <2>4. CASE att[w] < MaxAttempts
    BY <2>1, <2>2, <2>4 DEF FailureStatus, Lifecycle!Retry, Lifecycle!Move
  <2>5. CASE ~(att[w] < MaxAttempts)
    BY <2>1, <2>2, <2>3, <2>5 DEF FailureStatus, Lifecycle!GiveUp, Lifecycle!Move
  <2>. QED BY <2>1, <2>4, <2>5
<1>. QED BY <1>1, <1>2, <1>3, <1>4, <1>5 DEF StepKind, Lifecycle!Next

(* The pipeline, with all its processes and faults, implements the job     *)
(* life cycle: started at most max_attempts times, retried only while      *)
(* attempts remain, failed only when none does, final once finished.       *)
THEOREM LifecycleImplemented == Spec => LifecycleSpec
<1>1. Init => Lifecycle!Init
  BY DEF Init, TableInit, Lifecycle!Init
<1>2. TypeInv /\ OwnershipInv /\ [Next]_vars => [Lifecycle!Next]_<<status, attempts>>
  BY StepKinds, LifecycleStep
<1>. QED BY <1>1, <1>2, OwnershipAlways, PTL DEF Spec, LifecycleSpec, Lifecycle!Spec

(***************************************************************************)
(* The artifact row.                                                       *)
(***************************************************************************)
(* The row follows the status of the jobs through each kind of step. *)
LEMMA RecordedStep == TypeInv /\ ArtifactRecorded /\ StepKind => ArtifactRecorded'
<1> SUFFICES ASSUME TypeInv, ArtifactRecorded, StepKind PROVE ArtifactRecorded'
  OBVIOUS
<1>0. /\ TableTypeOK
      /\ \A w \in Workers : wpc[w] \in {"claim", "complete", "failing"} => cur[w] \in Jobs
  BY DEF TypeInv, TypeOK, HandsFull, Steps
<1> USE <1>0, DocAssumption DEF ArtifactRecorded, TableTypeOK
<1>1. CASE Quiet
  BY <1>1 DEF Quiet
<1>2. ASSUME NEW j \in Jobs, Created(j) PROVE ArtifactRecorded'
  BY <1>2 DEF Created
<1>3. ASSUME NEW w \in Workers, Started(w) PROVE ArtifactRecorded'
  BY <1>3 DEF Started, UpdateStatus, WriteColumns
<1>4. ASSUME NEW w \in Workers, Finished(w) PROVE ArtifactRecorded'
  BY <1>4 DEF Finished, UpdateStatus, WriteColumns, UpsertArtifact
<1>5. ASSUME NEW w \in Workers, GaveBack(w) PROVE ArtifactRecorded'
  BY <1>5 DEF GaveBack, UpdateStatus, WriteColumns, FailureStatus
<1>. QED BY <1>1, <1>2, <1>3, <1>4, <1>5 DEF StepKind

(* GET .../artifacts lists an artifact exactly for the documents that have *)
(* a completed job, and the row names one: the upsert and COMPLETED are    *)
(* one transaction, whatever fails around it.                              *)
THEOREM ArtifactAlwaysRecorded == Spec => []ArtifactRecorded
<1>1. Init => ArtifactRecorded
  BY DEF Init, TableInit, ArtifactRecorded
<1>2. TypeInv /\ ArtifactRecorded /\ [Next]_vars => ArtifactRecorded'
  BY StepKinds, RecordedStep
<1>3. TypeInv /\ OwnershipInv => TypeInv
  OBVIOUS
<1>. QED BY <1>1, <1>2, <1>3, OwnershipAlways, PTL DEF Spec

(***************************************************************************)
(* The Markdown object.  Seen from the object store, a step changes        *)
(* nothing, uploads a PDF, notes the upload a new job is for, fetches, or  *)
(* puts.                                                                   *)
(***************************************************************************)
(* A worker that has content has had it before the step. *)
HoldsStill(w) ==
  wpc'[w] \in {"store", "complete"} =>
    wpc'[w] = wpc[w] /\ cur'[w] = cur[w] /\ content'[w] = content[w]

OthersHoldStill(w) == \A v \in Workers : v # w => HoldsStill(v)

Untouched == /\ UNCHANGED <<raw, markdown, createdOver>>
             /\ \A w \in Workers : HoldsStill(w)

Uploaded(d) == /\ Upload(d)
               /\ UNCHANGED createdOver
               /\ \A w \in Workers : HoldsStill(w)

Requested(j) == /\ status[j] = "ABSENT"
                /\ createdOver' = [createdOver EXCEPT ![j] = raw[DocOf[j]]]
                /\ UNCHANGED <<raw, markdown>>
                /\ \A w \in Workers : HoldsStill(w)

Fetched(w) == /\ wpc[w] = "fetch"
              /\ wpc'[w] = "store"
              /\ cur'[w] = cur[w]
              /\ content'[w] = raw[DocOf[cur[w]]]
              /\ UNCHANGED <<raw, markdown, createdOver>>
              /\ OthersHoldStill(w)

Put(w) == /\ wpc[w] = "store"
          /\ wpc'[w] \in {"complete", "failing"}
          /\ cur'[w] = cur[w]
          /\ PutMarkdown(DocOf[cur[w]], content[w])
          /\ UNCHANGED createdOver
          /\ OthersHoldStill(w)

StoreKind == \/ Untouched
             \/ \E d \in Documents : Uploaded(d)
             \/ \E j \in Jobs : Requested(j)
             \/ \E w \in Workers : Fetched(w) \/ Put(w)

(* Every step of the pipeline is of one of these kinds. *)
LEMMA StoreKinds == TypeInv /\ [Next]_vars => StoreKind
<1> SUFFICES ASSUME TypeInv, [Next]_vars PROVE StoreKind
  OBVIOUS
<1> USE DEF TypeInv, TypeOK, TableTypeOK, WorkerTypeOK, tableVars, columnVars, storeVars,
        workerVars, localVars, sharedVars, HoldsStill, OthersHoldStill
<1>1. ASSUME NEW w \in Workers,
             \/ TakeMessage(w) \/ BreakOnStop(w) \/ LoadJob(w) \/ AckDrop(w)
             \/ ClaimConflict(w) \/ AckDone(w) \/ FailureConflict(w)
             \/ Reenqueue(w) \/ AckFailed(w) \/ Hang(w)
      PROVE  Untouched
  BY <1>1 DEF Hang, TakeMessage, BreakOnStop, LoadJob, AckDrop, ClaimConflict, AckDone,
      FailureConflict, Reenqueue, AckFailed, AckAndReturn, AckRaises, Goto, Die, Down, Forget,
      Untouched
<1>2. ASSUME NEW w \in Workers,
             Claim(w) \/ Complete(w) \/ HandleFailure(w) \/ CompleteAmbiguous(w)
      PROVE  Untouched
  BY <1>2 DEF Claim, Complete, HandleFailure, CompleteAmbiguous, CommitResult, UpdateStatus,
      WriteColumns, Goto, Untouched
<1>3. ASSUME NEW w \in Workers, FetchDocument(w) PROVE Fetched(w)
  BY <1>3 DEF FetchDocument, Goto, Fetched
<1>4. ASSUME NEW w \in Workers, StoreMarkdown(w) PROVE Put(w)
  BY <1>4 DEF StoreMarkdown, Goto, PutMarkdown, Put
<1>5. ASSUME NEW w \in Workers, ProcessingError(w) PROVE Untouched \/ Put(w)
  BY <1>5 DEF ProcessingError, Processing, Goto, PutMarkdown, Put, Untouched
<1>6. ASSUME NEW w \in Workers,
             \/ LoadFails(w) \/ DropCommitFails(w) \/ ClaimDbError(w)
             \/ ReenqueueError(w) \/ Kill(w)
      PROVE  Untouched
  BY <1>6 DEF LoadFails, DropCommitFails, ClaimDbError, ReenqueueError, Kill, Goto, Die, Down,
      Forget, Untouched
<1>7. ASSUME NEW w \in Workers, ClaimCommitFails(w) \/ FailureDbError(w) PROVE Untouched
  BY <1>7 DEF ClaimCommitFails, FailureDbError, UpdateStatus, WriteColumns, Die, Down, Forget,
      Untouched
<1>8. ASSUME NEW w \in Workers,
             \/ LoseConnection(w) \/ RequestStop(w) \/ Restart(w)
             \/ \E m \in Messages : Deliver(w, m)
      PROVE  Untouched
  BY <1>8 DEF LoseConnection, RequestStop, Restart, Deliver, Untouched
<1>9. ASSUME NEW j \in Jobs, UNCHANGED workerVars,
             \/ StartRequest(j) \/ CheckDepth(j) \/ RejectActiveJob(j)
             \/ EnqueueJob(j) \/ EnqueueError(j)
      PROVE  Untouched
  BY <1>9 DEF StartRequest, CheckDepth, RejectActiveJob, EnqueueJob, EnqueueError, Untouched
<1>10. ASSUME NEW j \in Jobs, UNCHANGED workerVars, InsertJob(j) \/ RequestError(j)
       PROVE  Untouched \/ Requested(j)
  BY <1>10 DEF InsertJob, RequestError, CreateJob, Untouched, Requested
<1>11. ASSUME PublishPoison PROVE Untouched
  BY <1>11 DEF PublishPoison, Untouched
<1>12. ASSUME NEW d \in Documents, ClientUpload(d) PROVE Uploaded(d)
  BY <1>12 DEF ClientUpload, Uploaded
<1>13. CASE UNCHANGED vars
  BY <1>13 DEF vars, Untouched, StoreKind
<1> HIDE DEF TypeInv, HoldsStill, OthersHoldStill, workerVars
<1>14. ASSUME NEW w \in Workers, Work(w) PROVE StoreKind
  BY <1>14, <1>1, <1>2, <1>3, <1>4, <1>5, <1>6, <1>7, <1>8
     DEF Work, WorkerStep, WorkerFault, StoreKind
<1>15. ASSUME NEW j \in Jobs, Request(j) PROVE StoreKind
  BY <1>15, <1>9, <1>10 DEF Request, RequestStep, StoreKind
<1>. QED BY <1>11, <1>12, <1>13, <1>14, <1>15 DEF Next, StoreKind

(***************************************************************************)
(* The versions in play.  No Markdown is newer than the PDF, and no job    *)
(* was created over a PDF that has yet to come.  What a worker is about to *)
(* put is at least as new as the object it replaces and as the upload its  *)
(* job was created over; once it has put, so is the object.                *)
(***************************************************************************)
NothingAhead == /\ \A d \in Documents : markdown[d] <= raw[d]
                /\ \A j \in Jobs : createdOver[j] <= raw[DocOf[j]]

AboutToPut ==
  \A w \in Workers : wpc[w] = "store" =>
    /\ markdown[DocOf[cur[w]]] <= content[w]
    /\ createdOver[cur[w]] <= content[w]
    /\ content[w] <= raw[DocOf[cur[w]]]

HasPut ==
  \A w \in Workers : wpc[w] = "complete" => createdOver[cur[w]] <= markdown[DocOf[cur[w]]]

VersionInv == NothingAhead /\ AboutToPut /\ HasPut

(* Nothing has been uploaded at the start. *)
LEMMA VersionInit == Init => VersionInv /\ ArtifactFresh
  BY DocAssumption
     DEF Init, TableInit, StoreInit, WorkerInit, VersionInv, NothingAhead, AboutToPut, HasPut,
         ArtifactFresh

(* The types of what the versions are about. *)
LEMMA VersionTypes ==
  ASSUME TypeInv, OwnershipInv
  PROVE  /\ raw \in [Documents -> Nat] /\ markdown \in [Documents -> Nat]
         /\ createdOver \in [Jobs -> Nat] /\ content \in [Workers -> Nat]
         /\ DocOf \in [Jobs -> Documents]
         /\ \A w \in Workers : wpc[w] \in Processing =>
               cur[w] \in Jobs /\ status[cur[w]] = "STARTED"
         /\ OneWriter
<1>1. /\ raw \in [Documents -> Nat] /\ markdown \in [Documents -> Nat]
      /\ createdOver \in [Jobs -> Nat] /\ content \in [Workers -> Nat]
  BY LimitAssumption DEF TypeInv, TypeOK, StoreTypeOK, TableTypeOK, WorkerTypeOK
<1>2. \A w \in Workers : wpc[w] \in Processing => cur[w] \in Jobs /\ status[cur[w]] = "STARTED"
  BY DEF TypeInv, HandsFull, OwnershipInv, Owned, Processing, Steps
<1>. QED BY <1>1, <1>2, DocAssumption, OneWriterState

(* Each kind of step preserves the order of the versions, and none takes   *)
(* the Markdown back: between its fetch and its put a worker is the only   *)
(* writer of the document.                                                 *)
LEMMA VersionStep ==
  ASSUME TypeInv, OwnershipInv, VersionInv, StoreKind
  PROVE  /\ VersionInv'
         /\ \A d \in Documents : markdown'[d] >= markdown[d]
         /\ \A j \in Jobs : status[j] # "ABSENT" => createdOver'[j] = createdOver[j]
<1> USE VersionTypes DEF VersionInv, NothingAhead, AboutToPut, HasPut, HoldsStill,
        OthersHoldStill, Processing
<1>1. CASE Untouched
  BY <1>1 DEF Untouched
<1>2. ASSUME NEW d \in Documents, Uploaded(d)
      PROVE  VersionInv' /\ UNCHANGED <<markdown, createdOver>>
  BY <1>2 DEF Uploaded, Upload
<1>3. ASSUME NEW j \in Jobs, Requested(j)
      PROVE  /\ VersionInv' /\ UNCHANGED markdown
             /\ \A k \in Jobs : status[k] # "ABSENT" => createdOver'[k] = createdOver[k]
  BY <1>3 DEF Requested
<1>4. ASSUME NEW w \in Workers, Fetched(w)
      PROVE  VersionInv' /\ UNCHANGED <<markdown, createdOver>>
  BY <1>4 DEF Fetched
<1>5. ASSUME NEW w \in Workers, Put(w)
      PROVE  /\ VersionInv' /\ UNCHANGED createdOver
             /\ \A d \in Documents : markdown'[d] >= markdown[d]
  <2>1. /\ cur[w] \in Jobs /\ DocOf[cur[w]] \in Documents
        /\ markdown' = [markdown EXCEPT ![DocOf[cur[w]]] = content[w]]
        /\ UNCHANGED <<raw, createdOver>>
    BY <1>5 DEF Put, PutMarkdown
  <2>2. \A v \in Workers : wpc'[v] \in {"store", "complete"} /\ v # w =>
          DocOf[cur[v]] # DocOf[cur[w]]
    BY <1>5 DEF Put, OneWriter
  <2>. QED BY <1>5, <2>1, <2>2 DEF Put
<1>. QED BY <1>1, <1>2, <1>3, <1>4, <1>5 DEF StoreKind, Untouched

(* A job becomes COMPLETED only after its worker has put the Markdown. *)
LEMMA FreshStep ==
  ASSUME TypeInv, OwnershipInv, VersionInv, ArtifactFresh, StepKind, StoreKind
  PROVE  ArtifactFresh'
<1>1. \A j \in Jobs : status'[j] = "COMPLETED" =>
        \/ status[j] = "COMPLETED"
        \/ \E w \in Workers : wpc[w] = "complete" /\ cur[w] = j /\ status[j] = "STARTED"
  BY DEF StepKind, Quiet, Created, Started, Finished, GaveBack, UpdateStatus, WriteColumns,
         FailureStatus, TypeInv, TypeOK, TableTypeOK
<1>2. /\ raw \in [Documents -> Nat] /\ markdown \in [Documents -> Nat]
      /\ createdOver \in [Jobs -> Nat] /\ DocOf \in [Jobs -> Documents]
      /\ markdown' \in [Documents -> Nat]
  BY VersionTypes
     DEF StoreKind, Untouched, Uploaded, Upload, Requested, Fetched, Put, PutMarkdown
<1>. QED BY <1>1, <1>2, VersionStep DEF ArtifactFresh, VersionInv, HasPut

(* Versions and freshness hold in every reachable state. *)
LEMMA VersionAlways == Spec => [](TypeInv /\ OwnershipInv /\ VersionInv /\ ArtifactFresh)
<1>1. Init => TypeInv /\ OwnershipInv /\ VersionInv /\ ArtifactFresh
  BY TypeInit, OwnershipInit, VersionInit
<1>2. TypeInv /\ OwnershipInv /\ VersionInv /\ ArtifactFresh /\ [Next]_vars
        => TypeInv' /\ OwnershipInv' /\ VersionInv' /\ ArtifactFresh'
  BY TypeStep, StepKinds, OwnershipStep, StoreKinds, VersionStep, FreshStep
<1>. QED BY <1>1, <1>2, PTL DEF Spec

(* The Markdown of a completed job was made from the upload the job was    *)
(* requested for, or from a later one.                                     *)
THEOREM ArtifactAlwaysFresh == Spec => []ArtifactFresh
  BY VersionAlways, PTL

(* No retry, duplicate or late attempt replaces newer Markdown by older.   *)
THEOREM MarkdownAlwaysAdvances == Spec => MarkdownAdvances
<1>1. TypeInv /\ OwnershipInv /\ VersionInv /\ ArtifactFresh /\ [Next]_vars
        => [\A d \in Documents : markdown'[d] >= markdown[d]]_vars
  BY StoreKinds, VersionStep
<1>. QED BY <1>1, VersionAlways, PTL DEF Spec, MarkdownAdvances
=============================================================================
