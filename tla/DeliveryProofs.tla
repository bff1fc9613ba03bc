--------------------------- MODULE DeliveryProofs ---------------------------
(***************************************************************************)
(* Proofs about messages: that each names a committed row, that a started  *)
(* job is in somebody's hands, that no queued job is lost, and that the    *)
(* queue is bounded, for any number of documents, jobs, workers, uploads   *)
(* and faults, the last three for the kinds of fault the code survives.    *)
(***************************************************************************)
EXTENDS PipelineProofs, Counting

(***************************************************************************)
(* A message has a row.  The request that publishes the first message of a *)
(* job has committed its row, and later messages are copies.               *)
(***************************************************************************)
Mentioned(j) == \/ ready[j] > 0
                \/ \E w \in Workers : j \in {unacked[w], buffered[w], cur[w]}

EnqueueHasRow == \A j \in Jobs : rpc[j] = "enqueue" => status[j] # "ABSENT"

(* A process that ends mentions no job that was not mentioned before. *)
LEMMA DeathMentions ==
  ASSUME TypeInv, NEW w \in Workers, NEW how, NEW outstanding \in {unacked, AfterAck(w)},
         Die(w, how, outstanding), NEW j \in Jobs
  PROVE  Mentioned(j)' => Mentioned(j)
<1>1. /\ outstanding \in [Workers -> Messages \cup {Nothing}]
      /\ \A v \in Workers : outstanding[v] = j => unacked[v] = j
  BY MessageAssumption DEF TypeInv, TypeOK, BrokerTypeOK, AfterAck
<1>2. /\ ready'[j] > 0 => ready[j] > 0 \/ unacked[w] = j
      /\ \A v \in Workers : unacked'[v] = j => unacked[v] = j
  BY <1>1, MessageAssumption DEF Die, ReturnDelivery, Messages
<1>3. \A v \in Workers : /\ buffered'[v] = j => buffered[v] = j
                         /\ cur'[v] = j => cur[v] = j
  BY MessageAssumption DEF TypeInv, TypeOK, BrokerTypeOK, WorkerTypeOK, Die, Forget
<1>. QED BY <1>2, <1>3 DEF Mentioned

(* Only a request brings a new job to the queue, and only after its row. *)
LEMMA MessagesMove ==
  ASSUME TypeInv, [Next]_vars, NEW j \in Jobs
  PROVE  /\ Mentioned(j)' => Mentioned(j) \/ rpc[j] = "enqueue"
         /\ rpc'[j] = "enqueue" => rpc[j] = "enqueue" \/ status'[j] # "ABSENT"
<1> DEFINE Moves == /\ Mentioned(j)' => Mentioned(j) \/ rpc[j] = "enqueue"
                    /\ rpc'[j] = "enqueue" => rpc[j] = "enqueue" \/ status'[j] # "ABSENT"
<1>0. j \in Messages /\ j # Nothing /\ j # Poison
  BY MessageAssumption DEF Messages
<1> USE <1>0, MessageAssumption
    DEF TypeInv, TypeOK, TableTypeOK, BrokerTypeOK, WorkerTypeOK, EndpointTypeOK, brokerVars,
        workerVars, localVars, sharedVars, Mentioned
<1>1. ASSUME NEW w \in Workers, UNCHANGED rpc,
             \/ TakeMessage(w) \/ LoadJob(w) \/ ClaimConflict(w) \/ FailureConflict(w)
             \/ FetchDocument(w) \/ StoreMarkdown(w) \/ ProcessingError(w) \/ Hang(w)
             \/ RequestStop(w) \/ Restart(w)
      PROVE  Moves
  BY <1>1 DEF TakeMessage, LoadJob, ClaimConflict, FailureConflict, FetchDocument,
      StoreMarkdown, ProcessingError, Hang, RequestStop, Restart, Goto
<1>2. ASSUME NEW w \in Workers, UNCHANGED rpc,
             Claim(w) \/ Complete(w) \/ HandleFailure(w) \/ CompleteAmbiguous(w)
      PROVE  Moves
  BY <1>2 DEF Claim, Complete, HandleFailure, CompleteAmbiguous, Goto
<1>3. ASSUME NEW w \in Workers, UNCHANGED rpc,
             \/ BreakOnStop(w) \/ LoadFails(w) \/ DropCommitFails(w) \/ ClaimCommitFails(w)
             \/ FailureDbError(w) \/ Kill(w)
      PROVE  Moves
  <2>1. \E how, outstanding : outstanding \in {unacked, AfterAck(w)} /\ Die(w, how, outstanding)
    BY <1>3 DEF BreakOnStop, LoadFails, DropCommitFails, ClaimCommitFails, FailureDbError, Kill
  <2>. QED BY <1>3, <2>1, DeathMentions
<1>4. ASSUME NEW w \in Workers, UNCHANGED rpc, AckDrop(w) \/ AckDone(w) \/ AckFailed(w)
      PROVE  Moves
  BY <1>4, DeathMentions DEF AckDrop, AckDone, AckFailed, AckAndReturn, AckRaises, AfterAck,
      Goto, Forget
<1>5. ASSUME NEW w \in Workers, UNCHANGED rpc,
             \/ ClaimDbError(w) \/ Reenqueue(w) \/ ReenqueueError(w) \/ LoseConnection(w)
      PROVE  Moves
  BY <1>5, DeathMentions DEF ClaimDbError, Reenqueue, ReenqueueError, LoseConnection, Nack,
      Publish, Goto, Forget, ReturnDelivery
<1>6. ASSUME NEW w \in Workers, UNCHANGED rpc, NEW m \in Messages, Deliver(w, m) PROVE Moves
  BY <1>6 DEF Deliver, Push
<1>7. ASSUME NEW k \in Jobs, UNCHANGED workerVars,
             \/ StartRequest(k) \/ CheckDepth(k) \/ RejectActiveJob(k) \/ EnqueueJob(k)
             \/ EnqueueError(k)
      PROVE  Moves
  BY <1>7 DEF StartRequest, CheckDepth, RejectActiveJob, EnqueueJob, EnqueueError, Answer,
      Publish, Messages
<1>8. ASSUME NEW k \in Jobs, UNCHANGED workerVars, InsertJob(k) \/ RequestError(k)
      PROVE  Moves
  BY <1>8 DEF InsertJob, RequestError, Answer, CreateJob
<1>9. ASSUME UNCHANGED rpc, PublishPoison PROVE Moves
  BY <1>9 DEF PublishPoison, Publish, Messages
<1>10. ASSUME NEW d \in Documents, ClientUpload(d) PROVE Moves
  BY <1>10 DEF ClientUpload
<1>11. CASE UNCHANGED vars
  BY <1>11 DEF vars
<1> HIDE DEF Moves, TypeInv, workerVars
<1>. QED BY <1>1, <1>2, <1>3, <1>4, <1>5, <1>6, <1>7, <1>8, <1>9, <1>10, <1>11
         DEF Next, Request, RequestStep, Work, WorkerStep, WorkerFault, Moves

(* A row that is there stays there. *)
LEMMA RowsStay ==
  ASSUME TypeInv, StepKind, NEW j \in Jobs, status[j] # "ABSENT"
  PROVE  status'[j] # "ABSENT"
  BY DEF TypeInv, TypeOK, TableTypeOK, StepKind, Quiet, Created, Started, Finished, GaveBack,
         UpdateStatus, WriteColumns, FailureStatus

(* A worker never takes a message whose job it cannot find: the commit of  *)
(* the row precedes every publication of its id.                           *)
THEOREM MessageAlwaysHasRow == Spec => []MessageHasRow
<1>1. Init => MessageHasRow /\ EnqueueHasRow
  BY MessageAssumption DEF Init, BrokerInit, WorkerInit, EndpointInit, MessageHasRow,
     EnqueueHasRow, Messages
<1>2. TypeInv /\ MessageHasRow /\ EnqueueHasRow /\ [Next]_vars
        => MessageHasRow' /\ EnqueueHasRow'
  BY StepKinds, MessagesMove, RowsStay DEF MessageHasRow, EnqueueHasRow, Mentioned
<1>3. TypeInv /\ OwnershipInv => TypeInv
  OBVIOUS
<1>. QED BY <1>1, <1>2, <1>3, OwnershipAlways, PTL DEF Spec

(***************************************************************************)
(* A started job is held.  This is false once a worker may die, or be told *)
(* that a commit failed, in the middle of an attempt.                      *)
(***************************************************************************)
Held(j) == \E w \in Workers : cur[w] = j /\ wpc[w] \in Processing \cup {"failing"}

(* A worker lets go of a job only by moving it out of STARTED. *)
LEMMA HeldStep ==
  ASSUME Faults \cap {"crash", "db", "ambiguous"} = {}, TypeInv, [Next]_vars,
         NEW j \in Jobs, status[j] = "STARTED" => Held(j), status'[j] = "STARTED"
  PROVE  Held(j)'
<1>0. /\ ~Fault("crash") /\ ~Fault("db") /\ ~Fault("ambiguous")
      /\ j # Nothing
  BY MessageAssumption DEF Fault
<1> USE <1>0
    DEF TypeInv, TypeOK, TableTypeOK, WorkerTypeOK, tableVars, workerVars, localVars,
        sharedVars, Held, Processing
<1>1. ASSUME NEW w \in Workers,
             \/ TakeMessage(w) \/ LoadJob(w) \/ ClaimConflict(w) \/ FailureConflict(w)
             \/ FetchDocument(w) \/ StoreMarkdown(w) \/ ProcessingError(w) \/ Hang(w)
             \/ RequestStop(w) \/ Restart(w) \/ Reenqueue(w) \/ LoseConnection(w)
      PROVE  Held(j)'
  BY <1>1 DEF TakeMessage, LoadJob, ClaimConflict, FailureConflict, FetchDocument,
      StoreMarkdown, ProcessingError, Hang, RequestStop, Restart, Reenqueue, LoseConnection, Goto,
      Down
<1>2. ASSUME NEW w \in Workers, Claim(w) PROVE Held(j)'
  BY <1>2 DEF Claim, UpdateStatus, WriteColumns, Goto
<1>3. ASSUME NEW w \in Workers, Complete(w) PROVE Held(j)'
  BY <1>3 DEF Complete, CommitResult, UpdateStatus, WriteColumns, Goto
<1>4. ASSUME NEW w \in Workers, HandleFailure(w) PROVE Held(j)'
  BY <1>4 DEF HandleFailure, FailureStatus, UpdateStatus, WriteColumns, Goto
<1>5. ASSUME NEW w \in Workers, BreakOnStop(w) \/ AckDrop(w) \/ AckDone(w) \/ AckFailed(w)
      PROVE  Held(j)'
  BY <1>5 DEF BreakOnStop, AckDrop, AckDone, AckFailed, AckAndReturn, AckRaises, Goto, Die,
      Forget
<1>6. ASSUME NEW w \in Workers, ReenqueueError(w) PROVE Held(j)'
  BY <1>6 DEF ReenqueueError, Goto, Die, Forget
<1>7. ASSUME NEW w \in Workers, WorkerFault(w)
      PROVE  ReenqueueError(w) \/ LoseConnection(w) \/ RequestStop(w) \/ Hang(w)
  BY <1>7 DEF WorkerFault, LoadFails, DropCommitFails, ClaimDbError, ClaimCommitFails,
      CompleteAmbiguous, FailureDbError, Kill
<1>8. ASSUME NEW w \in Workers, NEW m \in Messages, Deliver(w, m) PROVE Held(j)'
  BY <1>8 DEF Deliver
<1>9. ASSUME NEW k \in Jobs, UNCHANGED workerVars,
             \/ StartRequest(k) \/ CheckDepth(k) \/ InsertJob(k) \/ RejectActiveJob(k)
             \/ EnqueueJob(k) \/ RequestError(k) \/ EnqueueError(k)
      PROVE  Held(j)'
  BY <1>9 DEF StartRequest, CheckDepth, InsertJob, RejectActiveJob, EnqueueJob, RequestError,
      EnqueueError, CreateJob
<1>10. ASSUME PublishPoison PROVE Held(j)'
  BY <1>10 DEF PublishPoison
<1>11. ASSUME NEW d \in Documents, ClientUpload(d) PROVE Held(j)'
  BY <1>11 DEF ClientUpload
<1>12. CASE UNCHANGED vars
  BY <1>12 DEF vars
<1> HIDE DEF TypeInv, Held, workerVars
<1>. QED BY <1>1, <1>2, <1>3, <1>4, <1>5, <1>6, <1>7, <1>8, <1>9, <1>10, <1>11, <1>12
         DEF Next, Request, RequestStep, Work, WorkerStep

(* As long as no process is killed and the database answers truthfully, a  *)
(* STARTED job is in the hands of a live worker, whatever happens to       *)
(* parses, connections, publications, requests and signals.                *)
THEOREM StartedAlwaysHeld ==
  ASSUME Faults \cap {"crash", "db", "ambiguous"} = {}
  PROVE  Spec => []StartedIsHeld
<1>1. Init => StartedIsHeld
  BY DEF Init, TableInit, StartedIsHeld
<1>2. TypeInv /\ StartedIsHeld /\ [Next]_vars => StartedIsHeld'
  BY HeldStep DEF StartedIsHeld, Held
<1>3. TypeInv /\ OwnershipInv => TypeInv
  OBVIOUS
<1>. QED BY <1>1, <1>2, <1>3, OwnershipAlways, PTL DEF Spec

(***************************************************************************)
(* No queued job is lost.  Two facts about the channels.  A delivery the   *)
(* broker holds against a worker is either in the client's buffer or in    *)
(* the worker's hands.  While connections last, more is true: a worker's   *)
(* hands, its buffer and the broker agree, so no tag is ever dead.         *)
(***************************************************************************)
Channels ==
  \A w \in Workers :
    \/ unacked[w] = Nothing
    \/ unacked[w] = buffered[w]
    \/ unacked[w] = cur[w] /\ buffered[w] = Nothing /\ wpc[w] \in Steps

Attached ==
  \A w \in Workers :
    IF wpc[w] \in Steps THEN unacked[w] = cur[w] /\ cur[w] # Nothing /\ buffered[w] = Nothing
                        ELSE unacked[w] = buffered[w]

(* Every step keeps the channels in order; without lost connections, the   *)
(* workers stay attached.                                                  *)
LEMMA ChannelStep ==
  ASSUME TypeInv, [Next]_vars
  PROVE  /\ Channels => Channels'
         /\ "conn" \notin Faults /\ Attached => Attached'
<1> DEFINE Kept == /\ Channels => Channels'
                   /\ "conn" \notin Faults /\ Attached => Attached'
<1> USE MessageAssumption
    DEF TypeInv, TypeOK, BrokerTypeOK, WorkerTypeOK, brokerVars, workerVars, localVars,
        sharedVars, Channels, Attached, Steps, Down
<1>1. ASSUME NEW w \in Workers,
             \/ LoadJob(w) \/ ClaimConflict(w) \/ FailureConflict(w)
             \/ FetchDocument(w) \/ StoreMarkdown(w) \/ ProcessingError(w) \/ Hang(w)
             \/ Claim(w) \/ Complete(w) \/ HandleFailure(w) \/ CompleteAmbiguous(w)
             \/ RequestStop(w) \/ Restart(w) \/ Reenqueue(w)
      PROVE  Kept
  BY <1>1 DEF LoadJob, ClaimConflict, FailureConflict, FetchDocument, StoreMarkdown,
      ProcessingError, Hang, Claim, Complete, HandleFailure, CompleteAmbiguous, RequestStop,
      Restart, Reenqueue, Goto, Processing
<1>2. ASSUME NEW w \in Workers, TakeMessage(w) PROVE Kept
  BY <1>2 DEF TakeMessage
<1>3. ASSUME NEW w \in Workers, NEW m \in Messages, Deliver(w, m) PROVE Kept
  BY <1>3 DEF Deliver, Push, Messages
<1>4. ASSUME NEW w \in Workers, NEW how \in Down,
             NEW outstanding \in {unacked, AfterAck(w)}, Die(w, how, outstanding)
      PROVE  Kept
  <2>1. unacked' \in [Workers -> Messages \cup {Nothing}] /\ unacked'[w] = Nothing
    BY <1>4 DEF Die, ReturnDelivery, AfterAck
  <2>2. \A v \in Workers : v # w => unacked'[v] = unacked[v]
    BY <1>4 DEF Die, ReturnDelivery, AfterAck
  <2>. QED BY <1>4, <2>1, <2>2 DEF Die, Forget
<1>5. ASSUME NEW w \in Workers,
             \/ BreakOnStop(w) \/ LoadFails(w) \/ DropCommitFails(w) \/ ClaimCommitFails(w)
             \/ FailureDbError(w) \/ Kill(w)
      PROVE  Kept
  BY <1>4, <1>5 DEF BreakOnStop, LoadFails, DropCommitFails, ClaimCommitFails, FailureDbError,
      Kill
<1>6. ASSUME NEW w \in Workers, NEW from, AckAndReturn(w, from) PROVE Kept
  BY <1>6 DEF AckAndReturn, AfterAck, DeadTag, Goto, Forget
<1>7. ASSUME NEW w \in Workers, AckDrop(w) \/ AckDone(w) \/ AckFailed(w) PROVE Kept
  <2>1. CASE DeadTag(w) /\ Goto(w, "ack_done", "failing") /\ UNCHANGED <<localVars, brokerVars>>
    BY <2>1 DEF Goto
  <2>. QED BY <1>4, <1>6, <1>7, <2>1 DEF AckDrop, AckDone, AckFailed, AckRaises
<1>8. ASSUME NEW w \in Workers, ClaimDbError(w) PROVE Kept
  <2>1. CASE Goto(w, "claim", "idle") /\ Forget(w) /\ Nack(w) /\ UNCHANGED buffered
    BY <2>1 DEF Goto, Forget, Nack, DeadTag, ReturnDelivery
  <2>. QED BY <1>4, <1>8, <2>1 DEF ClaimDbError
<1>9. ASSUME NEW w \in Workers, ReenqueueError(w) PROVE Kept
  <2>1. CASE Goto(w, "requeue", "ack_failed") /\ UNCHANGED <<unacked, buffered, localVars>>
    BY <2>1 DEF Goto
  <2>. QED BY <1>4, <1>9, <2>1 DEF ReenqueueError
<1>10. ASSUME NEW w \in Workers, LoseConnection(w) PROVE Kept
  BY <1>10 DEF LoseConnection, Fault, ReturnDelivery
<1>11. ASSUME UNCHANGED <<unacked, buffered, workerVars>> PROVE Kept
  BY <1>11
<1>12. ASSUME NEW j \in Jobs, Request(j) PROVE UNCHANGED <<unacked, buffered, workerVars>>
  BY <1>12 DEF Request, RequestStep, StartRequest, CheckDepth, InsertJob, RejectActiveJob,
      EnqueueJob, RequestError, EnqueueError
<1>13. ASSUME UNCHANGED vars \/ PublishPoison \/ \E d \in Documents : ClientUpload(d)
       PROVE  UNCHANGED <<unacked, buffered, workerVars>>
  BY <1>13 DEF vars, PublishPoison, ClientUpload
<1> HIDE DEF Kept, TypeInv, workerVars
<1>. QED BY <1>1, <1>2, <1>3, <1>5, <1>7, <1>8, <1>9, <1>10, <1>11, <1>12, <1>13
         DEF Next, Work, WorkerStep, WorkerFault, Kept

(***************************************************************************)
(* The faults a queued job survives: the retry can be published, and       *)
(* either connections last, or no process is killed and no commit reported *)
(* as failed that was applied.                                             *)
(***************************************************************************)
Survivable == \/ Faults \cap {"queue", "conn"} = {}
              \/ Faults \cap {"queue", "crash", "ambiguous"} = {}

(* The worker's part in carrying a job. *)
CarriedBy(w, j) == \/ unacked[w] = j /\ buffered[w] = j
                   \/ unacked[w] = j /\ wpc[w] \in {"load", "claim"}
                   \/ cur[w] = j /\ wpc[w] = "requeue"

(* The one who could lose the job by dying: a worker about to republish it *)
(* whose own delivery the broker has already given to somebody else.       *)
CarriesAlone(w, j) == cur[w] = j /\ wpc[w] = "requeue" /\ unacked[w] # j

(* A process that ends gives back what the broker had delivered to it. *)
LEMMA DeathCarries ==
  ASSUME TypeInv, Channels, NEW w \in Workers, NEW how, Die(w, how, unacked), NEW j \in Jobs,
         Carried(j), ~CarriesAlone(w, j), UNCHANGED rpc
  PROVE  Carried(j)'
<1>0. j \in Messages /\ j # Nothing /\ ready \in [Messages -> Nat]
  BY MessageAssumption DEF TypeInv, TypeOK, BrokerTypeOK, Messages
<1>1. CASE unacked[w] = j \/ ready[j] > 0 \/ rpc[j] = "enqueue"
  BY <1>0, <1>1 DEF Die, ReturnDelivery, Carried
<1>2. ASSUME unacked[w] # j, NEW v \in Workers, CarriedBy(v, j) PROVE Carried(j)'
  <2>1. v # w
    BY <1>2 DEF CarriedBy, CarriesAlone
  <2>. QED BY <1>2, <2>1 DEF Die, Forget, ReturnDelivery, Carried, CarriedBy,
                              TypeInv, TypeOK, BrokerTypeOK, WorkerTypeOK
<1>. QED BY <1>1, <1>2 DEF Carried, CarriedBy

ChannelInv == Channels /\ ("conn" \notin Faults => Attached)

(* The job is carried, or its client was told that the request failed. *)
Accounted(j) == Carried(j) \/ rpc[j] = "failed"

(* No step of a worker loses a queued job. *)
LEMMA WorkerCarries ==
  ASSUME Survivable, TypeInv, ChannelInv, NEW w \in Workers, Work(w),
         NEW j \in Jobs, status[j] = "QUEUED" => Accounted(j), status'[j] = "QUEUED"
  PROVE  Accounted(j)'
<1> SUFFICES ASSUME status[j] = "QUEUED" => Carried(j) PROVE Carried(j)'
  BY DEF Accounted, Work
<1>0. /\ j \in Messages /\ j # Nothing /\ j # Poison
      /\ Channels
      /\ Fault("crash") \/ Fault("ambiguous") => Attached
      /\ ~Fault("queue")
      /\ UNCHANGED rpc
  BY MessageAssumption DEF Messages, ChannelInv, Survivable, Fault, Work
<1>1. /\ wpc \in [Workers -> {"idle"} \cup Steps \cup Down]
      /\ cur \in [Workers -> Messages \cup {Nothing}]
      /\ status \in [Jobs -> JobStatus \cup {"ABSENT"}]
      /\ BrokerTypeOK
      /\ HandsFull
  BY DEF TypeInv, TypeOK, WorkerTypeOK, TableTypeOK
<1> USE <1>0, <1>1 DEF BrokerTypeOK, brokerVars, tableVars, workerVars, localVars, sharedVars
<1>2. ASSUME \/ LoadJob(w) \/ ClaimConflict(w) \/ FailureConflict(w) \/ FetchDocument(w)
             \/ StoreMarkdown(w) \/ ProcessingError(w) \/ Hang(w) \/ RequestStop(w) \/ Restart(w)
      PROVE  Carried(j)'
  <2>1. status[j] = "QUEUED" /\ UNCHANGED <<ready, unacked, buffered, cur>>
    BY <1>2 DEF LoadJob, ClaimConflict, FailureConflict, FetchDocument, StoreMarkdown,
        ProcessingError, Hang, RequestStop, Restart
  <2>2. \A v \in Workers : v # w => wpc'[v] = wpc[v]
    BY <1>2 DEF LoadJob, ClaimConflict, FailureConflict, FetchDocument, StoreMarkdown,
        ProcessingError, Hang, RequestStop, Restart, Goto
  <2>3. CarriedBy(w, j) => CarriedBy(w, j)'
    BY <1>2, <2>1 DEF LoadJob, ClaimConflict, FailureConflict, FetchDocument, StoreMarkdown,
        ProcessingError, Hang, RequestStop, Restart, Goto, Processing, Down, Channels, CarriedBy
  <2>. QED BY <2>1, <2>2, <2>3 DEF Carried, CarriedBy
<1>3. ASSUME Claim(w) \/ Complete(w) \/ CompleteAmbiguous(w) PROVE Carried(j)'
  <2>1. cur[w] # j /\ status[j] = "QUEUED" /\ UNCHANGED <<ready, unacked, buffered, cur>>
    BY <1>3 DEF Claim, Complete, CompleteAmbiguous, CommitResult, UpdateStatus, WriteColumns
  <2>2. \A v \in Workers : v # w => wpc'[v] = wpc[v]
    BY <1>3 DEF Claim, Complete, CompleteAmbiguous, Goto
  <2>3. CarriedBy(w, j) => CarriedBy(w, j)'
    BY <1>3, <2>1 DEF Claim, Complete, CompleteAmbiguous, Goto, Channels, CarriedBy
  <2>. QED BY <2>1, <2>2, <2>3 DEF Carried, CarriedBy
<1>4. ASSUME HandleFailure(w) PROVE Carried(j)'
  <2>1. CASE cur[w] = j
    BY <1>4, <2>1 DEF HandleFailure, UpdateStatus, WriteColumns, FailureStatus, Goto, Carried
  <2>2. CASE cur[w] # j
    <3>1. status[j] = "QUEUED"
      BY <1>4, <2>2 DEF HandleFailure, UpdateStatus, WriteColumns
    <3>. QED BY <1>4, <3>1 DEF HandleFailure, Goto, Carried
  <2>. QED BY <2>1, <2>2
<1>5. ASSUME Reenqueue(w) PROVE Carried(j)'
  <2>1. cur[w] \in Messages
    BY <1>5 DEF Reenqueue, Goto, HandsFull, Steps, Messages
  <2>. QED BY <1>5, <2>1 DEF Reenqueue, Publish, Goto, Carried
<1>6. ASSUME TakeMessage(w) PROVE Carried(j)'
  BY <1>6 DEF TakeMessage, Carried
<1>7. ASSUME NEW m \in Messages, Deliver(w, m) PROVE Carried(j)'
  BY <1>7 DEF Deliver, Push, Carried
<1>8. ASSUME NEW from \in {"drop", "ack_done", "ack_failed"}, AckAndReturn(w, from),
             UNCHANGED tableVars
      PROVE  Carried(j)'
  BY <1>8 DEF AckAndReturn, AfterAck, DeadTag, Goto, Forget, Carried
<1>9. ASSUME NEW how, Die(w, how, unacked), status[j] = "QUEUED", ~CarriesAlone(w, j)
      PROVE  Carried(j)'
  BY <1>9, DeathCarries
<1>10. ASSUME BreakOnStop(w) \/ LoadFails(w) \/ Kill(w) PROVE Carried(j)'
  BY <1>9, <1>10 DEF BreakOnStop, LoadFails, Kill, CarriesAlone, Attached, Steps
<1>11. ASSUME AckDrop(w) \/ AckDone(w) \/ AckFailed(w) PROVE Carried(j)'
  <2>1. CASE DeadTag(w) /\ Goto(w, "ack_done", "failing") /\ UNCHANGED <<localVars, sharedVars>>
    BY <2>1 DEF Goto, Carried
  <2>. QED BY <1>8, <1>9, <1>11, <2>1
           DEF AckDrop, AckDone, AckFailed, AckRaises, CarriesAlone
<1>12. ASSUME DropCommitFails(w) PROVE Carried(j)'
  <2>1. CASE DeadTag(w)
    BY <1>9, <1>12, <2>1 DEF DropCommitFails, AfterAck, CarriesAlone
  <2>2. CASE ~DeadTag(w)
    BY <1>12, <2>2 DEF DropCommitFails, AfterAck, DeadTag, Die, Forget, ReturnDelivery, Carried
  <2>. QED BY <2>1, <2>2
<1>13. ASSUME ClaimDbError(w) PROVE Carried(j)'
  <2>1. status[j] = "QUEUED" /\ wpc[w] = "claim"
    BY <1>13 DEF ClaimDbError
  <2>2. CASE Goto(w, "claim", "idle") /\ Forget(w) /\ Nack(w) /\ UNCHANGED buffered
    <3>1. CASE DeadTag(w)
      BY <2>1, <2>2, <3>1 DEF Goto, Forget, Nack, DeadTag, Channels, Carried
    <3>2. CASE ~DeadTag(w)
      BY <2>1, <2>2, <3>2 DEF Goto, Forget, Nack, DeadTag, ReturnDelivery, Carried
    <3>. QED BY <3>1, <3>2
  <2>3. CASE Die(w, "exited", unacked)
    BY <1>9, <2>1, <2>3 DEF CarriesAlone
  <2>. QED BY <1>13, <2>2, <2>3 DEF ClaimDbError
<1>14. ASSUME ClaimCommitFails(w) PROVE Carried(j)'
  <2>1. status[j] = "QUEUED" /\ wpc[w] = "claim" /\ Die(w, "exited", unacked)
    BY <1>14 DEF ClaimCommitFails, UpdateStatus, WriteColumns
  <2>. QED BY <1>9, <2>1 DEF CarriesAlone
<1>15. ASSUME FailureDbError(w) PROVE Carried(j)'
  <2>1. Die(w, "exited", unacked) /\ ~CarriesAlone(w, j)
    BY <1>15 DEF FailureDbError, CarriesAlone
  <2>2. status[j] = "QUEUED" \/ (cur[w] = j /\ unacked[w] = cur[w])
    BY <1>15 DEF FailureDbError, UpdateStatus, WriteColumns, Attached, Steps
  <2>3. CASE unacked[w] = j
    BY <2>1, <2>3 DEF Die, ReturnDelivery, Carried
  <2>. QED BY <1>9, <2>1, <2>2, <2>3
<1>16. ASSUME LoseConnection(w) PROVE Carried(j)'
  <2>1. status[j] = "QUEUED" /\ ReturnDelivery(w, unacked) /\ UNCHANGED <<buffered, wpc, cur>>
    BY <1>16 DEF LoseConnection
  <2>2. CASE unacked[w] = j
    BY <2>1, <2>2 DEF ReturnDelivery, Carried
  <2>3. CASE unacked[w] # j
    BY <2>1, <2>3 DEF ReturnDelivery, Carried
  <2>. QED BY <2>2, <2>3
<1>17. ~ReenqueueError(w)
  BY DEF ReenqueueError
<1> HIDE DEF workerVars
<1>. QED BY <1>2, <1>3, <1>4, <1>5, <1>6, <1>7, <1>10, <1>11, <1>12, <1>13, <1>14, <1>15, <1>16,
            <1>17 DEF Work, WorkerStep, WorkerFault

(* Nor does any other step. *)
LEMMA CarriedStep ==
  ASSUME Survivable, TypeInv, ChannelInv, [Next]_vars,
         NEW j \in Jobs, status[j] = "QUEUED" => Accounted(j), status'[j] = "QUEUED"
  PROVE  Accounted(j)'
<1>0. j \in Messages /\ j # Poison
  BY MessageAssumption DEF Messages
<1>1. ASSUME NEW w \in Workers, Work(w) PROVE Accounted(j)'
  BY <1>1, WorkerCarries
<1> USE <1>0 DEF Accounted, Carried, brokerVars, tableVars, workerVars, TypeInv, TypeOK,
        BrokerTypeOK, TableTypeOK, EndpointTypeOK
<1>2. ASSUME NEW k \in Jobs, UNCHANGED workerVars,
             StartRequest(k) \/ CheckDepth(k) \/ RejectActiveJob(k)
      PROVE  Accounted(j)'
  BY <1>2 DEF StartRequest, CheckDepth, RejectActiveJob, Answer
<1>3. ASSUME NEW k \in Jobs, UNCHANGED workerVars, InsertJob(k) \/ RequestError(k)
      PROVE  Accounted(j)'
  BY <1>3 DEF InsertJob, RequestError, CreateJob, Answer
<1>4. ASSUME NEW k \in Jobs, UNCHANGED workerVars, EnqueueJob(k) \/ EnqueueError(k)
      PROVE  Accounted(j)'
  <2>1. k \in Messages /\ status[j] = "QUEUED"
    BY <1>4 DEF EnqueueJob, EnqueueError, Messages
  <2>2. CASE EnqueueJob(k)
    BY <1>4, <2>1, <2>2 DEF EnqueueJob, Publish, Answer
  <2>3. CASE EnqueueError(k)
    BY <1>4, <2>1, <2>3 DEF EnqueueError, Publish, Answer
  <2>. QED BY <1>4, <2>2, <2>3
<1>5. ASSUME PublishPoison, UNCHANGED rpc PROVE Accounted(j)'
  BY <1>5 DEF PublishPoison, Publish, Messages
<1>6. ASSUME UNCHANGED vars \/ \E d \in Documents : ClientUpload(d) PROVE Accounted(j)'
  BY <1>6 DEF vars, ClientUpload
<1> HIDE DEF Accounted, workerVars, TypeInv
<1>. QED BY <1>1, <1>2, <1>3, <1>4, <1>5, <1>6 DEF Next, Request, RequestStep

(* A job that is QUEUED has a message or somebody about to publish one, or *)
(* its client was told that the request failed: while retries can be       *)
(* published and connections do not break in the same life as processes    *)
(* are killed, no interleaving of redeliveries, drops, retries and         *)
(* requeues acks away the last copy.                                       *)
THEOREM QueuedAlwaysCarried ==
  ASSUME Survivable
  PROVE  Spec => []QueuedIsCarried
<1>1. Init => ChannelInv /\ QueuedIsCarried
  BY DEF Init, BrokerInit, WorkerInit, TableInit, ChannelInv, Channels, Attached, Steps,
         QueuedIsCarried
<1>2. TypeInv /\ ChannelInv /\ QueuedIsCarried /\ [Next]_vars => ChannelInv' /\ QueuedIsCarried'
  <2> SUFFICES ASSUME TypeInv, ChannelInv, QueuedIsCarried, [Next]_vars
               PROVE  ChannelInv' /\ QueuedIsCarried'
    OBVIOUS
  <2>1. ChannelInv'
    BY ChannelStep DEF ChannelInv
  <2>2. \A j \in Jobs : status'[j] = "QUEUED" => Accounted(j)'
    BY CarriedStep DEF QueuedIsCarried, Accounted
  <2>. QED BY <2>1, <2>2 DEF QueuedIsCarried, Accounted
<1>3. TypeInv /\ OwnershipInv => TypeInv
  OBVIOUS
<1>. QED BY <1>1, <1>2, <1>3, OwnershipAlways, PTL DEF Spec

(***************************************************************************)
(* The queue is bounded.  What waits in it, what workers may still put     *)
(* back or publish again, and what requests past the depth check will      *)
(* publish, is together bounded: a message changes from one of the three   *)
(* to another, and a request passes the check only below the threshold.    *)
(* This is false once a process may be killed or lose its connection after *)
(* it has published a retry, and when messages come from elsewhere.        *)
(***************************************************************************)
Bound == (Threshold - 1) + MaxInFlight + Cardinality(Workers)

(* A worker whose message may still come back, or be published again. *)
Returning == {w \in Workers : unacked[w] # Nothing /\ wpc[w] # "ack_failed"}

(* A request that has passed the depth check. *)
Passed == {j \in Jobs : rpc[j] \in {"insert", "enqueue"}}

RequestsBounded == IsFiniteSet(Served) /\ Cardinality(Served) <= MaxInFlight

QueueBounded == /\ IsFiniteSet(Copies)
                /\ Cardinality(Copies) + Cardinality(Returning) + Cardinality(Passed) <= Bound

(* One more copy of a message. *)
LEMMA OneCopyMore ==
  ASSUME BrokerTypeOK, NEW m \in Messages, Publish(m)
  PROVE  \E c : Copies' \subseteq Copies \cup {c}
<1> DEFINE c == <<m, ready[m] + 1>>
<1>1. \A k \in Messages :
        1..ready'[k] \subseteq 1..ready[k] \cup (IF k = m THEN {ready[m] + 1} ELSE {})
  BY DEF BrokerTypeOK, Publish
<1>2. Copies' \subseteq Copies \cup {c}
  BY <1>1 DEF Copies
<1>3. QED
  BY <1>2

(* One copy less. *)
LEMMA OneCopyLess ==
  ASSUME BrokerTypeOK, NEW w \in Workers, NEW m \in Messages, Push(w, m)
  PROVE  \E c \in Copies : Copies' \subseteq Copies \ {c}
<1> DEFINE c == <<m, ready[m]>>
<1>1. /\ ready[m] \in 1..ready[m]
      /\ \A k \in Messages :
           1..ready'[k] \subseteq 1..ready[k] \ (IF k = m THEN {ready[m]} ELSE {})
  BY DEF BrokerTypeOK, Push
<1>2. c \in Copies
  BY <1>1 DEF Copies
<1>3. Copies' \subseteq Copies \ {c}
  BY <1>1 DEF Copies
<1>4. QED
  BY <1>2, <1>3

(* A delivery that is given back. *)
LEMMA CopyReturned ==
  ASSUME BrokerTypeOK, NEW w \in Workers,
         NEW outstanding \in [Workers -> Messages \cup {Nothing}], ReturnDelivery(w, outstanding)
  PROVE  /\ unacked' = [outstanding EXCEPT ![w] = Nothing]
         /\ outstanding[w] = Nothing => Copies' \subseteq Copies
         /\ \E c : Copies' \subseteq Copies \cup {c}
<1> DEFINE m == outstanding[w]
           c == <<m, ready[m] + 1>>
<1>1. unacked' = [outstanding EXCEPT ![w] = Nothing]
  BY DEF ReturnDelivery
<1>2. \A k \in Messages :
        1..ready'[k] \subseteq 1..ready[k] \cup (IF k = m THEN {ready[m] + 1} ELSE {})
  BY DEF BrokerTypeOK, ReturnDelivery
<1>3. Copies' \subseteq Copies \cup {c}
  BY <1>2 DEF Copies
<1>4. CASE m = Nothing
  <2>1. \A k \in Messages : ready'[k] = ready[k]
    BY <1>4, MessageAssumption DEF ReturnDelivery, BrokerTypeOK, Messages
  <2>2. Copies' \subseteq Copies
    BY <2>1 DEF Copies
  <2>3. QED
    BY <1>1, <1>3, <2>2
<1>5. QED
  BY <1>1, <1>3, <1>4

(***************************************************************************)
(* Five things that happen to a message.                                   *)
(***************************************************************************)
Settles == Copies' \subseteq Copies /\ Returning' \subseteq Returning /\ Passed' \subseteq Passed

Delivered(w) == /\ \E c \in Copies : Copies' \subseteq Copies \ {c}
                /\ Returning' \subseteq Returning \cup {w}
                /\ Passed' \subseteq Passed

CameBack(w) == /\ \E c : Copies' \subseteq Copies \cup {c}
               /\ w \in Returning /\ Returning' \subseteq Returning \ {w}
               /\ Passed' \subseteq Passed

Entered(j) == /\ \E c : Copies' \subseteq Copies \cup {c}
              /\ Returning' \subseteq Returning
              /\ j \in Passed /\ Passed' \subseteq Passed \ {j}

Admitted == Depth < Threshold /\ Copies' \subseteq Copies

MessageKind == \/ Settles \/ Admitted
               \/ \E w \in Workers : Delivered(w) \/ CameBack(w)
               \/ \E j \in Jobs : Entered(j)

(* The end of a process gives its message back at most once: it has not    *)
(* published a retry of it, or has nothing to give back.                   *)
LEMMA DeathReturns ==
  ASSUME TypeInv, NEW w \in Workers, NEW how \in Down,
         NEW outstanding \in {unacked, AfterAck(w)}, Die(w, how, outstanding),
         unacked[w] # Nothing => wpc[w] # "ack_failed", UNCHANGED rpc
  PROVE  Settles \/ CameBack(w)
<1>1. BrokerTypeOK /\ WorkerTypeOK
  BY DEF TypeInv, TypeOK
<1>2. /\ outstanding \in [Workers -> Messages \cup {Nothing}]
      /\ \A v \in Workers : v # w => outstanding[v] = unacked[v]
      /\ outstanding[w] # Nothing => unacked[w] # Nothing
  BY <1>1 DEF AfterAck, BrokerTypeOK
<1>3. ReturnDelivery(w, outstanding) /\ wpc' = [wpc EXCEPT ![w] = how]
  BY DEF Die
<1>4. /\ unacked' = [outstanding EXCEPT ![w] = Nothing]
      /\ outstanding[w] = Nothing => Copies' \subseteq Copies
      /\ \E c : Copies' \subseteq Copies \cup {c}
  BY <1>1, <1>2, <1>3, CopyReturned
<1>5. Returning' \subseteq Returning \ {w}
  BY <1>1, <1>2, <1>3, <1>4 DEF Returning, WorkerTypeOK, BrokerTypeOK
<1>6. Passed' \subseteq Passed
  BY DEF Passed
<1>7. unacked[w] # Nothing => w \in Returning
  BY DEF Returning
<1>8. QED
  BY <1>2, <1>4, <1>5, <1>6, <1>7 DEF Settles, CameBack

(* Every step of a worker is of one of these kinds. *)
LEMMA WorkerKind ==
  ASSUME Faults \cap {"crash", "conn", "poison"} = {}, TypeInv, Attached,
         NEW w \in Workers, Work(w)
  PROVE  Settles \/ Delivered(w) \/ CameBack(w)
<1> DEFINE Kind == Settles \/ Delivered(w) \/ CameBack(w)
<1>0. /\ BrokerTypeOK /\ WorkerTypeOK
      /\ ~Fault("crash") /\ ~Fault("conn")
      /\ wpc[w] \in Steps => unacked[w] # Nothing /\ ~DeadTag(w)
  BY DEF TypeInv, TypeOK, Fault, Attached, DeadTag
<1>1. Passed' = Passed
  BY DEF Passed, Work
<1>2. ASSUME UNCHANGED <<ready, unacked>>,
             \A v \in Workers : wpc[v] = "ack_failed" => wpc'[v] = wpc[v]
      PROVE  Kind
  BY <1>1, <1>2 DEF Settles, Copies, Returning
<1>3. ASSUME \/ TakeMessage(w) \/ LoadJob(w) \/ ClaimConflict(w) \/ FailureConflict(w)
             \/ FetchDocument(w) \/ StoreMarkdown(w) \/ ProcessingError(w) \/ Hang(w)
             \/ Claim(w) \/ Complete(w) \/ HandleFailure(w) \/ CompleteAmbiguous(w)
             \/ RequestStop(w) \/ Restart(w)
      PROVE  Kind
  <2>1. UNCHANGED <<ready, unacked>>
    BY <1>3
       DEF TakeMessage, LoadJob, ClaimConflict, FailureConflict, FetchDocument, StoreMarkdown,
           ProcessingError, Hang, Claim, Complete, HandleFailure, CompleteAmbiguous, RequestStop,
           Restart, sharedVars, brokerVars
  <2>2. \A v \in Workers : wpc[v] = "ack_failed" => wpc'[v] = wpc[v]
    BY <1>0, <1>3
       DEF TakeMessage, LoadJob, ClaimConflict, FailureConflict, FetchDocument, StoreMarkdown,
           ProcessingError, Hang, Claim, Complete, HandleFailure, CompleteAmbiguous, RequestStop,
           Restart, Goto, WorkerTypeOK, Processing, Down
  <2>3. QED
    BY <1>2, <2>1, <2>2
<1>4. ASSUME NEW m \in Messages, Deliver(w, m)
      PROVE  Kind
  <2>1. Push(w, m) /\ UNCHANGED wpc
    BY <1>4 DEF Deliver, workerVars
  <2>2. \E c \in Copies : Copies' \subseteq Copies \ {c}
    BY <1>0, <2>1, OneCopyLess
  <2>3. Returning' \subseteq Returning \cup {w}
    BY <1>0, <2>1 DEF Push, Returning, BrokerTypeOK
  <2>4. QED
    BY <1>1, <2>2, <2>3 DEF Delivered
<1>5. ASSUME NEW how \in Down, NEW outstanding \in {unacked, AfterAck(w)},
             Die(w, how, outstanding), wpc[w] # "ack_failed"
      PROVE  Kind
  BY <1>5, DeathReturns DEF Work
<1>6. ASSUME \/ BreakOnStop(w) \/ LoadFails(w) \/ DropCommitFails(w) \/ ClaimCommitFails(w)
             \/ FailureDbError(w)
      PROVE  Kind
  <2>1. wpc[w] # "ack_failed"
    BY <1>6 DEF BreakOnStop, LoadFails, DropCommitFails, ClaimCommitFails, FailureDbError
  <2>2. \E how \in Down, outstanding \in {unacked, AfterAck(w)} : Die(w, how, outstanding)
    BY <1>6
       DEF BreakOnStop, LoadFails, DropCommitFails, ClaimCommitFails, FailureDbError, Down
  <2>3. QED
    BY <1>5, <2>1, <2>2
<1>7. ASSUME AckDrop(w) \/ AckDone(w) \/ AckFailed(w)
      PROVE  Kind
  <2>1. wpc[w] \in Steps
    BY <1>7 DEF AckDrop, AckDone, AckFailed, AckAndReturn, AckRaises, Goto, Steps
  <2>2. PICK from : AckAndReturn(w, from)
    BY <1>0, <1>7, <2>1 DEF AckDrop, AckDone, AckFailed, AckRaises
  <2>3. /\ ready' = ready /\ wpc' = [wpc EXCEPT ![w] = "idle"]
        /\ unacked' = [unacked EXCEPT ![w] = Nothing]
    BY <1>0, <2>1, <2>2 DEF AckAndReturn, AfterAck, Goto
  <2>4. Copies' \subseteq Copies /\ Returning' \subseteq Returning
    BY <1>0, <2>3 DEF Copies, Returning, BrokerTypeOK, WorkerTypeOK
  <2>5. QED
    BY <1>1, <2>4 DEF Settles
<1>8. ASSUME ClaimDbError(w)
      PROVE  Kind
  <2>1. wpc[w] = "claim" /\ unacked[w] # Nothing /\ ~DeadTag(w)
    BY <1>0, <1>8 DEF ClaimDbError, Steps
  <2>2. CASE Goto(w, "claim", "idle") /\ Nack(w)
    <3>1. ReturnDelivery(w, unacked) /\ wpc' = [wpc EXCEPT ![w] = "idle"]
      BY <2>1, <2>2 DEF Nack, Goto
    <3>2. /\ unacked' = [unacked EXCEPT ![w] = Nothing]
          /\ \E c : Copies' \subseteq Copies \cup {c}
      BY <1>0, <3>1, CopyReturned DEF BrokerTypeOK
    <3>3. w \in Returning /\ Returning' \subseteq Returning \ {w}
      BY <1>0, <2>1, <3>1, <3>2 DEF Returning, BrokerTypeOK, WorkerTypeOK
    <3>4. QED
      BY <1>1, <3>2, <3>3 DEF CameBack
  <2>3. CASE Die(w, "exited", unacked)
    BY <1>5, <2>1, <2>3 DEF Down
  <2>4. QED
    BY <1>8, <2>2, <2>3 DEF ClaimDbError
<1>9. ASSUME Goto(w, "requeue", "ack_failed"), Publish(cur[w]), UNCHANGED unacked
      PROVE  Kind
  <2>1. wpc[w] = "requeue" /\ wpc' = [wpc EXCEPT ![w] = "ack_failed"]
    BY <1>9 DEF Goto
  <2>2. cur[w] \in Messages
    BY <2>1 DEF TypeInv, HandsFull, Steps, Messages
  <2>3. \E c : Copies' \subseteq Copies \cup {c}
    BY <1>0, <1>9, <2>2, OneCopyMore
  <2>4. w \in Returning /\ Returning' \subseteq Returning \ {w}
    BY <1>0, <1>9, <2>1 DEF Returning, WorkerTypeOK, Steps
  <2>5. QED
    BY <1>1, <2>3, <2>4 DEF CameBack
<1>10. ASSUME ReenqueueError(w)
       PROVE  Kind
  <2>1. CASE Goto(w, "requeue", "ack_failed") /\ UNCHANGED <<ready, unacked>>
    BY <1>0, <1>2, <2>1 DEF Goto, WorkerTypeOK
  <2>2. CASE Die(w, "exited", unacked)
    BY <1>5, <1>10, <2>2 DEF ReenqueueError, Down
  <2>3. QED
    BY <1>9, <1>10, <2>1, <2>2 DEF ReenqueueError
<1>11. ASSUME Reenqueue(w)
       PROVE  Kind
  BY <1>9, <1>11 DEF Reenqueue
<1>12. ~Kill(w) /\ ~LoseConnection(w)
  BY <1>0 DEF Kill, LoseConnection
<1> HIDE DEF Kind
<1>13. QED
  BY <1>3, <1>4, <1>6, <1>7, <1>8, <1>10, <1>11, <1>12 DEF Work, WorkerStep, WorkerFault, Kind

(* So is every step of the pipeline. *)
LEMMA MessageKinds ==
  ASSUME Faults \cap {"crash", "conn", "poison"} = {}, TypeInv, Attached, [Next]_vars,
         IsFiniteSet(Copies)
  PROVE  MessageKind
<1>0. BrokerTypeOK /\ EndpointTypeOK
  BY DEF TypeInv, TypeOK
<1>1. ASSUME NEW w \in Workers, Work(w)
      PROVE  MessageKind
  BY <1>1, WorkerKind DEF MessageKind
<1>2. ASSUME NEW j \in Jobs, Request(j)
      PROVE  MessageKind
  <2>0. Returning' \subseteq Returning
    BY <1>2
       DEF Request, RequestStep, StartRequest, CheckDepth, InsertJob, RejectActiveJob, EnqueueJob,
           RequestError, EnqueueError, workerVars, brokerVars, Returning
  <2>1. CASE \/ StartRequest(j) \/ InsertJob(j) \/ RejectActiveJob(j) \/ RequestError(j)
             \/ (EnqueueError(j) /\ UNCHANGED ready)
    <3>1. Copies' \subseteq Copies
      BY <2>1
         DEF StartRequest, InsertJob, RejectActiveJob, RequestError, brokerVars, Copies
    <3>2. Passed' \subseteq Passed
      BY <1>0, <2>1
         DEF StartRequest, InsertJob, RejectActiveJob, RequestError, EnqueueError, Answer,
             EndpointTypeOK, Passed
    <3>3. QED
      BY <2>0, <3>1, <3>2 DEF MessageKind, Settles
  <2>2. CASE CheckDepth(j)
    <3>1. Copies' \subseteq Copies
      BY <2>2 DEF CheckDepth, brokerVars, Copies
    <3>2. CASE Depth >= Threshold
      <4>1. Passed' \subseteq Passed
        BY <1>0, <2>2, <3>2 DEF CheckDepth, Answer, EndpointTypeOK, Passed
      <4>2. QED
        BY <2>0, <3>1, <4>1 DEF MessageKind, Settles
    <3>3. CASE Depth < Threshold
      BY <3>1, <3>3 DEF MessageKind, Admitted
    <3>4. Depth \in Nat
      BY FS_CardinalityType DEF Depth
    <3>5. QED
      BY <3>2, <3>3, <3>4, LimitAssumption
  <2>3. CASE EnqueueJob(j) \/ (EnqueueError(j) /\ Publish(j))
    <3>1. \E c : Copies' \subseteq Copies \cup {c}
      BY <1>0, <2>3, OneCopyMore DEF EnqueueJob, Messages
    <3>2. j \in Passed /\ Passed' \subseteq Passed \ {j}
      BY <1>0, <2>3 DEF EnqueueJob, EnqueueError, Answer, EndpointTypeOK, Passed
    <3>3. QED
      BY <2>0, <3>1, <3>2 DEF MessageKind, Entered
  <2>4. EnqueueError(j) => Publish(j) \/ UNCHANGED ready
    BY DEF EnqueueError
  <2>5. QED
    BY <1>2, <2>1, <2>2, <2>3, <2>4 DEF Request, RequestStep
<1>3. ~PublishPoison
  BY DEF PublishPoison, Fault
<1>4. ASSUME UNCHANGED vars \/ \E d \in Documents : ClientUpload(d)
      PROVE  MessageKind
  BY <1>4
     DEF vars, ClientUpload, brokerVars, workerVars, Copies, Returning, Passed, MessageKind,
         Settles
<1>5. QED
  BY <1>1, <1>2, <1>3, <1>4 DEF Next

(* No more requests are served at a time than the bound says. *)
LEMMA ServedStep ==
  ASSUME TypeInv, RequestsBounded, [Next]_vars
  PROVE  RequestsBounded'
<1>0. EndpointTypeOK
  BY DEF TypeInv, TypeOK
<1>1. ASSUME NEW j \in Jobs, StartRequest(j)
      PROVE  RequestsBounded'
  <2>1. Cardinality(Served) < MaxInFlight /\ Served' \subseteq Served \cup {j}
    BY <1>0, <1>1 DEF StartRequest, Answer, Served, EndpointTypeOK
  <2>2. /\ IsFiniteSet(Served')
        /\ Cardinality(Served) \in Nat /\ Cardinality(Served') \in Nat
        /\ Cardinality(Served') <= Cardinality(Served) + 1
    BY <2>1, CountOneMore DEF RequestsBounded
  <2>3. QED
    BY <2>1, <2>2, LimitAssumption DEF RequestsBounded
<1>2. ASSUME Served' \subseteq Served
      PROVE  RequestsBounded'
  <2>1. /\ IsFiniteSet(Served')
        /\ Cardinality(Served) \in Nat /\ Cardinality(Served') \in Nat
        /\ Cardinality(Served') <= Cardinality(Served)
    BY <1>2, CountPart DEF RequestsBounded
  <2>2. QED
    BY <2>1, LimitAssumption DEF RequestsBounded
<1>3. ASSUME NEW j \in Jobs, RequestStep(j) \/ RequestError(j) \/ EnqueueError(j)
      PROVE  Served' \subseteq Served
  BY <1>0, <1>3
     DEF RequestStep, CheckDepth, InsertJob, RejectActiveJob, EnqueueJob, RequestError,
         EnqueueError, Answer, Served, InFlight, EndpointTypeOK
<1>4. ASSUME UNCHANGED rpc
      PROVE  Served' \subseteq Served
  BY <1>4 DEF Served
<1>5. QED
  BY <1>1, <1>2, <1>3, <1>4 DEF Next, Request, Work, ClientUpload, vars

(* Whatever happens to a message, the sum stays within the bound. *)
LEMMA QueueStep ==
  ASSUME MessageKind, QueueBounded, RequestsBounded, RequestsBounded'
  PROVE  QueueBounded'
<1>1. /\ IsFiniteSet(Workers) /\ Cardinality(Workers) \in Nat
      /\ \A S : S \subseteq Workers =>
           IsFiniteSet(S) /\ Cardinality(S) \in Nat /\ Cardinality(S) <= Cardinality(Workers)
  BY WorkersAssumption, CountPart, FS_CardinalityType
<1>2. /\ Returning \subseteq Workers /\ Returning' \subseteq Workers
      /\ Passed \subseteq Served /\ Passed' \subseteq Served'
  BY DEF Returning, Passed, Served, InFlight
<1>3. /\ IsFiniteSet(Passed) /\ Cardinality(Passed) \in Nat
      /\ IsFiniteSet(Passed') /\ Cardinality(Passed') \in Nat
      /\ Cardinality(Passed') <= MaxInFlight
  <2>1. /\ Cardinality(Served') \in Nat /\ Cardinality(Served') <= MaxInFlight
        /\ IsFiniteSet(Passed') /\ Cardinality(Passed') \in Nat
        /\ Cardinality(Passed') <= Cardinality(Served')
    BY <1>2, CountPart DEF RequestsBounded
  <2>2. IsFiniteSet(Passed) /\ Cardinality(Passed) \in Nat
    BY <1>2, CountPart DEF RequestsBounded
  <2>3. QED
    BY <2>1, <2>2, LimitAssumption
<1>4. /\ IsFiniteSet(Returning) /\ Cardinality(Returning) \in Nat
      /\ Cardinality(Returning') \in Nat /\ Cardinality(Returning') <= Cardinality(Workers)
  BY <1>1, <1>2
<1>5. /\ IsFiniteSet(Copies) /\ Cardinality(Copies) \in Nat
      /\ Cardinality(Copies) + Cardinality(Returning) + Cardinality(Passed) <= Bound
  BY FS_CardinalityType DEF QueueBounded
<1>6. Bound \in Nat /\ Bound' = Bound
  BY <1>1, LimitAssumption DEF Bound
<1> SUFFICES /\ IsFiniteSet(Copies') /\ Cardinality(Copies') \in Nat
             /\ Cardinality(Copies') + Cardinality(Returning') + Cardinality(Passed') <= Bound
  BY <1>6 DEF QueueBounded
<1>7. ASSUME Copies' \subseteq Copies
      PROVE  /\ IsFiniteSet(Copies') /\ Cardinality(Copies') \in Nat
             /\ Cardinality(Copies') <= Cardinality(Copies)
  BY <1>5, <1>7, CountPart
<1>8. ASSUME Returning' \subseteq Returning
      PROVE  Cardinality(Returning') <= Cardinality(Returning)
  BY <1>4, <1>8, CountPart
<1>9. ASSUME Passed' \subseteq Passed
      PROVE  Cardinality(Passed') <= Cardinality(Passed)
  BY <1>3, <1>9, CountPart
<1>10. ASSUME NEW c, Copies' \subseteq Copies \cup {c}
       PROVE  /\ IsFiniteSet(Copies') /\ Cardinality(Copies') \in Nat
              /\ Cardinality(Copies') <= Cardinality(Copies) + 1
  BY <1>5, <1>10, CountOneMore
<1>11. CASE Settles
  BY <1>3, <1>4, <1>5, <1>6, <1>7, <1>8, <1>9, <1>11 DEF Settles
<1>12. CASE Admitted
  <2>1. /\ IsFiniteSet(Copies') /\ Cardinality(Copies') \in Nat
        /\ Cardinality(Copies') <= Threshold - 1
    BY <1>5, <1>7, <1>12, LimitAssumption DEF Admitted, Depth
  <2>2. QED
    BY <1>1, <1>3, <1>4, <2>1, LimitAssumption DEF Bound
<1>13. ASSUME NEW w \in Workers, Delivered(w)
       PROVE  /\ IsFiniteSet(Copies') /\ Cardinality(Copies') \in Nat
              /\ Cardinality(Copies') + Cardinality(Returning') + Cardinality(Passed') <= Bound
  <2>1. PICK c \in Copies : Copies' \subseteq Copies \ {c}
    BY <1>13 DEF Delivered
  <2>2. /\ IsFiniteSet(Copies') /\ Cardinality(Copies') \in Nat
        /\ Cardinality(Copies') <= Cardinality(Copies) - 1
    BY <1>5, <2>1, CountOneLess
  <2>3. Cardinality(Returning') <= Cardinality(Returning) + 1
    BY <1>4, <1>13, CountOneMore DEF Delivered
  <2>4. Cardinality(Passed') <= Cardinality(Passed)
    BY <1>9, <1>13 DEF Delivered
  <2>5. QED
    BY <1>3, <1>4, <1>5, <1>6, <2>2, <2>3, <2>4
<1>14. ASSUME NEW w \in Workers, CameBack(w)
       PROVE  /\ IsFiniteSet(Copies') /\ Cardinality(Copies') \in Nat
              /\ Cardinality(Copies') + Cardinality(Returning') + Cardinality(Passed') <= Bound
  <2>1. /\ IsFiniteSet(Copies') /\ Cardinality(Copies') \in Nat
        /\ Cardinality(Copies') <= Cardinality(Copies) + 1
    BY <1>10, <1>14 DEF CameBack
  <2>2. Cardinality(Returning') <= Cardinality(Returning) - 1
    BY <1>4, <1>14, CountOneLess DEF CameBack
  <2>3. Cardinality(Passed') <= Cardinality(Passed)
    BY <1>9, <1>14 DEF CameBack
  <2>4. QED
    BY <1>3, <1>4, <1>5, <1>6, <2>1, <2>2, <2>3
<1>15. ASSUME NEW j \in Jobs, Entered(j)
       PROVE  /\ IsFiniteSet(Copies') /\ Cardinality(Copies') \in Nat
              /\ Cardinality(Copies') + Cardinality(Returning') + Cardinality(Passed') <= Bound
  <2>1. /\ IsFiniteSet(Copies') /\ Cardinality(Copies') \in Nat
        /\ Cardinality(Copies') <= Cardinality(Copies) + 1
    BY <1>10, <1>15 DEF Entered
  <2>2. Cardinality(Returning') <= Cardinality(Returning)
    BY <1>8, <1>15 DEF Entered
  <2>3. Cardinality(Passed') <= Cardinality(Passed) - 1
    BY <1>3, <1>15, CountOneLess DEF Entered
  <2>4. QED
    BY <1>3, <1>4, <1>5, <1>6, <2>1, <2>2, <2>3
<1>16. QED
  BY <1>11, <1>12, <1>13, <1>14, <1>15 DEF MessageKind

DepthInv == Attached /\ RequestsBounded /\ QueueBounded

(* As long as no process is killed, no connection is lost and nobody else  *)
(* publishes, the queue never exceeds the threshold by more than the       *)
(* requests served at a time and one message per worker, although retries, *)
(* requeued deliveries and requests that have passed the check are added   *)
(* without another look at its depth.                                      *)
THEOREM DepthAlwaysBounded ==
  ASSUME Faults \cap {"crash", "conn", "poison"} = {}
  PROVE  Spec => []DepthBounded
<1>1. Init => DepthInv
  <2> SUFFICES ASSUME Init
               PROVE  DepthInv
    OBVIOUS
  <2>1. Attached
    BY DEF Init, BrokerInit, WorkerInit, Attached, Steps
  <2>2. Copies = {} /\ Returning = {} /\ Passed = {} /\ Served = {}
    BY DEF Init, BrokerInit, EndpointInit, Copies, Returning, Passed, Served, InFlight
  <2>3. IsFiniteSet({}) /\ Cardinality({}) = 0 /\ Cardinality(Workers) \in Nat
    BY FS_EmptySet, FS_CardinalityType, WorkersAssumption
  <2>4. RequestsBounded /\ QueueBounded
    BY <2>2, <2>3, LimitAssumption DEF RequestsBounded, QueueBounded, Bound
  <2>5. QED
    BY <2>1, <2>4 DEF DepthInv
<1>2. TypeInv /\ DepthInv /\ [Next]_vars => DepthInv'
  <2> SUFFICES ASSUME TypeInv, DepthInv, [Next]_vars
               PROVE  DepthInv'
    OBVIOUS
  <2>1. Attached'
    BY ChannelStep DEF DepthInv
  <2>2. RequestsBounded'
    BY ServedStep DEF DepthInv
  <2>3. MessageKind
    BY MessageKinds DEF DepthInv, QueueBounded
  <2>4. QED
    BY <2>1, <2>2, <2>3, QueueStep DEF DepthInv
<1>3. TypeInv /\ DepthInv => DepthBounded
  <2> SUFFICES ASSUME DepthInv
               PROVE  Cardinality(Copies) <= Bound
    BY DEF DepthBounded, Depth, Bound
  <2>1. /\ Returning \subseteq Workers /\ Passed \subseteq Served
        /\ IsFiniteSet(Copies) /\ IsFiniteSet(Served)
    BY DEF DepthInv, QueueBounded, RequestsBounded, Returning, Passed, Served, InFlight
  <2>2. /\ Cardinality(Returning) \in Nat /\ Cardinality(Passed) \in Nat
        /\ Cardinality(Copies) \in Nat /\ Cardinality(Workers) \in Nat
    BY <2>1, CountPart, WorkersAssumption, FS_CardinalityType
  <2>3. /\ Bound \in Nat
        /\ Cardinality(Copies) + Cardinality(Returning) + Cardinality(Passed) <= Bound
    BY <2>2, LimitAssumption DEF DepthInv, QueueBounded, Bound
  <2>4. QED
    BY <2>2, <2>3
<1>4. TypeInv /\ OwnershipInv => TypeInv
  OBVIOUS
<1>5. QED
  BY <1>1, <1>2, <1>3, <1>4, OwnershipAlways, PTL DEF Spec
=============================================================================
