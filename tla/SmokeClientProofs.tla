------------------------- MODULE SmokeClientProofs -------------------------
(***************************************************************************)
(* Proofs about the smoke client, for any number of concurrent runs and    *)
(* any number of attempts.                                                 *)
(***************************************************************************)
EXTENDS SmokeClient, TLAPS

ClientInv == TypeOK /\ VerdictIsFinal /\ PollFindsJob /\ RowMeansPromise /\ Grounded

(* The invariant holds when nothing has been sent. *)
LEMMA ClientInit == Init => ClientInv
BY AttemptsAssumption
   DEF Init, DocumentInit, Life!Init, ClientInv, TypeOK, DocumentTypeOK, VerdictIsFinal,
       PollFindsJob, RowMeansPromise, Grounded, Waiting, Results

(* The steps of the client itself: they read rows and answers, and change  *)
(* neither.                                                                *)
LEMMA ClientStepSafe ==
  ASSUME ClientInv, NEW r \in Runs, ClientStep(r) \/ Expire(r)
  PROVE  ClientInv'
<1> USE DEF ClientInv, TypeOK, DocumentTypeOK, VerdictIsFinal, PollFindsJob, RowMeansPromise,
            Grounded, Listed, Visible, Waiting, Results, Goto, documentVars, jobVars
<1>1. CASE Submit(r)
  BY <1>1 DEF Submit
<1>2. CASE ReceiveDocument(r)
  BY <1>2 DEF ReceiveDocument
<1>3. CASE Upload(r)
  BY <1>3 DEF Upload
<1>4. CASE StartProcessing(r)
  BY <1>4 DEF StartProcessing
<1>5. CASE ReceiveJob(r)
  BY <1>5 DEF ReceiveJob
<1>6. CASE CheckDeadline(r)
  BY <1>6 DEF CheckDeadline
<1>7. CASE Poll(r)
  BY <1>7 DEF Poll, GetJob
<1>8. CASE CallFails(r)
  <2>1. PICK at \in Waiting : Goto(r, at, "error")
    BY <1>8 DEF CallFails
  <2>2. CASE UNCHANGED uploaded
    BY <1>8, <2>1, <2>2 DEF CallFails
  <2>3. CASE uploaded' = [uploaded EXCEPT ![r] = TRUE]
    BY <1>8, <2>1, <2>3 DEF CallFails
  <2>4. QED
    BY <1>8, <2>2, <2>3 DEF CallFails
<1>9. CASE Expire(r)
  BY <1>9 DEF Expire
<1>10. QED
  BY <1>1, <1>2, <1>3, <1>4, <1>5, <1>6, <1>7, <1>8, <1>9 DEF ClientStep

(* The steps of the document endpoint. *)
LEMMA ServeSafe ==
  ASSUME ClientInv, NEW r \in Runs, Serve(r)
  PROVE  ClientInv'
<1> USE DEF ClientInv, TypeOK, DocumentTypeOK, VerdictIsFinal, PollFindsJob, RowMeansPromise,
            Grounded, Listed, Visible, Waiting, Results, Respond, clientVars, jobVars, Serve
<1>1. CASE CreateDocument(r)
  BY <1>1 DEF CreateDocument
<1>2. CASE RejectKey(r)
  BY <1>2 DEF RejectKey
<1>3. CASE CreateFails(r)
  BY <1>3 DEF CreateFails
<1>4. CASE EndSession(r)
  <2>1. CASE document' = document
    BY <1>4, <2>1 DEF EndSession
  <2>2. CASE document' = [document EXCEPT ![r] = TRUE]
    BY <1>4, <2>2 DEF EndSession
  <2>3. QED
    BY <1>4, <2>1, <2>2 DEF EndSession
<1>5. QED
  BY <1>1, <1>2, <1>3, <1>4 DEF ServeDocument

(* The steps of the processing endpoint and of the job. *)
LEMMA JobSafe ==
  ASSUME ClientInv, NEW r \in Runs, ServeProcess(r) \/ JobStep(r)
  PROVE  ClientInv'
<1> USE AttemptsAssumption
    DEF ClientInv, TypeOK, DocumentTypeOK, VerdictIsFinal, PollFindsJob, RowMeansPromise,
        Grounded, Listed, Visible, Waiting, Results, Processed, clientVars, documentVars,
        jobVars, Life!Move
<1>1. CASE CommitJob(r)
  BY <1>1 DEF CommitJob, Life!Queue
<1>2. CASE AcceptJob(r)
  BY <1>2 DEF AcceptJob
<1>3. CASE RefuseJob(r)
  BY <1>3 DEF RefuseJob
<1>4. CASE JobStep(r) /\ Life!Start(r)
  BY <1>4 DEF JobStep, Life!Start, Life!Retry, Life!GiveUp, Life!Succeed
<1>5. CASE JobStep(r) /\ Life!Retry(r)
  BY <1>5 DEF JobStep, Life!Start, Life!Retry, Life!GiveUp, Life!Succeed
<1>6. CASE JobStep(r) /\ Life!GiveUp(r)
  BY <1>6 DEF JobStep, Life!Start, Life!Retry, Life!GiveUp, Life!Succeed
<1>7. CASE JobStep(r) /\ Life!Succeed(r)
  BY <1>7 DEF JobStep, Life!Start, Life!Retry, Life!GiveUp, Life!Succeed
<1>8. QED
  BY <1>1, <1>2, <1>3, <1>4, <1>5, <1>6, <1>7 DEF ServeProcess, JobStep

(* Every reachable state has the invariant. *)
LEMMA ClientAlways == Spec => []ClientInv
<1>1. ClientInv /\ [Next]_vars => ClientInv'
  <2> SUFFICES ASSUME ClientInv, [Next]_vars PROVE ClientInv'
    OBVIOUS
  <2>1. CASE Next
    BY <2>1, ClientStepSafe, ServeSafe, JobSafe DEF Next
  <2>2. CASE UNCHANGED vars
    BY <2>2 DEF vars, documentVars, clientVars, jobVars, ClientInv, TypeOK, DocumentTypeOK,
                VerdictIsFinal, PollFindsJob, RowMeansPromise, Grounded, Listed, Visible
  <2>3. QED
    BY <2>1, <2>2
<1>2. QED
  BY ClientInit, <1>1, PTL DEF Spec

(* A Result of the smoke client is never contradicted later: ok stands for *)
(* a completed job with a listed artifact, JobFailed for a job that has no *)
(* attempt left, however many runs share the API.                          *)
THEOREM VerdictsFinal == Spec => []VerdictIsFinal
BY ClientAlways, PTL DEF ClientInv

(* The polling loop never meets a job the API does not know. *)
THEOREM PollsFindJobs == Spec => []PollFindsJob
BY ClientAlways, PTL DEF ClientInv

(* A document row exists only if its client was promised one. *)
THEOREM RowsPromised == Spec => []RowMeansPromise
BY ClientAlways, PTL DEF ClientInv
=============================================================================
