---------------------------- MODULE JobLifecycle ----------------------------
(***************************************************************************)
(* What the pipeline promises a client about its jobs, with no processes,  *)
(* messages or failures in sight: a job is queued, is started at most      *)
(* MaxAttempts times, goes back to the queue only while attempts remain,   *)
(* fails only when none remains, and a finished job never changes again.   *)
(* A document has at most one unfinished job.                              *)
(***************************************************************************)
EXTENDS Naturals

CONSTANTS Jobs, Documents, DocOf, MaxAttempts

VARIABLES status, attempts

Init == /\ status = [j \in Jobs |-> "ABSENT"]
        /\ attempts = [j \in Jobs |-> 0]

Unfinished(j) == status[j] \in {"QUEUED", "STARTED"}

Move(j, from, to) == /\ status[j] = from
                     /\ status' = [status EXCEPT ![j] = to]

Queue(j) == /\ \A k \in Jobs : DocOf[k] = DocOf[j] => ~Unfinished(k)
            /\ Move(j, "ABSENT", "QUEUED")
            /\ UNCHANGED attempts

Start(j) == /\ attempts[j] < MaxAttempts
            /\ Move(j, "QUEUED", "STARTED")
            /\ attempts' = [attempts EXCEPT ![j] = @ + 1]

Succeed(j) == Move(j, "STARTED", "COMPLETED") /\ UNCHANGED attempts

Retry(j) == /\ attempts[j] < MaxAttempts
            /\ Move(j, "STARTED", "QUEUED")
            /\ UNCHANGED attempts

GiveUp(j) == /\ attempts[j] = MaxAttempts
             /\ Move(j, "STARTED", "FAILED")
             /\ UNCHANGED attempts

Next == \E j \in Jobs : Queue(j) \/ Start(j) \/ Succeed(j) \/ Retry(j) \/ GiveUp(j)

Spec == Init /\ [][Next]_<<status, attempts>>
=============================================================================
