------------------------------- MODULE Broker -------------------------------
(***************************************************************************)
(* The durable RabbitMQ queue and the consumers' channels, as the code     *)
(* uses them: persistent messages, manual acknowledgement, prefetch_count  *)
(* 1, redelivery of what a closed channel left unacknowledged.  The order  *)
(* of the queue is abstracted away (a bag), because requeued messages and  *)
(* several consumers leave no order the program could rely on.             *)
(***************************************************************************)
EXTENDS Environment

VARIABLES
  ready,     \* how many copies of each message wait in the queue
  unacked,   \* the delivery the broker holds against each worker's channel
  buffered   \* the message the worker's client has received but not yet
             \* handed to the consume loop

brokerVars == <<ready, unacked, buffered>>

BrokerTypeOK ==
  /\ ready \in [Messages -> Nat]
  /\ unacked \in [Workers -> Messages \cup {Nothing}]
  /\ buffered \in [Workers -> Messages \cup {Nothing}]

BrokerInit ==
  /\ ready = [m \in Messages |-> 0]
  /\ unacked = [w \in Workers |-> Nothing]
  /\ buffered = [w \in Workers |-> Nothing]

(* The messages that wait in the queue, as the first, second, ... copy. *)
Copies == UNION {{m} \X (1..ready[m]) : m \in Messages}

(* queue_depth asks for the ready messages only: what a worker holds       *)
(* unacknowledged does not count.  Of a queue that is not declared yet it  *)
(* says 0 (`except ChannelClosed: return 0`), which is its depth here.     *)
Depth == Cardinality(Copies)

Publish(m) == ready' = [ready EXCEPT ![m] = @ + 1]

(* The broker pushes a ready message to a channel with no outstanding      *)
(* delivery.                                                               *)
Push(w, m) ==
  /\ ready[m] > 0
  /\ unacked[w] = Nothing
  /\ buffered[w] = Nothing
  /\ ready' = [ready EXCEPT ![m] = @ - 1]
  /\ unacked' = [unacked EXCEPT ![w] = m]
  /\ buffered' = [buffered EXCEPT ![w] = m]

(* The message in the worker's hands can no longer be acknowledged: the    *)
(* channel that delivered it is gone.  A delivery the broker holds is then *)
(* one that still waits in the client's buffer.                            *)
DeadTag(w) == unacked[w] = Nothing \/ buffered[w] # Nothing

(* What stays unacknowledged once the worker has acked. *)
AfterAck(w) == IF DeadTag(w) THEN unacked ELSE [unacked EXCEPT ![w] = Nothing]

(* The broker requeues what is outstanding on the worker's channel. *)
ReturnDelivery(w, outstanding) ==
  /\ ready' = [m \in Messages |-> IF m = outstanding[w] THEN ready[m] + 1 ELSE ready[m]]
  /\ unacked' = [outstanding EXCEPT ![w] = Nothing]

(* basic.nack with requeue; on a dead tag it changes nothing. *)
Nack(w) == IF DeadTag(w) THEN UNCHANGED <<ready, unacked>> ELSE ReturnDelivery(w, unacked)
=============================================================================
