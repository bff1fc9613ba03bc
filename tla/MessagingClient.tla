--------------------------- MODULE MessagingClient ---------------------------
(***************************************************************************)
(* RabbitMQMessagingService inside the API process: how many connections   *)
(* to the broker its requests open.  Every request that depends on         *)
(* JobService, GET /jobs/{id} as well as POST .../process, first resolves  *)
(* it through an lru_cache, in a thread of its own; a processing request   *)
(* then calls queue_depth and enqueue of that service's messaging client   *)
(* on the event loop.  Neither the cache nor the client holds a lock, and  *)
(* both test, go away, and only then fill in what they found missing.      *)
(*                                                                         *)
(*   new       the request has not reached its dependencies                *)
(*   build     get_job_service has missed and is constructing a service    *)
(*   depth, enqueue                                                        *)
(*             about to call _get_connection for that operation            *)
(*   connect   connect_robust is awaited                                   *)
(*   channel   the operation runs on a channel of the connection           *)
(*   done      answered, in whatever way                                   *)
(***************************************************************************)
EXTENDS Naturals, FiniteSets

CONSTANTS
  Requests,     \* requests with a JobServiceDep: POST .../process and GET /jobs/{id}
  None,         \* no service, no connection
  MaxInFlight,  \* bound: requests the process serves at a time
  MaxClosed     \* bound: connections that are closed for good

ASSUME ClientAssumption == /\ MaxInFlight \in Nat \ {0}
                           /\ MaxClosed \in Nat
                           /\ None \notin Requests \cup Nat

VARIABLES
  cached,   \* what get_job_service's cache holds: the request that built it
  service,  \* the service each request was given
  handle,   \* _connection of each service's client
  open,     \* connections the process holds open
  opened,   \* connections opened so far
  closed,   \* connections closed so far
  pc,       \* where each request is
  op        \* the operation it is at: queue_depth, then enqueue

vars == <<cached, service, handle, open, opened, closed, pc, op>>

Operations == {"depth", "enqueue"}
Serving == {"build", "connect", "channel"} \cup Operations
Connections == 1 .. opened

(* Every handle is that of a connection that has been opened: a connect    *)
(* that raises leaves the client as it was.                                *)
TypeOK ==
  /\ cached \in Requests \cup {None}
  /\ service \in [Requests -> Requests \cup {None}]
  /\ handle \in [Requests -> Connections \cup {None}]
  /\ open \subseteq Connections
  /\ opened \in Nat /\ closed \in 0..MaxClosed
  /\ pc \in [Requests -> {"new", "done"} \cup Serving]
  /\ op \in [Requests -> Operations]

Init ==
  /\ cached = None
  /\ service = [r \in Requests |-> None]
  /\ handle = [r \in Requests |-> None]
  /\ open = {}
  /\ opened = 0 /\ closed = 0
  /\ pc = [r \in Requests |-> "new"]
  /\ op = [r \in Requests |-> "depth"]

Goto(r, from, to) == /\ pc[r] = from
                     /\ pc' = [pc EXCEPT ![r] = to]

(***************************************************************************)
(* The dependency: a hit shares the cached service, a miss builds one.     *)
(***************************************************************************)
ResolveService(r) ==
  /\ Cardinality({q \in Requests : pc[q] \in Serving}) < MaxInFlight
  /\ Goto(r, "new", IF cached = None THEN "build" ELSE "depth")
  /\ service' = [service EXCEPT ![r] = cached]
  /\ UNCHANGED <<cached, handle, open, opened, closed, op>>

(* The first service to be finished is kept; a thread that missed at the   *)
(* same time is given its own.                                             *)
BuildService(r) ==
  /\ Goto(r, "build", "depth")
  /\ service' = [service EXCEPT ![r] = r]
  /\ cached' = IF cached = None THEN r ELSE cached
  /\ UNCHANGED <<handle, open, opened, closed, op>>

(* The request is over before it needs the broker: it only reads a job, or *)
(* its document is unknown or not uploaded.                                *)
EndEarly(r) ==
  /\ Goto(r, "depth", "done")
  /\ UNCHANGED <<cached, service, handle, open, opened, closed, op>>

(***************************************************************************)
(* _get_connection.                                                        *)
(***************************************************************************)
Usable(s) == handle[s] \in open

(* Mutant: every operation opens a connection of its own. *)
MutantGetConnection(r) ==
  /\ Goto(r, op[r], "connect")
  /\ UNCHANGED <<cached, service, handle, open, opened, closed, op>>

GetConnection(r) ==
  /\ Goto(r, op[r], IF Usable(service[r]) THEN "channel" ELSE "connect")
  /\ UNCHANGED <<cached, service, handle, open, opened, closed, op>>

(* connect_robust returns; a handle that another call has stored in the    *)
(* meantime is overwritten, and its connection never closed.               *)
Connect(r) ==
  /\ Goto(r, "connect", "channel")
  /\ opened' = opened + 1
  /\ open' = open \cup {opened + 1}
  /\ handle' = [handle EXCEPT ![service[r]] = opened + 1]
  /\ UNCHANGED <<cached, service, closed, op>>

(* Mutant: the handle is stored although there is no connection. *)
MutantOperationFails(r) ==
  /\ \E at \in {"connect", "channel"} : Goto(r, at, "done")
  /\ handle' = [handle EXCEPT ![service[r]] = opened + 1]
  /\ UNCHANGED <<cached, service, open, opened, closed, op>>

(* connect_robust, the channel, the declaration or the publication raises: *)
(* QueueException, and the request is answered with an error.              *)
OperationFails(r) ==
  /\ \E at \in {"connect", "channel"} : Goto(r, at, "done")
  /\ UNCHANGED <<cached, service, handle, open, opened, closed, op>>

(***************************************************************************)
(* The operations.  After queue_depth the request may be refused, for a    *)
(* full queue, an active job or an error of the database; after enqueue it *)
(* is answered.  The channel is closed, the connection kept.               *)
(***************************************************************************)
QueueDepth(r) ==
  /\ op[r] = "depth"
  /\ \/ Goto(r, "channel", "enqueue") /\ op' = [op EXCEPT ![r] = "enqueue"]
     \/ Goto(r, "channel", "done") /\ UNCHANGED op
  /\ UNCHANGED <<cached, service, handle, open, opened, closed>>

Enqueue(r) ==
  /\ op[r] = "enqueue"
  /\ Goto(r, "channel", "done")
  /\ UNCHANGED <<cached, service, handle, open, opened, closed, op>>

(* A connection is closed and its robust wrapper does not restore it. *)
Close(c) ==
  /\ closed < MaxClosed
  /\ closed' = closed + 1
  /\ open' = open \ {c}
  /\ UNCHANGED <<cached, service, handle, opened, pc, op>>

Next ==
  \/ \E r \in Requests : \/ ResolveService(r) \/ BuildService(r) \/ EndEarly(r)
                         \/ GetConnection(r) \/ Connect(r) \/ OperationFails(r)
                         \/ QueueDepth(r) \/ Enqueue(r)
  \/ \E c \in open : Close(c)

Spec == Init /\ [][Next]_vars

(***************************************************************************)
(* Losing the races costs connections that nothing ever closes, but not    *)
(* without limit: of the requests in flight at the first miss each but one *)
(* may keep a service of its own, and each time the shared handle is       *)
(* missing each request in flight may open a connection for it.  However   *)
(* many requests are served, no more connections than these are opened.    *)
(***************************************************************************)
ConnectionsBounded == opened <= (MaxInFlight - 1) + MaxInFlight * (1 + closed)
=============================================================================
