----------------------- MODULE MessagingClientProofs -----------------------
(***************************************************************************)
(* Proofs about the messaging client of the API process, for any number of *)
(* requests, any number of them in flight, and any number of connections   *)
(* that are closed.                                                        *)
(***************************************************************************)
EXTENDS MessagingClient, Counting

(***************************************************************************)
(* The inductive invariant.                                                *)
(***************************************************************************)
Served == {r \in Requests : pc[r] \in Serving}

(* No more requests are served at a time than the bound says. *)
ServedBounded == IsFiniteSet(Served) /\ Cardinality(Served) <= MaxInFlight

(* Before the first service is built nobody is past the dependency.        *)
(* Afterwards nobody starts to build one.                                  *)
FirstMiss ==
  IF cached = None
  THEN /\ opened = 0
       /\ handle = [r \in Requests |-> None]
       /\ \A r \in Requests : pc[r] \in {"new", "build"}
  ELSE pc[cached] \notin {"new", "build"}

(* A request that lost the race at the cache has a service of its own. *)
Private(r) == service[r] = r /\ r # cached

(* Every other service is the cached one. *)
Services ==
  \A r \in Requests : pc[r] \in Serving \ {"build"} => service[r] = cached \/ Private(r)

(* Two clients never share a connection. *)
HandlesDistinct ==
  \A s, t \in Requests : handle[s] = handle[t] /\ handle[s] # None => s = t

(* Only its own request uses a private client, so the test that sent it to *)
(* connect is still true.                                                  *)
PrivateConnects ==
  \A r \in Requests : pc[r] = "connect" /\ Private(r) => ~Usable(r)

(***************************************************************************)
(* What may still be opened without another connection being closed: one   *)
(* connection by each private service that has none, and by the shared one *)
(* as many as requests are already connecting, or, while it has none, as   *)
(* many as can be in flight.                                               *)
(***************************************************************************)
Pending == {r \in Requests : \/ pc[r] = "build"
                             \/ pc[r] \in Serving /\ Private(r) /\ ~Usable(r)}

Connecting == {r \in Requests : pc[r] = "connect" /\ service[r] = cached}

SharedMayOpen == IF Usable(cached) THEN Cardinality(Connecting) ELSE MaxInFlight

WithinBudget ==
  cached # None =>
    opened + Cardinality(Pending) + SharedMayOpen
      <= (MaxInFlight - 1) + MaxInFlight * (1 + closed)

Shape == /\ TypeOK
         /\ ServedBounded
         /\ FirstMiss
         /\ Services
         /\ HandlesDistinct
         /\ PrivateConnects

ClientInv == Shape /\ WithinBudget

(***************************************************************************)
(* The shape of the state, without the counting.                           *)
(***************************************************************************)

(* The invariant holds before the first request. *)
LEMMA ClientInit == Init => ClientInv
<1> SUFFICES ASSUME Init
             PROVE  ClientInv
  OBVIOUS
<1> USE ClientAssumption DEF Init
<1>1. TypeOK
  BY DEF TypeOK, Operations, Serving
<1>2. ServedBounded
  <2>1. Served = {}
    BY DEF Served, Serving, Operations
  <2>2. QED
    BY <2>1, FS_EmptySet DEF ServedBounded
<1>3. FirstMiss /\ Services /\ HandlesDistinct /\ PrivateConnects /\ WithinBudget
  BY
     DEF FirstMiss, Services, HandlesDistinct, PrivateConnects, WithinBudget,
         Serving, Operations
<1>4. QED
  BY <1>1, <1>2, <1>3 DEF ClientInv, Shape

(* A step of a request that is already served serves nobody else. *)
LEMMA ServedKept ==
  ASSUME ServedBounded, Served' \subseteq Served
  PROVE  ServedBounded'
<1>1. /\ IsFiniteSet(Served')
      /\ Cardinality(Served) \in Nat /\ Cardinality(Served') \in Nat
      /\ Cardinality(Served') <= Cardinality(Served)
  BY CountPart DEF ServedBounded
<1>2. QED
  BY <1>1, ClientAssumption DEF ServedBounded

(* Every step keeps the shape; only ResolveService serves a new request,   *)
(* and only below the bound.                                               *)
LEMMA ShapeStep ==
  ASSUME Shape, [Next]_vars
  PROVE  Shape'
<1> USE ClientAssumption
<1>0. /\ TypeOK /\ ServedBounded /\ FirstMiss /\ Services
      /\ HandlesDistinct /\ PrivateConnects
  BY DEF Shape
<1> DEFINE Rest == FirstMiss /\ Services /\ HandlesDistinct /\ PrivateConnects
<1> SUFFICES TypeOK' /\ ServedBounded' /\ Rest'
  BY DEF Shape
<1>1. ASSUME NEW r \in Requests, ResolveService(r)
      PROVE  TypeOK' /\ ServedBounded' /\ Rest'
  <2> USE <1>0, <1>1 DEF ResolveService, Goto
  <2>1. TypeOK'
    BY DEF TypeOK, Serving, Operations, Connections
  <2>2. ServedBounded'
    <3>1. IsFiniteSet(Served) /\ Cardinality(Served) < MaxInFlight
      BY DEF ServedBounded, Served
    <3>2. Served' \subseteq Served \cup {r}
      BY DEF Served, TypeOK
    <3>3. /\ IsFiniteSet(Served')
          /\ Cardinality(Served) \in Nat /\ Cardinality(Served') \in Nat
          /\ Cardinality(Served') <= Cardinality(Served) + 1
      BY <3>1, <3>2, CountOneMore
    <3>4. QED
      BY <3>1, <3>3 DEF ServedBounded
  <2>3. Rest'
    BY DEF TypeOK, FirstMiss, Services, HandlesDistinct, PrivateConnects, Private, Usable,
           Serving, Operations
  <2>4. QED
    BY <2>1, <2>2, <2>3
<1>2. ASSUME NEW r \in Requests, BuildService(r)
      PROVE  TypeOK' /\ ServedBounded' /\ Rest'
  <2> USE <1>0, <1>2 DEF BuildService, Goto
  <2>1. TypeOK'
    BY DEF TypeOK, Serving, Operations, Connections
  <2>2. Served' \subseteq Served
    BY DEF Served, Serving, TypeOK
  <2>3. Rest'
    BY DEF TypeOK, FirstMiss, Services, HandlesDistinct, PrivateConnects, Private, Usable,
           Serving, Operations
  <2>4. QED
    BY <2>1, <2>2, <2>3, ServedKept
<1>3. ASSUME NEW r \in Requests, GetConnection(r)
      PROVE  TypeOK' /\ ServedBounded' /\ Rest'
  <2> USE <1>0, <1>3 DEF GetConnection, Goto
  <2>1. TypeOK'
    BY DEF TypeOK, Serving, Connections
  <2>2. Served' \subseteq Served
    BY DEF Served, Serving, TypeOK
  <2>3. Rest'
    BY DEF TypeOK, FirstMiss, Services, HandlesDistinct, PrivateConnects, Private, Usable,
           Serving, Operations
  <2>4. QED
    BY <2>1, <2>2, <2>3, ServedKept
<1>4. ASSUME NEW r \in Requests, Connect(r)
      PROVE  TypeOK' /\ ServedBounded' /\ Rest'
  <2> USE <1>0, <1>4 DEF Connect, Goto
  <2>1. cached # None /\ service[r] \in Requests
    BY DEF TypeOK, FirstMiss, Services, Private, Serving, Operations
  <2>2. TypeOK'
    BY <2>1 DEF TypeOK, Serving, Connections
  <2>3. Served' \subseteq Served
    BY DEF Served, Serving, TypeOK
  <2>4. FirstMiss' /\ Services'
    BY <2>1 DEF TypeOK, FirstMiss, Services, Private, Serving, Operations
  <2>5. HandlesDistinct'
    BY <2>1 DEF TypeOK, HandlesDistinct, Connections
  <2>6. PrivateConnects'
    BY <2>1
       DEF TypeOK, PrivateConnects, Services, Private, Usable, Connections, Serving,
           Operations
  <2>7. QED
    BY <2>2, <2>3, <2>4, <2>5, <2>6, ServedKept
<1>5. ASSUME NEW r \in Requests, EndEarly(r) \/ OperationFails(r) \/ QueueDepth(r) \/ Enqueue(r)
      PROVE  TypeOK' /\ ServedBounded' /\ Rest'
  <2> USE <1>0, <1>5 DEF EndEarly, OperationFails, QueueDepth, Enqueue, Goto
  <2>1. TypeOK'
    BY DEF TypeOK, Serving, Operations, Connections
  <2>2. Served' \subseteq Served
    BY DEF Served, Serving, Operations, TypeOK
  <2>3. Rest'
    BY DEF TypeOK, FirstMiss, Services, HandlesDistinct, PrivateConnects, Private, Usable,
           Serving, Operations
  <2>4. QED
    BY <2>1, <2>2, <2>3, ServedKept
<1>6. ASSUME NEW c \in open, Close(c)
      PROVE  TypeOK' /\ ServedBounded' /\ Rest'
  <2> USE <1>0, <1>6 DEF Close
  <2>1. TypeOK'
    BY DEF TypeOK, Connections
  <2>2. Served' \subseteq Served
    BY DEF Served
  <2>3. Rest'
    BY DEF FirstMiss, Services, HandlesDistinct, PrivateConnects, Private, Usable
  <2>4. QED
    BY <2>1, <2>2, <2>3, ServedKept
<1>7. CASE UNCHANGED vars
  <2> USE <1>0, <1>7 DEF vars
  <2>1. TypeOK' /\ Rest'
    BY DEF TypeOK, FirstMiss, Services, HandlesDistinct, PrivateConnects, Private, Usable,
           Connections
  <2>2. Served' \subseteq Served
    BY DEF Served
  <2>3. QED
    BY <2>1, <2>2, ServedKept
<1>8. QED
  BY <1>1, <1>2, <1>3, <1>4, <1>5, <1>6, <1>7 DEF Next

(***************************************************************************)
(* The counting.                                                           *)
(***************************************************************************)

(* Who may still open a connection is being served. *)
LEMMA BudgetSets ==
  ASSUME Shape
  PROVE  /\ IsFiniteSet(Pending) /\ Cardinality(Pending) \in Nat
         /\ IsFiniteSet(Connecting) /\ Cardinality(Connecting) \in Nat
         /\ Cardinality(Connecting) <= MaxInFlight
<1>1. /\ IsFiniteSet(Served) /\ Cardinality(Served) <= MaxInFlight
      /\ Pending \subseteq Served /\ Connecting \subseteq Served
  BY DEF Shape, ServedBounded, Pending, Connecting, Served, Serving
<1>2. QED
  BY <1>1, CountPart, ClientAssumption

(* A step that opens and closes nothing, and after which nobody else may   *)
(* open a connection, stays within the budget.                             *)
LEMMA BudgetKept ==
  ASSUME Shape, Shape', WithinBudget, cached # None,
         UNCHANGED <<cached, open, opened, closed, handle>>,
         Pending' \subseteq Pending,
         Usable(cached) => Connecting' \subseteq Connecting
  PROVE  WithinBudget'
<1>1. /\ IsFiniteSet(Pending) /\ Cardinality(Pending) \in Nat
      /\ IsFiniteSet(Connecting) /\ Cardinality(Connecting) \in Nat
  BY BudgetSets
<1>2. Cardinality(Pending') \in Nat /\ Cardinality(Pending') <= Cardinality(Pending)
  BY <1>1, CountPart
<1>3. SharedMayOpen \in Nat /\ SharedMayOpen' \in Nat /\ SharedMayOpen' <= SharedMayOpen
  <2>1. CASE Usable(cached)
    <3>1. /\ Cardinality(Connecting') \in Nat
          /\ Cardinality(Connecting') <= Cardinality(Connecting)
      BY <1>1, <2>1, CountPart
    <3>2. QED
      BY <1>1, <2>1, <3>1 DEF SharedMayOpen, Usable
  <2>2. CASE ~Usable(cached)
    BY <2>2, ClientAssumption DEF SharedMayOpen, Usable
  <2>3. QED
    BY <2>1, <2>2
<1>4. opened \in Nat /\ closed \in Nat
  BY ClientAssumption DEF Shape, TypeOK
<1> HIDE DEF SharedMayOpen, Pending
<1> DEFINE B == (MaxInFlight - 1) + MaxInFlight * (1 + closed)
<1>5. B \in Int
  BY <1>4, ClientAssumption
<1>6. opened + Cardinality(Pending) + SharedMayOpen <= B
  BY DEF WithinBudget
<1>7. B' = B /\ opened' = opened
  OBVIOUS
<1> HIDE DEF B
<1>8. opened + Cardinality(Pending') + SharedMayOpen' <= B
  BY <1>1, <1>2, <1>3, <1>4, <1>5, <1>6
<1>9. QED
  BY <1>7, <1>8 DEF WithinBudget, B

(* The first service is built: nothing is open yet, and of the requests in *)
(* flight every one but its builder may still build a service of its own.  *)
LEMMA FirstService ==
  ASSUME Shape, Shape', NEW r \in Requests, BuildService(r), cached = None
  PROVE  WithinBudget'
<1>1. TypeOK /\ ServedBounded /\ FirstMiss
  BY DEF Shape
<1>2. cached' = r /\ opened' = 0 /\ closed' = closed /\ handle'[r] = None
  BY <1>1 DEF BuildService, FirstMiss
<1>3. ~Usable(cached)'
  <2>1. open = {}
    BY <1>1 DEF TypeOK, FirstMiss, Connections
  <2>2. QED
    BY <1>2, <2>1 DEF BuildService, Usable
<1>4. Pending' \subseteq Served \ {r} /\ r \in Served
  BY <1>1, <1>2
     DEF BuildService, Goto, FirstMiss, TypeOK, Pending, Served, Private, Serving,
         Operations
<1>5. /\ Cardinality(Served) \in Nat /\ Cardinality(Pending') \in Nat
      /\ Cardinality(Pending') <= Cardinality(Served) - 1
  BY <1>1, <1>4, CountOneLess DEF ServedBounded
<1>6. Cardinality(Pending') <= MaxInFlight - 1
  BY <1>1, <1>5, ClientAssumption DEF ServedBounded
<1>7. MaxInFlight <= MaxInFlight * (1 + closed)
  <2>1. closed \in Nat /\ MaxInFlight * closed \in Nat
    BY <1>1, ClientAssumption DEF TypeOK
  <2>2. MaxInFlight * (1 + closed) = MaxInFlight + MaxInFlight * closed
    BY <2>1, ClientAssumption
  <2>3. QED
    BY <2>1, <2>2, ClientAssumption
<1>8. MaxInFlight * (1 + closed) \in Nat
  BY <1>1, ClientAssumption DEF TypeOK
<1>9. SharedMayOpen' = MaxInFlight
  BY <1>3 DEF SharedMayOpen
<1>10. 0 + Cardinality(Pending') + MaxInFlight <= (MaxInFlight - 1) + MaxInFlight * (1 + closed)
  BY <1>5, <1>6, <1>7, <1>8, ClientAssumption
<1>11. QED
  BY <1>2, <1>9, <1>10 DEF WithinBudget

(* A connection is opened: by a private client, which then has one, or for *)
(* the shared client, by one of the requests that were connecting.         *)
LEMMA ConnectWithin ==
  ASSUME Shape, Shape', WithinBudget, NEW r \in Requests, Connect(r)
  PROVE  WithinBudget'
<1>0. TypeOK /\ ServedBounded /\ FirstMiss /\ Services /\ HandlesDistinct /\ PrivateConnects
  BY DEF Shape
<1>1. /\ cached # None /\ cached \in Requests
      /\ pc[r] = "connect"
      /\ service[r] = cached \/ Private(r)
  BY <1>0 DEF Connect, Goto, TypeOK, FirstMiss, Services, Serving, Operations
<1>2. /\ IsFiniteSet(Pending) /\ Cardinality(Pending) \in Nat
      /\ IsFiniteSet(Connecting) /\ Cardinality(Connecting) \in Nat
      /\ Cardinality(Connecting) <= MaxInFlight
  BY BudgetSets
<1>3. /\ opened \in Nat /\ closed \in Nat
      /\ opened' = opened + 1 /\ closed' = closed /\ cached' = cached
  BY <1>0, ClientAssumption DEF TypeOK, Connect
<1> DEFINE B == (MaxInFlight - 1) + MaxInFlight * (1 + closed)
<1>4. B \in Int /\ B' = B
  BY <1>3, ClientAssumption
<1>5. opened + Cardinality(Pending) + SharedMayOpen <= B
  BY <1>1 DEF WithinBudget
<1> SUFFICES /\ Cardinality(Pending') \in Nat /\ SharedMayOpen' \in Nat /\ SharedMayOpen \in Nat
             /\ Cardinality(Pending') + SharedMayOpen' <= Cardinality(Pending) + SharedMayOpen - 1
  <2> HIDE DEF B
  <2>1. opened' + Cardinality(Pending') + SharedMayOpen' <= B'
    BY <1>2, <1>3, <1>4, <1>5
  <2>2. QED
    BY <2>1 DEF B, WithinBudget
<1>6. CASE Private(r)
  <2>1. ~Usable(r) /\ r \in Pending
    BY <1>0, <1>1, <1>6 DEF PrivateConnects, Pending, Serving
  <2>2. Pending' \subseteq Pending \ {r}
    BY <1>0, <1>1, <1>3, <1>6
       DEF Connect, Goto, TypeOK, Pending, Private, Usable, Connections, Serving,
           Operations
  <2>3. Connecting' \subseteq Connecting
    BY <1>0, <1>3 DEF Connect, Goto, TypeOK, Connecting
  <2>4. Usable(cached)' = Usable(cached)
    BY <1>0, <1>1, <1>3, <1>6, ClientAssumption
       DEF Connect, TypeOK, Private, Usable, Connections
  <2>5. Cardinality(Pending') \in Nat /\ Cardinality(Pending') <= Cardinality(Pending) - 1
    BY <1>2, <2>1, <2>2, CountOneLess
  <2>6. Cardinality(Connecting') \in Nat /\ Cardinality(Connecting') <= Cardinality(Connecting)
    BY <1>2, <2>3, CountPart
  <2>7. SharedMayOpen' \in Nat /\ SharedMayOpen \in Nat /\ SharedMayOpen' <= SharedMayOpen
    BY <1>2, <1>3, <2>4, <2>6, ClientAssumption DEF SharedMayOpen
  <2>8. QED
    BY <1>2, <2>5, <2>7
<1>7. CASE service[r] = cached
  <2>1. Usable(cached)'
    BY <1>0, <1>1, <1>3, <1>7 DEF Connect, TypeOK, Usable
  <2>2. Pending' \subseteq Pending
    BY <1>0, <1>1, <1>3, <1>7
       DEF Connect, Goto, TypeOK, Pending, Private, Usable, Connections, Serving,
           Operations
  <2>3. r \in Connecting /\ Connecting' \subseteq Connecting \ {r}
    BY <1>0, <1>1, <1>3, <1>7 DEF Connect, Goto, TypeOK, Connecting
  <2>4. Cardinality(Pending') \in Nat /\ Cardinality(Pending') <= Cardinality(Pending)
    BY <1>2, <2>2, CountPart
  <2>5. Cardinality(Connecting') \in Nat /\ Cardinality(Connecting') <= Cardinality(Connecting) - 1
    BY <1>2, <2>3, CountOneLess
  <2>6. SharedMayOpen' = Cardinality(Connecting')
    BY <2>1 DEF SharedMayOpen
  <2>7. SharedMayOpen \in Nat /\ Cardinality(Connecting) <= SharedMayOpen
    BY <1>2, ClientAssumption DEF SharedMayOpen
  <2>8. QED
    BY <1>2, <2>4, <2>5, <2>6, <2>7
<1>8. QED
  BY <1>1, <1>6, <1>7

(* A connection is closed: it was that of the shared client, or of at most *)
(* one private client, or nobody's.  The budget grows by MaxInFlight.      *)
LEMMA CloseWithin ==
  ASSUME Shape, Shape', WithinBudget, NEW c \in open, Close(c)
  PROVE  WithinBudget'
<1>0. TypeOK /\ FirstMiss /\ Services /\ HandlesDistinct
  BY DEF Shape
<1>1. /\ IsFiniteSet(Pending) /\ Cardinality(Pending) \in Nat
      /\ IsFiniteSet(Connecting) /\ Cardinality(Connecting) \in Nat
      /\ Cardinality(Connecting) <= MaxInFlight
  BY BudgetSets
<1>2. /\ opened \in Nat /\ closed \in Nat /\ c # None
      /\ opened' = opened /\ closed' = closed + 1 /\ cached' = cached
      /\ cached # None /\ cached \in Requests
  BY <1>0, ClientAssumption DEF TypeOK, Close, FirstMiss, Connections
<1> DEFINE B == (MaxInFlight - 1) + MaxInFlight * (1 + closed)
<1>3. B \in Int /\ B' = B + MaxInFlight
  <2>1. MaxInFlight * (1 + (closed + 1)) = MaxInFlight * (1 + closed) + MaxInFlight
    BY <1>2, ClientAssumption
  <2>2. QED
    BY <1>2, <2>1, ClientAssumption
<1>4. opened + Cardinality(Pending) + SharedMayOpen <= B
  BY <1>2 DEF WithinBudget
<1>5. Connecting' = Connecting
  BY DEF Close, Connecting
<1> SUFFICES /\ Cardinality(Pending') \in Nat /\ SharedMayOpen' \in Nat /\ SharedMayOpen \in Nat
             /\ Cardinality(Pending') + SharedMayOpen'
                  <= Cardinality(Pending) + SharedMayOpen + MaxInFlight
  <2> HIDE DEF B
  <2>1. opened' + Cardinality(Pending') + SharedMayOpen' <= B'
    BY <1>1, <1>2, <1>3, <1>4, ClientAssumption
  <2>2. QED
    BY <2>1 DEF B, WithinBudget
<1>6. SharedMayOpen' \in Nat /\ SharedMayOpen \in Nat
  BY <1>1, <1>5, ClientAssumption DEF SharedMayOpen
<1>7. CASE handle[cached] = c
  <2>1. Pending' \subseteq Pending
    BY <1>0, <1>2, <1>7 DEF Close, HandlesDistinct, Pending, Private, Usable
  <2>2. Cardinality(Pending') \in Nat /\ Cardinality(Pending') <= Cardinality(Pending)
    BY <1>1, <2>1, CountPart
  <2>3. SharedMayOpen' <= MaxInFlight
    BY <1>1, <1>5, ClientAssumption DEF SharedMayOpen
  <2>4. QED
    BY <1>1, <1>6, <2>2, <2>3, ClientAssumption
<1>8. CASE handle[cached] # c
  <2>1. SharedMayOpen' = SharedMayOpen
    BY <1>2, <1>5, <1>8 DEF SharedMayOpen, Usable, Close
  <2>2. PICK s : Pending' \subseteq Pending \cup {s}
    <3>1. CASE \E s \in Requests : handle[s] = c
      <4>1. PICK s \in Requests : handle[s] = c
        BY <3>1
      <4>2. Pending' \subseteq Pending \cup {s}
        BY <1>0, <1>2, <4>1 DEF Close, HandlesDistinct, Pending, Private, Usable
      <4>3. QED
        BY <4>2
    <3>2. CASE ~\E s \in Requests : handle[s] = c
      <4>1. Pending' \subseteq Pending \cup {None}
        BY <1>2, <3>2 DEF Close, Pending, Private, Usable
      <4>2. QED
        BY <4>1
    <3>3. QED
      BY <3>1, <3>2
  <2>3. Cardinality(Pending') \in Nat /\ Cardinality(Pending') <= Cardinality(Pending) + 1
    BY <1>1, <2>2, CountOneMore
  <2>4. QED
    BY <1>1, <1>6, <2>1, <2>3, ClientAssumption
<1>9. QED
  BY <1>7, <1>8

(* Every step stays within the budget. *)
LEMMA BudgetStep ==
  ASSUME ClientInv, Shape', [Next]_vars
  PROVE  WithinBudget'
<1>0. /\ Shape /\ WithinBudget
      /\ TypeOK /\ FirstMiss /\ Services
  BY DEF ClientInv, Shape
<1>1. CASE cached = None /\ ~\E r \in Requests : BuildService(r)
  <2>1. cached' = None
    BY <1>0, <1>1
       DEF Next, vars, ResolveService, EndEarly, GetConnection, Connect, OperationFails,
           QueueDepth, Enqueue, Close
  <2>2. QED
    BY <2>1 DEF WithinBudget
<1>2. ASSUME NEW r \in Requests, BuildService(r), cached = None
      PROVE  WithinBudget'
  BY <1>0, <1>2, FirstService
<1> DEFINE Quieter == /\ UNCHANGED <<cached, open, opened, closed, handle>>
                      /\ Pending' \subseteq Pending
                      /\ Usable(cached) => Connecting' \subseteq Connecting
<1>3. ASSUME NEW r \in Requests, BuildService(r), cached # None
      PROVE  Quieter
  BY <1>0, <1>3
     DEF BuildService, Goto, TypeOK, FirstMiss, Pending, Connecting, Private, Usable,
         Serving, Operations
<1>4. ASSUME NEW r \in Requests, ResolveService(r), cached # None
      PROVE  Quieter
  BY <1>0, <1>4
     DEF ResolveService, Goto, TypeOK, FirstMiss, Pending, Connecting, Private,
         Usable, Serving, Operations
<1>5. ASSUME NEW r \in Requests, GetConnection(r), cached # None
      PROVE  Quieter
  BY <1>0, <1>5
     DEF GetConnection, Goto, TypeOK, Pending, Connecting, Private, Usable, Serving,
         Operations
<1>6. ASSUME NEW r \in Requests, cached # None,
             EndEarly(r) \/ OperationFails(r) \/ QueueDepth(r) \/ Enqueue(r)
      PROVE  Quieter
  BY <1>0, <1>6
     DEF EndEarly, OperationFails, QueueDepth, Enqueue, Goto, TypeOK, Pending, Connecting,
         Private, Usable, Serving, Operations
<1>7. ASSUME UNCHANGED vars
      PROVE  Quieter
  BY <1>7 DEF vars, Pending, Connecting, Private, Usable
<1>8. ASSUME Quieter, cached # None
      PROVE  WithinBudget'
  BY <1>0, <1>8, BudgetKept
<1> HIDE DEF Quieter
<1>9. QED
  BY <1>0, <1>1, <1>2, <1>3, <1>4, <1>5, <1>6, <1>7, <1>8, ConnectWithin, CloseWithin DEF Next

(* The invariant is kept by every step. *)
LEMMA ClientAlways == Spec => []ClientInv
<1>1. ClientInv /\ [Next]_vars => ClientInv'
  BY ShapeStep, BudgetStep DEF ClientInv
<1>2. QED
  BY ClientInit, <1>1, PTL DEF Spec

(* Every handle a client holds is that of a connection that was opened,    *)
(* whichever calls of connect_robust raise or overwrite one another.       *)
THEOREM TypeCorrect == Spec => []TypeOK
<1>1. ClientInv => TypeOK
  BY DEF ClientInv, Shape
<1>2. QED
  BY ClientAlways, <1>1, PTL

(* However many requests the process serves, and whichever races at the    *)
(* cache and at _get_connection they lose, it opens no more connections    *)
(* than the requests it serves at a time and the connections that were     *)
(* closed account for.                                                     *)
THEOREM ConnectionsAlwaysBounded == Spec => []ConnectionsBounded
<1>1. ClientInv => ConnectionsBounded
  <2> SUFFICES ASSUME ClientInv
               PROVE  ConnectionsBounded
    OBVIOUS
  <2>1. Shape /\ TypeOK /\ FirstMiss /\ WithinBudget /\ opened \in Nat /\ closed \in Nat
    BY ClientAssumption DEF ClientInv, Shape, TypeOK
  <2> DEFINE B == (MaxInFlight - 1) + MaxInFlight * (1 + closed)
  <2>2. B \in Nat
    <3>1. MaxInFlight * (1 + closed) \in Nat /\ MaxInFlight - 1 \in Nat
      BY <2>1, ClientAssumption
    <3>2. QED
      BY <3>1
  <2>3. Cardinality(Pending) \in Nat /\ SharedMayOpen \in Nat
    BY <2>1, BudgetSets, ClientAssumption DEF SharedMayOpen
  <2>4. cached # None => opened + Cardinality(Pending) + SharedMayOpen <= B
    BY <2>1 DEF WithinBudget
  <2>5. cached = None => opened = 0
    BY <2>1 DEF FirstMiss
  <2> HIDE DEF B
  <2>6. opened <= B
    BY <2>1, <2>2, <2>3, <2>4, <2>5
  <2>7. QED
    BY <2>6 DEF B, ConnectionsBounded
<1>2. QED
  BY ClientAlways, <1>1, PTL
=============================================================================
