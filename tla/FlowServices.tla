---------------------------- MODULE FlowServices ----------------------------
(***************************************************************************)
(* The bounded, driver-owned optical-flow services                         *)
(* (modeling/vision_flow_services.py, VisionFlowServices), borrowed by     *)
(* several threads of a host.  A service is numbered as it is made.        *)
(***************************************************************************)
EXTENDS Integers, SequencesExt

CONSTANTS
  Borrower,       \* threads
  Geometry,       \* the keys
  MaxGeometries,  \* max_geometries
  MaxServices     \* bound on the services made

ASSUME FlowConstants == MaxGeometries \in Nat \ {0} /\ MaxServices \in Nat

VARIABLES
  services,   \* _entries, least recently used first: [key, id, borrowed]
  flowClosed, \* _closed
  made,       \* services made so far
  closings,   \* how often a service was closed
  lease,      \* [at, key, id] of a thread: what it does, for which key and service
  doomed      \* services that close() has taken out and not closed yet

fvars == <<services, flowClosed, made, closings, lease, doomed>>

NoLease == [at |-> "idle", key |-> CHOOSE k \in Geometry : TRUE, id |-> 0]
Becomes(t, at, k, id) == lease' = [lease EXCEPT ![t] = [at |-> at, key |-> k, id |-> id]]
Gives(t) == lease' = [lease EXCEPT ![t] = NoLease]

Entry(k) == SelectInSeq(services, LAMBDA e : e.key = k)
IdleEntry == SelectInSeq(services, LAMBDA e : ~e.borrowed)

\* move_to_end(), borrowed.
Lent(n) == Append(RemoveAt(services, n), [services[n] EXCEPT !.borrowed = TRUE])

\* borrow() up to the end of its first block.
BorrowCached(t, k) ==
  /\ lease[t].at = "idle" /\ ~flowClosed /\ Entry(k) # 0
  /\ ~services[Entry(k)].borrowed
  /\ services' = Lent(Entry(k)) /\ Becomes(t, "leased", k, services[Entry(k)].id)
  /\ UNCHANGED <<flowClosed, made, closings, doomed>>

BorrowMakes(t, k) ==
  /\ lease[t].at = "idle" /\ ~flowClosed /\ Entry(k) = 0 /\ made < MaxServices
  /\ Len(services) < MaxGeometries
  /\ Becomes(t, "make", k, 0)
  /\ UNCHANGED <<services, flowClosed, made, closings, doomed>>

\* Faulty variant: evicts the oldest entry, borrowed or not.
VictimOldest == 1

\* The least recently used entry that nobody borrows.
Victim == IdleEntry

BorrowEvicts(t, k) ==
  /\ lease[t].at = "idle" /\ ~flowClosed /\ Entry(k) = 0 /\ made < MaxServices
  /\ Len(services) >= MaxGeometries /\ Victim # 0
  /\ services' = RemoveAt(services, Victim)
  /\ Becomes(t, "evict", k, services[Victim].id)
  /\ UNCHANGED <<flowClosed, made, closings, doomed>>

Closes(id) == closings' = [closings EXCEPT ![id] = @ + 1]

\* The victim is closed outside the lock; when that raises nothing is made.
EvictCloses(t) ==
  /\ lease[t].at = "evict" /\ Closes(lease[t].id)
  /\ Becomes(t, "make", lease[t].key, 0) \/ Gives(t)
  /\ UNCHANGED <<services, flowClosed, made, doomed>>

Makes(t) ==
  /\ lease[t].at = "make" /\ made < MaxServices
  /\ made' = made + 1 /\ Becomes(t, "publish", lease[t].key, made + 1)
  /\ UNCHANGED <<services, flowClosed, closings, doomed>>

MakeFails(t) ==
  /\ lease[t].at = "make" /\ Gives(t)
  /\ UNCHANGED <<services, flowClosed, made, closings, doomed>>

\* close() came while the service was made.
RefusesLate == flowClosed

\* The second block: nobody else has made this geometry.
Publishes(t) ==
  /\ lease[t].at = "publish" /\ ~RefusesLate /\ Entry(lease[t].key) = 0
  /\ services' = Append(services, [key |-> lease[t].key, id |-> lease[t].id, borrowed |-> TRUE])
  /\ Becomes(t, "leased", lease[t].key, lease[t].id)
  /\ UNCHANGED <<flowClosed, made, closings, doomed>>

\* Faulty variant: the service that was not needed is forgotten.
KeepsRedundant(id) == UNCHANGED closings

ClosesRedundant(id) == Closes(id)

\* Another thread has: ours is closed, and the other is borrowed if it is free.
\* When closing ours raises then, borrow() raises before its try block, and the
\* other stays marked as borrowed for good.
Redundant(t) ==
  /\ lease[t].at = "publish" /\ ClosesRedundant(lease[t].id)
  /\ IF RefusesLate THEN Gives(t) /\ UNCHANGED services
     ELSE /\ Entry(lease[t].key) # 0
          /\ IF services[Entry(lease[t].key)].borrowed THEN Gives(t) /\ UNCHANGED services
             ELSE /\ services' = Lent(Entry(lease[t].key))
                  /\ \/ Becomes(t, "leased", lease[t].key, services[Entry(lease[t].key)].id)
                     \/ Gives(t)
  /\ UNCHANGED <<flowClosed, made, doomed>>

Returns(t) ==
  /\ lease[t].at = "leased" /\ Gives(t)
  /\ services' = [n \in DOMAIN services |->
       IF services[n].id = lease[t].id THEN [services[n] EXCEPT !.borrowed = FALSE] ELSE services[n]]
  /\ UNCHANGED <<flowClosed, made, closings, doomed>>

\* close() raises, and does nothing, while a service is borrowed.
CloseServices ==
  /\ ~(flowClosed /\ services = <<>>) /\ \A n \in DOMAIN services : ~services[n].borrowed
  /\ flowClosed' = TRUE /\ services' = <<>>
  /\ doomed' = doomed \cup {services[n].id : n \in DOMAIN services}
  /\ UNCHANGED <<made, closings, lease>>

\* A close that raises does not keep the others from being closed.
ClosesDoomed ==
  /\ \E id \in doomed : Closes(id) /\ doomed' = doomed \ {id}
  /\ UNCHANGED <<services, flowClosed, made, lease>>

FlowInit ==
  /\ services = <<>> /\ flowClosed = FALSE /\ made = 0
  /\ closings = [id \in 1..MaxServices |-> 0]
  /\ lease = [t \in Borrower |-> NoLease] /\ doomed = {}

FlowNext ==
  \/ \E t \in Borrower :
       \/ \E k \in Geometry : BorrowCached(t, k) \/ BorrowMakes(t, k) \/ BorrowEvicts(t, k)
       \/ EvictCloses(t) \/ Makes(t) \/ MakeFails(t) \/ Publishes(t) \/ Redundant(t) \/ Returns(t)
  \/ CloseServices \/ ClosesDoomed

FlowSpec == FlowInit /\ [][FlowNext]_fvars

-----------------------------------------------------------------------------
\* A lease is exclusive, and its service is alive for as long as the lease is,
\* whatever other threads evict, make or close meanwhile.
LeasesExclusive ==
  \A t \in Borrower : lease[t].at = "leased" =>
    /\ closings[lease[t].id] = 0
    /\ \A u \in Borrower \ {t} : lease[u].at = "leased" => lease[u].id # lease[t].id

\* No service is lost and none is closed twice: each is in the cache, on its way
\* to be closed, held by the thread that made or evicted it, or closed once; and
\* nothing enters the cache once it is closed.
ServicesAccounted ==
  /\ flowClosed => services = <<>>
  /\ \A id \in 1..made :
       closings[id]
         + Cardinality({n \in DOMAIN services : services[n].id = id})
         + (IF id \in doomed THEN 1 ELSE 0)
         + Cardinality({t \in Borrower : lease[t].at \in {"publish", "evict"} /\ lease[t].id = id})
         = 1
=============================================================================
