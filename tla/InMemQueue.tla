----------------------------- MODULE InMemQueue -----------------------------
(***************************************************************************)
(* The in-memory workqueue (src/workqueue/inmem/inmem.go): many keys, each *)
(* queued, in progress or both.  Every operation runs under the queue's    *)
(* lock, so each is one step.  The operators below say what an operation   *)
(* makes of the two maps; Dispatcher says who calls them and when.         *)
(***************************************************************************)
EXTENDS Scheduling, FiniteSets

CONSTANTS
  Keys,
  None,     \* the absent entry
  Limit     \* most keys that Enumerate lists

\* An entry of the queue map.
Item == [prio : Priority, nb : Nat, floor : BOOLEAN, attempts : Nat, ts : Nat]

ASSUME InMemAssumption ==
  Limit \in Nat \ {0} /\ None \notin Item /\ IsFiniteSet(Keys)

VARIABLES
  queue,   \* the entry of each queued key, or None
  wip,     \* the keys in progress
  clock    \* time.Now()

maps == <<queue, wip>>

InMemTypeOK ==
  /\ queue \in [Keys -> Item \cup {None}]
  /\ wip \subseteq Keys
  /\ clock \in Nat

InMemInit == queue = [k \in Keys |-> None] /\ wip = {} /\ clock = 1

-----------------------------------------------------------------------------
(* Queue.                                                                  *)

\* The entry after options o are queued over it: the attempt count and the
\* time it was first queued stay.
Deduplicated(item, o) ==
  LET merged == MergeOptions(item, o) IN
  [item EXCEPT !.prio = merged.prio, !.nb = merged.nb, !.floor = merged.floor]

Fresh(o, attempts) ==
  [prio |-> o.prio, nb |-> o.nb, floor |-> o.floor, attempts |-> attempts,
   ts |-> clock]

\* The queue map after options o, with an attempt count for a new entry.
Enqueued(k, o, attempts) ==
  [queue EXCEPT ![k] = IF @ = None THEN Fresh(o, attempts) ELSE Deduplicated(@, o)]

Queue(k, o) == queue' = Enqueued(k, o, 0) /\ UNCHANGED wip

-----------------------------------------------------------------------------
(* Enumerate.                                                              *)

Ready == {k \in Keys : queue[k] # None /\ ~(clock < queue[k].nb)}

\* The order of the list: highest priority first, then first queued.
Ahead(j, k) ==
  \/ queue[j].prio > queue[k].prio
  \/ queue[j].prio = queue[k].prio /\ queue[j].ts < queue[k].ts

\* The first n keys of S, in every way equals may be ordered.
Front(S, n) ==
  {F \in SUBSET S :
     /\ Cardinality(F) = IF Cardinality(S) < n THEN Cardinality(S) ELSE n
     /\ \A k \in F, j \in S \ F : ~Ahead(j, k)}

\* What Enumerate may list.
Listings == Front(Ready, Limit)

-----------------------------------------------------------------------------
(* Start, and the ends of a key in progress.                               *)

CanStart(k) == k \notin wip /\ queue[k] # None

StartKey(k) == queue' = [queue EXCEPT ![k] = None] /\ wip' = wip \cup {k}

\* Mutated form of Remove: the key goes from both maps.
RemoveEntirely(k) == wip' = wip \ {k} /\ queue' = [queue EXCEPT ![k] = None]

\* Complete; Deadletter does the same, there is no dead-letter store.
Remove(k) == wip' = wip \ {k} /\ UNCHANGED queue

\* The options RequeueWithOptions gives a key that was started with owned.
Returned(owned, plan) ==
  [prio  |-> owned.prio,
   nb    |-> IF plan.delay > 0 THEN clock + plan.delay
             ELSE IF owned.prio > 0 THEN clock + LinearBackoff(owned.attempts)
             ELSE 0,
   floor |-> plan.floor]

RequeueKey(k, owned, plan) ==
  /\ queue' = Enqueued(k, Returned(owned, plan),
                       IF plan.kind = "delay" /\ plan.delay > 0
                         THEN 0 ELSE owned.attempts)
  /\ wip' = wip \ {k}

=============================================================================
