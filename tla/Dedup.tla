-------------------------------- MODULE Dedup --------------------------------
(***************************************************************************)
(* What repeated enqueues of one key come to while it is queued: the two   *)
(* implementations merge each enqueue into the entry they hold, inmem on   *)
(* the options (mergeOptions) and the bucket on the object's metadata text *)
(* (updateMetadata).  Both are compared with a definition that looks at    *)
(* all enqueues at once, so that the order they come in cannot matter.     *)
(***************************************************************************)
EXTENDS Scheduling, FiniteSets

CONSTANTS
  Enqueues,   \* the options that may be queued
  Revisited   \* options of a delayed requeue the key may be queued by first

ASSUME DedupAssumption ==
  Enqueues \subseteq Options /\ Enqueues # {} /\ Revisited \subseteq Options

VARIABLES
  arrived,  \* the options queued so far
  entry,    \* the entry of the in-memory queue
  object    \* the metadata of the bucket's queued object

dedupVars == <<arrived, entry, object>>

\* A key with these options that a callback asked to see again is returned to
\* both queues.  The bucket writes its priority anew.
ReturnedObject(o) ==
  [Written(o) EXCEPT !.prio = IF o.prio = 0 THEN noPriority ELSE Unpadded(o.prio),
                     !.attempts = 0]

DedupInit ==
  \/ \E o \in Enqueues : arrived = {o} /\ entry = o /\ object = Written(o)
  \/ \E o \in Revisited : arrived = {o} /\ entry = o /\ object = ReturnedObject(o)

\* Another enqueue of the key.
Arrive(o) ==
  /\ arrived' = arrived \cup {o}
  /\ entry' = MergeOptions(entry, o)
  /\ object' = PatchMetadata(object, MergeMetadata(object, Written(o)))

DedupNext == \E o \in Enqueues : Arrive(o)

DedupSpec == DedupInit /\ [][DedupNext]_dedupVars

-----------------------------------------------------------------------------
(* The reference: what the enqueues A come to, looked at together.         *)

\* The enqueues that decide the not-before: the floored ones if there are any.
Deciding(A) == IF \E o \in A : o.floor THEN {o \in A : o.floor} ELSE A

\* e has the highest priority of A; it is floored if anything in A is, and then
\* its not-before is the latest floor, else the earliest not-before.
Summarises(e, A) ==
  /\ \E o \in A : o.prio = e.prio
  /\ \A o \in A : o.prio <= e.prio
  /\ e.floor = \E o \in A : o.floor
  /\ \E o \in Deciding(A) : o.nb = e.nb
  /\ \A o \in Deciding(A) : IF e.floor THEN o.nb <= e.nb ELSE e.nb <= o.nb

\* The in-memory entry is what its enqueues come to, in whatever order they
\* came (interface.go, Options.NotBeforeFloor).
EntrySummarises == Summarises(entry, arrived)

\* The bucket's object says the same as the in-memory entry: comparing texts
\* is comparing the values.
ObjectAgrees ==
  /\ object.prio = Padded(entry.prio)
  /\ object.nb = entry.nb /\ object.floor = entry.floor

\* The bucket's object has the highest priority of its enqueues (gcs.go: "Always
\* choose the highest priority", "Zero-pad the priority to 8 digits to ensure
\* lexicographic ordering").
HighestPriority == \A o \in arrived : o.prio <= object.prio.value

\* Both queues merge what comes for a key alike, whatever its order.
EnqueuesAgree == EntrySummarises /\ ObjectAgrees

-----------------------------------------------------------------------------
(* A small instance: the priority 5 requeued after a delay, and enqueues   *)
(* of 0 and 10.                                                            *)

Requeued == [prio : {5}, nb : {2}, floor : BOOLEAN]
Few      == [prio : {0, 10}, nb : {0}, floor : {FALSE}]

=============================================================================
