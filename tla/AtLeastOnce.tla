----------------------------- MODULE AtLeastOnce -----------------------------
(***************************************************************************)
(* What the workqueue promises the callers of Queue about one key: every   *)
(* event they were told is accepted stays with the queue until a callback  *)
(* that began after it has settled it, callbacks only ever begin on kept   *)
(* work, and work that is gone does not come back by itself.  How the key  *)
(* is stored, leased and returned is left to the implementation.           *)
(*                                                                         *)
(* Source: the contract of src/workqueue/interface.go (Interface,          *)
(* QueuedKey, OwnedInProgressKey).                                         *)
(***************************************************************************)
EXTENDS Integers

CONSTANTS Workers   \* those who may run the callback

NoCallback == -1

VARIABLES
  accepted,  \* the number of events accepted so far
  handled,   \* events 1 .. handled have been settled
  kept,      \* whether the queue holds the key
  covers     \* the events that the callback of each worker covers

contract == <<accepted, handled, kept, covers>>

Init ==
  /\ accepted = 0 /\ handled = 0 /\ kept = FALSE
  /\ covers = [w \in Workers |-> NoCallback]

\* What settling the callback of w makes of handled.
Settled(w) == IF handled < covers[w] THEN covers[w] ELSE handled

\* Queue succeeds.
Accept ==
  /\ accepted' = accepted + 1 /\ kept' = TRUE
  /\ UNCHANGED <<handled, covers>>

\* Start: the callback covers all that was accepted before it.
Begin(w) ==
  /\ kept /\ covers[w] = NoCallback
  /\ covers' = [covers EXCEPT ![w] = accepted]
  /\ UNCHANGED <<accepted, handled, kept>>

\* The callback's result takes care of the events it covers.
Settle(w) ==
  /\ covers[w] # NoCallback
  /\ handled' = Settled(w)
  /\ UNCHANGED <<accepted, kept, covers>>

\* The callback's result is to queue the key itself: a new event replaces
\* those it covers.
Replace(w) ==
  /\ covers[w] # NoCallback
  /\ accepted' = accepted + 1 /\ kept' = TRUE
  /\ handled' = Settled(w)
  /\ UNCHANGED covers

\* The queue lets go of the key: nothing accepted may be outstanding.
LetGo == kept /\ accepted <= handled' /\ ~kept'

\* w is done with the key, which may settle what it covers, or it crashes.
End(w) ==
  /\ covers[w] # NoCallback
  /\ covers' = [covers EXCEPT ![w] = NoCallback]
  /\ handled' = handled \/ handled' = Settled(w)
  /\ LetGo \/ UNCHANGED kept
  /\ UNCHANGED accepted

Drop == LetGo /\ UNCHANGED <<accepted, handled, covers>>

Next ==
  \/ Accept \/ Drop
  \/ \E w \in Workers : Begin(w) \/ Settle(w) \/ Replace(w) \/ End(w)

Spec == Init /\ [][Next]_contract

=============================================================================
