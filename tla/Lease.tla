-------------------------------- MODULE Lease --------------------------------
(***************************************************************************)
(* The timing of one lease's heartbeat (src/workqueue/gcs): GCSQueue gives *)
(* a refresh no duration, here it is all about how long attempts, pauses   *)
(* and outages of the bucket take.  Times are kept as the ticks that are   *)
(* left; the object's metadata holds whole seconds (RFC 3339).  A request  *)
(* its sender gave up on does not reach the bucket later.                  *)
(***************************************************************************)
EXTENDS Naturals

CONSTANTS
  Second,  \* its ticks
  Paces    \* the configured intervals, [refresh, retry]

\* RefreshInterval is a second or more, its default are five minutes.
ASSUME LeaseAssumption ==
  /\ Second \in Nat \ {0}
  /\ Paces \subseteq [refresh : Nat \ {0}, retry : Nat \ {0}]
  /\ \A p \in Paces : Second <= p.refresh

VARIABLES
  pace,
  subsecond,  \* the ticks since the last whole second
  heartbeat,  \* what the heartbeat's goroutine does
  believed,   \* how long it believes to hold the lease
  newExpiry,  \* what the attempt underway asks for
  countdown,  \* what is left of the attempt's timeout, or of the pause after it
  ticker,     \* until the ticker fires
  fired,      \* its channel holds a tick
  lease,      \* how long the bucket's object is leased
  taken,      \* another attempt has replaced the object
  available,  \* whether the bucket answers
  refused,    \* history: how long refreshes have been failing
  overrun     \* history: how long the work has gone on without a lease

leaseVars == <<pace, subsecond, heartbeat, believed, newExpiry, countdown, ticker, fired,
               lease, taken, available, refused, overrun>>

\* Mutated form of retryInterval: it is not clamped.
retryIntervalAsGiven == pace.retry

\* A pause, and an attempt, are no longer than the interval between refreshes.
retryInterval == IF pace.retry < pace.refresh THEN pace.retry ELSE pace.refresh

Term == 3 * pace.refresh

\* What others see of an expiry t ticks ahead: its part of a second is cut off.
Stamped(t) ==
  LET cut == (subsecond + t) % Second IN IF t < cut THEN 0 ELSE t - cut

Left(t) == IF t = 0 THEN 0 ELSE t - 1

Working == heartbeat \in {"waiting", "trying", "pausing"}

LeaseTypeOK ==
  /\ pace \in Paces /\ subsecond \in 0 .. Second - 1
  /\ heartbeat \in {"waiting", "trying", "pausing", "lost", "released"}
  /\ {believed, newExpiry, lease, refused, overrun} \subseteq 0 .. Term
  /\ countdown \in 0 .. pace.refresh /\ ticker \in 1 .. pace.refresh
  /\ {fired, taken, available} \subseteq BOOLEAN

\* Start has stamped the object and the heartbeat's goroutine begins: it believes
\* what is stamped.
LeaseInit ==
  /\ pace \in Paces /\ subsecond \in 0 .. Second - 1
  /\ heartbeat = "waiting" /\ lease = Stamped(Term) /\ believed = lease
  /\ newExpiry = 0 /\ countdown = 0 /\ ticker = pace.refresh /\ fired = FALSE
  /\ taken = FALSE /\ available = TRUE /\ refused = 0 /\ overrun = 0

-----------------------------------------------------------------------------
(* The heartbeat.                                                          *)

\* An attempt asks for a lease that counts from its beginning.
Attempt ==
  /\ heartbeat' = "trying" /\ newExpiry' = Term /\ countdown' = retryInterval
  /\ UNCHANGED <<pace, subsecond, believed, ticker, lease, taken, available, refused, overrun>>

Refresh == heartbeat = "waiting" /\ fired /\ fired' = FALSE /\ Attempt

RefreshAgain == heartbeat = "pausing" /\ countdown = 0 /\ UNCHANGED fired /\ Attempt

\* The update is applied as long as the generation is the one that was leased.
Land ==
  /\ heartbeat = "trying" /\ available /\ ~taken
  /\ lease' = Stamped(newExpiry)
  /\ UNCHANGED <<pace, subsecond, heartbeat, believed, newExpiry, countdown, ticker, fired,
                 taken, available, refused, overrun>>

\* It believes what it asked for, which is more than what is stamped.
Refreshed ==
  /\ heartbeat = "trying" /\ available /\ ~taken /\ lease = Stamped(newExpiry)
  /\ heartbeat' = "waiting" /\ believed' = newExpiry /\ refused' = 0
  /\ UNCHANGED <<pace, subsecond, newExpiry, countdown, ticker, fired, lease, taken,
                 available, overrun>>

\* The object was replaced: the work is canceled.
lostOwnership ==
  /\ heartbeat = "trying" /\ available /\ taken
  /\ heartbeat' = "lost"
  /\ UNCHANGED <<pace, subsecond, believed, newExpiry, countdown, ticker, fired, lease, taken,
                 available, refused, overrun>>

\* Another attempt begins before the lease is over.
CanRetry == retryInterval < believed

\* A transient error, or the attempt's own timeout.
AttemptFails ==
  /\ heartbeat = "trying" /\ ~available
  /\ IF CanRetry THEN heartbeat' = "pausing" /\ countdown' = retryInterval
     ELSE heartbeat' = "lost" /\ UNCHANGED countdown
  /\ UNCHANGED <<pace, subsecond, believed, newExpiry, ticker, fired, lease, taken, available,
                 refused, overrun>>

\* The work is done, or shut down, and stops its heartbeat.
stopHeartbeat ==
  /\ Working /\ heartbeat' = "released"
  /\ UNCHANGED <<pace, subsecond, believed, newExpiry, countdown, ticker, fired, lease, taken,
                 available, refused, overrun>>

HeartbeatSteps ==
  Refresh \/ RefreshAgain \/ Land \/ Refreshed \/ lostOwnership \/ AttemptFails

-----------------------------------------------------------------------------
(* Everything around it.                                                   *)

\* Another dispatcher requeues the key once the lease has lapsed.
TakeOver ==
  /\ lease = 0 /\ ~taken /\ taken' = TRUE
  /\ UNCHANGED <<pace, subsecond, heartbeat, believed, newExpiry, countdown, ticker, fired, lease,
                 available, refused, overrun>>

\* The bucket stops answering, or answers again.
Outage ==
  /\ Working /\ available' = ~available
  /\ UNCHANGED <<pace, subsecond, heartbeat, believed, newExpiry, countdown, ticker, fired, lease,
                 taken, refused, overrun>>

\* The goroutine does not sleep through a tick or a timer, and an attempt is over
\* when its timeout is.
Due ==
  \/ heartbeat = "waiting" /\ fired
  \/ heartbeat \in {"trying", "pausing"} /\ countdown = 0

\* A tick that finds the channel full is dropped.
LeaseTick ==
  /\ Working /\ ~Due
  /\ subsecond' = IF subsecond + 1 = Second THEN 0 ELSE subsecond + 1
  /\ believed' = Left(believed) /\ newExpiry' = Left(newExpiry)
  /\ countdown' = Left(countdown) /\ lease' = Left(lease)
  /\ IF ticker = 1 THEN ticker' = pace.refresh /\ fired' = TRUE
     ELSE ticker' = ticker - 1 /\ UNCHANGED fired
  /\ refused' = IF heartbeat = "waiting" THEN 0
                ELSE IF refused < Term THEN refused + 1 ELSE refused
  /\ overrun' = IF lease = 0 THEN IF overrun < Term THEN overrun + 1 ELSE overrun ELSE 0
  /\ UNCHANGED <<pace, heartbeat, taken, available>>

LeaseNext == HeartbeatSteps \/ stopHeartbeat \/ TakeOver \/ Outage \/ LeaseTick

LeaseSpec == LeaseInit /\ [][LeaseNext]_leaseVars

-----------------------------------------------------------------------------

\* The heartbeat believes the lease to outlive what other dispatchers can observe by
\* less than the second its stamp loses, whichever attempts landed, were acknowledged
\* or were given up on (gcs.go, startHeartbeat and refreshLease).
BeliefBacked == Working /\ ~taken => believed < lease + Second

\* Work goes on for less than one retry interval, and the part of a second that the
\* stamp loses, after its lease has lapsed: the last attempt that CanRetry admits may
\* end that much late.
OverrunBounded == Working => overrun < retryInterval + Second - 1

\* A bucket that fails refreshes for a while costs no work, however the intervals
\* are configured: the heartbeat gives up only after failing for a refresh
\* interval, less what the stamp of its first lease loses ("shortening
\* RefreshInterval (a public knob) cannot leave the lease with no retry budget
\* before it lapses").
GivesUpRightly ==
  [][Working /\ heartbeat' = "lost" /\ ~taken
     => refused + Second > pace.refresh]_leaseVars

\* Another attempt holds the key and the work goes on.
Overstays == taken /\ Working

\* The last attempt is over when the lease is (gcs.go: "cannot pin a single
\* attempt past the lease expiry").
\* The code does not keep it: README, section 7.
NoOverrun == Working => overrun = 0

\* The heartbeat never believes the lease outlives what others can observe, as
\* startHeartbeat's comment has it.
\* The code does not keep it: README, section 7.
NeverBelievesMore == Working /\ ~taken => believed <= lease

\* The work trusts hardly more of its lease than others can see, outlives it by little
\* more than one retry, and does not give it up while a retry may still save it.
LeaseHonoured == []BeliefBacked /\ []OverrunBounded /\ GivesUpRightly

=============================================================================
