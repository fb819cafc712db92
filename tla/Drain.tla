-------------------------------- MODULE Drain --------------------------------
(***************************************************************************)
(* Shutting a reconciler service down (src/workqueue/drain.go): Process    *)
(* calls of one server, each watched by DrainInterceptor, a handler        *)
(* goroutine per call, and the platform, which kills the process a grace   *)
(* period after SIGTERM.  The cancellation of a call's context is a        *)
(* goroutine of its own (context.AfterFunc), so it lands some time after   *)
(* the drain context is done.                                              *)
(***************************************************************************)
EXTENDS Naturals

CONSTANTS
  Calls,
  DrainBackstop,  \* ticks an interceptor waits for its handler
  Grace           \* ticks from SIGTERM to SIGKILL

\* drain.go: the backstop "must comfortably fit" inside the grace.
ASSUME DrainAssumption == DrainBackstop \in Nat /\ Grace \in Nat /\ DrainBackstop < Grace

VARIABLES
  draining, alive,  \* SIGTERM was seen; the process runs
  grace,            \* ticks left to SIGKILL
  stage,            \* where the interceptor of each call is
  handler,          \* what its handler goroutine does, and how it ended
  cause,            \* why the call's context was canceled
  timer,            \* ticks left of its backstop
  answer,           \* what the caller gets
  excuse            \* history: the cause when the handler failed

drainVars == <<draining, alive, grace, stage, handler, cause, timer, answer, excuse>>

DrainTypeOK ==
  /\ draining \in BOOLEAN /\ alive \in BOOLEAN /\ grace \in 0 .. Grace
  /\ stage \in [Calls -> {"new", "arrived", "select", "backstop", "done"}]
  /\ handler \in [Calls -> {"none", "running", "ok", "error"}]
  /\ cause \in [Calls -> {"none", "draining", "client"}]
  /\ timer \in [Calls -> 0 .. DrainBackstop]
  /\ answer \in [Calls -> {"none", "requeue", "ok", "error", "severed"}]
  /\ excuse \in [Calls -> {"none", "draining", "client"}]

DrainInit ==
  /\ draining = FALSE /\ alive = TRUE /\ grace = Grace
  /\ stage = [c \in Calls |-> "new"] /\ handler = [c \in Calls |-> "none"]
  /\ cause = [c \in Calls |-> "none"] /\ timer = [c \in Calls |-> DrainBackstop]
  /\ answer = [c \in Calls |-> "none"] /\ excuse = [c \in Calls |-> "none"]

-----------------------------------------------------------------------------
(* The interceptor of call c.                                              *)

AnswerCall(c, what) ==
  /\ answer' = [answer EXCEPT ![c] = what]
  /\ stage' = [stage EXCEPT ![c] = "done"]

\* A call that arrives while draining is answered at once.
CallArrives(c) ==
  /\ alive /\ stage[c] = "new"
  /\ IF draining THEN AnswerCall(c, "requeue")
     ELSE stage' = [stage EXCEPT ![c] = "arrived"] /\ UNCHANGED answer
  /\ UNCHANGED <<draining, alive, grace, handler, cause, timer, excuse>>

\* The context is watched and the handler starts.
Begin(c) ==
  /\ alive /\ stage[c] = "arrived"
  /\ stage' = [stage EXCEPT ![c] = "select"]
  /\ handler' = [handler EXCEPT ![c] = "running"]
  /\ UNCHANGED <<draining, alive, grace, cause, timer, answer, excuse>>

Returned(c) == handler[c] \in {"ok", "error"}

\* Mutated form of finish: the handler's error is answered as it is.
finishAsIs(c) == AnswerCall(c, handler[c])

\* The handler's own outcome, unless it failed and drain canceled its context.
finish(c) ==
  AnswerCall(c, IF handler[c] = "error" /\ cause[c] = "draining" THEN "requeue"
                ELSE handler[c])

\* The interceptor waits for the handler or for drain.
Select(c) ==
  /\ alive /\ stage[c] = "select"
  /\ \/ Returned(c) /\ finish(c)
     \/ draining /\ stage' = [stage EXCEPT ![c] = "backstop"] /\ UNCHANGED answer
  /\ UNCHANGED <<draining, alive, grace, handler, cause, timer, excuse>>

\* Drain has begun: for the handler, or for the backstop timer.
Backstop(c) ==
  /\ alive /\ stage[c] = "backstop"
  /\ \/ Returned(c) /\ finish(c)
     \/ timer[c] = 0 /\ AnswerCall(c, "requeue")
  /\ UNCHANGED <<draining, alive, grace, handler, cause, timer, excuse>>

InterceptorNext(c) == CallArrives(c) \/ Begin(c) \/ Select(c) \/ Backstop(c)

-----------------------------------------------------------------------------
(* Everything around it.                                                   *)

\* The context is canceled, by AfterFunc or by the client, once and only as
\* long as the interceptor has not answered.
CancelCall(c, why) ==
  /\ alive /\ stage[c] \in {"select", "backstop"} /\ cause[c] = "none"
  /\ why = "draining" => draining
  /\ cause' = [cause EXCEPT ![c] = why]
  /\ UNCHANGED <<draining, alive, grace, stage, handler, timer, answer, excuse>>

\* A handler ends when it likes, whether or not it watches its context; a panic
\* is an error too.
HandlerEnds(c) ==
  /\ alive /\ handler[c] = "running"
  /\ \E outcome \in {"ok", "error"} :
       /\ handler' = [handler EXCEPT ![c] = outcome]
       /\ excuse' = [excuse EXCEPT ![c] = IF outcome = "error" THEN cause[c] ELSE @]
  /\ UNCHANGED <<draining, alive, grace, stage, cause, timer, answer>>

Terminate ==
  /\ ~draining /\ draining' = TRUE
  /\ UNCHANGED <<alive, grace, stage, handler, cause, timer, answer, excuse>>

\* While the server drains, an interceptor that can go on does so before the
\* clock ticks.
Runnable(c) ==
  \/ stage[c] \in {"arrived", "select"}
  \/ stage[c] = "backstop" /\ (Returned(c) \/ timer[c] = 0)

DrainTick ==
  /\ draining /\ alive /\ grace > 0 /\ \A c \in Calls : ~Runnable(c)
  /\ grace' = grace - 1
  /\ timer' = [c \in Calls |-> IF stage[c] = "backstop" THEN timer[c] - 1 ELSE timer[c]]
  /\ UNCHANGED <<draining, alive, stage, handler, cause, answer, excuse>>

\* SIGKILL severs the calls that were not answered.
Kill ==
  /\ alive /\ grace = 0 /\ alive' = FALSE
  /\ answer' = [c \in Calls |-> IF stage[c] \in {"arrived", "select", "backstop"}
                                  THEN "severed" ELSE answer[c]]
  /\ UNCHANGED <<draining, grace, stage, handler, cause, timer, excuse>>

DrainNext ==
  \/ \E c \in Calls : InterceptorNext(c) \/ HandlerEnds(c)
  \/ \E c \in Calls, why \in {"draining", "client"} : CancelCall(c, why)
  \/ Terminate \/ DrainTick \/ Kill

DrainSpec == DrainInit /\ [][DrainNext]_drainVars

-----------------------------------------------------------------------------

\* No call is severed by the platform's kill, however late it came and however
\* little its handler cares about its context.
AnsweredInTime == \A c \in Calls : answer[c] # "severed"

\* A handler that succeeds while the server drains keeps its response, unless
\* its backstop had run out ("keeps its real response").
SuccessKept ==
  \A c \in Calls :
    answer[c] = "requeue" /\ handler[c] = "ok" => timer[c] = 0

\* A failure that the drain's cancellation brought about costs the key nothing
\* ("must not consume the key's dead-letter budget").
ShutdownIsFree == \A c \in Calls : answer[c] = "error" => excuse[c] # "draining"

\* A handler that failed before the cancellation landed keeps its outcome
\* ("failed on its own terms before the cancellation landed").
\* The code does not keep it: README, section 7.
OwnFailureKept ==
  [][\A c \in Calls :
       /\ handler[c] = "error" /\ excuse[c] # "draining"
       /\ answer[c] = "none" /\ answer'[c] = "requeue"
       => timer[c] = 0]_drainVars

\* A drain is safe for every call: answered in time, a success kept, and no key
\* charged for the shutdown.  OwnFailureKept is not part of it.
DrainSafe == AnsweredInTime /\ SuccessKept /\ ShutdownIsFree

=============================================================================
