--------------------------- MODULE ClaudeExecutor ---------------------------
(***************************************************************************)
(* The conversation loop on the Anthropic API (src/agents/executor/        *)
(* claudeexecutor): a fresh run and its resumption after a pause share it. *)
(* On top of the shared turn it keeps the turn budget, the forced choice   *)
(* of the submit tool, and the cache markers of a request, of which the    *)
(* API takes four.                                                         *)
(*                                                                         *)
(* Content blocks are numbered in the order they joined the conversation;  *)
(* what matters of them is which carry a marker.                           *)
(***************************************************************************)
EXTENDS AgentTurn

CONSTANTS
  Budgets,       \* the turn budgets an operator may set while a run is parked
  NudgeAfter     \* maxToolCallsBeforeFinalize; zero is never

ASSUME ClaudeAssumption == Budgets \subseteq Nat \ {0} /\ NudgeAfter \in Nat

VARIABLES
  maxTurns,      \* the budget the live executor is configured with
  turnBudget,    \* turns the current run may still begin
  force,         \* "off", "first", or until which tool it is deferred: "gate"
  choice,        \* tool_choice of the next request
  liveToolCalls, finalizeNudged, deferredGateResolved,
  static,        \* markers on the tools and the system prompt
  marked,        \* blocks of the messages that carry a marker
  positions,     \* the markers that the tail tracker knows of, oldest first
  newest,        \* the last block
  env,           \* the envelope of a parked run
  allowed        \* history: the largest budget it ever ran under

claudeVars == <<maxTurns, turnBudget, force, choice, liveToolCalls, finalizeNudged,
                deferredGateResolved, static, marked, positions, newest, env, allowed>>
forcing == <<choice, liveToolCalls, finalizeNudged, deferredGateResolved>>
caching == <<static, marked, positions, newest>>
budgets == <<maxTurns, turnBudget, allowed>>

maxCacheBreakpoints == 4
tailBreakpointLimit == 2

AtMost(a, b) == IF a < b THEN a ELSE b

NoEnvelope == [remaining |-> 0, pending |-> 0]

ClaudeTypeOK ==
  /\ maxTurns \in Nat /\ turnBudget \in Nat /\ allowed \in Nat
  /\ force \in {"off", "first", "gate"} /\ choice \in {"auto", "submit"}
  /\ liveToolCalls \in 0 .. NudgeAfter
  /\ finalizeNudged \in BOOLEAN /\ deferredGateResolved \in BOOLEAN
  /\ static \in 0 .. maxCacheBreakpoints
  /\ marked \subseteq 0 .. newest /\ positions \in Seq(0 .. newest) /\ newest \in Nat
  /\ env \in [remaining : Nat, pending : Nat]

-----------------------------------------------------------------------------
(* The request before its first turn.                                      *)

\* The markers of the static prefix, when the caller brings some on its tools,
\* the last one perhaps among them: one on the last tool and one on the system
\* prompt, as far as there is room.
buildStaticParams(callers, onLast, system) ==
  LET tools == IF callers < maxCacheBreakpoints /\ ~onLast THEN callers + 1 ELSE callers
  IN  IF system /\ tools < maxCacheBreakpoints THEN tools + 1 ELSE tools

\* The first user block is marked when that was asked for and there is room,
\* and the submit tool is forced at once unless it is deferred; a suffix is a
\* block of its own.
assembleParams ==
  /\ \E callers \in 0 .. maxCacheBreakpoints, onLast, system \in BOOLEAN :
       /\ onLast => callers > 0
       /\ static = buildStaticParams(callers, onLast, system)
  /\ \E first, suffix \in BOOLEAN :
       /\ marked = IF first /\ static < maxCacheBreakpoints THEN {0} ELSE {}
       /\ newest = IF suffix THEN 1 ELSE 0
  /\ choice = IF "submit" \in heldOutTools /\ force = "first" THEN "submit" ELSE "auto"

seedFirstUserTail == IF marked = {0} THEN <<0>> ELSE <<>>

NewRun ==
  /\ liveToolCalls = 0 /\ finalizeNudged = FALSE /\ deferredGateResolved = FALSE

ClaudeInit ==
  /\ TurnInit
  /\ at \in {"seed", "begin"} /\ heldOutTools \in SUBSET {"submit", "ask"}
  /\ force \in {"off", "first", "gate"}
  /\ assembleParams /\ positions = seedFirstUserTail
  /\ maxTurns = MaxTurns /\ turnBudget = MaxTurns /\ allowed = MaxTurns
  /\ NewRun /\ env = NoEnvelope

-----------------------------------------------------------------------------
(* One turn.                                                               *)

\* The markers the tracker may keep.
tailLimit == AtMost(tailBreakpointLimit, maxCacheBreakpoints - static)

Kept(s) == SubSeq(s, Len(s) - AtMost(Len(s), tailLimit) + 1, Len(s))

\* The tail marker moves to the newest block; the oldest ones are cleared.
advance ==
  IF tailLimit <= 0 \/ (positions # <<>> /\ positions[Len(positions)] = newest)
    THEN UNCHANGED caching
    ELSE LET all  == Append(positions, newest)
             kept == Kept(all)
             old  == {all[i] : i \in 1 .. Len(all) - Len(kept)}
         IN  /\ marked' = (marked \cup {newest}) \ old
             /\ positions' = kept
             /\ UNCHANGED <<static, newest>>

BeginTurn ==
  /\ at = "begin" /\ turnBudget > 0
  /\ turnBudget' = turnBudget - 1 /\ turn' = turn + 1
  /\ at' = "send" /\ advance
  /\ UNCHANGED <<heldOutTools, reply, attempt, slot, open, told, dirty, ended,
                 maxTurns, allowed, force, forcing, env>>

Exhaust ==
  /\ at = "begin" /\ turnBudget = 0
  /\ End("exhausted")
  /\ UNCHANGED <<heldOutTools, reply, turn, attempt, slot, open, told, dirty, claudeVars>>

\* A forced model calls the submit tool.
Obeys(r) == choice = "submit" => \A i \in DOMAIN r.calls : r.calls[i] = "submit"

Request ==
  /\ Retry \/ SendFails \/ (\E r \in Replies : Obeys(r) /\ Receive(r))
  /\ UNCHANGED claudeVars

Count(kinds) == Cardinality({i \in DOMAIN reply.calls : reply.calls[i] \in kinds})

\* The calls are counted, a forced choice is lifted, and they are dispatched.
ReadCalls ==
  /\ Dispatch /\ UNCHANGED turn
  /\ choice' = "auto"
  /\ liveToolCalls' = AtMost(liveToolCalls + Count(CallKinds \ ({"submit"} \cap heldOutTools)),
                             NudgeAfter)
  /\ deferredGateResolved' = (deferredGateResolved \/ (force = "gate" /\ Count({"gate"}) > 0))
  /\ UNCHANGED <<budgets, force, finalizeNudged, caching, env>>

\* Text is no result when there is a submit tool: the model is sent back to it.
Redirect ==
  /\ at = "read" /\ reply.kind = "text" /\ "submit" \in heldOutTools
  /\ GoTo("begin") /\ choice' = "submit" /\ newest' = newest + 1
  /\ UNCHANGED <<heldOutTools, turn, attempt, open, told, dirty, ended, budgets, force,
                 liveToolCalls, finalizeNudged, deferredGateResolved,
                 static, marked, positions, env>>

\* Text that parses is the result; anything else ends the run.
ReadRest ==
  /\ at = "read"
  /\ \/ reply.kind = "text" /\ "submit" \notin heldOutTools
        /\ \E how \in {"result", "failed"} : End(how)
     \/ reply.kind = "empty" /\ End("failed")
  /\ UNCHANGED <<heldOutTools, reply, turn, attempt, slot, open, told, dirty, claudeVars>>

\* The first outcome that stops the turn ends the run.
Stop ==
  /\ Dispatched /\ Stops # {}
  /\ IF slot[First] = "error" THEN End("failed") ELSE ResultOf(First)
  /\ UNCHANGED <<heldOutTools, reply, turn, attempt, slot, open, told, dirty, claudeVars>>

Asks == {i \in DOMAIN slot : slot[i] = "placeholder"}

\* After enough tool calls the model is asked once to finish, and forced to;
\* it is also forced once the tool that this was deferred until was called.
shouldNudgeFinalize ==
  /\ NudgeAfter > 0 /\ ~finalizeNudged /\ "submit" \in heldOutTools
  /\ liveToolCalls >= NudgeAfter

GoOn ==
  /\ Dispatched /\ Stops = {} /\ Asks = {}
  /\ AddToHistory(DOMAIN slot)
  /\ finalizeNudged' = (finalizeNudged \/ shouldNudgeFinalize)
  /\ choice' = IF shouldNudgeFinalize
                  \/ ("submit" \in heldOutTools /\ deferredGateResolved)
                 THEN "submit" ELSE choice
  /\ GoTo("begin") /\ newest' = newest + 1
  /\ UNCHANGED <<heldOutTools, turn, attempt, dirty, ended, budgets, force, liveToolCalls,
                 deferredGateResolved, static, marked, positions, env>>

-----------------------------------------------------------------------------
(* Pausing and resuming.                                                   *)

\* Mutated form of Unanswered: the placeholder is taken for a result.
UnansweredNone == {}

\* The calls whose results are left out of the conversation.
Unanswered == Asks

remainingTurns == maxTurns - AtMost(turn, maxTurns)

\* Validate: an envelope that could never wake is refused.
CanPark == remainingTurns > 0

\* The last of the questions goes into the envelope.
Suspend ==
  /\ Dispatched /\ Stops = {} /\ Asks # {}
  /\ AddToHistory(DOMAIN slot \ Unanswered)
  /\ IF CanPark
       THEN /\ GoTo("parked") /\ UNCHANGED ended
            /\ env' = [remaining |-> remainingTurns, pending |-> 1]
       ELSE /\ End("unparked") /\ UNCHANGED <<reply, slot, env>>
  /\ newest' = newest + 1
  /\ UNCHANGED <<heldOutTools, turn, attempt, dirty, budgets, force, forcing, static, marked,
                 positions>>

\* A rollout between park and wake: another turn budget, which the digest does
\* not see.
Reconfigure ==
  /\ at = "parked"
  /\ maxTurns' \in Budgets \ {maxTurns}
  /\ UNCHANGED <<turnVars, turnBudget, allowed, force, forcing, caching, env>>

\* stripMessageCacheControl.
Stripped == {}

\* Mutated form of resumeBudget: the live executor's budget is not asked.
resumeBudgetUncapped == env.remaining

resumeBudget == AtMost(env.remaining, maxTurns)

\* The envelope is replayed with an answer for each pending call, or a
\* placeholder for one: ValidateForResume found no drift.  What the run had
\* counted is not in the envelope.
Resume ==
  /\ at = "parked" /\ env.remaining > 0
  /\ GoTo("begin")
  /\ open' = open - env.pending
  /\ marked' = Stripped /\ positions' = <<>> /\ newest' = newest + 1
  /\ turnBudget' = resumeBudget
  /\ allowed' = IF maxTurns > allowed THEN maxTurns ELSE allowed
  /\ liveToolCalls' = 0 /\ finalizeNudged' = FALSE /\ deferredGateResolved' = FALSE
  /\ env' = NoEnvelope
  /\ UNCHANGED <<heldOutTools, turn, attempt, told, dirty, ended, maxTurns, force, choice, static>>

\* Model, provider or static prefix changed while the run was parked.
Drift ==
  /\ at = "parked" /\ End("drifted")
  /\ UNCHANGED <<heldOutTools, reply, turn, attempt, slot, open, told, dirty, claudeVars>>

ClaudeNext ==
  \/ (Seed \/ RunCalls) /\ UNCHANGED claudeVars
  \/ BeginTurn \/ Exhaust \/ Request
  \/ ReadCalls \/ Redirect \/ ReadRest \/ Stop \/ GoOn
  \/ Suspend \/ Reconfigure \/ Resume \/ Drift

-----------------------------------------------------------------------------

\* The API takes four cache markers and the executor's own never exceed that,
\* whatever the caller brought, across rotation of the tail and across a pause
\* (resume.go: "exceeding the limit and drawing a non-retryable 400").
MarkersBounded ==
  at = "send" => static + Cardinality(marked) <= maxCacheBreakpoints

\* A conversation does not outlive its turn budget by pausing, whatever budget
\* the executor was given meanwhile (types.go: "so a conversation cannot loop
\* forever by suspending and waking").
TurnsBounded == turn <= allowed

\* A resumed run begins no more turns than the live executor allows ("without
\* the cap, an envelope parked under a larger budget ... would resume with more
\* turns than the live configuration allows").
ResumedWithinBudget == at = "begin" => turnBudget <= maxTurns

\* What is parked can wake (lifecycle.go: "the two gates must agree").
ParkedCanWake == at = "parked" => env.remaining > 0 /\ env.pending > 0

\* Pausing is sound: it buys no turns, and what is parked can wake.
PausesSound == TurnsBounded /\ ResumedWithinBudget /\ ParkedCanWake

=============================================================================
