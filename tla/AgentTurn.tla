------------------------------ MODULE AgentTurn ------------------------------
(***************************************************************************)
(* What the three agent executors share (src/agents/executor/internal/     *)
(* execshared and src/agents/executor/retry): one request to the model     *)
(* under RetryWithBackoff, and the tool calls of its answer, run by a      *)
(* bounded pool with the submit and ask-a-friend calls held out until the  *)
(* pool has drained.                                                       *)
(*                                                                         *)
(* A conversation is kept as what its requests can be judged by: how many  *)
(* of its tool calls have no result yet, and whether it ever told the      *)
(* model that a submission was accepted.                                   *)
(***************************************************************************)
EXTENDS Integers, Sequences, FiniteSets

CONSTANTS
  MaxTurns,             \* the configured turn budget
  ToolCallConcurrency,  \* calls of one turn that run at once
  MaxRetries,           \* retries of one request
  ToolTurns             \* the tool calls the model may answer with

\* What a call names: a registered tool, a registered tool that the submit
\* tool is deferred until, no tool at all, or one of the two held-out tools.
CallKinds == {"tool", "gate", "unknown", "submit", "ask"}

ASSUME AgentAssumption ==
  /\ {MaxTurns, ToolCallConcurrency} \subseteq Nat \ {0}
  /\ MaxRetries \in Nat
  /\ ToolTurns \subseteq Seq(CallKinds) \ {<<>>}

VARIABLES
  at,        \* "seed", "begin", "send", "read", "dispatch", "parked" or "done"
  heldOutTools, \* the held-out tools the executor was given
  reply,     \* the model's answer that is being read
  turn,      \* turns begun so far, across pauses
  attempt,   \* attempts of the request that is out
  slot,      \* what became of each call of the turn
  open,      \* tool calls of the conversation without a result
  told,      \* whether the conversation says a submission was accepted
  dirty,     \* history: a tool ran after the last validation
  ended      \* how the run ended

turnVars == <<at, heldOutTools, reply, turn, attempt, slot, open, told, dirty, ended>>

\* The answers of a model: tool calls, text, or nothing usable.
Says(kind) == [kind |-> kind, calls |-> <<>>]
NoReply    == Says("none")
Replies    == {[kind |-> "calls", calls |-> c] : c \in ToolTurns}
                \cup {Says("text"), Says("empty")}

\* "zero" is an accepted submission whose result is the zero value, "final" a
\* regular tool that wrote a result through its pointer.
Slots == {"waiting", "running", "result", "final", "committed", "zero",
          "rejected", "error", "placeholder"}

Endings == {"none", "result", "submitted", "failed", "requeued", "exhausted", "drifted",
            "unparked", "emptied"}

TurnTypeOK ==
  /\ at \in {"seed", "begin", "send", "read", "dispatch", "parked", "done"}
  /\ heldOutTools \subseteq {"submit", "ask"}
  /\ reply.kind \in {"none", "calls", "text", "empty", "blocked", "truncated"}
  /\ turn \in Nat /\ attempt \in 0 .. MaxRetries
  /\ slot \in Seq(Slots) /\ Len(slot) = Len(reply.calls)
  /\ open \in Int /\ told \in BOOLEAN /\ dirty \in BOOLEAN
  /\ ended \in Endings /\ (at = "done") = (ended # "none")

TurnInit ==
  /\ reply = NoReply /\ turn = 0 /\ attempt = 0 /\ slot = <<>>
  /\ open = 0 /\ told = FALSE /\ dirty = FALSE /\ ended = "none"

GoTo(place) == at' = place /\ reply' = NoReply /\ slot' = <<>>

End(how) == at' = "done" /\ ended' = how

\* A seed tool call is run before the first request and may end the run.
Seed ==
  /\ at = "seed"
  /\ \/ at' = "begin" /\ UNCHANGED ended
     \/ \E how \in {"result", "submitted", "failed"} : End(how)
  /\ UNCHANGED <<heldOutTools, reply, turn, attempt, slot, open, told, dirty>>

-----------------------------------------------------------------------------
(* RetryWithBackoff and RequeueIfRetryable.                                *)

\* The attempt fails in a way worth another one.
Retry ==
  /\ at = "send" /\ attempt < MaxRetries
  /\ attempt' = attempt + 1
  /\ UNCHANGED <<at, heldOutTools, reply, turn, slot, open, told, dirty, ended>>

\* Out of retries, the key goes back to the queue; any other failure, a
\* canceled context among them, ends the run.
SendFails ==
  /\ at = "send"
  /\ \/ attempt = MaxRetries /\ End("requeued")
     \/ End("failed")
  /\ UNCHANGED <<heldOutTools, reply, turn, attempt, slot, open, told, dirty>>

\* The model answers with r.
Receive(r) ==
  /\ at = "send"
  /\ at' = "read" /\ reply' = r /\ attempt' = 0
  /\ slot' = [i \in DOMAIN r.calls |-> "waiting"]
  /\ UNCHANGED <<heldOutTools, turn, open, told, dirty, ended>>

-----------------------------------------------------------------------------
(* DispatchToolCalls.                                                      *)

HeldOut(i) == reply.calls[i] \in heldOutTools
Pooled == {i \in DOMAIN slot : ~HeldOut(i)}
Over(i) == slot[i] \notin {"waiting", "running"}
Running == {i \in DOMAIN slot : slot[i] = "running"}

Put(i, what) == slot' = [slot EXCEPT ![i] = what]

\* The pool takes its calls in order and at most so many at once.
StartCall(i) ==
  /\ at = "dispatch" /\ i \in Pooled /\ slot[i] = "waiting"
  /\ \A j \in Pooled : j < i => slot[j] # "waiting"
  /\ Cardinality(Running) < ToolCallConcurrency
  /\ Put(i, "running")
  /\ UNCHANGED <<at, heldOutTools, reply, turn, attempt, open, told, dirty, ended>>

Registered(i) == reply.calls[i] \in {"tool", "gate"}

\* A handler ends, with a result of the run or without; a tool that is not
\* registered is answered with an error for the model.
EndCall(i) ==
  /\ at = "dispatch" /\ slot[i] = "running"
  /\ Put(i, "result") \/ (Registered(i) /\ Put(i, "final"))
  /\ dirty' = (dirty \/ Registered(i))
  /\ UNCHANGED <<at, heldOutTools, reply, turn, attempt, open, told, ended>>

\* Mutated forms of Turn: a held-out call is dispatched like any other; it
\* waits for every other call.
TurnAnyTime(i) == at = "dispatch" /\ HeldOut(i) /\ slot[i] = "waiting"
TurnLast(i) ==
  /\ at = "dispatch" /\ HeldOut(i) /\ slot[i] = "waiting"
  /\ \A j \in DOMAIN slot \ {i} : Over(j)

\* The held-out calls, one after the other, once the pool has drained.
Turn(i) ==
  /\ at = "dispatch" /\ HeldOut(i) /\ slot[i] = "waiting"
  /\ \A j \in Pooled : Over(j)
  /\ \A j \in 1 .. i - 1 : HeldOut(j) => Over(j)

\* GateSubmission: a submission that does not parse or that a validator finds
\* fault with is answered and changes nothing; an accepted one is committed; a
\* validator that fails ends the run.
Submit(i) ==
  /\ Turn(i) /\ reply.calls[i] = "submit"
  /\ \E verdict \in {"committed", "zero", "rejected", "error"} : Put(i, verdict)
  /\ dirty' = FALSE
  /\ UNCHANGED <<at, heldOutTools, reply, turn, attempt, open, told, ended>>

\* The call to a friend is given a placeholder.
Ask(i) ==
  /\ Turn(i) /\ reply.calls[i] = "ask"
  /\ Put(i, "placeholder")
  /\ UNCHANGED <<at, heldOutTools, reply, turn, attempt, open, told, dirty, ended>>

Dispatch ==
  /\ at = "read" /\ reply.kind = "calls" /\ at' = "dispatch"
  /\ UNCHANGED <<heldOutTools, reply, attempt, slot, open, told, dirty, ended>>

RunCalls == \E i \in DOMAIN slot : StartCall(i) \/ EndCall(i) \/ Submit(i) \/ Ask(i)

Dispatched == at = "dispatch" /\ \A i \in DOMAIN slot : Over(i)

\* Mutated form of Final: only a result that is not the zero value counts.
FinalIfNonZero(i) == slot[i] \in {"final", "committed"}

\* A call that ends the run with a result.
Final(i) == slot[i] \in {"final", "committed", "zero"}

Accepted(i) == slot[i] \in {"committed", "zero"}

\* The outcomes that end the turn's reading, and the first of them in the order
\* of the model's calls.
Stops == {i \in DOMAIN slot : slot[i] = "error" \/ Final(i)}
First == CHOOSE i \in Stops : \A j \in Stops : i <= j

\* How a run ends with the result of call i.
ResultOf(i) == End(IF Accepted(i) THEN "submitted" ELSE "result")

\* The calls of the turn and their results S are added to the conversation.
AddToHistory(S) ==
  /\ open' = open + Len(slot) - Cardinality(S)
  /\ told' = (told \/ \E i \in S : Accepted(i))

-----------------------------------------------------------------------------

\* Every request is one the provider accepts: each tool call of the
\* conversation has its result, also after a pause (checkpoint/lifecycle.go:
\* "so no provider request ever carries an unanswered tool call").
RequestsPaired == at = "send" => open = 0

\* A run goes on only as long as it has not told the model that a submission
\* was accepted ("so the model is never told "submitted successfully" on a run
\* that keeps going").
NeverToldAndGoesOn == at \in {"send", "parked"} => ~told

\* What the validators accepted is what the run leaves behind: no tool of the
\* same turn, or of a later one, ran after them (dispatch.go: "they must observe
\* the finished state rather than race the handlers still producing it").
AcceptedAsLeft == ended = "submitted" => ~dirty

=============================================================================
