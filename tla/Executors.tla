------------------------------ MODULE Executors ------------------------------
(***************************************************************************)
(* One agent run, on any of the three providers: the conversation loop on  *)
(* Gemini (src/agents/executor/googleexecutor), the one on an              *)
(* OpenAI-compatible API (src/agents/executor/openaiexecutor), and the     *)
(* choice between them and ClaudeExecutor.                                 *)
(***************************************************************************)
EXTENDS ClaudeExecutor

-----------------------------------------------------------------------------
(* Gemini.  The chat holds the conversation, and each turn reads the       *)
(* answer to the request that the turn before it sent.  Answers that are   *)
(* blocked, cut off or empty have branches of their own.                   *)

CONSTANT maxEmptyResponseRetries

ASSUME GoogleAssumption == maxEmptyResponseRetries \in Nat

VARIABLE emptyTurns  \* answers without text or call so far

\* The answer that is one too many ends the run.
GoogleTypeOK == emptyTurns \in 0 .. maxEmptyResponseRetries + 1

\* Blocked for safety or recitation, or without a candidate; cut off at the
\* token limit, or with a malformed call.
GoogleReplies == Replies \cup {Says("blocked"), Says("truncated")}

GoogleInit ==
  /\ TurnInit
  /\ at \in {"seed", "send"} /\ heldOutTools \in SUBSET {"submit"}
  /\ emptyTurns = 0

\* A seed that does not end the run is followed by the first request.
GoogleSeed == Seed /\ UNCHANGED emptyTurns

FirstRequest ==
  /\ at = "begin" /\ GoTo("send")
  /\ UNCHANGED <<heldOutTools, turn, attempt, open, told, dirty, ended, emptyTurns>>

\* sendWithRetry.
sendWithRetry ==
  /\ Retry \/ SendFails \/ \E r \in GoogleReplies : Receive(r)
  /\ UNCHANGED emptyTurns

\* An answer is read in a turn, as long as there are turns.
Reading == at = "read" /\ turn < MaxTurns /\ turn' = turn + 1

\* The last answer stays unread.
GoogleExhaust ==
  /\ at = "read" /\ turn = MaxTurns
  /\ End("exhausted")
  /\ UNCHANGED <<heldOutTools, reply, turn, attempt, slot, open, told, dirty, emptyTurns>>

\* A blocked answer is final; a cut-off one is asked for again.
ReadUnusable ==
  /\ Reading
  /\ \/ reply.kind = "blocked" /\ End("failed") /\ UNCHANGED <<reply, slot>>
     \/ reply.kind = "truncated" /\ GoTo("send") /\ UNCHANGED ended
  /\ UNCHANGED <<heldOutTools, attempt, open, told, dirty, emptyTurns>>

\* Mutated form of retryDegenerateTurn: the count is compared before it is
\* raised.
retryDegenerateTurnLate ==
  /\ Reading /\ reply.kind = "empty"
  /\ emptyTurns' = emptyTurns + 1
  /\ IF emptyTurns > maxEmptyResponseRetries
       THEN End("emptied") /\ UNCHANGED <<reply, slot>>
       ELSE GoTo("send") /\ UNCHANGED ended
  /\ UNCHANGED <<heldOutTools, attempt, open, told, dirty>>

\* An empty answer is asked for again a few times, counted over the whole run.
retryDegenerateTurn ==
  /\ Reading /\ reply.kind = "empty"
  /\ emptyTurns' = emptyTurns + 1
  /\ IF emptyTurns' > maxEmptyResponseRetries
       THEN End("emptied") /\ UNCHANGED <<reply, slot>>
       ELSE GoTo("send") /\ UNCHANGED ended
  /\ UNCHANGED <<heldOutTools, attempt, open, told, dirty>>

ReadFunctionCalls == Reading /\ Dispatch /\ UNCHANGED emptyTurns

\* Text is sent back to the submit tool, or else parsed.
ReadAnswer ==
  /\ Reading /\ reply.kind = "text"
  /\ IF "submit" \in heldOutTools
       THEN GoTo("send") /\ UNCHANGED ended
       ELSE (\E how \in {"result", "failed"} : End(how)) /\ UNCHANGED <<reply, slot>>
  /\ UNCHANGED <<heldOutTools, attempt, open, told, dirty, emptyTurns>>

\* The first outcome that stops the turn ends the run; without one the results
\* are sent.
SendResponses ==
  /\ Dispatched
  /\ IF Stops # {}
       THEN /\ IF slot[First] = "error" THEN End("failed") ELSE ResultOf(First)
            /\ UNCHANGED <<reply, slot, open, told>>
       ELSE AddToHistory(DOMAIN slot) /\ GoTo("send") /\ UNCHANGED ended
  /\ UNCHANGED <<heldOutTools, turn, attempt, dirty, emptyTurns>>

GoogleNext ==
  \/ GoogleSeed \/ FirstRequest \/ sendWithRetry
  \/ ReadUnusable \/ retryDegenerateTurn \/ ReadFunctionCalls \/ ReadAnswer
  \/ RunCalls /\ UNCHANGED emptyTurns
  \/ SendResponses \/ GoogleExhaust

-----------------------------------------------------------------------------
(* An OpenAI-compatible API.                                               *)

OpenAIInit == TurnInit /\ at = "begin" /\ heldOutTools \in SUBSET {"submit"}

\* A turn begins with a request, as long as there are turns.
NextTurn ==
  /\ at = "begin"
  /\ IF turn < MaxTurns
       THEN turn' = turn + 1 /\ GoTo("send") /\ UNCHANGED ended
       ELSE End("exhausted") /\ UNCHANGED <<turn, reply, slot>>
  /\ UNCHANGED <<heldOutTools, attempt, open, told, dirty>>

Completion == Retry \/ SendFails \/ \E r \in Replies : Receive(r)

\* Calls are dispatched, text is sent back to the submit tool or parsed, and
\* an answer without either ends the run.
ReadChoice ==
  \/ Dispatch /\ UNCHANGED turn
  \/ /\ at = "read" /\ reply.kind = "text" /\ "submit" \in heldOutTools
     /\ GoTo("begin") /\ UNCHANGED <<heldOutTools, turn, attempt, open, told, dirty, ended>>
  \/ /\ at = "read"
     /\ \/ reply.kind = "text" /\ "submit" \notin heldOutTools
           /\ \E how \in {"result", "failed"} : End(how)
        \/ reply.kind = "empty" /\ End("failed")
     /\ UNCHANGED <<heldOutTools, reply, turn, attempt, slot, open, told, dirty>>

\* Any failed call ends the run, whatever came before it; otherwise every
\* result joins the conversation before the first final one ends it.
ReadResults ==
  /\ Dispatched
  /\ IF \E i \in DOMAIN slot : slot[i] = "error"
       THEN End("failed") /\ UNCHANGED <<reply, slot, open, told>>
       ELSE /\ AddToHistory(DOMAIN slot)
            /\ IF Stops # {} THEN ResultOf(First) /\ UNCHANGED <<reply, slot>>
               ELSE GoTo("begin") /\ UNCHANGED ended
  /\ UNCHANGED <<heldOutTools, turn, attempt, dirty>>

OpenAINext == NextTurn \/ Completion \/ ReadChoice \/ RunCalls \/ ReadResults

-----------------------------------------------------------------------------
(* A run on one of the three.                                              *)

VARIABLE provider

vars == <<provider, turnVars, claudeVars, emptyTurns>>

\* What the other providers' executors keep is left at rest.
ClaudeIdle ==
  /\ maxTurns = MaxTurns /\ turnBudget = MaxTurns /\ allowed = MaxTurns
  /\ force = "off" /\ choice = "auto" /\ NewRun
  /\ static = 0 /\ marked = {} /\ positions = <<>> /\ newest = 0 /\ env = NoEnvelope

GoogleIdle == emptyTurns = 0

Init ==
  \/ provider = "anthropic" /\ ClaudeInit /\ GoogleIdle
  \/ provider = "google" /\ GoogleInit /\ ClaudeIdle
  \/ provider = "openai" /\ OpenAIInit /\ ClaudeIdle /\ GoogleIdle

Next ==
  /\ UNCHANGED provider
  /\ \/ provider = "anthropic" /\ ClaudeNext /\ UNCHANGED emptyTurns
     \/ provider = "google" /\ GoogleNext /\ UNCHANGED claudeVars
     \/ provider = "openai" /\ OpenAINext /\ UNCHANGED <<claudeVars, emptyTurns>>

Spec == Init /\ [][Next]_vars

Wake ==
  /\ provider = "anthropic" /\ UNCHANGED <<provider, emptyTurns>>
  /\ Resume \/ Drift

\* A request is answered or fails, handlers return, and a parked run is woken.
Fairness == WF_vars(Next) /\ WF_vars(Wake)

FairSpec == Spec /\ Fairness

TypeOK ==
  /\ provider \in {"anthropic", "google", "openai"}
  /\ TurnTypeOK /\ ClaudeTypeOK /\ GoogleTypeOK

-----------------------------------------------------------------------------

\* Every run ends, whatever the model answers and however often it pauses.
EveryRunEnds == <>(at = "done")

=============================================================================
