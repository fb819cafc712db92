------------------------- MODULE AgentService_proofs -------------------------
(***************************************************************************)
(* Proofs about the parts of AgentService, and that each holds of it: the  *)
(* executors (a run of any turn budget, pool and retries, whatever the     *)
(* model answers), the finding tools of a run, the reviews of a path, the  *)
(* file tools of a turn, the trace of a run, whatever is read in pages and *)
(* the issues of the findings of a path.                                   *)
(***************************************************************************)
EXTENDS AgentService, FileTools_proofs

\* The slots of a turn: a held-out call is never among those that run, and from
\* the first acceptance on no other tool runs.
SlotsKept ==
  /\ \E n \in Nat : slot \in [1 .. n -> Slots]
  /\ at = "read" => \A i \in DOMAIN slot : slot[i] = "waiting"
  /\ at = "dispatch" =>
       \A i \in DOMAIN slot :
         /\ slot[i] = "running" => ~HeldOut(i)
         /\ Accepted(i) => ~dirty /\ \A j \in Pooled : Over(j)

\* What the end of a run says of it.
EndsKept ==
  /\ ended # "none" => at = "done"
  /\ told => at = "done"
  /\ at = "seed" => ~dirty
  /\ AcceptedAsLeft

\* Turns begun and turns left come to no more than the largest budget, also
\* while the envelope is all that is left of a run.
BudgetsKept ==
  /\ {turn, maxTurns, turnBudget, allowed} \subseteq Nat
  /\ env \in [remaining : Nat, pending : Nat]
  /\ turn <= allowed
  /\ provider # "anthropic" =>
       allowed = MaxTurns /\ at # "parked" /\ turnBudget <= maxTurns
  /\ provider = "anthropic" /\ at = "parked" =>
       env.remaining > 0 /\ env.pending > 0 /\ turn + env.remaining <= allowed
  /\ provider = "anthropic" /\ at \notin {"parked", "done"} =>
       maxTurns <= allowed /\ turnBudget <= maxTurns /\ turn + turnBudget <= allowed

ExecutorsIInv == SlotsKept /\ EndsKept /\ BudgetsKept

LEMMA NoSlots == DOMAIN <<>> = {} /\ \E n \in Nat : <<>> \in [1 .. n -> Slots]
<1>1. <<>> \in [1 .. 0 -> Slots]
  OBVIOUS
<1> QED BY <1>1

LEMMA ReplyCalls ==
  ASSUME NEW r \in GoogleReplies PROVE \E n \in Nat : DOMAIN r.calls = 1 .. n
<1>1. CASE r \in {[kind |-> "calls", calls |-> c] : c \in ToolTurns}
  <2>1. PICK c \in ToolTurns : r.calls = c
    BY <1>1
  <2>2. c \in Seq(CallKinds)
    BY AgentAssumption
  <2>3. Len(c) \in Nat /\ DOMAIN c = 1 .. Len(c)
    BY <2>2
  <2> QED BY <2>1, <2>3
<1>2. CASE r.calls = <<>>
  BY <1>2
<1> QED BY <1>1, <1>2 DEF GoogleReplies, Replies, Says

LEMMA ExecutorsInitInv == Init => ExecutorsIInv
<1> SUFFICES ASSUME Init PROVE ExecutorsIInv
  OBVIOUS
<1> USE DEF Init, ClaudeInit, GoogleInit, OpenAIInit, ClaudeIdle, GoogleIdle, TurnInit
<1>1. SlotsKept
  BY NoSlots DEF SlotsKept
<1>2. EndsKept
  BY DEF EndsKept, AcceptedAsLeft
<1>3. BudgetsKept
  BY AgentAssumption DEF BudgetsKept, NoEnvelope
<1> QED BY <1>1, <1>2, <1>3 DEF ExecutorsIInv

-----------------------------------------------------------------------------
(* The turn that the providers share.                                      *)

LEMMA SeedKeeps ==
  ASSUME SlotsKept, EndsKept, Seed PROVE SlotsKept' /\ EndsKept'
<1>1. SlotsKept'
  BY DEF SlotsKept, Seed, End
<1>2. EndsKept'
  BY DEF EndsKept, Seed, End, AcceptedAsLeft
<1> QED BY <1>1, <1>2

\* A request that is out leaves the turn alone until its answer comes.
LEMMA SendKeeps ==
  ASSUME SlotsKept, EndsKept, Retry \/ SendFails PROVE SlotsKept' /\ EndsKept'
<1>1. SlotsKept'
  BY DEF SlotsKept, Retry, SendFails, End, HeldOut, Accepted, Pooled, Over
<1>2. EndsKept'
  BY DEF EndsKept, Retry, SendFails, End, AcceptedAsLeft
<1> QED BY <1>1, <1>2

LEMMA ReceiveKeeps ==
  ASSUME SlotsKept, EndsKept, NEW r \in GoogleReplies, Receive(r) PROVE SlotsKept' /\ EndsKept'
<1>1. SlotsKept'
  BY ReplyCalls DEF SlotsKept, Receive, Slots
<1>2. EndsKept'
  BY DEF EndsKept, Receive, AcceptedAsLeft
<1> QED BY <1>1, <1>2

LEMMA DispatchKeeps ==
  ASSUME SlotsKept, EndsKept, Dispatch PROVE SlotsKept' /\ EndsKept'
<1>1. SlotsKept'
  BY DEF SlotsKept, Dispatch, Accepted
<1>2. EndsKept'
  BY DEF EndsKept, Dispatch, AcceptedAsLeft
<1> QED BY <1>1, <1>2

\* A call of the pool starts: no submission of the turn was judged yet.
LEMMA StartCallKeeps ==
  ASSUME SlotsKept, EndsKept, NEW i \in DOMAIN slot, StartCall(i)
  PROVE  SlotsKept' /\ EndsKept'
<1>1. \A k \in DOMAIN slot : ~Accepted(k)
  BY DEF SlotsKept, StartCall, Over
<1>2. SlotsKept'
  BY <1>1 DEF SlotsKept, StartCall, Put, Pooled, HeldOut, Accepted, Over, Slots
<1>3. EndsKept'
  BY DEF EndsKept, StartCall, AcceptedAsLeft
<1> QED BY <1>2, <1>3

LEMMA EndCallKeeps ==
  ASSUME SlotsKept, EndsKept, NEW i \in DOMAIN slot, EndCall(i)
  PROVE  SlotsKept' /\ EndsKept'
<1>1. \A k \in DOMAIN slot : ~Accepted(k)
  BY DEF SlotsKept, EndCall, Pooled, Over
<1>2. SlotsKept'
  BY <1>1 DEF SlotsKept, EndCall, Put, Pooled, HeldOut, Accepted, Over, Slots
<1>3. EndsKept'
  BY DEF EndsKept, EndCall, AcceptedAsLeft
<1> QED BY <1>2, <1>3

\* A held-out call has its turn when the pool is through.
LEMMA HeldOutKeeps ==
  ASSUME SlotsKept, EndsKept, NEW i \in DOMAIN slot, Submit(i) \/ Ask(i)
  PROVE  SlotsKept' /\ EndsKept'
<1>1. at = "dispatch" /\ HeldOut(i) /\ \A j \in Pooled : Over(j)
  BY DEF Submit, Ask, Turn
<1>2. SlotsKept'
  BY <1>1 DEF SlotsKept, Submit, Ask, Put, Pooled, HeldOut, Accepted, Over, Slots
<1>3. EndsKept'
  BY <1>1 DEF EndsKept, Submit, Ask, AcceptedAsLeft
<1> QED BY <1>2, <1>3

LEMMA RunCallsKeeps ==
  ASSUME SlotsKept, EndsKept, RunCalls PROVE SlotsKept' /\ EndsKept'
BY StartCallKeeps, EndCallKeeps, HeldOutKeeps DEF RunCalls


-----------------------------------------------------------------------------
(* How a turn ends.                                                        *)

\* A set of naturals with a bound has a least element: else the upper closure
\* of the set, without its greatest element, would map onto all of it.
LEMMA LeastOfSlots ==
  ASSUME NEW n \in Nat, NEW S \in SUBSET (0 .. n), S # {}
  PROVE  \E m \in S : \A k \in S : m <= k
<1> SUFFICES ASSUME \A m \in S : \E k \in S : k < m PROVE FALSE
  OBVIOUS
<1> DEFINE U == {x \in 0 .. n : \E k \in S : k <= x}
           D == U \ {n}
           f == [d \in D |-> d + 1]
<1>1. n \in U
  <2>1. PICK s \in S : TRUE
    BY Zenon
  <2>2. s \in 0 .. n
    BY Zenon
  <2> QED BY <2>2
<1>2. \A d \in D : d + 1 \in U
  OBVIOUS
<1>3. \A x \in U : x - 1 \in D /\ x = (x - 1) + 1
  <2> TAKE x \in U
  <2>1. PICK k \in S : k <= x
    OBVIOUS
  <2>2. PICK j \in S : j < k
    OBVIOUS
  <2> QED BY <2>1, <2>2
<1>4. f \in [D -> U]
  BY <1>2
<1>5. \A x \in U : \E d \in D : f[d] = x
  BY <1>3
<1>6. f \in Surjection(D, U)
  BY <1>4, <1>5 DEF Surjection
<1>7. IsFiniteSet(U)
  <2>1. IsFiniteSet(0 .. n) /\ U \subseteq 0 .. n
    BY FS_Interval
  <2> HIDE DEF U
  <2> QED BY <2>1, FS_Subset
<1> HIDE DEF U, f
<1>8. IsFiniteSet(D) /\ Cardinality(D) = Cardinality(U) - 1
  BY <1>1, <1>7, FS_RemoveElement
<1>9. Cardinality(U) <= Cardinality(D)
  BY <1>6, <1>8, FS_Surjection
<1> QED BY <1>7, <1>8, <1>9, FS_CardinalityType

LEMMA FirstStops == ASSUME SlotsKept, Stops # {} PROVE First \in Stops
<1>1. PICK n \in Nat : slot \in [1 .. n -> Slots]
  BY DEF SlotsKept
<1>2. Stops \in SUBSET (0 .. n)
  BY <1>1 DEF Stops
<1>3. \E m \in Stops : \A k \in Stops : m <= k
  BY <1>2, LeastOfSlots
<1> QED BY <1>3 DEF First

\* The run leaves the dispatch with the result of its first final call.
LEMMA EndingKeeps ==
  ASSUME SlotsKept, EndsKept, Dispatched, Stops # {},
         End("failed") \/ ResultOf(First),
         UNCHANGED <<reply, slot, dirty, heldOutTools>>
  PROVE  SlotsKept' /\ EndsKept'
<1>1. First \in DOMAIN slot
  BY FirstStops DEF Stops
<1>2. at' = "done"
  BY DEF End, ResultOf
<1>3. SlotsKept'
  BY <1>2 DEF SlotsKept
<1>4. ended' = "submitted" => ~dirty'
  BY <1>1 DEF SlotsKept, Dispatched, ResultOf, End
<1> QED BY <1>2, <1>3, <1>4 DEF EndsKept, AcceptedAsLeft

\* A turn that goes on has accepted nothing, so its results tell the model of no
\* acceptance.
LEMMA GoingOnKeeps ==
  ASSUME SlotsKept, EndsKept, Dispatched, Stops = {},
         NEW S \in SUBSET DOMAIN slot, AddToHistory(S),
         NEW place \in {"begin", "send", "parked"}, GoTo(place),
         UNCHANGED <<dirty, ended>>
  PROVE  SlotsKept' /\ EndsKept'
<1>1. SlotsKept'
  BY NoSlots DEF SlotsKept, GoTo
<1>2. ~told'
  <2>1. ~told
    BY DEF EndsKept, Dispatched
  <2>2. \A i \in S : ~Accepted(i)
    BY DEF Stops, Final, Accepted
  <2> QED BY <2>1, <2>2 DEF AddToHistory
<1>3. EndsKept'
  BY <1>2 DEF EndsKept, AcceptedAsLeft, Dispatched, GoTo
<1> QED BY <1>1, <1>3

\* A turn without calls to run leaves the place for another one, or ends.
LEMMA MovingKeeps ==
  ASSUME SlotsKept, EndsKept, at # "done",
         \/ \E place \in {"begin", "send", "parked"} : GoTo(place) /\ UNCHANGED ended
         \/ at' \in {"begin", "send"} /\ UNCHANGED <<ended, slot>>
         \/ (\E how \in Endings \ {"submitted"} : End(how)) /\ UNCHANGED slot,
         UNCHANGED <<told, dirty>>
  PROVE  SlotsKept' /\ EndsKept'
<1>1. SlotsKept'
  BY NoSlots DEF SlotsKept, GoTo, End
<1>2. EndsKept'
  BY DEF EndsKept, AcceptedAsLeft, GoTo, End
<1> QED BY <1>1, <1>2

-----------------------------------------------------------------------------
(* The three providers.                                                    *)

LEMMA ClaudeKeeps ==
  ASSUME SlotsKept, EndsKept, ClaudeNext PROVE SlotsKept' /\ EndsKept'
<1> USE DEF Endings
<1>1. CASE Seed \/ RunCalls
  BY <1>1, SeedKeeps, RunCallsKeeps
<1>2. CASE BeginTurn \/ Exhaust \/ Redirect \/ ReadRest \/ Resume \/ Drift
  BY <1>2, MovingKeeps DEF BeginTurn, Exhaust, Redirect, ReadRest, Resume, Drift
<1>3. CASE Request
  BY <1>3, SendKeeps, ReceiveKeeps DEF Request, GoogleReplies
<1>4. CASE ReadCalls
  BY <1>4, DispatchKeeps DEF ReadCalls
<1>5. CASE Stop
  BY <1>5, EndingKeeps DEF Stop
<1>6. CASE GoOn
  BY <1>6, GoingOnKeeps DEF GoOn
<1>7. CASE Suspend
  <2>1. CASE CanPark
    BY <1>7, <2>1, GoingOnKeeps DEF Suspend
  <2>2. CASE ~CanPark
    <3>1. ~told'
      BY <1>7 DEF Suspend, AddToHistory, EndsKept, Dispatched, Stops, Final, Accepted
    <3> QED BY <1>7, <2>2, <3>1, NoSlots
      DEF Suspend, SlotsKept, EndsKept, AcceptedAsLeft, End
  <2> QED BY <2>1, <2>2
<1>8. CASE Reconfigure
  BY <1>8 DEF Reconfigure, turnVars, SlotsKept, EndsKept, AcceptedAsLeft, HeldOut, Accepted,
              Pooled, Over
<1> QED BY <1>1, <1>2, <1>3, <1>4, <1>5, <1>6, <1>7, <1>8 DEF ClaudeNext

LEMMA GoogleKeeps ==
  ASSUME SlotsKept, EndsKept, GoogleNext PROVE SlotsKept' /\ EndsKept'
<1> USE DEF Endings
<1>1. CASE GoogleSeed
  BY <1>1, SeedKeeps DEF GoogleSeed
<1>2. CASE FirstRequest \/ ReadUnusable \/ retryDegenerateTurn \/ ReadAnswer \/ GoogleExhaust
  BY <1>2, MovingKeeps
  DEF FirstRequest, ReadUnusable, retryDegenerateTurn, ReadAnswer, GoogleExhaust, Reading
<1>3. CASE sendWithRetry
  BY <1>3, SendKeeps, ReceiveKeeps DEF sendWithRetry
<1>4. CASE ReadFunctionCalls
  BY <1>4, DispatchKeeps DEF ReadFunctionCalls
<1>5. CASE RunCalls
  BY <1>5, RunCallsKeeps
<1>6. CASE SendResponses
  <2>1. CASE Stops # {}
    BY <1>6, <2>1, EndingKeeps DEF SendResponses
  <2>2. CASE Stops = {}
    BY <1>6, <2>2, GoingOnKeeps DEF SendResponses
  <2> QED BY <2>1, <2>2
<1> QED BY <1>1, <1>2, <1>3, <1>4, <1>5, <1>6 DEF GoogleNext

LEMMA OpenAIKeeps ==
  ASSUME SlotsKept, EndsKept, OpenAINext PROVE SlotsKept' /\ EndsKept'
<1> USE DEF Endings
<1>1. CASE NextTurn
  BY <1>1, MovingKeeps DEF NextTurn
<1>2. CASE Completion
  BY <1>2, SendKeeps, ReceiveKeeps DEF Completion, GoogleReplies
<1>3. CASE ReadChoice
  BY <1>3, DispatchKeeps, MovingKeeps DEF ReadChoice
<1>4. CASE RunCalls
  BY <1>4, RunCallsKeeps
<1>5. CASE ReadResults
  <2>1. CASE Stops # {}
    <3>1. End("failed") \/ ResultOf(First)
      BY <1>5, <2>1 DEF ReadResults
    <3>2. UNCHANGED <<reply, slot, dirty, heldOutTools>>
      BY <1>5, <2>1 DEF ReadResults
    <3> QED BY <1>5, <2>1, <3>1, <3>2, EndingKeeps DEF ReadResults
  <2>2. CASE Stops = {}
    BY <1>5, <2>2, GoingOnKeeps DEF ReadResults, Stops
  <2> QED BY <2>1, <2>2
<1> QED BY <1>1, <1>2, <1>3, <1>4, <1>5 DEF OpenAINext


-----------------------------------------------------------------------------
(* The budgets.                                                            *)

LEMMA remainingType ==
  ASSUME turn \in Nat, maxTurns \in Nat
  PROVE  /\ remainingTurns \in Nat
         /\ CanPark => turn + remainingTurns = maxTurns
BY DEF remainingTurns, CanPark, AtMost

\* Seeding and dispatching begin no turn and do not pause.
LEMMA SharedBudgets ==
  ASSUME Seed \/ RunCalls
  PROVE  UNCHANGED turn /\ at \notin {"parked", "done"} /\ at' # "parked"
BY DEF Seed, End, RunCalls, StartCall, EndCall, Submit, Ask, Turn

\* A run parks with what it has left and wakes with no more than that.
LEMMA ClaudeBudgets ==
  ASSUME BudgetsKept, provider = "anthropic", ClaudeNext, UNCHANGED provider
  PROVE  BudgetsKept'
<1> USE DEF BudgetsKept
<1>1. CASE (Seed \/ RunCalls) /\ UNCHANGED claudeVars
  BY <1>1, SharedBudgets DEF claudeVars
<1>2. CASE BeginTurn
  BY <1>2 DEF BeginTurn
<1>3. CASE Exhaust \/ ReadRest \/ Stop \/ Drift
  <2>1. at' = "done" /\ UNCHANGED <<turn, claudeVars>>
    BY <1>3 DEF Exhaust, ReadRest, Stop, Drift, ResultOf, End
  <2> QED BY <2>1 DEF claudeVars
<1>4. CASE Request
  BY <1>4 DEF Request, Retry, SendFails, Receive, End, claudeVars
<1>5. CASE ReadCalls
  BY <1>5 DEF ReadCalls, Dispatch, budgets
<1>6. CASE Redirect
  BY <1>6 DEF Redirect, GoTo, budgets
<1>7. CASE GoOn
  BY <1>7 DEF GoOn, GoTo, budgets, Dispatched
<1>8. CASE Suspend
  BY <1>8, remainingType DEF Suspend, GoTo, End, budgets, Dispatched, CanPark
<1>9. CASE Reconfigure
  BY <1>9, ClaudeAssumption DEF Reconfigure, turnVars
<1>10. CASE Resume
  BY <1>10 DEF Resume, GoTo, NoEnvelope, resumeBudget, AtMost
<1> QED BY <1>1, <1>2, <1>3, <1>4, <1>5, <1>6, <1>7, <1>8, <1>9, <1>10 DEF ClaudeNext

LEMMA GoogleBudgets ==
  ASSUME BudgetsKept, provider = "google", GoogleNext, UNCHANGED <<provider, claudeVars>>
  PROVE  BudgetsKept'
<1> USE AgentAssumption DEF BudgetsKept, claudeVars
<1>1. CASE GoogleSeed \/ RunCalls
  BY <1>1, SharedBudgets DEF GoogleSeed
<1>2. CASE FirstRequest \/ sendWithRetry \/ GoogleExhaust \/ SendResponses
  BY <1>2 DEF FirstRequest, sendWithRetry, GoogleExhaust, SendResponses, Retry, SendFails,
              Receive, End, GoTo, ResultOf
<1>3. CASE ReadUnusable \/ retryDegenerateTurn \/ ReadFunctionCalls \/ ReadAnswer
  <2>1. turn < MaxTurns /\ turn' = turn + 1 /\ at' # "parked"
    BY <1>3 DEF ReadUnusable, retryDegenerateTurn, ReadFunctionCalls, ReadAnswer, Reading,
                Dispatch, GoTo, End
  <2> QED BY <2>1
<1> QED BY <1>1, <1>2, <1>3 DEF GoogleNext

LEMMA OpenAIBudgets ==
  ASSUME BudgetsKept, provider = "openai", OpenAINext, UNCHANGED <<provider, claudeVars>>
  PROVE  BudgetsKept'
<1> USE AgentAssumption DEF BudgetsKept, claudeVars
<1>1. CASE NextTurn
  BY <1>1 DEF NextTurn, GoTo, End
<1>2. CASE Completion
  BY <1>2 DEF Completion, Retry, SendFails, Receive, End
<1>3. CASE ReadChoice \/ ReadResults
  BY <1>3 DEF ReadChoice, ReadResults, Dispatch, GoTo, End, ResultOf
<1>4. CASE RunCalls
  BY <1>4, SharedBudgets
<1> QED BY <1>1, <1>2, <1>3, <1>4 DEF OpenAINext

-----------------------------------------------------------------------------

LEMMA ExecutorsStepInv == ExecutorsIInv /\ [Next]_vars => ExecutorsIInv'
<1> SUFFICES ASSUME ExecutorsIInv, [Next]_vars PROVE ExecutorsIInv'
  OBVIOUS
<1> USE DEF ExecutorsIInv
<1>1. CASE UNCHANGED vars
  BY <1>1 DEF vars, turnVars, claudeVars, SlotsKept, EndsKept, BudgetsKept, AcceptedAsLeft,
              HeldOut, Accepted, Pooled, Over
<1>2. CASE provider = "anthropic" /\ ClaudeNext /\ UNCHANGED provider
  BY <1>2, ClaudeKeeps, ClaudeBudgets
<1>3. CASE provider = "google" /\ GoogleNext /\ UNCHANGED <<provider, claudeVars>>
  BY <1>3, GoogleKeeps, GoogleBudgets
<1>4. CASE provider = "openai" /\ OpenAINext /\ UNCHANGED <<provider, claudeVars>>
  BY <1>4, OpenAIKeeps, OpenAIBudgets
<1> QED BY <1>1, <1>2, <1>3, <1>4 DEF Next

LEMMA ExecutorsInvariant == Spec => []ExecutorsIInv
<1> QED BY ExecutorsInitInv, ExecutorsStepInv, PTL DEF Spec

\* On none of the providers is the model told that its submission was accepted
\* and then asked to go on (submitgate.go, dispatch.go).
THEOREM NeverToldAndAsked == Spec => []NeverToldAndGoesOn
<1>1. ExecutorsIInv => NeverToldAndGoesOn
  BY DEF ExecutorsIInv, EndsKept, NeverToldAndGoesOn
<1> QED BY <1>1, ExecutorsInvariant, PTL

\* The validators judge what the run leaves: no tool runs after the submission
\* they accepted, however wide the pool is (dispatch.go, heldout.go).
THEOREM AcceptedStays == Spec => []AcceptedAsLeft
<1>1. ExecutorsIInv => AcceptedAsLeft
  BY DEF ExecutorsIInv, EndsKept
<1> QED BY <1>1, ExecutorsInvariant, PTL

\* Pausing buys no turns, whatever budgets an operator sets meanwhile
\* (suspend.go, resume.go).
THEOREM PausesBuyNoTurns == Spec => []TurnsBounded
<1>1. ExecutorsIInv => TurnsBounded
  BY DEF ExecutorsIInv, BudgetsKept, TurnsBounded
<1> QED BY <1>1, ExecutorsInvariant, PTL

\* A resumed run stays within the budget of the executor that resumes it
\* (resume.go).
THEOREM ResumesWithinBudget == Spec => []ResumedWithinBudget
<1>1. ExecutorsIInv => ResumedWithinBudget
  BY DEF ExecutorsIInv, BudgetsKept, ResumedWithinBudget
<1> QED BY <1>1, ExecutorsInvariant, PTL

\* What parks can be woken (suspend.go, checkpoint/lifecycle.go).
THEOREM ParkedWakes == Spec => []ParkedCanWake
<1>1. ExecutorsIInv => ParkedCanWake
  BY DEF ExecutorsIInv, BudgetsKept, ParkedCanWake
<1> QED BY <1>1, ExecutorsInvariant, PTL


-----------------------------------------------------------------------------
(* Requests are paired, as long as no turn asks a friend twice.            *)

OneAsk == \A c \in ToolTurns : \A i, j \in DOMAIN c : c[i] = "ask" /\ c[j] = "ask" => i = j

\* The one call without a result is the one that a parked run waits for.
PairedKept ==
  /\ at \notin {"parked", "done"} => open = 0
  /\ at = "parked" => open = env.pending /\ open = 1
  /\ at = "read" => /\ \A i \in DOMAIN slot : slot[i] = "waiting"
                    /\ reply.kind = "calls" => reply.calls \in ToolTurns
                    /\ DOMAIN slot = DOMAIN reply.calls
  /\ at = "dispatch" => /\ reply.calls \in ToolTurns /\ DOMAIN slot = DOMAIN reply.calls
                        /\ \A i \in DOMAIN slot :
                             slot[i] = "placeholder" => reply.calls[i] = "ask"

\* What is added to the conversation leaves open what got no result.
LEMMA HistoryOpens ==
  ASSUME SlotsKept, open = 0, NEW S \in SUBSET DOMAIN slot, AddToHistory(S)
  PROVE  /\ S = DOMAIN slot => open' = 0
         /\ \A i \in DOMAIN slot : S = DOMAIN slot \ {i} => open' = 1
<1>1. PICK n \in Nat : slot \in [1 .. n -> Slots]
  BY DEF SlotsKept
<1>2. Len(slot) = n /\ DOMAIN slot = 1 .. n
  BY <1>1
<1>3. IsFiniteSet(1 .. n) /\ Cardinality(1 .. n) = n
  BY <1>1, FS_Interval
<1>4. \A i \in 1 .. n : Cardinality((1 .. n) \ {i}) = n - 1
  BY <1>3, FS_RemoveElement
<1> QED BY <1>1, <1>2, <1>3, <1>4 DEF AddToHistory

LEMMA RepliesPaired ==
  ASSUME NEW r \in GoogleReplies PROVE r.kind = "calls" => r.calls \in ToolTurns
BY DEF GoogleReplies, Replies, Says

\* The shared turn; only EndCall and the held-out calls write a slot.
LEMMA SharedPaired ==
  ASSUME SlotsKept, PairedKept, UNCHANGED env,
         \/ Seed \/ Retry \/ SendFails \/ Dispatch \/ RunCalls
         \/ \E r \in GoogleReplies : Receive(r)
  PROVE  PairedKept'
<1>1. CASE Seed \/ Retry \/ SendFails
  BY <1>1 DEF PairedKept, Seed, Retry, SendFails, End
<1>2. CASE Dispatch
  BY <1>2 DEF PairedKept, Dispatch
<1>3. CASE \E r \in GoogleReplies : Receive(r)
  BY <1>3, RepliesPaired DEF PairedKept, Receive
<1>4. CASE RunCalls
  BY <1>4 DEF SlotsKept, PairedKept, RunCalls, StartCall, EndCall, Submit, Ask, Turn, Put
<1> QED BY <1>1, <1>2, <1>3, <1>4

LEMMA MovingPaired ==
  ASSUME PairedKept, at \notin {"parked", "done"}, UNCHANGED open,
         at' \in {"begin", "send", "done"}
  PROVE  PairedKept'
BY DEF PairedKept

LEMMA TurnPaired ==
  ASSUME SlotsKept, PairedKept, Dispatched, AddToHistory(DOMAIN slot),
         at' \in {"begin", "send", "done"}
  PROVE  PairedKept'
<1>1. open' = 0
  BY HistoryOpens DEF PairedKept, Dispatched
<1> QED BY <1>1 DEF PairedKept

LEMMA ClaudePaired ==
  ASSUME OneAsk, SlotsKept, PairedKept, ClaudeNext PROVE PairedKept'
<1>1. CASE (Seed \/ RunCalls) /\ UNCHANGED claudeVars
  BY <1>1, SharedPaired DEF claudeVars
<1>2. CASE BeginTurn \/ Exhaust \/ Redirect \/ ReadRest \/ Stop
  BY <1>2, MovingPaired
  DEF BeginTurn, Exhaust, Redirect, ReadRest, Stop, GoTo, End, ResultOf, Dispatched
<1>3. CASE Request
  BY <1>3, SharedPaired DEF Request, GoogleReplies, claudeVars
<1>4. CASE ReadCalls
  BY <1>4, SharedPaired DEF ReadCalls
<1>5. CASE GoOn
  BY <1>5, TurnPaired DEF GoOn, GoTo
<1>6. CASE Suspend
  <2>1. PICK i \in DOMAIN slot : Asks = {i}
    BY <1>6 DEF Suspend, Asks, Dispatched, PairedKept, OneAsk
  <2>2. open' = 1
    BY <1>6, <2>1, HistoryOpens DEF Suspend, Unanswered, Dispatched, PairedKept
  <2> QED BY <1>6, <2>2 DEF Suspend, PairedKept, GoTo, End
<1>7. CASE Reconfigure
  BY <1>7 DEF Reconfigure, turnVars, PairedKept
<1>8. CASE Resume
  BY <1>8 DEF Resume, GoTo, PairedKept
<1>9. CASE Drift
  BY <1>9 DEF Drift, End, PairedKept
<1> QED BY <1>1, <1>2, <1>3, <1>4, <1>5, <1>6, <1>7, <1>8, <1>9 DEF ClaudeNext

LEMMA GooglePaired ==
  ASSUME SlotsKept, PairedKept, GoogleNext, UNCHANGED claudeVars PROVE PairedKept'
<1>1. CASE GoogleSeed \/ sendWithRetry \/ ReadFunctionCalls \/ RunCalls
  BY <1>1, SharedPaired DEF GoogleSeed, sendWithRetry, ReadFunctionCalls, claudeVars
<1>2. CASE FirstRequest \/ ReadUnusable \/ retryDegenerateTurn \/ ReadAnswer \/ GoogleExhaust
  BY <1>2, MovingPaired
  DEF FirstRequest, ReadUnusable, retryDegenerateTurn, ReadAnswer, GoogleExhaust, Reading,
      GoTo, End
<1>3. CASE SendResponses
  BY <1>3, TurnPaired, MovingPaired DEF SendResponses, GoTo, End, ResultOf, Dispatched
<1> QED BY <1>1, <1>2, <1>3 DEF GoogleNext

LEMMA OpenAIPaired ==
  ASSUME SlotsKept, PairedKept, OpenAINext, UNCHANGED claudeVars PROVE PairedKept'
<1>1. CASE NextTurn
  BY <1>1, MovingPaired DEF NextTurn, GoTo, End
<1>2. CASE Completion \/ RunCalls
  BY <1>2, SharedPaired DEF Completion, GoogleReplies, claudeVars
<1>3. CASE ReadChoice
  BY <1>3, SharedPaired, MovingPaired DEF ReadChoice, GoTo, End, claudeVars
<1>4. CASE ReadResults
  BY <1>4, TurnPaired, MovingPaired DEF ReadResults, GoTo, End, ResultOf, Dispatched
<1> QED BY <1>1, <1>2, <1>3, <1>4 DEF OpenAINext

\* No request carries a tool call without its result, before a pause or after
\* one, where a turn asks at most once (suspend.go, resume.go).
THEOREM RequestsArePaired == ASSUME OneAsk PROVE Spec => []RequestsPaired
<1>1. Init => PairedKept
  BY DEF Init, ClaudeInit, GoogleInit, OpenAIInit, TurnInit, PairedKept
<1>2. OneAsk /\ ExecutorsIInv /\ PairedKept /\ [Next]_vars => PairedKept'
  <2> SUFFICES ASSUME OneAsk, ExecutorsIInv, PairedKept, [Next]_vars PROVE PairedKept'
    OBVIOUS
  <2>1. CASE UNCHANGED vars
    BY <2>1 DEF vars, turnVars, claudeVars, PairedKept
  <2>2. CASE Next
    BY <2>2, ClaudePaired, GooglePaired, OpenAIPaired DEF Next, ExecutorsIInv, claudeVars
  <2> QED BY <2>1, <2>2
<1>3. PairedKept => RequestsPaired
  BY DEF PairedKept, RequestsPaired
<1>4. OneAsk
  OBVIOUS
<1> QED BY <1>1, <1>2, <1>3, <1>4, ExecutorsInvariant, PTL DEF Spec

\* Pausing is sound, whatever budgets an operator sets meanwhile (suspend.go,
\* resume.go, checkpoint/lifecycle.go).
THEOREM PausesAreSound == Spec => []PausesSound
<1>1. TurnsBounded /\ ResumedWithinBudget /\ ParkedCanWake => PausesSound
  BY DEF PausesSound
<1> QED BY <1>1, PausesBuyNoTurns, ResumesWithinBudget, ParkedWakes, PTL

-----------------------------------------------------------------------------
(* The types of a run.                                                     *)

TurnTyped == TurnTypeOK /\ reply.calls \in Seq(CallKinds)

LEMMA RepliesTyped ==
  ASSUME NEW r \in GoogleReplies
  PROVE  /\ r.calls \in Seq(CallKinds)
         /\ r.kind \in {"none", "calls", "text", "empty", "blocked", "truncated"}
<1>1. CASE r \in {[kind |-> "calls", calls |-> c] : c \in ToolTurns}
  <2>1. PICK c \in ToolTurns : r = [kind |-> "calls", calls |-> c]
    BY <1>1
  <2> QED BY <2>1, AgentAssumption
<1>2. CASE r.calls = <<>> /\ r.kind \in {"text", "empty", "blocked", "truncated"}
  BY <1>2
<1> QED BY <1>1, <1>2 DEF GoogleReplies, Replies, Says

LEMMA SlotPut ==
  ASSUME TurnTyped, NEW i \in DOMAIN slot, NEW what \in Slots, Put(i, what)
  PROVE  slot' \in Seq(Slots) /\ Len(slot') = Len(slot)
<1>1. slot \in [1 .. Len(slot) -> Slots] /\ Len(slot) \in Nat
  BY DEF TurnTyped, TurnTypeOK
<1>2. slot' \in [1 .. Len(slot) -> Slots]
  BY <1>1 DEF Put
<1> QED BY <1>1, <1>2

LEMMA NoCalls ==
  ASSUME slot' = <<>>, reply' = NoReply
  PROVE  /\ slot' \in Seq(Slots) /\ Len(slot') = Len(reply'.calls)
         /\ reply'.kind = "none" /\ reply'.calls \in Seq(CallKinds)
BY DEF NoReply, Says

LEMMA OpenTyped ==
  ASSUME TurnTyped, NEW S \in SUBSET DOMAIN slot, AddToHistory(S)
  PROVE  open' \in Int /\ told' \in BOOLEAN
<1>1. Len(slot) \in Nat /\ DOMAIN slot = 1 .. Len(slot)
  BY DEF TurnTyped, TurnTypeOK
<1>2. IsFiniteSet(S)
  <2>1. PICK n \in Nat : n = Len(slot)
    BY <1>1
  <2>2. IsFiniteSet(1 .. n)
    BY <2>1, FS_Interval
  <2>3. S \subseteq 1 .. n
    BY <1>1, <2>1
  <2> QED BY <2>2, <2>3, FS_Subset
<1>3. Cardinality(S) \in Nat
  BY <1>2, FS_CardinalityType
<1>4. open' \in Int
  <2>1. PICK k \in Nat : k = Cardinality(S)
    BY <1>3
  <2>2. PICK n \in Nat : n = Len(slot)
    BY <1>1
  <2>3. open' = open + n - k
    BY <2>1, <2>2, Zenon DEF AddToHistory
  <2> QED BY <2>3 DEF TurnTyped, TurnTypeOK
<1>5. told' \in BOOLEAN
  <2>1. PICK b : b = (told \/ \E i \in S : Accepted(i))
    OBVIOUS
  <2>2. b \in BOOLEAN
    BY <2>1, Zenon DEF TurnTyped, TurnTypeOK
  <2> QED BY <2>1, <2>2 DEF AddToHistory
<1> QED BY <1>4, <1>5

LEMMA SharedTyped ==
  ASSUME TurnTyped, \/ Seed \/ Retry \/ SendFails \/ RunCalls
                    \/ Dispatch /\ turn' \in Nat
                    \/ \E r \in GoogleReplies : Receive(r)
  PROVE  TurnTyped'
<1> USE DEF TurnTyped
<1>1. CASE Seed
  <2>1. /\ at' \in {"begin", "done"} /\ ended' \in Endings
        /\ (at' = "done") = (ended' # "none")
    BY <1>1 DEF TurnTypeOK, Seed, End, Endings
  <2>2. UNCHANGED <<heldOutTools, reply, turn, attempt, slot, open, told, dirty>>
    BY <1>1 DEF Seed
  <2> QED BY <2>1, <2>2 DEF TurnTypeOK
<1>2. CASE Retry \/ SendFails
  <2>1. attempt' \in 0 .. MaxRetries
    BY <1>2, AgentAssumption DEF TurnTypeOK, Retry, SendFails
  <2>2. /\ at' \in {"send", "done"} /\ ended' \in Endings
        /\ (at' = "done") = (ended' # "none")
    BY <1>2 DEF TurnTypeOK, Retry, SendFails, End, Endings
  <2>3. UNCHANGED <<heldOutTools, reply, turn, slot, open, told, dirty>>
    BY <1>2 DEF Retry, SendFails
  <2> QED BY <2>1, <2>2, <2>3 DEF TurnTypeOK
<1>3. CASE Dispatch /\ turn' \in Nat
  BY <1>3 DEF TurnTypeOK, Dispatch
<1>4. ASSUME NEW r \in GoogleReplies, Receive(r) PROVE TurnTyped'
  <2>1. PICK n \in Nat : DOMAIN r.calls = 1 .. n
    BY ReplyCalls
  <2>2. Len(r.calls) = n
    BY <2>1, RepliesTyped
  <2>3. slot' \in [1 .. n -> Slots]
    BY <1>4, <2>1 DEF Receive, Slots
  <2>4. slot' \in Seq(Slots) /\ Len(slot') = n
    BY <2>3
  <2>5. reply' = r /\ at' = "read" /\ attempt' = 0
        /\ UNCHANGED <<heldOutTools, turn, open, told, dirty, ended>> /\ at = "send"
    BY <1>4 DEF Receive
  <2> QED BY <2>2, <2>4, <2>5, RepliesTyped, AgentAssumption DEF TurnTypeOK
<1>5. ASSUME NEW i \in DOMAIN slot, StartCall(i) \/ EndCall(i) \/ Submit(i) \/ Ask(i)
      PROVE  TurnTyped'
  <2>1. \E what \in Slots : Put(i, what)
    BY <1>5 DEF StartCall, EndCall, Submit, Ask, Slots
  <2>2. slot' \in Seq(Slots) /\ Len(slot') = Len(slot)
    BY <2>1, SlotPut
  <2>3. dirty' \in BOOLEAN
    BY <1>5 DEF StartCall, EndCall, Submit, Ask, TurnTypeOK
  <2>4. UNCHANGED <<at, heldOutTools, reply, turn, attempt, open, told, ended>>
    BY <1>5 DEF StartCall, EndCall, Submit, Ask
  <2> QED BY <2>2, <2>3, <2>4 DEF TurnTypeOK
<1> QED BY <1>1, <1>2, <1>3, <1>4, <1>5 DEF RunCalls

\* A turn that leaves for another place, or ends there, with or without its history.
LEMMA LeavingTyped ==
  ASSUME TurnTyped, at # "done", turn' \in Nat,
         \/ UNCHANGED <<open, told>>
         \/ \E S \in SUBSET DOMAIN slot : AddToHistory(S),
         \/ \E place \in {"begin", "send", "parked"} : GoTo(place) /\ UNCHANGED ended
         \/ at' \in {"begin", "send"} /\ UNCHANGED <<ended, slot, reply>>
         \/ (\E how \in Endings \ {"none"} : End(how)) /\ UNCHANGED <<slot, reply>>,
         UNCHANGED <<heldOutTools, attempt, dirty>>
  PROVE  TurnTyped'
<1>1. open' \in Int /\ told' \in BOOLEAN
  BY OpenTyped DEF TurnTyped, TurnTypeOK
<1>2. /\ slot' \in Seq(Slots) /\ Len(slot') = Len(reply'.calls)
      /\ reply'.kind \in {"none", "calls", "text", "empty", "blocked", "truncated"}
      /\ reply'.calls \in Seq(CallKinds)
  BY NoCalls DEF GoTo, TurnTyped, TurnTypeOK
<1>3. /\ at' \in {"begin", "send", "parked", "done"} /\ ended' \in Endings
      /\ (at' = "done") = (ended' # "none")
  BY DEF GoTo, End, TurnTyped, TurnTypeOK
<1>4. /\ heldOutTools' \subseteq {"submit", "ask"} /\ attempt' \in 0 .. MaxRetries
      /\ dirty' \in BOOLEAN
  BY DEF TurnTyped, TurnTypeOK
<1> QED BY <1>1, <1>2, <1>3, <1>4 DEF TurnTyped, TurnTypeOK

-----------------------------------------------------------------------------
(* The markers of Claude's requests.                                       *)

\* The messages carry no markers but those the tracker knows of, which are as many
\* as the static prefix leaves room for.
TailKept ==
  \E n \in Nat :
    /\ n <= tailLimit /\ positions \in [1 .. n -> 0 .. newest]
    /\ marked \subseteq {positions[i] : i \in 1 .. n}

CachingTyped ==
  /\ static \in 0 .. maxCacheBreakpoints /\ newest \in Nat
  /\ marked \subseteq 0 .. newest /\ positions \in Seq(0 .. newest)

LEMMA FunctionIsSeq ==
  ASSUME NEW n \in Nat, NEW S, NEW s \in [1 .. n -> S]
  PROVE  s \in Seq(S) /\ Len(s) = n
OBVIOUS

LEMMA TailLimits ==
  ASSUME CachingTyped
  PROVE  tailLimit \in Nat /\ tailLimit <= maxCacheBreakpoints - static
BY DEF CachingTyped, tailLimit, tailBreakpointLimit, maxCacheBreakpoints, AtMost

LEMMA MarkersInit ==
  ASSUME assembleParams, positions = seedFirstUserTail
  PROVE  CachingTyped /\ TailKept
<1>1. static \in 0 .. maxCacheBreakpoints
  BY DEF assembleParams, buildStaticParams, maxCacheBreakpoints
<1>2. newest \in {0, 1} /\ (marked = {} \/ (marked = {0} /\ static < maxCacheBreakpoints))
  BY DEF assembleParams
<1>3. CASE marked = {}
  <2>1. positions = <<>>
    BY <1>3 DEF seedFirstUserTail
  <2>2. CachingTyped
    BY <1>1, <1>2, <1>3, <2>1 DEF CachingTyped
  <2>3. positions \in [1 .. 0 -> 0 .. newest] /\ 0 <= tailLimit
    BY <2>1, <2>2, TailLimits
  <2>4. marked \subseteq {positions[i] : i \in 1 .. 0}
    BY <1>3
  <2> QED BY <2>2, <2>3, <2>4 DEF TailKept
<1>4. CASE marked = {0} /\ static < maxCacheBreakpoints
  <2>1. positions = <<0>>
    BY <1>4 DEF seedFirstUserTail
  <2>2. CachingTyped
    BY <1>1, <1>2, <1>4, <2>1 DEF CachingTyped
  <2>3. positions \in [1 .. 1 -> 0 .. newest] /\ 1 <= tailLimit
    BY <1>1, <1>2, <1>4, <2>1
    DEF tailLimit, tailBreakpointLimit, maxCacheBreakpoints, AtMost
  <2>4. marked \subseteq {positions[i] : i \in 1 .. 1}
    BY <1>4, <2>1
  <2> QED BY <2>2, <2>3, <2>4 DEF TailKept
<1> QED BY <1>2, <1>3, <1>4

\* What the tail's rotation keeps is the end of it.
LEMMA KeptEnd ==
  ASSUME NEW n \in Nat, NEW S, NEW all \in [1 .. n -> S], tailLimit \in Nat
  PROVE  /\ AtMost(n, tailLimit) \in 0 .. n
         /\ Kept(all) = [i \in 1 .. AtMost(n, tailLimit) |->
                           all[i + (n - AtMost(n, tailLimit))]]
<1>1. all \in Seq(S) /\ Len(all) = n
  OBVIOUS
<1>2. PICK m \in 0 .. n : m = AtMost(n, tailLimit)
  BY DEF AtMost
<1>3. Kept(all) = SubSeq(all, n - m + 1, n)
  BY <1>1, <1>2 DEF Kept
<1>4. SubSeq(all, n - m + 1, n) = [i \in 1 .. m |-> all[i + (n - m)]]
  BY <1>1, <1>2
<1> QED BY <1>2, <1>3, <1>4

LEMMA AdvanceKeeps ==
  ASSUME CachingTyped, TailKept, advance PROVE CachingTyped' /\ TailKept'
<1>1. CASE UNCHANGED caching
  BY <1>1 DEF caching, CachingTyped, TailKept, tailLimit
<1>2. CASE ~UNCHANGED caching
  <2> DEFINE all  == Append(positions, newest)
             kept == Kept(all)
             old  == {all[i] : i \in 1 .. Len(all) - Len(kept)}
  <2>1. newest \in Nat /\ tailLimit \in Nat
    BY TailLimits DEF CachingTyped
  <2>2. /\ tailLimit > 0 /\ UNCHANGED <<static, newest>>
        /\ marked' = (marked \cup {newest}) \ old /\ positions' = kept
    BY <1>2, <2>1 DEF advance
  <2>3. PICK n \in Nat : /\ positions \in [1 .. n -> 0 .. newest]
                         /\ marked \subseteq {positions[i] : i \in 1 .. n}
    BY DEF TailKept
  <2>4. /\ all \in Seq(0 .. newest) /\ Len(all) = n + 1 /\ all[n + 1] = newest
        /\ \A i \in 1 .. n : all[i] = positions[i]
    <3>1. positions \in Seq(0 .. newest) /\ Len(positions) = n /\ newest \in 0 .. newest
      BY <2>1, <2>3
    <3> QED BY <3>1, AppendProperties
  <2>5. all \in [1 .. n + 1 -> 0 .. newest]
    BY <2>4, LenProperties
  <2> HIDE DEF all
  <2>6. PICK m \in 1 .. n + 1 : m = AtMost(n + 1, tailLimit) /\ m <= tailLimit
    BY <2>1, <2>2 DEF AtMost
  <2>7. kept = [i \in 1 .. m |-> all[i + (n + 1 - m)]]
    <3>1. PICK k \in Nat : k = n + 1
      OBVIOUS
    <3>2. all \in [1 .. k -> 0 .. newest]
      BY <2>5, <3>1
    <3>3. Kept(all) = [i \in 1 .. AtMost(k, tailLimit) |-> all[i + (k - AtMost(k, tailLimit))]]
      BY <2>1, <3>2, KeptEnd, Zenon
    <3> QED BY <2>6, <3>1, <3>3
  <2>8. kept \in [1 .. m -> 0 .. newest]
    BY <2>5, <2>7
  <2>9. Len(kept) = m
    BY <2>8
  <2> HIDE DEF kept
  <2>10. \A x \in marked' : \E i \in 1 .. m : kept[i] = x
    <3> TAKE x \in marked'
    <3>1. PICK i \in 1 .. n + 1 : all[i] = x
      BY <2>2, <2>3, <2>4
    <3>2. ~(i <= n + 1 - m)
      BY <2>2, <2>4, <2>9, <3>1
    <3>3. i - (n + 1 - m) \in 1 .. m /\ (i - (n + 1 - m)) + (n + 1 - m) = i
      BY <3>2
    <3>4. kept[i - (n + 1 - m)] = all[i]
      BY <2>7, <3>3
    <3> QED BY <3>1, <3>3, <3>4
  <2>11. marked' \subseteq {kept[i] : i \in 1 .. m}
    BY <2>10
  <2>12. marked' \subseteq 0 .. newest
    BY <2>8, <2>11
  <2>13. kept \in Seq(0 .. newest)
    <3>1. m \in Nat
      BY <2>6
    <3> QED BY <2>8, <3>1, FunctionIsSeq, Zenon
  <2>14. CachingTyped'
    BY <2>2, <2>12, <2>13, Zenon DEF CachingTyped
  <2>15. tailLimit' = tailLimit
    BY <2>2 DEF tailLimit
  <2>16. /\ m \in Nat /\ m <= tailLimit' /\ positions' \in [1 .. m -> 0 .. newest']
         /\ marked' \subseteq {positions'[i] : i \in 1 .. m}
    BY <2>2, <2>6, <2>8, <2>11, <2>15
  <2> QED BY <2>14, <2>16 DEF TailKept
<1> QED BY <1>1, <1>2

LEMMA TailBounds ==
  ASSUME CachingTyped, TailKept
  PROVE  static + Cardinality(marked) <= maxCacheBreakpoints
<1>1. PICK n \in Nat : /\ n <= tailLimit /\ positions \in [1 .. n -> 0 .. newest]
                       /\ marked \subseteq {positions[i] : i \in 1 .. n}
  BY DEF TailKept
<1> DEFINE image == {positions[i] : i \in 1 .. n}
           f == [i \in 1 .. n |-> positions[i]]
<1>2. f \in Surjection(1 .. n, image)
  BY DEF Surjection
<1>3. IsFiniteSet(1 .. n) /\ Cardinality(1 .. n) = n
  BY FS_Interval
<1> HIDE DEF image, f
<1>4. IsFiniteSet(image) /\ Cardinality(image) <= n
  BY <1>2, <1>3, FS_Surjection
<1>5. marked \subseteq image
  BY <1>1 DEF image
<1>6. IsFiniteSet(marked) /\ Cardinality(marked) <= Cardinality(image)
  BY <1>4, <1>5, FS_Subset
<1>7. Cardinality(marked) \in Nat /\ Cardinality(image) \in Nat
  BY <1>4, <1>6, FS_CardinalityType
<1>8. static \in Nat /\ maxCacheBreakpoints \in Nat /\ tailLimit \in Nat
  BY TailLimits DEF CachingTyped, maxCacheBreakpoints
<1> QED BY <1>1, <1>4, <1>6, <1>7, <1>8, TailLimits

\* A block joins the conversation without a marker.
LEMMA NewBlockKeeps ==
  ASSUME CachingTyped, TailKept, newest' = newest + 1, UNCHANGED <<static, marked, positions>>
  PROVE  CachingTyped' /\ TailKept'
<1>1. PICK n \in Nat : /\ n <= tailLimit /\ positions \in [1 .. n -> 0 .. newest]
                       /\ marked \subseteq {positions[i] : i \in 1 .. n}
  BY DEF TailKept
<1>2. newest \in Nat /\ newest' \in Nat /\ 0 .. newest \subseteq 0 .. newest'
  BY DEF CachingTyped
<1>3. positions' \in [1 .. n -> 0 .. newest']
  BY <1>1, <1>2
<1>4. positions' \in Seq(0 .. newest')
  BY <1>3, FunctionIsSeq, Zenon
<1>5. static' \in 0 .. maxCacheBreakpoints /\ marked' \subseteq 0 .. newest'
  BY <1>2 DEF CachingTyped
<1>6. tailLimit' = tailLimit
  BY DEF tailLimit
<1>7. marked' \subseteq {positions'[i] : i \in 1 .. n}
  BY <1>1
<1> QED BY <1>1, <1>2, <1>3, <1>4, <1>5, <1>6, <1>7 DEF CachingTyped, TailKept

LEMMA NoMarkersKeep ==
  ASSUME static \in 0 .. maxCacheBreakpoints, newest \in Nat, marked = {}, positions = <<>>
  PROVE  CachingTyped /\ TailKept
<1>1. CachingTyped
  BY DEF CachingTyped
<1>2. 0 <= tailLimit
  BY <1>1, TailLimits
<1>3. positions \in [1 .. 0 -> 0 .. newest] /\ marked \subseteq {positions[i] : i \in 1 .. 0}
  OBVIOUS
<1> QED BY <1>1, <1>2, <1>3 DEF TailKept

LEMMA CachingKeeps ==
  ASSUME CachingTyped, TailKept, ClaudeNext PROVE CachingTyped' /\ TailKept'
<1>1. CASE UNCHANGED caching
  BY <1>1 DEF caching, CachingTyped, TailKept, tailLimit
<1>2. CASE advance
  BY <1>2, AdvanceKeeps
<1>3. CASE newest' = newest + 1 /\ UNCHANGED <<static, marked, positions>>
  BY <1>3, NewBlockKeeps
<1>4. CASE newest' = newest + 1 /\ UNCHANGED static /\ marked' = {} /\ positions' = <<>>
  <2>1. CachingTyped'
    BY <1>4 DEF CachingTyped
  <2>2. tailLimit' \in Nat
    BY <1>4, TailLimits DEF tailLimit
  <2>3. positions' \in [1 .. 0 -> 0 .. newest'] /\ marked' \subseteq {positions'[i] : i \in 1 .. 0}
    BY <1>4
  <2> QED BY <2>1, <2>2, <2>3 DEF TailKept
<1> QED BY <1>1, <1>2, <1>3, <1>4
  DEF ClaudeNext, claudeVars, caching, BeginTurn, Exhaust, Request, ReadCalls, Redirect,
      ReadRest, Stop, GoOn, Suspend, Reconfigure, Resume, Stripped, Drift

-----------------------------------------------------------------------------
(* The types of the three providers.                                       *)

ForcingTyped ==
  /\ force \in {"off", "first", "gate"} /\ choice \in {"auto", "submit"}
  /\ liveToolCalls \in 0 .. NudgeAfter
  /\ finalizeNudged \in BOOLEAN /\ deferredGateResolved \in BOOLEAN

LEMMA SameForcing ==
  ASSUME ForcingTyped, force' = force, forcing' = forcing PROVE ForcingTyped'
BY DEF ForcingTyped, forcing

LEMMA CountType == ASSUME TurnTyped, NEW K PROVE Count(K) \in Nat
<1>1. PICK n \in Nat : DOMAIN reply.calls = 1 .. n
  BY LenProperties DEF TurnTyped
<1>2. PICK C : C = {i \in DOMAIN reply.calls : reply.calls[i] \in K}
  OBVIOUS
<1>3. C \subseteq 1 .. n /\ IsFiniteSet(1 .. n)
  BY <1>1, <1>2, FS_Interval
<1>4. Cardinality(C) \in Nat
  BY <1>3, FS_Subset, FS_CardinalityType
<1> QED BY <1>2, <1>4 DEF Count

LEMMA ForcingKeeps ==
  ASSUME ForcingTyped, TurnTyped, ClaudeNext PROVE ForcingTyped'
<1>1. CASE ReadCalls
  <2>1. PICK k \in Nat : k = Count(CallKinds \ ({"submit"} \cap heldOutTools))
    BY CountType
  <2>2. liveToolCalls' = AtMost(liveToolCalls + k, NudgeAfter)
    BY <1>1, <2>1 DEF ReadCalls
  <2>3. liveToolCalls' \in 0 .. NudgeAfter
    BY <2>2, ClaudeAssumption DEF AtMost, ForcingTyped
  <2>4. PICK b : b = (deferredGateResolved \/ (force = "gate" /\ Count({"gate"}) > 0))
    OBVIOUS
  <2>5. b \in BOOLEAN
    BY <2>4, Zenon DEF ForcingTyped
  <2>6. deferredGateResolved' = b
    BY <1>1, <2>4 DEF ReadCalls
  <2>7. choice' = "auto" /\ UNCHANGED <<force, finalizeNudged>>
    BY <1>1 DEF ReadCalls
  <2> QED BY <2>3, <2>5, <2>6, <2>7 DEF ForcingTyped
<1>2. CASE GoOn
  <2>1. PICK b : b = (finalizeNudged \/ shouldNudgeFinalize)
    OBVIOUS
  <2>2. b \in BOOLEAN
    BY <2>1, Zenon DEF ForcingTyped
  <2>3. finalizeNudged' = b /\ UNCHANGED <<force, liveToolCalls, deferredGateResolved>>
    BY <1>2, <2>1 DEF GoOn
  <2>4. choice' \in {"auto", "submit"}
    BY <1>2 DEF GoOn, ForcingTyped
  <2> QED BY <2>2, <2>3, <2>4 DEF ForcingTyped
<1>3. CASE Redirect
  BY <1>3 DEF Redirect, ForcingTyped
<1>4. CASE Resume
  <2>1. /\ liveToolCalls' = 0 /\ finalizeNudged' = FALSE /\ deferredGateResolved' = FALSE
        /\ UNCHANGED <<force, choice>>
    BY <1>4 DEF Resume
  <2>2. 0 \in 0 .. NudgeAfter
    BY ClaudeAssumption
  <2> QED BY <2>1, <2>2, Zenon DEF ForcingTyped
<1>5. CASE UNCHANGED <<force, forcing>>
  BY <1>5, SameForcing
<1> QED BY <1>1, <1>2, <1>3, <1>4, <1>5
  DEF ClaudeNext, claudeVars, forcing, BeginTurn, Exhaust, Request, ReadRest, Stop, Suspend,
      Reconfigure, Drift

\* How a result ends the run.
LEMMA ResultEnds == ASSUME NEW i, ResultOf(i) PROVE \E how \in Endings \ {"none"} : End(how)
BY DEF ResultOf, Endings

LEMMA ClaudeTurnTyped ==
  ASSUME TurnTyped, ClaudeNext, {turn, turn'} \subseteq Nat,
         env \in [remaining : Nat, pending : Nat]
  PROVE  TurnTyped'
<1> USE DEF Endings
<1>1. CASE Seed \/ RunCalls
  BY <1>1, SharedTyped
<1>2. CASE Request
  BY <1>2, SharedTyped DEF Request, GoogleReplies
<1>3. CASE ReadCalls
  BY <1>3, SharedTyped DEF ReadCalls
<1>4. CASE BeginTurn \/ Exhaust
  BY <1>4, LeavingTyped DEF BeginTurn, Exhaust
<1>5. CASE Redirect
  BY <1>5, LeavingTyped DEF Redirect
<1>6. CASE ReadRest
  BY <1>6, LeavingTyped DEF ReadRest
<1>7. CASE Stop
  <2>1. \E how \in Endings \ {"none"} : End(how)
    BY <1>7, ResultEnds DEF Stop
  <2> QED BY <1>7, <2>1, LeavingTyped DEF Stop, Dispatched
<1>8. CASE GoOn
  BY <1>8, LeavingTyped DEF GoOn, Dispatched
<1>9. CASE Suspend
  <2>1. PICK S \in SUBSET DOMAIN slot : AddToHistory(S)
    BY <1>9 DEF Suspend
  <2> QED BY <1>9, <2>1, LeavingTyped DEF Suspend, Dispatched
<1>10. CASE Reconfigure
  BY <1>10 DEF Reconfigure, turnVars, TurnTyped, TurnTypeOK
<1>11. CASE Drift
  BY <1>11, LeavingTyped DEF Drift
<1>12. CASE Resume
  <2>1. env.pending \in Nat /\ open' = open - env.pending /\ GoTo("begin") /\ at = "parked"
        /\ UNCHANGED <<heldOutTools, turn, attempt, told, dirty, ended>>
    BY <1>12 DEF Resume
  <2>2. /\ slot' \in Seq(Slots) /\ Len(slot') = Len(reply'.calls)
        /\ reply'.kind = "none" /\ reply'.calls \in Seq(CallKinds)
    BY <2>1, NoCalls DEF GoTo
  <2>3. open' \in Int
    BY <2>1 DEF TurnTyped, TurnTypeOK
  <2>4. at' = "begin" /\ ended' = "none"
    BY <2>1 DEF GoTo, TurnTyped, TurnTypeOK
  <2>5. /\ heldOutTools' \subseteq {"submit", "ask"} /\ turn' \in Nat
        /\ attempt' \in 0 .. MaxRetries
    BY <2>1 DEF TurnTyped, TurnTypeOK
  <2>6. told' \in BOOLEAN /\ dirty' \in BOOLEAN
    BY <2>1 DEF TurnTyped, TurnTypeOK
  <2> QED BY <2>2, <2>3, <2>4, <2>5, <2>6 DEF TurnTyped, TurnTypeOK
<1> QED BY <1>1, <1>2, <1>3, <1>4, <1>5, <1>6, <1>7, <1>8, <1>9, <1>10, <1>11, <1>12
  DEF ClaudeNext

LEMMA GoogleTurnTyped ==
  ASSUME TurnTyped, GoogleNext, {turn, turn'} \subseteq Nat PROVE TurnTyped'
<1> USE DEF Endings
<1>1. CASE GoogleSeed \/ RunCalls
  BY <1>1, SharedTyped DEF GoogleSeed
<1>2. CASE sendWithRetry
  BY <1>2, SharedTyped DEF sendWithRetry
<1>3. CASE ReadFunctionCalls
  BY <1>3, SharedTyped DEF ReadFunctionCalls
<1>4. CASE FirstRequest \/ GoogleExhaust
  BY <1>4, LeavingTyped DEF FirstRequest, GoogleExhaust
<1>5. CASE ReadUnusable \/ retryDegenerateTurn \/ ReadAnswer
  BY <1>5, LeavingTyped DEF ReadUnusable, retryDegenerateTurn, ReadAnswer, Reading
<1>6. CASE SendResponses
  <2>1. CASE Stops # {}
    <3>1. \E how \in Endings \ {"none"} : End(how)
      BY <1>6, <2>1, ResultEnds DEF SendResponses
    <3> QED BY <1>6, <2>1, <3>1, LeavingTyped DEF SendResponses, Dispatched
  <2>2. CASE Stops = {}
    BY <1>6, <2>2, LeavingTyped DEF SendResponses, Dispatched
  <2> QED BY <2>1, <2>2
<1> QED BY <1>1, <1>2, <1>3, <1>4, <1>5, <1>6 DEF GoogleNext

LEMMA OpenAITurnTyped ==
  ASSUME TurnTyped, OpenAINext, {turn, turn'} \subseteq Nat PROVE TurnTyped'
<1> USE DEF Endings
<1>1. CASE NextTurn
  BY <1>1, LeavingTyped DEF NextTurn
<1>2. CASE Completion \/ RunCalls
  BY <1>2, SharedTyped DEF Completion, GoogleReplies
<1>3. CASE ReadChoice
  BY <1>3, SharedTyped, LeavingTyped DEF ReadChoice
<1>4. CASE ReadResults
  <2>1. CASE \E i \in DOMAIN slot : slot[i] = "error"
    BY <1>4, <2>1, LeavingTyped DEF ReadResults, Dispatched
  <2>2. CASE Stops # {} /\ ~\E i \in DOMAIN slot : slot[i] = "error"
    <3>1. \E how \in Endings \ {"none"} : End(how)
      BY <1>4, <2>2, ResultEnds DEF ReadResults
    <3> QED BY <1>4, <2>2, <3>1, LeavingTyped DEF ReadResults, Dispatched
  <2>3. CASE Stops = {} /\ ~\E i \in DOMAIN slot : slot[i] = "error"
    BY <1>4, <2>3, LeavingTyped DEF ReadResults, Dispatched
  <2> QED BY <2>1, <2>2, <2>3
<1> QED BY <1>1, <1>2, <1>3, <1>4 DEF OpenAINext

\* Empty answers are counted, and the one that is one too many is the last.
EmptyCounted ==
  /\ GoogleTypeOK
  /\ provider = "google" /\ at # "done" => emptyTurns <= maxEmptyResponseRetries

LEMMA EmptyKeeps ==
  ASSUME EmptyCounted, provider = "google", GoogleNext, UNCHANGED provider
  PROVE  EmptyCounted'
<1> USE GoogleAssumption DEF EmptyCounted, GoogleTypeOK
<1>1. at # "done"
  BY DEF GoogleNext, GoogleSeed, Seed, FirstRequest, sendWithRetry, Retry, SendFails, Receive,
         ReadUnusable, Reading, retryDegenerateTurn, ReadFunctionCalls, ReadAnswer, RunCalls,
         StartCall, EndCall, Submit, Ask, Turn, SendResponses, Dispatched, GoogleExhaust
<1>2. CASE UNCHANGED emptyTurns
  BY <1>1, <1>2
<1>3. CASE retryDegenerateTurn
  BY <1>1, <1>3 DEF retryDegenerateTurn, GoTo, End
<1> QED
  BY <1>2, <1>3
  DEF GoogleNext, GoogleSeed, FirstRequest, sendWithRetry, ReadUnusable, ReadFunctionCalls,
      ReadAnswer, SendResponses, GoogleExhaust

\* With the budgets, the types of a run, and what they rest on.
ExecutorsTyped ==
  /\ provider \in {"anthropic", "google", "openai"}
  /\ TurnTyped /\ ForcingTyped /\ CachingTyped /\ TailKept /\ EmptyCounted

LEMMA ExecutorsInitTyped == Init => ExecutorsTyped
<1> SUFFICES ASSUME Init PROVE ExecutorsTyped
  OBVIOUS
<1>1. TurnTyped
  <2>1. TurnInit /\ at \in {"seed", "begin", "send"} /\ heldOutTools \subseteq {"submit", "ask"}
    BY DEF Init, ClaudeInit, GoogleInit, OpenAIInit
  <2>2. /\ slot \in Seq(Slots) /\ Len(slot) = Len(reply.calls) /\ reply.kind = "none"
        /\ reply.calls \in Seq(CallKinds)
    BY <2>1 DEF TurnInit, NoReply, Says
  <2>3. attempt \in 0 .. MaxRetries /\ turn \in Nat /\ open \in Int
    BY <2>1, AgentAssumption DEF TurnInit
  <2> QED BY <2>1, <2>2, <2>3 DEF TurnTyped, TurnTypeOK, TurnInit, Endings
<1>2. ForcingTyped
  <2>1. NewRun /\ force \in {"off", "first", "gate"} /\ choice \in {"auto", "submit"}
    BY DEF Init, ClaudeInit, ClaudeIdle, assembleParams
  <2>2. 0 \in 0 .. NudgeAfter
    BY ClaudeAssumption
  <2> QED BY <2>1, <2>2, Zenon DEF ForcingTyped, NewRun
<1>3. CachingTyped /\ TailKept
  <2>1. CASE ClaudeInit
    BY <2>1, MarkersInit DEF ClaudeInit
  <2>2. CASE ClaudeIdle
    <3>1. static \in 0 .. maxCacheBreakpoints
      BY <2>2 DEF ClaudeIdle, maxCacheBreakpoints
    <3> QED BY <2>2, <3>1, NoMarkersKeep DEF ClaudeIdle
  <2> QED BY <2>1, <2>2 DEF Init
<1>4. EmptyCounted
  BY GoogleAssumption DEF Init, GoogleInit, GoogleIdle, EmptyCounted, GoogleTypeOK
<1> QED BY <1>1, <1>2, <1>3, <1>4 DEF ExecutorsTyped, Init

LEMMA ExecutorsStepTyped ==
  ASSUME ExecutorsTyped, BudgetsKept, BudgetsKept', [Next]_vars
  PROVE  ExecutorsTyped'
<1> USE DEF ExecutorsTyped
<1>1. CASE UNCHANGED vars
  BY <1>1
  DEF vars, turnVars, claudeVars, TurnTyped, TurnTypeOK, ForcingTyped, CachingTyped,
      TailKept, tailLimit, EmptyCounted, GoogleTypeOK
<1>2. CASE Next
  <2>1. {turn, turn'} \subseteq Nat /\ env \in [remaining : Nat, pending : Nat]
    BY DEF BudgetsKept
  <2>2. TurnTyped'
    BY <1>2, <2>1, ClaudeTurnTyped, GoogleTurnTyped, OpenAITurnTyped DEF Next
  <2>3. CASE provider = "anthropic" /\ ClaudeNext /\ UNCHANGED <<provider, emptyTurns>>
    <3>1. EmptyCounted'
      BY <2>3 DEF EmptyCounted, GoogleTypeOK
    <3> QED BY <2>2, <2>3, <3>1, ForcingKeeps, CachingKeeps
  <2>4. CASE provider # "anthropic" /\ UNCHANGED <<provider, claudeVars>>
    <3>1. ForcingTyped' /\ CachingTyped' /\ TailKept'
      BY <2>4 DEF claudeVars, ForcingTyped, CachingTyped, TailKept, tailLimit
    <3>2. EmptyCounted'
      <4>1. CASE GoogleNext /\ provider = "google"
        BY <2>4, <4>1, EmptyKeeps
      <4>2. CASE provider = "openai" /\ UNCHANGED emptyTurns
        BY <2>4, <4>2 DEF EmptyCounted, GoogleTypeOK
      <4> QED BY <1>2, <2>4, <4>1, <4>2 DEF Next
    <3> QED BY <2>2, <2>4, <3>1, <3>2
  <2> QED BY <1>2, <2>3, <2>4 DEF Next
<1> QED BY <1>1, <1>2

LEMMA ExecutorsAreTyped ==
  ASSUME ExecutorsTyped, BudgetsKept PROVE TypeOK /\ MarkersBounded
<1>1. ClaudeTypeOK
  <2>1. maxTurns \in Nat /\ turnBudget \in Nat /\ allowed \in Nat
        /\ env \in [remaining : Nat, pending : Nat]
    BY DEF BudgetsKept
  <2> QED BY <2>1 DEF ExecutorsTyped, ForcingTyped, CachingTyped, ClaudeTypeOK
<1>2. TypeOK
  BY <1>1 DEF TypeOK, ExecutorsTyped, TurnTyped, EmptyCounted
<1>3. MarkersBounded
  BY TailBounds DEF ExecutorsTyped, MarkersBounded
<1> QED BY <1>2, <1>3

-----------------------------------------------------------------------------
(***************************************************************************)
(* The finding tools, for any findings and any number of calls.            *)
(***************************************************************************)

LookingUp(c) == call[c].at \in {"looking", "fetching", "fetched"}
CallersAt(place, f) == {c \in Callers : call[c].at = place /\ About(c) = f}
RetryOf(x) == [tool |-> "retry", of |-> x, range |-> "from start"]

\* What a guard let pass is recorded, and nobody else is at it.
GuardsHold ==
  /\ \A c \in Callers :
       /\ LookingUp(c) => call[c].request \in Lookups \cap seen
       /\ call[c].at = "retrying" => call[c].request \in retryFindingTool \cap seen
       /\ call[c].at = "resolving" => call[c].request \in resolveFindingTool
       /\ call[c].at = "fetched" => call[c].version # NoLogs
  /\ \A c, d \in Callers :
       /\ LookingUp(c) /\ LookingUp(d) /\ call[c].request = call[d].request => c = d
       /\ call[c].at = "retrying" /\ call[d].at = "retrying" /\ About(c) = About(d) => c = d

\* A check that was run again is not about to be.
RerunsCounted ==
  \A f \in Checks :
    /\ rerun[f] <= 1 /\ (rerun[f] = 1 => RetryOf(f) \in seen)
    /\ \A c \in Callers : call[c].at = "retrying" /\ About(c) = f => rerun[f] = 0

\* An answer was given to a request that was recorded and that nobody is at.
AnswersOnce ==
  /\ \A s \in shown : s[1] \in seen
  /\ \A s \in shown, c \in Callers : LookingUp(c) => call[c].request # s[1]
  /\ \A s, t \in shown : s[1] = t[1] => s = t

\* Until the first of them is cached, logs were fetched by those who hold them.
FetchesCounted ==
  \A f \in Checks :
    /\ cache[f] = NoLogs => fetched[f] <= Cardinality(CallersAt("fetched", f))
    /\ fetched[f] + Cardinality(CallersAt("fetching", f)) <= Cardinality(Callers)

ToolsIInv ==
  FindingToolsTypeOK /\ GuardsHold /\ RerunsCounted /\ AnswersOnce /\ FetchesCounted

LEMMA RequestKinds ==
  /\ \A r \in Lookups : r.of \in Checks /\ r.tool \in {"read", "search"}
  /\ \A r \in retryFindingTool : r.tool = "retry" /\ r = RetryOf(r.of)
  /\ \A r \in resolveFindingTool : r.tool = "resolve"
  /\ \A r \in Requests : r \in Lookups \/ r \in retryFindingTool \/ r \in resolveFindingTool
<1>1. \A r \in Lookups : r.of \in Checks /\ r.tool \in {"read", "search"}
  BY DEF Lookups, readFindingLogsTool, searchFindingLogsTool, Requesting
<1>2. \A r \in retryFindingTool : r.tool = "retry" /\ r = RetryOf(r.of)
  <2> TAKE r \in retryFindingTool
  <2>1. r = [tool |-> r.tool, of |-> r.of, range |-> r.range]
    BY DEF retryFindingTool, Requesting
  <2>2. r.tool = "retry" /\ r.range = "from start"
    BY DEF retryFindingTool, Requesting
  <2> QED BY <2>1, <2>2, Zenon DEF RetryOf
<1>3. \A r \in resolveFindingTool : r.tool = "resolve"
  BY DEF resolveFindingTool, Requesting
<1>4. \A r \in Requests : r \in Lookups \/ r \in retryFindingTool \/ r \in resolveFindingTool
  BY DEF Requests
<1> QED BY <1>1, <1>2, <1>3, <1>4, Zenon

LEMMA ToolsInitInv == FindingToolsInit => ToolsIInv
<1> SUFFICES ASSUME FindingToolsInit PROVE ToolsIInv
  OBVIOUS
<1>1. MaxVersions \in Nat \ {0} /\ IsFiniteSet(Callers)
  BY FindingToolsAssumption
<1>2. FindingToolsTypeOK
  BY <1>1 DEF FindingToolsInit, FindingToolsTypeOK, Idle, NoLogs
<1>3. GuardsHold /\ RerunsCounted /\ AnswersOnce
  BY DEF FindingToolsInit, GuardsHold, RerunsCounted, AnswersOnce, LookingUp, Idle
<1>4. FetchesCounted
  <2> SUFFICES ASSUME NEW f \in Checks
               PROVE  /\ fetched[f] <= Cardinality(CallersAt("fetched", f))
                      /\ fetched[f] + Cardinality(CallersAt("fetching", f)) <= Cardinality(Callers)
    BY DEF FetchesCounted
  <2>1. CallersAt("fetched", f) = {} /\ CallersAt("fetching", f) = {}
    BY DEF FindingToolsInit, CallersAt, Idle
  <2>2. Cardinality({}) = 0 /\ Cardinality(Callers) \in Nat
    BY <1>1, FS_EmptySet, FS_CardinalityType
  <2> QED BY <2>1, <2>2 DEF FindingToolsInit
<1> QED BY <1>2, <1>3, <1>4 DEF ToolsIInv

\* What a step of one caller leaves as it was.
LEMMA OneCaller ==
  ASSUME FindingToolsTypeOK, NEW c \in Callers, NEW x, call' = [call EXCEPT ![c] = x]
  PROVE  /\ call'[c] = x
         /\ \A d \in Callers \ {c} : call'[d] = call[d]
BY DEF FindingToolsTypeOK

\* A change of place keeps the request.
LEMMA MovesFacts ==
  ASSUME FindingToolsTypeOK, NEW c \in Callers, NEW place, NEW version, Moves(c, place, version)
  PROVE  \E x : /\ call' = [call EXCEPT ![c] = x]
                /\ x = [at |-> place, request |-> call[c].request, version |-> version]
<1>1. c \in DOMAIN call /\ \E a, q, v : call[c] = [at |-> a, request |-> q, version |-> v]
  BY DEF FindingToolsTypeOK
<1>2. PICK x : x = [[call[c] EXCEPT !.at = place] EXCEPT !.version = version]
  OBVIOUS
<1>3. x = [at |-> place, request |-> call[c].request, version |-> version]
  <2>1. PICK a, q, v : call[c] = [at |-> a, request |-> q, version |-> v]
    BY <1>1
  <2>2. PICK y : y = [call[c] EXCEPT !.at = place]
    OBVIOUS
  <2>3. y = [at |-> place, request |-> q, version |-> v] /\ x = [y EXCEPT !.version = version]
    BY <1>2, <2>1, <2>2
  <2> QED BY <2>1, <2>3
<1>4. call' = [call EXCEPT ![c] = x]
  BY <1>1, <1>2 DEF Moves
<1> QED BY <1>3, <1>4

LEMMA SomeCallers ==
  ASSUME NEW A \in SUBSET Callers
  PROVE  IsFiniteSet(A) /\ Cardinality(A) \in Nat /\ Cardinality(Callers) \in Nat
BY FindingToolsAssumption, FS_Subset, FS_CardinalityType

LEMMA TwoGroups ==
  ASSUME NEW A \in SUBSET Callers, NEW B \in SUBSET Callers, A \cap B = {}
  PROVE  Cardinality(A) + Cardinality(B) <= Cardinality(Callers)
<1>1. /\ IsFiniteSet(A) /\ Cardinality(A) \in Nat /\ IsFiniteSet(B) /\ Cardinality(B) \in Nat
  BY SomeCallers
<1>2. Cardinality(A \cap B) = 0
  BY FS_EmptySet
<1>3. Cardinality(A \cup B) = Cardinality(A) + Cardinality(B)
  <2>1. Cardinality(A \cup B) = Cardinality(A) + Cardinality(B) - Cardinality(A \cap B)
    BY <1>1, FS_Union, Zenon
  <2> QED BY <1>1, <1>2, <2>1
<1>4. Cardinality(A \cup B) <= Cardinality(Callers)
  BY FindingToolsAssumption, FS_Subset
<1> QED BY <1>1, <1>3, <1>4

-----------------------------------------------------------------------------
(* Steps.                                                                  *)

LEMMA BeginKeeps ==
  ASSUME ToolsIInv, NEW c \in Callers, NEW r \in Requests, Begin(c, r) PROVE ToolsIInv'
<1> DEFINE place == CASE r.tool = "retry"   -> "retrying"
                      [] r.tool = "resolve" -> "resolving"
                      [] OTHER              -> "looking"
<1> USE DEF ToolsIInv
<1>1. PICK x : x = [at |-> place, request |-> r, version |-> NoLogs]
  OBVIOUS
<1>0. call' = [call EXCEPT ![c] = x]
  BY <1>1, Zenon DEF Begin
<1>2. call'[c] = x /\ \A d \in Callers \ {c} : call'[d] = call[d]
  BY <1>0, OneCaller
<1>3. /\ r \in Lookups => x.at = "looking" /\ seen' = seen \cup {r}
      /\ r \in retryFindingTool => x.at = "retrying" /\ seen' = seen \cup {r} /\ r = RetryOf(r.of)
      /\ r \in resolveFindingTool => x.at = "resolving" /\ seen' = seen
      /\ r \in Lookups \/ r \in retryFindingTool \/ r \in resolveFindingTool
  <2>1. /\ r \in Lookups => r \notin resolveFindingTool /\ r.tool # "retry" /\ r.tool # "resolve"
        /\ r \in retryFindingTool => r \notin resolveFindingTool /\ r.tool = "retry"
        /\ r \in resolveFindingTool => r.tool = "resolve"
    BY RequestKinds
  <2> QED BY <1>1, <2>1, RequestKinds DEF Begin
<1>4. /\ x.request = r /\ x.version = NoLogs /\ r \notin seen /\ call[c].at = "idle"
      /\ UNCHANGED <<logs, rerun, resolved, cache, fetched, shown>>
  BY <1>1 DEF Begin, Duplicate
<1>5. FindingToolsTypeOK'
  <2>1. x \in [at : {"idle", "looking", "fetching", "fetched", "retrying", "resolving"},
               request : Requests \cup {NoRequest}, version : 0 .. MaxVersions]
    BY <1>1, <1>3, FindingToolsAssumption DEF NoLogs
  <2>2. seen' \subseteq Lookups \cup retryFindingTool
    BY <1>3, Zenon DEF FindingToolsTypeOK
  <2>3. call' \in [Callers -> [at : {"idle", "looking", "fetching", "fetched", "retrying",
                                    "resolving"},
                              request : Requests \cup {NoRequest}, version : 0 .. MaxVersions]]
    BY <1>0, <2>1 DEF FindingToolsTypeOK
  <2> QED BY <1>4, <2>2, <2>3 DEF FindingToolsTypeOK
<1>6. GuardsHold'
  <2>1. ASSUME NEW d \in Callers
        PROVE  /\ LookingUp(d)' => call'[d].request \in Lookups \cap seen'
               /\ call'[d].at = "retrying" => call'[d].request \in retryFindingTool \cap seen'
               /\ call'[d].at = "resolving" => call'[d].request \in resolveFindingTool
               /\ call'[d].at = "fetched" => call'[d].version # NoLogs
    BY <1>2, <1>3, <1>4 DEF GuardsHold, LookingUp
  <2>2. ASSUME NEW d \in Callers \ {c}
        PROVE  /\ LookingUp(d) => call[d].request # r
               /\ call[d].at = "retrying" /\ r \in retryFindingTool => About(d) # r.of
    BY <1>3, <1>4, RequestKinds DEF GuardsHold, About
  <2>3. ASSUME NEW d \in Callers, NEW e \in Callers
        PROVE  /\ LookingUp(d)' /\ LookingUp(e)' /\ call'[d].request = call'[e].request => d = e
               /\ call'[d].at = "retrying" /\ call'[e].at = "retrying" /\ About(d)' = About(e)'
                    => d = e
    <3>1. CASE d # c /\ e # c
      BY <1>2, <2>3, <3>1 DEF GuardsHold, LookingUp, About
    <3>2. CASE d = c /\ e # c
      BY <1>2, <1>3, <1>4, <2>2, <3>2 DEF LookingUp, About
    <3>3. CASE d # c /\ e = c
      BY <1>2, <1>3, <1>4, <2>2, <3>3 DEF LookingUp, About
    <3> QED BY <3>1, <3>2, <3>3
  <2> QED BY <2>1, <2>3 DEF GuardsHold
<1>7. RerunsCounted'
  BY <1>2, <1>3, <1>4 DEF RerunsCounted, About, FindingToolsTypeOK
<1>8. AnswersOnce'
  BY <1>2, <1>3, <1>4 DEF AnswersOnce, LookingUp
<1>9. FetchesCounted'
  <2>1. \A f : /\ CallersAt("fetched", f)' = CallersAt("fetched", f)
               /\ CallersAt("fetching", f)' = CallersAt("fetching", f)
    BY <1>2, <1>3, <1>4 DEF CallersAt, About
  <2> QED BY <1>4, <2>1 DEF FetchesCounted
<1> QED BY <1>5, <1>6, <1>7, <1>8, <1>9

\* A caller that is through with its request leaves the others as they are.
LEMMA AnsweredFacts ==
  ASSUME FindingToolsTypeOK, NEW c \in Callers, Answered(c)
  PROVE  /\ call' \in [Callers -> [at : {"idle", "looking", "fetching", "fetched", "retrying",
                                         "resolving"},
                                   request : Requests \cup {NoRequest}, version : 0 .. MaxVersions]]
         /\ call'[c].at = "idle"
         /\ \A d \in Callers \ {c} : call'[d] = call[d]
<1>1. PICK x : x = Idle
  OBVIOUS
<1>2. call' = [call EXCEPT ![c] = x]
  BY <1>1 DEF Answered
<1>3. x.at = "idle" /\ x \in [at : {"idle", "looking", "fetching", "fetched", "retrying",
                                     "resolving"},
                               request : Requests \cup {NoRequest}, version : 0 .. MaxVersions]
  BY <1>1, FindingToolsAssumption DEF Idle, NoLogs
<1> QED BY <1>2, <1>3 DEF FindingToolsTypeOK

LEMMA AnsweredGuards ==
  ASSUME FindingToolsTypeOK, GuardsHold, NEW c \in Callers, Answered(c), seen' = seen
  PROVE  GuardsHold'
<1>1. call'[c].at = "idle" /\ \A d \in Callers \ {c} : call'[d] = call[d]
  BY AnsweredFacts
<1> QED BY <1>1 DEF GuardsHold, LookingUp, About

\* The answer of a lookup.
LEMMA ShowKeeps ==
  ASSUME FindingToolsTypeOK, GuardsHold, AnswersOnce, NEW c \in Callers, LookingUp(c),
         NEW v \in 1 .. MaxVersions, Show(c, v), seen' = seen
  PROVE  GuardsHold' /\ AnswersOnce' /\ shown' \subseteq Lookups \X (1 .. MaxVersions)
<1>1. call'[c].at = "idle" /\ \A d \in Callers \ {c} : call'[d] = call[d]
  BY AnsweredFacts DEF Show
<1>2. PICK s : s = <<call[c].request, v>>
  OBVIOUS
<1>3. /\ shown' = shown \cup {s} /\ s[1] = call[c].request
      /\ s[1] \in Lookups \cap seen /\ s \in Lookups \X (1 .. MaxVersions)
  BY <1>2 DEF Show, GuardsHold
<1>4. \A t \in shown : t[1] # s[1]
  BY <1>3 DEF AnswersOnce
<1>5. \A d \in Callers : LookingUp(d)' => d # c /\ LookingUp(d) /\ call'[d].request = call[d].request
  BY <1>1 DEF LookingUp
<1>6. \A d \in Callers : LookingUp(d)' => call'[d].request # s[1]
  BY <1>3, <1>5 DEF GuardsHold
<1>7. AnswersOnce'
  BY <1>3, <1>4, <1>5, <1>6 DEF AnswersOnce
<1> QED BY <1>3, <1>7, AnsweredGuards DEF Show, FindingToolsTypeOK

LEMMA LookKeeps == ASSUME ToolsIInv, NEW c \in Callers, Look(c) PROVE ToolsIInv'
<1> USE DEF ToolsIInv
<1>1. /\ call[c].at = "looking" /\ LookingUp(c) /\ call[c].request \in Lookups
      /\ About(c) \in Checks /\ UNCHANGED <<logs, rerun, resolved, seen, cache, fetched>>
  BY RequestKinds DEF Look, LookingUp, GuardsHold, About
<1>2. cache \in [Checks -> 0 .. MaxVersions] /\ MaxVersions \in Nat \ {0}
  BY FindingToolsAssumption DEF FindingToolsTypeOK
<1>3. CASE cache[About(c)] # NoLogs /\ Show(c, cache[About(c)])
  <2>1. cache[About(c)] \in 1 .. MaxVersions
    BY <1>1, <1>2, <1>3 DEF NoLogs
  <2>2. GuardsHold' /\ AnswersOnce' /\ shown' \subseteq Lookups \X (1 .. MaxVersions)
    BY <1>1, <1>3, <2>1, ShowKeeps
  <2>3. /\ call'[c].at = "idle" /\ \A d \in Callers \ {c} : call'[d] = call[d]
        /\ FindingToolsTypeOK'
    BY <1>1, <1>3, <2>2, AnsweredFacts DEF Show, FindingToolsTypeOK
  <2>4. RerunsCounted'
    BY <1>1, <2>3 DEF RerunsCounted, About
  <2>5. FetchesCounted'
    <3>1. \A f : /\ CallersAt("fetched", f)' = CallersAt("fetched", f)
                 /\ CallersAt("fetching", f)' = CallersAt("fetching", f)
      BY <1>1, <2>3 DEF CallersAt, About
    <3> QED BY <1>1, <3>1 DEF FetchesCounted
  <2> QED BY <2>2, <2>3, <2>4, <2>5
<1>4. CASE cache[About(c)] = NoLogs /\ Moves(c, "fetching", NoLogs) /\ UNCHANGED shown
  <2>1. PICK x : /\ call' = [call EXCEPT ![c] = x]
                 /\ x = [at |-> "fetching", request |-> call[c].request, version |-> NoLogs]
    BY <1>4, MovesFacts
  <2>2. call'[c] = x /\ \A d \in Callers \ {c} : call'[d] = call[d]
    BY <2>1, OneCaller
  <2>3. x.at = "fetching" /\ x.request = call[c].request /\ x.version = NoLogs
    BY <2>1
  <2>4. FindingToolsTypeOK'
    <3>1. x \in [at : {"idle", "looking", "fetching", "fetched", "retrying", "resolving"},
                 request : Requests \cup {NoRequest}, version : 0 .. MaxVersions]
      BY <1>1, <1>2, <2>1 DEF NoLogs, Requests
    <3> QED BY <1>1, <1>4, <2>1, <3>1 DEF FindingToolsTypeOK
  <2>5. GuardsHold' /\ AnswersOnce' /\ RerunsCounted'
    BY <1>1, <1>4, <2>2, <2>3 DEF GuardsHold, AnswersOnce, RerunsCounted, LookingUp, About
  <2>6. ASSUME NEW f \in Checks
        PROVE  /\ CallersAt("fetched", f)' = CallersAt("fetched", f)
               /\ f # About(c) => CallersAt("fetching", f)' = CallersAt("fetching", f)
    BY <1>1, <2>2, <2>3 DEF CallersAt, About
  <2>7. ASSUME NEW f \in Checks
        PROVE  /\ cache'[f] = NoLogs => fetched'[f] <= Cardinality(CallersAt("fetched", f)')
               /\ fetched'[f] + Cardinality(CallersAt("fetching", f)') <= Cardinality(Callers)
    <3>1. cache'[f] = NoLogs => fetched'[f] <= Cardinality(CallersAt("fetched", f)')
      BY <1>1, <2>6 DEF FetchesCounted
    <3>2. CASE f # About(c)
      BY <1>1, <2>6, <3>1, <3>2 DEF FetchesCounted
    <3>3. CASE f = About(c)
      <4>1. fetched'[f] <= Cardinality(CallersAt("fetched", f)') /\ fetched'[f] \in Nat
        BY <1>1, <1>4, <3>1, <3>3 DEF FindingToolsTypeOK
      <4>2. /\ CallersAt("fetching", f)' \in SUBSET Callers
            /\ CallersAt("fetched", f)' \in SUBSET Callers
            /\ CallersAt("fetching", f)' \cap CallersAt("fetched", f)' = {}
        BY DEF CallersAt
      <4>3. Cardinality(CallersAt("fetching", f)') + Cardinality(CallersAt("fetched", f)')
              <= Cardinality(Callers)
        BY <4>2, TwoGroups
      <4>4. /\ Cardinality(CallersAt("fetching", f)') \in Nat
            /\ Cardinality(CallersAt("fetched", f)') \in Nat /\ Cardinality(Callers) \in Nat
        BY <4>2, SomeCallers
      <4> QED BY <3>1, <4>1, <4>3, <4>4
    <3> QED BY <3>2, <3>3
  <2>8. FetchesCounted'
    BY <2>7 DEF FetchesCounted
  <2> QED BY <2>4, <2>5, <2>8
<1> QED BY <1>3, <1>4 DEF Look

LEMMA GetLogsKeeps == ASSUME ToolsIInv, NEW c \in Callers, GetLogs(c) PROVE ToolsIInv'
<1> USE DEF ToolsIInv
<1>1. /\ call[c].at = "fetching" /\ LookingUp(c) /\ call[c].request \in Lookups
      /\ About(c) \in Checks /\ UNCHANGED <<logs, rerun, resolved, seen, cache, shown>>
  BY RequestKinds DEF GetLogs, LookingUp, GuardsHold, About
<1>2. /\ logs \in [Checks -> 1 .. MaxVersions] /\ MaxVersions \in Nat \ {0}
      /\ fetched \in [Checks -> Nat]
  BY FindingToolsAssumption DEF FindingToolsTypeOK
<1>3. CASE /\ Moves(c, "fetched", logs[About(c)])
           /\ fetched' = [fetched EXCEPT ![About(c)] = @ + 1]
  <2>1. PICK x : /\ call' = [call EXCEPT ![c] = x]
                 /\ x = [at |-> "fetched", request |-> call[c].request,
                         version |-> logs[About(c)]]
    BY <1>3, MovesFacts, Zenon
  <2>2. call'[c] = x /\ \A d \in Callers \ {c} : call'[d] = call[d]
    <3>1. call' = [call EXCEPT ![c] = x]
      BY <2>1, Zenon
    <3> QED BY <3>1, OneCaller
  <2>3. /\ x.at = "fetched" /\ x.request = call[c].request /\ x.version \in 1 .. MaxVersions
        /\ x.version # NoLogs
    BY <1>1, <1>2, <2>1 DEF NoLogs
  <2>4. FindingToolsTypeOK'
    <3>1. x \in [at : {"idle", "looking", "fetching", "fetched", "retrying", "resolving"},
                 request : Requests \cup {NoRequest}, version : 0 .. MaxVersions]
      BY <1>1, <1>2, <2>1 DEF Requests
    <3>2. fetched' \in [Checks -> Nat]
      BY <1>1, <1>2, <1>3
    <3> QED BY <1>1, <2>1, <3>1, <3>2 DEF FindingToolsTypeOK
  <2>5. GuardsHold' /\ AnswersOnce' /\ RerunsCounted'
    BY <1>1, <2>2, <2>3 DEF GuardsHold, AnswersOnce, RerunsCounted, LookingUp, About
  <2>6. ASSUME NEW f \in Checks
        PROVE  /\ cache'[f] = NoLogs => fetched'[f] <= Cardinality(CallersAt("fetched", f)')
               /\ fetched'[f] + Cardinality(CallersAt("fetching", f)') <= Cardinality(Callers)
    <3> DEFINE A == CallersAt("fetching", f)
               B == CallersAt("fetched", f)
    <3>1. /\ cache[f] = NoLogs => fetched[f] <= Cardinality(B)
          /\ fetched[f] + Cardinality(A) <= Cardinality(Callers)
          /\ A \in SUBSET Callers /\ B \in SUBSET Callers /\ fetched[f] \in Nat
      <4>1. A \in SUBSET Callers /\ B \in SUBSET Callers
        BY DEF CallersAt
      <4> QED BY <1>2, <4>1 DEF FetchesCounted
    <3>2. CASE f # About(c)
      <4>1. A' = A /\ B' = B
        BY <1>1, <2>2, <2>3, <3>2 DEF CallersAt, About
      <4>2. fetched'[f] = fetched[f] /\ cache' = cache
        BY <1>1, <1>2, <1>3, <3>2
      <4> HIDE DEF A, B
      <4>3. /\ cache'[f] = NoLogs => fetched'[f] <= Cardinality(B')
            /\ fetched'[f] + Cardinality(A') <= Cardinality(Callers)
        BY <3>1, <4>1, <4>2
      <4> QED BY <4>3 DEF A, B
    <3>3. CASE f = About(c)
      <4>1. A' = A \ {c} /\ B' = B \cup {c} /\ c \in A /\ c \notin B
        BY <1>1, <2>2, <2>3, <3>3 DEF CallersAt, About
      <4>2. fetched'[f] = fetched[f] + 1 /\ cache' = cache
        BY <1>1, <1>2, <1>3, <3>3
      <4> HIDE DEF A, B
      <4>3. IsFiniteSet(A) /\ IsFiniteSet(B)
            /\ Cardinality(A) \in Nat /\ Cardinality(B) \in Nat /\ Cardinality(Callers) \in Nat
        BY <3>1, SomeCallers
      <4>4. Cardinality(A \ {c}) = Cardinality(A) - 1
        BY <4>1, <4>3, FS_RemoveElement
      <4>5. Cardinality(B \cup {c}) = Cardinality(B) + 1
        BY <4>1, <4>3, FS_AddElement
      <4>6. /\ cache'[f] = NoLogs => fetched'[f] <= Cardinality(B')
            /\ fetched'[f] + Cardinality(A') <= Cardinality(Callers)
        BY <3>1, <4>1, <4>2, <4>3, <4>4, <4>5
      <4> QED BY <4>6 DEF A, B
    <3> QED BY <3>2, <3>3
  <2>7. FetchesCounted'
    BY <2>6 DEF FetchesCounted
  <2> QED BY <2>4, <2>5, <2>7
<1>4. CASE Answered(c) /\ UNCHANGED fetched
  <2>1. call'[c].at = "idle" /\ \A d \in Callers \ {c} : call'[d] = call[d]
    BY <1>4, AnsweredFacts
  <2>2. FindingToolsTypeOK' /\ GuardsHold'
    BY <1>1, <1>4, AnsweredFacts, AnsweredGuards DEF FindingToolsTypeOK
  <2>3. AnswersOnce' /\ RerunsCounted'
    BY <1>1, <2>1 DEF AnswersOnce, RerunsCounted, LookingUp, About
  <2>4. ASSUME NEW f \in Checks
        PROVE  /\ cache'[f] = NoLogs => fetched'[f] <= Cardinality(CallersAt("fetched", f)')
               /\ fetched'[f] + Cardinality(CallersAt("fetching", f)') <= Cardinality(Callers)
    <3>1. /\ CallersAt("fetched", f)' = CallersAt("fetched", f)
          /\ CallersAt("fetching", f)' \in SUBSET CallersAt("fetching", f)
          /\ CallersAt("fetching", f) \in SUBSET Callers
          /\ CallersAt("fetching", f)' \in SUBSET Callers
      BY <1>1, <2>1 DEF CallersAt, About
    <3>2. /\ IsFiniteSet(CallersAt("fetching", f)) /\ Cardinality(CallersAt("fetching", f)) \in Nat
          /\ Cardinality(CallersAt("fetching", f)') \in Nat /\ Cardinality(Callers) \in Nat
      BY <3>1, SomeCallers
    <3>3. Cardinality(CallersAt("fetching", f)') <= Cardinality(CallersAt("fetching", f))
      BY <3>1, <3>2, FS_Subset
    <3>4. fetched' = fetched /\ cache' = cache /\ fetched[f] \in Nat
      BY <1>1, <1>2, <1>4
    <3> QED BY <3>1, <3>2, <3>3, <3>4 DEF FetchesCounted
  <2>5. FetchesCounted'
    BY <2>4 DEF FetchesCounted
  <2> QED BY <2>2, <2>3, <2>5
<1> QED BY <1>1, <1>3, <1>4 DEF GetLogs

LEMMA StoreKeeps == ASSUME ToolsIInv, NEW c \in Callers, Store(c) PROVE ToolsIInv'
<1> USE DEF ToolsIInv
<1>1. /\ call[c].at = "fetched" /\ LookingUp(c) /\ call[c].request \in Lookups
      /\ About(c) \in Checks /\ UNCHANGED <<logs, rerun, resolved, seen, fetched>>
      /\ call[c].version # NoLogs /\ call[c].version \in 0 .. MaxVersions
      /\ cache' = [cache EXCEPT ![About(c)] = call[c].version] /\ Show(c, call[c].version)
  BY RequestKinds DEF Store, LookingUp, GuardsHold, About, FindingToolsTypeOK
<1>2. call[c].version \in 1 .. MaxVersions
  BY <1>1, FindingToolsAssumption DEF NoLogs
<1>3. GuardsHold' /\ AnswersOnce' /\ shown' \subseteq Lookups \X (1 .. MaxVersions)
  BY <1>1, <1>2, ShowKeeps
<1>4. /\ call'[c].at = "idle" /\ \A d \in Callers \ {c} : call'[d] = call[d]
      /\ FindingToolsTypeOK'
  BY <1>1, <1>3, AnsweredFacts DEF Show, FindingToolsTypeOK
<1>5. RerunsCounted'
  BY <1>1, <1>4 DEF RerunsCounted, About
<1>6. ASSUME NEW f \in Checks
      PROVE  /\ cache'[f] = NoLogs => f # About(c) /\ cache[f] = NoLogs
             /\ f # About(c) => CallersAt("fetched", f)' = CallersAt("fetched", f)
             /\ CallersAt("fetching", f)' = CallersAt("fetching", f)
  BY <1>1, <1>4 DEF CallersAt, About, FindingToolsTypeOK
<1>7. FetchesCounted'
  BY <1>1, <1>6 DEF FetchesCounted
<1> QED BY <1>3, <1>4, <1>5, <1>7

\* A retry or a resolution is over, whatever came of it.
LEMMA MutationKeeps ==
  ASSUME ToolsIInv, NEW c \in Callers, RetryFinding(c) \/ Resolve(c) PROVE ToolsIInv'
<1> USE DEF ToolsIInv
<1>1. /\ call[c].at \in {"retrying", "resolving"} /\ Answered(c)
      /\ UNCHANGED <<logs, seen, cache, fetched, shown>>
  BY DEF RetryFinding, Resolve
<1>2. call'[c].at = "idle" /\ \A d \in Callers \ {c} : call'[d] = call[d]
  BY <1>1, AnsweredFacts
<1>3. /\ rerun' \in [Checks -> Nat] /\ resolved' \subseteq Threads
  BY DEF RetryFinding, Resolve, FindingToolsTypeOK
<1>4. FindingToolsTypeOK' /\ GuardsHold'
  BY <1>1, <1>3, AnsweredFacts, AnsweredGuards DEF FindingToolsTypeOK
<1>5. AnswersOnce'
  BY <1>1, <1>2 DEF AnswersOnce, LookingUp
<1>6. ASSUME NEW f \in Checks
      PROVE  /\ CallersAt("fetched", f)' = CallersAt("fetched", f)
             /\ CallersAt("fetching", f)' = CallersAt("fetching", f)
  BY <1>1, <1>2 DEF CallersAt, About
<1>7. FetchesCounted'
  BY <1>1, <1>6 DEF FetchesCounted
<1>8. RerunsCounted'
  <2>1. CASE UNCHANGED rerun
    BY <1>1, <1>2, <2>1 DEF RerunsCounted, About
  <2>2. CASE /\ call[c].at = "retrying" /\ About(c) \in Checks
             /\ rerun' = [rerun EXCEPT ![About(c)] = @ + 1]
    <3>1. call[c].request = RetryOf(About(c)) /\ RetryOf(About(c)) \in seen
      BY <2>2, RequestKinds DEF GuardsHold, About
    <3>2. \A d \in Callers \ {c} : call[d].at = "retrying" => About(d) # About(c)
      BY <2>2 DEF GuardsHold
    <3>3. rerun[About(c)] = 0 /\ rerun \in [Checks -> Nat]
      BY <2>2 DEF RerunsCounted, FindingToolsTypeOK
    <3> QED BY <1>1, <1>2, <2>2, <3>1, <3>2, <3>3 DEF RerunsCounted, About
  <2> QED BY <2>1, <2>2 DEF RetryFinding, Resolve
<1> QED BY <1>4, <1>5, <1>7, <1>8

LEMMA NewLogsKeeps == ASSUME ToolsIInv, NEW f \in Checks, NewLogs(f) PROVE ToolsIInv'
<1> USE DEF ToolsIInv
<1>1. UNCHANGED <<rerun, resolved, seen, cache, call, fetched, shown>>
  BY DEF NewLogs
<1>2. FindingToolsTypeOK'
  BY <1>1, FindingToolsAssumption DEF NewLogs, FindingToolsTypeOK
<1>3. GuardsHold' /\ RerunsCounted' /\ AnswersOnce' /\ FetchesCounted'
  BY <1>1 DEF GuardsHold, RerunsCounted, AnswersOnce, FetchesCounted, LookingUp, About,
     CallersAt
<1> QED BY <1>2, <1>3

LEMMA ToolsAnewKeeps == ASSUME ToolsIInv, ToolsAnew PROVE ToolsIInv'
<1> USE DEF ToolsIInv
<1>1. FindingToolsTypeOK'
  BY FindingToolsAssumption DEF ToolsAnew, FindingToolsTypeOK, NoLogs
<1>2. GuardsHold' /\ AnswersOnce' /\ RerunsCounted'
  BY DEF ToolsAnew, GuardsHold, AnswersOnce, RerunsCounted, LookingUp
<1>3. FetchesCounted'
  <2> SUFFICES ASSUME NEW f \in Checks
               PROVE  /\ fetched'[f] <= Cardinality(CallersAt("fetched", f)')
                      /\ fetched'[f] + Cardinality(CallersAt("fetching", f)')
                           <= Cardinality(Callers)
    BY DEF FetchesCounted
  <2>1. CallersAt("fetched", f)' = {} /\ CallersAt("fetching", f)' = {} /\ fetched'[f] = 0
    BY DEF ToolsAnew, CallersAt
  <2>2. Cardinality({}) = 0 /\ Cardinality(Callers) \in Nat
    BY FindingToolsAssumption, FS_EmptySet, FS_CardinalityType
  <2> QED BY <2>1, <2>2
<1> QED BY <1>1, <1>2, <1>3

LEMMA ToolsStepInv == ToolsIInv /\ [FindingToolsNext]_findingToolsVars => ToolsIInv'
<1> SUFFICES ASSUME ToolsIInv, [FindingToolsNext]_findingToolsVars PROVE ToolsIInv'
  OBVIOUS
<1>1. CASE UNCHANGED findingToolsVars
  BY <1>1 DEF findingToolsVars, ToolsIInv, FindingToolsTypeOK, GuardsHold, RerunsCounted,
              AnswersOnce, FetchesCounted, LookingUp, About, CallersAt
<1> QED
  BY <1>1, BeginKeeps, LookKeeps, GetLogsKeeps, StoreKeeps, MutationKeeps, NewLogsKeeps,
     ToolsAnewKeeps DEF FindingToolsNext

LEMMA ToolsAreSound == ToolsIInv => FindingToolsSound
<1> SUFFICES ASSUME ToolsIInv PROVE FindingToolsSound
  OBVIOUS
<1>1. ASSUME NEW f \in Checks PROVE fetched[f] <= Cardinality(Callers)
  <2>1. /\ fetched[f] + Cardinality(CallersAt("fetching", f)) <= Cardinality(Callers)
        /\ fetched[f] \in Nat /\ CallersAt("fetching", f) \in SUBSET Callers
    BY DEF ToolsIInv, FetchesCounted, FindingToolsTypeOK, CallersAt
  <2>2. Cardinality(CallersAt("fetching", f)) \in Nat /\ Cardinality(Callers) \in Nat
    BY <2>1, SomeCallers
  <2> QED BY <2>1, <2>2
<1> QED BY <1>1 DEF ToolsIInv, RerunsCounted, AnswersOnce, FindingToolsSound

\* What LogsStay says of a step.
LogsKept ==
  \A f \in Checks : LogsSettled(f) => ToolsAnew \/ (cache'[f] = cache[f] /\ LogsSettled(f)')

\* No call begins to fetch what is cached, and only one that fetched it caches it.
LEMMA StepKeepsLogs ==
  ASSUME ToolsIInv, [FindingToolsNext]_findingToolsVars
  PROVE  LogsKept
<1> SUFFICES ASSUME NEW f \in Checks, LogsSettled(f), ~ToolsAnew
             PROVE  cache'[f] = cache[f] /\ LogsSettled(f)'
  BY DEF LogsKept
<1>1. /\ cache \in [Checks -> 0 .. MaxVersions] /\ cache[f] # NoLogs
      /\ \A d \in Callers : About(d) = f => call[d].at \notin {"fetching", "fetched"}
      /\ call \in [Callers -> [at : {"idle", "looking", "fetching", "fetched", "retrying",
                                     "resolving"},
                               request : Requests \cup {NoRequest},
                               version : 0 .. MaxVersions]]
  BY DEF ToolsIInv, FindingToolsTypeOK, LogsSettled
<1>2. ASSUME UNCHANGED cache, NEW c \in Callers, NEW x, call' = [call EXCEPT ![c] = x],
             x.request.of = f => x.at \notin {"fetching", "fetched"}
      PROVE  cache'[f] = cache[f] /\ LogsSettled(f)'
  <2>1. \A d \in Callers : call'[d] = IF d = c THEN x ELSE call[d]
    BY <1>1, <1>2
  <2> QED BY <1>1, <1>2, <2>1 DEF LogsSettled, About
<1>3. ASSUME NEW c \in Callers, NEW r \in Requests, Begin(c, r)
      PROVE  cache'[f] = cache[f] /\ LogsSettled(f)'
  <2> DEFINE next == CASE r.tool = "retry"   -> "retrying"
                       [] r.tool = "resolve" -> "resolving"
                       [] OTHER              -> "looking"
  <2>1. /\ UNCHANGED cache
        /\ call' = [call EXCEPT ![c] = [at |-> next, request |-> r, version |-> NoLogs]]
    BY <1>3 DEF Begin
  <2>2. next \notin {"fetching", "fetched"}
    OBVIOUS
  <2> HIDE DEF next
  <2> QED BY <1>2, <2>1, <2>2
<1>4. ASSUME NEW c \in Callers, Look(c) PROVE cache'[f] = cache[f] /\ LogsSettled(f)'
  <2>1. CASE About(c) = f
    <3>1. call' = [call EXCEPT ![c] = Idle]
      BY <1>1, <1>4, <2>1 DEF Look, Show, Answered
    <3> QED BY <1>2, <1>4, <3>1 DEF Look, Idle
  <2>2. CASE About(c) # f
    <3>1. PICK next, version :
             \/ call' = [call EXCEPT ![c] = [at |-> next, request |-> call[c].request,
                                            version |-> version]]
             \/ call' = [call EXCEPT ![c] = Idle]
      BY <1>1, <1>4 DEF Look, Show, Answered, Moves
    <3>2. Idle.at = "idle"
      BY DEF Idle
    <3> QED BY <1>2, <1>4, <2>2, <3>1, <3>2 DEF Look, About
  <2> QED BY <2>1, <2>2
<1>5. ASSUME NEW c \in Callers, GetLogs(c) PROVE cache'[f] = cache[f] /\ LogsSettled(f)'
  <2>1. About(c) # f
    BY <1>1, <1>5 DEF GetLogs
  <2>2. PICK next, version :
           \/ call' = [call EXCEPT ![c] = [at |-> next, request |-> call[c].request,
                                          version |-> version]]
           \/ call' = [call EXCEPT ![c] = Idle]
    BY <1>1, <1>5 DEF GetLogs, Answered, Moves
  <2>3. Idle.at = "idle"
    BY DEF Idle
  <2> QED BY <1>2, <1>5, <2>1, <2>2, <2>3 DEF GetLogs, About
<1>6. ASSUME NEW c \in Callers, Store(c) PROVE cache'[f] = cache[f] /\ LogsSettled(f)'
  <2>1. About(c) # f
    BY <1>1, <1>6 DEF Store
  <2>2. cache'[f] = cache[f] /\ call' = [call EXCEPT ![c] = Idle]
    BY <1>1, <1>6, <2>1 DEF Store, Show, Answered
  <2>3. \A d \in Callers : call'[d] = IF d = c THEN Idle ELSE call[d]
    BY <1>1, <2>2
  <2> QED BY <1>1, <2>2, <2>3 DEF LogsSettled, About, Idle
<1>7. ASSUME NEW c \in Callers, RetryFinding(c) \/ Resolve(c)
      PROVE  cache'[f] = cache[f] /\ LogsSettled(f)'
  <2>1. UNCHANGED cache /\ call' = [call EXCEPT ![c] = Idle]
    BY <1>7 DEF RetryFinding, Resolve, Answered
  <2>2. Idle.at = "idle"
    BY DEF Idle
  <2> QED BY <1>2, <2>1, <2>2
<1>8. ASSUME UNCHANGED <<cache, call>> PROVE cache'[f] = cache[f] /\ LogsSettled(f)'
  BY <1>1, <1>8 DEF LogsSettled, About
<1> QED
  BY <1>3, <1>4, <1>5, <1>6, <1>7, <1>8 DEF FindingToolsNext, findingToolsVars, NewLogs

-----------------------------------------------------------------------------
(***************************************************************************)
(* Reviews of a pull request, for any heads and any passes that overlap.   *)
(***************************************************************************)

\* What a head may show.
Rightly(h) ==
  {"placeholder"} \cup (IF pull.ours THEN {"neutral"} ELSE {Verdict(content[h])})
    \cup (IF h \in skipped THEN {"neutral"} ELSE {})

\* A head that was not pushed shows nothing, and the present one what it may.
HeadsKept ==
  /\ pull.skip => pull.head \in skipped
  /\ \A h \in Heads : h > pull.head => checks[h] = <<>>
  /\ \A i \in DOMAIN checks[pull.head] : checks[pull.head][i] \in Rightly(pull.head)

\* What a pass is about to report of the present head is right: the head did not
\* change since the pass fetched it, as no head comes back.
ReviewKept(p) ==
  LET r == review[p] IN
  r.at # "idle" =>
    /\ r.sha <= pull.head
    /\ r.as = "skipped" => r.sha \in skipped
    /\ r.as = "ours" => pull.ours
    /\ r.as = "other" => ~pull.ours
    /\ r.as # "other" => r.at \in {"fetched", "report"} /\ r.verdict = "neutral"
    /\ r.at = "report" /\ r.as = "other" /\ r.sha = pull.head =>
         r.verdict = Verdict(content[r.sha])

ReviewIInv == ReviewTypeOK /\ HeadsKept /\ \A p \in Reviews : ReviewKept(p)

Ats == {"idle", "fetched", "diff", "lease", "report"}
ReviewRecords ==
  [at : Ats, sha : Heads, as : {"skipped", "ours", "other"}, run : Nat,
   verdict : CheckRuns \ {"placeholder"}]

LEMMA ReviewTypes ==
  ReviewTypeOK <=>
    /\ pull \in [head : Heads, skip : BOOLEAN, ours : BOOLEAN, mode : Modes]
    /\ content \in [Heads -> Contents] /\ checks \in [Heads -> Seq(CheckRuns)]
    /\ review \in [Reviews -> ReviewRecords]
    /\ \A p \in Reviews : review[p].run <= Len(checks[review[p].sha])
    /\ skipped \subseteq Heads
    /\ pullEvents \in 0 .. MaxPullEvents /\ reviewFaults \in 0 .. MaxReviewFaults
BY DEF ReviewTypeOK, ReviewRecords, Ats

LEMMA NotReviewingTyped == NotReviewing \in ReviewRecords /\ NotReviewing.at = "idle"
  /\ NotReviewing.run = 0 /\ NotReviewing.verdict = "neutral"
BY ReviewAssumption DEF NotReviewing, ReviewRecords, Ats, CheckRuns

LEMMA VerdictType == \A c : Verdict(c) \in CheckRuns \ {"placeholder"}
BY DEF Verdict, CheckRuns

LEMMA ReviewInitInv == ReviewInit => ReviewIInv
<1> SUFFICES ASSUME ReviewInit PROVE ReviewIInv
  OBVIOUS
<1>1. /\ pull \in [head : Heads, skip : BOOLEAN, ours : BOOLEAN, mode : Modes]
      /\ pull.skip = FALSE /\ pull.head \in Heads
  BY ReviewAssumption DEF ReviewInit
<1>2. checks \in [Heads -> Seq(CheckRuns)] /\ \A h \in Heads : checks[h] = <<>>
  BY DEF ReviewInit
<1>3. review \in [Reviews -> ReviewRecords] /\ \A p \in Reviews : review[p] = NotReviewing
  BY NotReviewingTyped DEF ReviewInit
<1>4. \A p \in Reviews : review[p].run <= Len(checks[review[p].sha])
  <2> TAKE p \in Reviews
  <2>1. review[p].run = 0 /\ review[p].sha \in Heads
    BY <1>3, NotReviewingTyped DEF ReviewRecords
  <2> QED BY <1>2, <2>1
<1>5. ReviewTypeOK
  <2>1. 0 \in 0 .. MaxPullEvents /\ 0 \in 0 .. MaxReviewFaults
    BY ReviewAssumption
  <2>2. content \in [Heads -> Contents] /\ skipped \subseteq Heads
        /\ pullEvents = 0 /\ reviewFaults = 0
    BY DEF ReviewInit
  <2> QED BY <1>1, <1>2, <1>3, <1>4, <2>1, <2>2, ReviewTypes
<1>6. HeadsKept
  BY <1>1, <1>2 DEF HeadsKept
<1>7. \A p \in Reviews : ReviewKept(p)
  BY <1>3, NotReviewingTyped DEF ReviewKept
<1> QED BY <1>5, <1>6, <1>7 DEF ReviewIInv

\* A pass learns something; the check runs stay.
LEMMA LearnsKeeps ==
  ASSUME ReviewIInv, NEW p \in Reviews,
         review' \in [Reviews -> ReviewRecords],
         \A q \in Reviews : q # p => review'[q] = review[q],
         review'[p].run <= Len(checks[review'[p].sha]),
         ReviewKept(p)',
         reviewFaults' \in 0 .. MaxReviewFaults,
         UNCHANGED <<pull, content, checks, skipped, pullEvents>>
  PROVE  ReviewIInv'
<1>1. ReviewTypeOK'
  <2>1. \A q \in Reviews : review'[q].run <= Len(checks[review'[q].sha])
    BY DEF ReviewIInv, ReviewTypeOK
  <2> QED BY <2>1 DEF ReviewIInv, ReviewTypeOK, ReviewRecords, Ats
<1>2. HeadsKept'
  BY DEF ReviewIInv, HeadsKept, Rightly, Verdict
<1>3. \A q \in Reviews : ReviewKept(q)'
  <2> TAKE q \in Reviews
  <2>1. CASE q = p
    BY <2>1
  <2>2. CASE q # p
    <3>1. review'[q] = review[q] /\ ReviewKept(q)
      BY <2>2 DEF ReviewIInv
    <3> QED BY <3>1 DEF ReviewKept, Verdict
  <2> QED BY <2>1, <2>2
<1> QED BY <1>1, <1>2, <1>3 DEF ReviewIInv

LEMMA ReviewRests ==
  ASSUME ReviewIInv, NEW p \in Reviews, ReviewOver(p), reviewFaults' \in 0 .. MaxReviewFaults,
         UNCHANGED <<pull, content, checks, skipped, pullEvents>>
  PROVE  ReviewIInv'
<1>1. /\ review' \in [Reviews -> ReviewRecords] /\ review'[p] = NotReviewing
      /\ \A q \in Reviews : q # p => review'[q] = review[q]
  BY NotReviewingTyped, ReviewTypes DEF ReviewIInv, ReviewOver
<1>2. ReviewKept(p)'
  BY <1>1, NotReviewingTyped DEF ReviewKept
<1>3. review'[p].run <= Len(checks[review'[p].sha])
  <2>1. NotReviewing.sha \in Heads
    BY NotReviewingTyped DEF ReviewRecords
  <2> QED BY <1>1, <2>1, NotReviewingTyped, ReviewTypes DEF ReviewIInv
<1> QED BY <1>1, <1>2, <1>3, LearnsKeeps

LEMMA FetchKeeps ==
  ASSUME ReviewIInv, NEW p \in Reviews, Fetch(p), reviewFaults' \in 0 .. MaxReviewFaults
  PROVE  ReviewIInv'
<1> DEFINE r == [NotReviewing EXCEPT !.at = "fetched", !.sha = pull.head, !.as = Treated]
<1>1. pull.head \in Heads /\ Heads \subseteq Nat /\ Treated \in {"skipped", "ours", "other"}
  BY ReviewTypes, ReviewAssumption DEF ReviewIInv, Treated
<1>2. /\ r \in ReviewRecords /\ r.run = 0 /\ r.at = "fetched" /\ r.sha = pull.head
      /\ r.as = Treated /\ r.verdict = "neutral"
  BY <1>1 DEF NotReviewing, ReviewRecords, Ats, CheckRuns
<1> HIDE DEF r
<1>3. /\ review' \in [Reviews -> ReviewRecords] /\ review'[p] = r
      /\ \A q \in Reviews : q # p => review'[q] = review[q]
  BY <1>2, ReviewTypes DEF ReviewIInv, Fetch, r
<1>4. r.run <= Len(checks[r.sha])
  BY <1>1, <1>2, ReviewTypes DEF ReviewIInv
<1>5. /\ pull'.head = pull.head /\ pull'.ours = pull.ours /\ skipped' = skipped
      /\ pull.head <= pull.head
  BY <1>1 DEF Fetch
<1>6. /\ Treated = "skipped" => pull.head \in skipped
      /\ Treated = "ours" => pull.ours
      /\ Treated = "other" => ~pull.ours
  BY DEF Treated, ReviewIInv, HeadsKept
<1>7. ReviewKept(p)'
  BY <1>2, <1>3, <1>5, <1>6 DEF ReviewKept
<1> QED BY <1>3, <1>4, <1>7, LearnsKeeps DEF Fetch

LEMMA ObserveKeeps ==
  ASSUME ReviewIInv, NEW p \in Reviews, Observe(p) PROVE ReviewIInv'
<1>1. reviewFaults' \in 0 .. MaxReviewFaults
  BY ReviewTypes DEF ReviewIInv, Observe, Quietly
<1>2. CASE ReviewOver(p)
  BY <1>1, <1>2, ReviewRests DEF Observe, Quietly
<1>3. CASE ~Settled(review[p].as, Observed(review[p].sha))
  <2>1. review[p] \in ReviewRecords /\ review[p].sha \in Heads
    BY ReviewTypes DEF ReviewIInv, ReviewRecords
  <2>2. PICK n \in Nat : n = Len(checks[review[p].sha])
    BY <2>1, ReviewTypes DEF ReviewIInv
  <2>3. PICK a \in {"diff", "report"} : a = IF review[p].as = "other" THEN "diff" ELSE "report"
    OBVIOUS
  <2>4. review' = [review EXCEPT ![p].run = n, ![p].at = a]
    BY <1>3, <2>2, <2>3 DEF Observe
  <2>5. /\ review' \in [Reviews -> ReviewRecords] /\ review'[p].run = n /\ review'[p].at = a
        /\ review'[p].sha = review[p].sha /\ review'[p].as = review[p].as
        /\ review'[p].verdict = review[p].verdict
        /\ \A q \in Reviews : q # p => review'[q] = review[q]
    BY <2>1, <2>4, ReviewTypes DEF ReviewIInv, ReviewRecords, Ats
  <2>6. review'[p].run <= Len(checks[review'[p].sha])
    BY <2>2, <2>5
  <2>7. ReviewKept(p)'
    BY <2>3, <2>5 DEF ReviewIInv, ReviewKept, Observe, Quietly
  <2> QED BY <1>1, <2>5, <2>6, <2>7, LearnsKeeps DEF Observe, Quietly
<1> QED BY <1>2, <1>3 DEF Observe

\* The diff and the files are of the head as it is now.
LEMMA ReadingKeeps ==
  ASSUME ReviewIInv, NEW p \in Reviews, GetRaw(p) \/ AnalyzeHead(p) PROVE ReviewIInv'
<1>1. reviewFaults' \in 0 .. MaxReviewFaults
  BY ReviewTypes DEF ReviewIInv, GetRaw, AnalyzeHead, Quietly
<1>2. /\ review[p] \in ReviewRecords /\ review[p].sha \in Heads
      /\ review[p].run <= Len(checks[review[p].sha])
  BY ReviewTypes DEF ReviewIInv, ReviewRecords
<1>3. \/ /\ review[p].at = "diff"
         /\ review' = [review EXCEPT ![p].at = "lease"]
      \/ \E v \in CheckRuns \ {"placeholder"} :
           /\ review[p].at \in {"diff", "lease"} /\ v = Verdict(content[pull.head])
           /\ review' = [review EXCEPT ![p].at = "report", ![p].verdict = v]
  <2>1. CASE AnalyzeHead(p)
    BY <2>1, VerdictType DEF AnalyzeHead
  <2>2. CASE GetRaw(p)
    <3>1. content[pull.head] = "empty" => Verdict(content[pull.head]) = "success"
      BY DEF Verdict
    <3> QED BY <2>2, <3>1 DEF GetRaw, CheckRuns
  <2> QED BY <2>1, <2>2
<1>4. UNCHANGED <<pull, content, checks, skipped, pullEvents, reviewFaults>>
  BY DEF GetRaw, AnalyzeHead, Quietly
<1>5. CASE review[p].at = "diff" /\ review' = [review EXCEPT ![p].at = "lease"]
  <2>1. /\ review' \in [Reviews -> ReviewRecords] /\ review'[p].run = review[p].run
        /\ review'[p].at = "lease"
        /\ review'[p].sha = review[p].sha /\ review'[p].as = review[p].as
        /\ \A q \in Reviews : q # p => review'[q] = review[q]
    BY <1>2, <1>5, ReviewTypes DEF ReviewIInv, ReviewRecords, Ats
  <2>2. ReviewKept(p)'
    BY <1>4, <1>5, <2>1 DEF ReviewIInv, ReviewKept
  <2> QED BY <1>1, <1>2, <1>4, <2>1, <2>2, LearnsKeeps
<1>6. ASSUME NEW v \in CheckRuns \ {"placeholder"}, review[p].at \in {"diff", "lease"},
             v = Verdict(content[pull.head]),
             review' = [review EXCEPT ![p].at = "report", ![p].verdict = v]
      PROVE  ReviewIInv'
  <2>1. /\ review' \in [Reviews -> ReviewRecords] /\ review'[p].run = review[p].run
        /\ review'[p].at = "report" /\ review'[p].verdict = v
        /\ review'[p].sha = review[p].sha /\ review'[p].as = review[p].as
        /\ \A q \in Reviews : q # p => review'[q] = review[q]
    BY <1>2, <1>6, ReviewTypes DEF ReviewIInv, ReviewRecords, Ats
  <2>2. Verdict(content[pull.head])' = v
    BY <1>4, <1>6 DEF Verdict
  <2>3. ReviewKept(p)'
    BY <1>4, <1>6, <2>1, <2>2 DEF ReviewIInv, ReviewKept
  <2> QED BY <1>1, <1>2, <1>4, <2>1, <2>3, LearnsKeeps
<1> QED BY <1>3, <1>5, <1>6

-----------------------------------------------------------------------------

\* The check runs of one head change; a pass knows of no fewer than it did.
LEMMA ChecksKeep ==
  ASSUME ReviewIInv, NEW h \in Heads, NEW s \in Seq(CheckRuns),
         checks' = [checks EXCEPT ![h] = s], Len(s) >= Len(checks[h]),
         \A i \in DOMAIN s :
           h = pull.head => s[i] \in Rightly(h) \/ \E j \in DOMAIN checks[h] : checks[h][j] = s[i],
         h <= pull.head,
         review' = review \/ \E p \in Reviews : ReviewOver(p),
         pullEvents' \in 0 .. MaxPullEvents,
         UNCHANGED <<pull, content, skipped, reviewFaults>>
  PROVE  ReviewIInv'
<1>1. checks' \in [Heads -> Seq(CheckRuns)]
      /\ \A g \in Heads : checks'[g] = IF g = h THEN s ELSE checks[g]
  BY ReviewTypes DEF ReviewIInv
<1>2. \A g \in Heads : Len(checks[g]) \in Nat /\ Len(checks'[g]) \in Nat
                       /\ Len(checks[g]) <= Len(checks'[g])
  BY <1>1, ReviewTypes DEF ReviewIInv
<1>3. review' \in [Reviews -> ReviewRecords]
      /\ \A q \in Reviews : review'[q] = review[q] \/ review'[q] = NotReviewing
  BY NotReviewingTyped, ReviewTypes DEF ReviewIInv, ReviewOver
<1>4. \A q \in Reviews : review'[q].run <= Len(checks'[review'[q].sha])
  <2> TAKE q \in Reviews
  <2>1. /\ review'[q].sha \in Heads /\ review'[q].run \in Nat
        /\ review[q].sha \in Heads /\ review[q].run \in Nat
    BY <1>3, ReviewTypes DEF ReviewIInv, ReviewRecords
  <2>2. CASE review'[q] = review[q]
    <3>1. review[q].run <= Len(checks[review[q].sha])
      BY ReviewTypes DEF ReviewIInv
    <3> QED BY <1>2, <2>1, <2>2, <3>1
  <2>3. CASE review'[q] = NotReviewing
    BY <1>2, <2>1, <2>3, NotReviewingTyped
  <2> QED BY <1>3, <2>2, <2>3
<1>5. ReviewTypeOK'
  BY <1>1, <1>3, <1>4 DEF ReviewIInv, ReviewTypeOK, ReviewRecords, Ats
<1>6. pull.head \in Heads /\ Heads \subseteq Nat
  BY ReviewTypes, ReviewAssumption DEF ReviewIInv
<1>7. \A i \in DOMAIN checks'[pull.head] : checks'[pull.head][i] \in Rightly(pull.head)
  BY <1>1, <1>6 DEF ReviewIInv, HeadsKept
<1>8. HeadsKept'
  BY <1>1, <1>6, <1>7 DEF ReviewIInv, HeadsKept, Rightly, Verdict
<1>9. \A q \in Reviews : ReviewKept(q)'
  <2> TAKE q \in Reviews
  <2>1. CASE review'[q] = review[q]
    BY <2>1 DEF ReviewIInv, ReviewKept, Verdict
  <2>2. CASE review'[q] = NotReviewing
    BY <2>2, NotReviewingTyped DEF ReviewKept
  <2> QED BY <1>3, <2>1, <2>2
<1> QED BY <1>5, <1>8, <1>9 DEF ReviewIInv

LEMMA SetActualStateKeeps ==
  ASSUME ReviewIInv, NEW p \in Reviews, SetActualState(p) PROVE ReviewIInv'
<1>1. /\ review[p] \in ReviewRecords /\ review[p].at = "report" /\ ReviewOver(p) /\ Quietly
      /\ ReviewKept(p)
  BY ReviewTypes DEF ReviewIInv, SetActualState
<1>2. PICK h \in Heads : h = review[p].sha
  BY <1>1 DEF ReviewRecords
<1>3. PICK v \in CheckRuns \ {"placeholder"} : v = review[p].verdict
  BY <1>1 DEF ReviewRecords
<1>4. checks[h] \in Seq(CheckRuns) /\ checks \in [Heads -> Seq(CheckRuns)]
  BY ReviewTypes DEF ReviewIInv
<1>5. h = pull.head => v \in Rightly(h)
  BY <1>1, <1>2, <1>3 DEF ReviewKept, Rightly, ReviewRecords
<1>6. PICK s \in Seq(CheckRuns) :
        /\ checks' = [checks EXCEPT ![h] = s] /\ Len(s) >= Len(checks[h])
        /\ \A i \in DOMAIN s : s[i] = v \/ \E j \in DOMAIN checks[h] : checks[h][j] = s[i]
  <2>1. CASE review[p].run \in DOMAIN checks[h]
    <3>1. PICK n : n = review[p].run
      OBVIOUS
    <3> DEFINE s == [checks[h] EXCEPT ![n] = v]
    <3>2. n \in 1 .. Len(checks[h])
      BY <1>4, <2>1, <3>1, LenProperties
    <3>3. s \in Seq(CheckRuns) /\ Len(s) = Len(checks[h])
          /\ \A j \in 1 .. Len(checks[h]) : s[j] = IF j = n THEN v ELSE checks[h][j]
      BY <1>4, <3>2, ExceptSeq
    <3>4. checks' = [checks EXCEPT ![h] = s]
      BY <1>2, <1>3, <1>4, <2>1, <3>1 DEF SetActualState, Target
    <3>5. DOMAIN s = 1 .. Len(checks[h]) /\ DOMAIN checks[h] = 1 .. Len(checks[h])
          /\ Len(checks[h]) \in Nat
      BY <1>4, <3>3, LenProperties
    <3> HIDE DEF s
    <3>6. \A i \in DOMAIN s : s[i] = v \/ \E j \in DOMAIN checks[h] : checks[h][j] = s[i]
      BY <3>3, <3>5
    <3>7. Len(s) >= Len(checks[h])
      BY <3>3, <3>5
    <3> QED BY <3>3, <3>4, <3>6, <3>7
  <2>2. CASE review[p].run \notin DOMAIN checks[h]
    <3> DEFINE s == Append(checks[h], v)
    <3>1. s \in Seq(CheckRuns) /\ Len(s) = Len(checks[h]) + 1
          /\ s[Len(checks[h]) + 1] = v
          /\ \A j \in 1 .. Len(checks[h]) : s[j] = checks[h][j]
      BY <1>4, AppendProperties
    <3>2. checks' = [checks EXCEPT ![h] = s]
      BY <1>2, <1>3, <1>4, <2>2 DEF SetActualState, Target
    <3>3. DOMAIN s = 1 .. Len(checks[h]) + 1 /\ DOMAIN checks[h] = 1 .. Len(checks[h])
          /\ Len(checks[h]) \in Nat
      BY <1>4, <3>1, LenProperties
    <3> HIDE DEF s
    <3>4. \A i \in DOMAIN s : s[i] = v \/ \E j \in DOMAIN checks[h] : checks[h][j] = s[i]
      BY <3>1, <3>3
    <3>5. Len(s) >= Len(checks[h])
      BY <3>1, <3>3
    <3> QED BY <3>1, <3>2, <3>4, <3>5
  <2> QED BY <2>1, <2>2
<1>7. h <= pull.head
  BY <1>1, <1>2 DEF ReviewKept
<1>8. pullEvents' \in 0 .. MaxPullEvents /\ UNCHANGED <<pull, content, skipped, reviewFaults>>
  BY <1>1, ReviewTypes DEF Quietly, ReviewIInv
<1> QED BY <1>1, <1>5, <1>6, <1>7, <1>8, ChecksKeep

LEMMA ResetKeeps == ASSUME ReviewIInv, ResetForRerun PROVE ReviewIInv'
<1>1. PICK h \in Heads : h = pull.head
  BY ReviewTypes DEF ReviewIInv
<1>2. checks[h] \in Seq(CheckRuns) /\ h <= pull.head
  BY <1>1, ReviewTypes, ReviewAssumption DEF ReviewIInv
<1> DEFINE s == Append(checks[h], "placeholder")
<1>3. s \in Seq(CheckRuns) /\ Len(s) = Len(checks[h]) + 1
      /\ s[Len(checks[h]) + 1] = "placeholder"
      /\ \A j \in 1 .. Len(checks[h]) : s[j] = checks[h][j]
  BY <1>2, AppendProperties DEF CheckRuns
<1>4. checks' = [checks EXCEPT ![h] = s]
  BY <1>1 DEF ResetForRerun
<1>5. DOMAIN s = 1 .. Len(checks[h]) + 1 /\ DOMAIN checks[h] = 1 .. Len(checks[h])
      /\ Len(checks[h]) \in Nat
  BY <1>2, <1>3, LenProperties
<1> HIDE DEF s
<1>6. /\ pullEvents' \in 0 .. MaxPullEvents /\ review' = review
      /\ UNCHANGED <<pull, content, skipped, reviewFaults>>
  BY ReviewTypes, ReviewAssumption DEF ReviewIInv, ResetForRerun, PullEvent
<1>7. \A i \in DOMAIN s : s[i] \in Rightly(h) \/ \E j \in DOMAIN checks[h] : checks[h][j] = s[i]
  BY <1>3, <1>5 DEF Rightly
<1>8. Len(s) >= Len(checks[h])
  BY <1>3, <1>5
<1> QED BY <1>2, <1>3, <1>4, <1>6, <1>7, <1>8, ChecksKeep

\* People label and push: the head that is pushed was not reported on.
LEMMA PeopleKeep == ASSUME ReviewIInv, PushHead \/ SkipLabel PROVE ReviewIInv'
<1>1. /\ pull.head \in Heads /\ Heads \subseteq Nat
      /\ pull \in [head : Heads, skip : BOOLEAN, ours : BOOLEAN, mode : Modes]
  BY ReviewTypes, ReviewAssumption DEF ReviewIInv
<1>2. /\ pull' \in [head : Heads, skip : BOOLEAN, ours : BOOLEAN, mode : Modes]
      /\ pull'.ours = pull.ours /\ pull'.mode = pull.mode
  <2>1. CASE PushHead
    BY <1>1, <2>1 DEF PushHead
  <2>2. CASE SkipLabel
    <3>1. PICK b \in BOOLEAN : b = ~pull.skip
      OBVIOUS
    <3>2. pull' = [pull EXCEPT !.skip = b]
      BY <2>2, <3>1, <1>1, Zenon DEF SkipLabel
    <3> QED BY <1>1, <3>2
  <2> QED BY <2>1, <2>2
<1>3. /\ skipped \subseteq skipped' /\ skipped' \subseteq Heads
      /\ pull'.skip => pull'.head \in skipped'
  BY <1>1, ReviewTypes DEF ReviewIInv, HeadsKept, PushHead, SkipLabel
<1>4. pullEvents' \in 0 .. MaxPullEvents /\ UNCHANGED <<content, checks, review, reviewFaults>>
  BY ReviewTypes, ReviewAssumption DEF ReviewIInv, PushHead, SkipLabel, PullEvent
<1>5. ReviewTypeOK'
  BY <1>2, <1>3, <1>4 DEF ReviewIInv, ReviewTypeOK
<1>6. \A h \in Heads : Verdict(content[h])' = Verdict(content[h])
  BY <1>2, <1>4 DEF Verdict
<1>7. PICK m, n \in Heads : m = pull.head /\ n = pull'.head /\ (n = m \/ n > m)
  <2>1. pull'.head = pull.head \/ pull'.head = pull.head + 1
    BY <1>1 DEF PushHead, SkipLabel
  <2>2. PICK n \in Heads : n = pull'.head
    BY <1>2
  <2>3. PICK m \in Heads : m = pull.head
    BY <1>1
  <2>4. n = m \/ n = m + 1
    BY <2>1, <2>2, <2>3
  <2>5. m \in Nat
    BY <1>1
  <2>6. n = m \/ n > m
    BY <2>4, <2>5
  <2> QED BY <2>2, <2>3, <2>6
<1>8. HeadsKept'
  <2>1. \A h \in Heads : h > m => checks[h] = <<>>
    BY <1>7 DEF ReviewIInv, HeadsKept
  <2>2. \A h \in Heads : h > n => checks'[h] = <<>>
    BY <1>1, <1>4, <1>7, <2>1
  <2>3. CASE n = m
    <3>1. Rightly(m) \subseteq Rightly(m)'
      <4>1. Verdict(content[m])' = Verdict(content[m])
        BY <1>6
      <4>2. pull'.ours = pull.ours /\ (m \in skipped => m \in skipped')
        BY <1>2, <1>3
      <4> QED BY <4>1, <4>2 DEF Rightly
    <3>2. \A i \in DOMAIN checks[m] : checks[m][i] \in Rightly(m)
      BY <1>7 DEF ReviewIInv, HeadsKept
    <3>3. \A i \in DOMAIN checks'[n] : checks'[n][i] \in Rightly(n)'
      BY <1>4, <2>3, <3>1, <3>2
    <3> QED BY <1>3, <1>7, <2>2, <3>3 DEF HeadsKept
  <2>4. CASE n > m
    <3>1. checks'[n] = <<>>
      BY <1>4, <2>1, <2>4
    <3> QED BY <1>3, <1>7, <2>2, <3>1 DEF HeadsKept
  <2> QED BY <1>7, <2>3, <2>4
<1>9. ASSUME NEW q \in Reviews PROVE ReviewKept(q)'
  <2>1. PICK h \in Heads : h = review[q].sha
    BY ReviewTypes DEF ReviewIInv, ReviewRecords
  <2>2. ReviewKept(q)
    BY DEF ReviewIInv
  <2>3. review[q].at # "idle" => h <= m
    BY <1>7, <2>1, <2>2 DEF ReviewKept
  <2>4. review[q].at # "idle" => h <= n /\ (h = n => h = m)
    BY <1>1, <1>7, <2>3
  <2>5. review[q].as = "skipped" /\ review[q].at # "idle" => h \in skipped'
    BY <1>3, <2>1, <2>2 DEF ReviewKept
  <2>6. Verdict(content[h])' = Verdict(content[h])
    BY <1>6
  <2>7. review'[q] = review[q] /\ pull'.ours = pull.ours
    BY <1>2, <1>4
  <2> QED BY <1>7, <2>1, <2>2, <2>4, <2>5, <2>6, <2>7 DEF ReviewKept
<1> QED BY <1>5, <1>8, <1>9 DEF ReviewIInv

LEMMA ReviewStepInv == ReviewIInv /\ [ReviewNext]_reviewVars => ReviewIInv'
<1> SUFFICES ASSUME ReviewIInv, [ReviewNext]_reviewVars PROVE ReviewIInv'
  OBVIOUS
<1>1. CASE UNCHANGED reviewVars
  BY <1>1 DEF reviewVars, ReviewIInv, ReviewTypeOK, HeadsKept, ReviewKept, Rightly, Verdict
<1>2. ASSUME NEW p \in Reviews, StartReview(p) \/ ReviewBeside(p) PROVE ReviewIInv'
  <2>1. reviewFaults' \in 0 .. MaxReviewFaults
    BY <1>2, ReviewTypes, ReviewAssumption DEF ReviewIInv, StartReview, ReviewBeside
  <2> QED BY <1>2, <2>1, FetchKeeps DEF StartReview, ReviewBeside
<1>3. ASSUME NEW p \in Reviews, ReviewBreaks(p) PROVE ReviewIInv'
  <2>1. reviewFaults' \in 0 .. MaxReviewFaults
    BY <1>3, ReviewTypes, ReviewAssumption DEF ReviewIInv, ReviewBreaks
  <2> QED BY <1>3, <2>1, ReviewRests DEF ReviewBreaks
<1> QED
  BY <1>1, <1>2, <1>3, ObserveKeeps, ReadingKeeps, SetActualStateKeeps, ResetKeeps, PeopleKeep
  DEF ReviewNext, ReviewRuns

LEMMA HeadsAreJudged == ReviewIInv => HeadJudgedRightly
<1> SUFFICES ASSUME ReviewIInv PROVE HeadJudgedRightly
  OBVIOUS
<1>1. checks[pull.head] \in Seq(CheckRuns)
  BY ReviewTypes DEF ReviewIInv
<1>2. CASE checks[pull.head] = <<>>
  BY <1>2 DEF HeadJudgedRightly, Shown
<1>3. CASE checks[pull.head] # <<>>
  <2>1. Len(checks[pull.head]) \in DOMAIN checks[pull.head]
    BY <1>1, <1>3, EmptySeq, LenProperties
  <2>2. Shown \in Rightly(pull.head)
    BY <1>3, <2>1 DEF Shown, ReviewIInv, HeadsKept
  <2> QED BY <2>2 DEF Rightly, HeadJudgedRightly
<1> QED BY <1>2, <1>3

-----------------------------------------------------------------------------
(***************************************************************************)
(* The trace of a run, for any tracer, any turns, calls and pauses, any    *)
(* delivery slots and retries, and payloads of any width.                  *)
(***************************************************************************)

TraceTurns == [index : Nat, failed : BOOLEAN]
TraceCalls ==
  [call : TracedCalls, id : {<<>>} \cup {<<c>> : c \in TracedCalls}, parent : Nat,
   reasoning : SUBSET TracedCalls]
TraceRecords ==
  [linked : Nat, ctx : Nat, turns : Seq(TraceTurns), calls : Seq(TraceCalls),
   reasoning : BOOLEAN, request : BOOLEAN, response : BOOLEAN,
   end : {"none", "ok", "error", "suspended"}, rootEnds : Nat]

-----------------------------------------------------------------------------
(* Counting.                                                               *)

LEMMA Appended ==
  ASSUME NEW S, NEW q \in Seq(S), NEW e \in S
  PROVE  /\ Append(q, e)[Len(q) + 1] = e /\ \A i \in 1 .. Len(q) : Append(q, e)[i] = q[i]
         /\ DOMAIN Append(q, e) = 1 .. Len(q) + 1
BY AppendProperties, LenProperties

\* The places of the turns of some traces.
TurnPlaces(ts) == UNION {{t} \X DOMAIN ts[t].turns : t \in DOMAIN ts}

LEMMA InTurnPlaces ==
  ASSUME NEW ts, NEW x
  PROVE  x \in TurnPlaces(ts) <=> \E t \in DOMAIN ts : \E i \in DOMAIN ts[t].turns : x = <<t, i>>
<1>1. x \in TurnPlaces(ts) <=> \E t \in DOMAIN ts : x \in {t} \X DOMAIN ts[t].turns
  BY DEF TurnPlaces
<1>2. ASSUME NEW t, NEW S PROVE x \in {t} \X S <=> \E i \in S : x = <<t, i>>
  OBVIOUS
<1> QED BY <1>1, <1>2, Zenon

LEMMA TurnsCounted ==
  ASSUME NEW ts \in Seq(TraceRecords)
  PROVE  /\ IsFiniteSet(TurnPlaces(ts)) /\ TurnsIn(ts) = Cardinality(TurnPlaces(ts))
         /\ TurnsIn(ts) \in Nat
<1>1. DOMAIN ts = 1 .. Len(ts) /\ Len(ts) \in Nat
  BY LenProperties
<1>2. IsFiniteSet(DOMAIN ts)
  <2>1. PICK n \in Nat : n = Len(ts)
    BY <1>1
  <2> QED BY <1>1, <2>1, FS_Interval
<1>3. ASSUME NEW t \in DOMAIN ts PROVE IsFiniteSet({t} \X DOMAIN ts[t].turns)
  <2>1. ts[t].turns \in Seq(TraceTurns)
    <3>1. ts[t] \in TraceRecords
      BY <1>1, ElementOfSeq
    <3> QED BY <3>1 DEF TraceRecords
  <2>2. PICK n \in Nat : DOMAIN ts[t].turns = 1 .. n
    BY <2>1, LenProperties
  <2>3. IsFiniteSet(1 .. n)
    BY FS_Interval
  <2>4. IsFiniteSet({t})
    BY FS_Singleton
  <2> QED BY <2>2, <2>3, <2>4, FS_Product, Zenon
<1> DEFINE sets == {{t} \X DOMAIN ts[t].turns : t \in DOMAIN ts}
           f == [t \in DOMAIN ts |-> {t} \X DOMAIN ts[t].turns]
<1>4. IsFiniteSet(sets)
  <2>1. f \in Surjection(DOMAIN ts, sets)
    BY Zenon DEF Surjection
  <2> HIDE DEF f, sets
  <2> QED BY <1>2, <2>1, FS_Surjection
<1>5. IsFiniteSet(TurnPlaces(ts))
  <2>1. \A T \in sets : IsFiniteSet(T)
    BY <1>3
  <2> QED BY <1>4, <2>1, FS_UNION, Zenon DEF TurnPlaces
<1> QED BY <1>5, FS_CardinalityType DEF TurnsIn, TurnPlaces

\* Nothing is counted where the turns are the same.
LEMMA SameTurns ==
  ASSUME NEW ts, NEW us, DOMAIN ts = DOMAIN us,
         \A t \in DOMAIN ts : us[t].turns = ts[t].turns
  PROVE  TurnsIn(us) = TurnsIn(ts)
<1>1. ASSUME NEW x PROVE x \in TurnPlaces(us) <=> x \in TurnPlaces(ts)
  BY InTurnPlaces
<1> QED BY <1>1 DEF TurnsIn, TurnPlaces

\* A trace without turns adds none.
LEMMA NoTurnsAdded ==
  ASSUME NEW ts \in Seq(TraceRecords), NEW new \in TraceRecords, new.turns = <<>>
  PROVE  TurnsIn(Append(ts, new)) = TurnsIn(ts)
<1>1. /\ DOMAIN Append(ts, new) = 1 .. Len(ts) + 1 /\ DOMAIN ts = 1 .. Len(ts)
      /\ Len(ts) \in Nat /\ Append(ts, new)[Len(ts) + 1] = new
      /\ \A t \in 1 .. Len(ts) : Append(ts, new)[t] = ts[t]
  BY AppendProperties, LenProperties
<1> DEFINE us == Append(ts, new)
<1>2. \A t \in DOMAIN us : t \in DOMAIN ts \/ DOMAIN us[t].turns = {}
  BY <1>1
<1>3. \A t \in DOMAIN ts : t \in DOMAIN us /\ us[t] = ts[t]
  BY <1>1
<1> HIDE DEF us
<1>4. ASSUME NEW x PROVE x \in TurnPlaces(us) <=> x \in TurnPlaces(ts)
  BY <1>2, <1>3, InTurnPlaces
<1>5. TurnPlaces(us) = TurnPlaces(ts)
  BY <1>4
<1> QED BY <1>5 DEF TurnsIn, TurnPlaces, us

\* A turn of one of the traces counts.
LEMMA OneTurnAdded ==
  ASSUME NEW ts \in Seq(TraceRecords), NEW n \in DOMAIN ts, NEW us, NEW added \in TraceTurns,
         DOMAIN us = DOMAIN ts, us[n].turns = Append(ts[n].turns, added),
         \A t \in DOMAIN ts \ {n} : us[t].turns = ts[t].turns
  PROVE  TurnsIn(us) = TurnsIn(ts) + 1
<1>1. ts[n].turns \in Seq(TraceTurns)
  <2>1. ts[n] \in TraceRecords
    BY LenProperties, ElementOfSeq
  <2> QED BY <2>1 DEF TraceRecords
<1>2. PICK k \in Nat : /\ k = Len(ts[n].turns) /\ DOMAIN ts[n].turns = 1 .. k
                       /\ DOMAIN us[n].turns = 1 .. k + 1
  BY <1>1, AppendProperties, LenProperties
<1>3. PICK m \in Nat : m = k + 1
  OBVIOUS
<1>4. 1 .. m = (1 .. k) \cup {m} /\ m \notin 1 .. k
  BY <1>3
<1>5. TurnPlaces(us) = TurnPlaces(ts) \cup {<<n, m>>}
  <2>1. DOMAIN us[n].turns = DOMAIN ts[n].turns \cup {m}
    BY <1>2, <1>3, <1>4
  <2>2. ASSUME NEW x
        PROVE  x \in TurnPlaces(us) <=> x \in TurnPlaces(ts) \/ x = <<n, m>>
    <3>1. x \in TurnPlaces(us) <=> \E t \in DOMAIN us : \E i \in DOMAIN us[t].turns : x = <<t, i>>
      BY InTurnPlaces
    <3>2. x \in TurnPlaces(ts) <=> \E t \in DOMAIN ts : \E i \in DOMAIN ts[t].turns : x = <<t, i>>
      BY InTurnPlaces
    <3>3. \A t \in DOMAIN ts \ {n} : DOMAIN us[t].turns = DOMAIN ts[t].turns
      OBVIOUS
    <3> QED BY <2>1, <3>1, <3>2, <3>3
  <2> QED BY <2>2
<1>6. <<n, m>> \notin TurnPlaces(ts)
  BY <1>2, <1>4, InTurnPlaces
<1>7. Cardinality(TurnPlaces(us)) = Cardinality(TurnPlaces(ts)) + 1
  BY <1>5, <1>6, TurnsCounted, FS_AddElement
<1> QED BY <1>7 DEF TurnsIn, TurnPlaces

\* The turns are those of the traces before the last one, and its own.
LEMMA TurnsOfLast ==
  ASSUME NEW ts \in Seq(TraceRecords), NEW n \in Nat \ {0}, n = Len(ts)
  PROVE  TurnsIn(ts) = TurnsIn(SubSeq(ts, 1, n - 1)) + Len(ts[n].turns)
<1> DEFINE us == SubSeq(ts, 1, n - 1)
<1>1. /\ us \in Seq(TraceRecords) /\ DOMAIN us = 1 .. n - 1 /\ DOMAIN ts = 1 .. n
      /\ \A t \in 1 .. n - 1 : us[t] = ts[t]
  <2>1. \A t \in 1 .. n - 1 : ts[t] \in TraceRecords
    BY LenProperties
  <2>2. us \in Seq(TraceRecords) /\ Len(us) = n - 1 /\ \A t \in 1 .. n - 1 : us[t] = ts[t]
    BY <2>1
  <2> QED BY <2>2, LenProperties
<1>2. ts[n].turns \in Seq(TraceTurns)
  <2>1. ts[n] \in TraceRecords
    BY <1>1, LenProperties
  <2> QED BY <2>1 DEF TraceRecords
<1>3. PICK k \in Nat : k = Len(ts[n].turns) /\ DOMAIN ts[n].turns = 1 .. k
  BY <1>2, LenProperties
<1> DEFINE own == {n} \X (1 .. k)
<1> HIDE DEF us
<1>4. TurnPlaces(ts) = TurnPlaces(us) \cup own /\ TurnPlaces(us) \cap own = {}
  <2>1. DOMAIN ts = DOMAIN us \cup {n} /\ n \notin DOMAIN us
    BY <1>1
  <2>2. ASSUME NEW x PROVE x \in own <=> \E i \in DOMAIN ts[n].turns : x = <<n, i>>
    BY <1>3
  <2> HIDE DEF own
  <2>3. ASSUME NEW x PROVE x \in TurnPlaces(ts) <=> x \in TurnPlaces(us) \/ x \in own
    <3>1. \A t \in DOMAIN us : us[t] = ts[t]
      BY <1>1
    <3>2. x \in TurnPlaces(us) <=> \E t \in DOMAIN us : \E i \in DOMAIN ts[t].turns : x = <<t, i>>
      BY <3>1, InTurnPlaces
    <3>3. x \in TurnPlaces(ts) <=> \E t \in DOMAIN ts : \E i \in DOMAIN ts[t].turns : x = <<t, i>>
      BY InTurnPlaces
    <3> QED BY <2>1, <2>2, <3>2, <3>3, Zenon
  <2>4. ASSUME NEW x PROVE ~(x \in TurnPlaces(us) /\ x \in own)
    BY <2>1, <2>2, InTurnPlaces
  <2> QED BY <2>3, <2>4
<1>5. IsFiniteSet(own) /\ Cardinality(own) = k
  <2>1. IsFiniteSet({n}) /\ Cardinality({n}) = 1
    BY FS_Singleton, Zenon
  <2>2. IsFiniteSet(1 .. k) /\ Cardinality(1 .. k) = k
    <3>1. 1 \in Int /\ k \in Int
      OBVIOUS
    <3>2. Cardinality(1 .. k) = IF 1 > k THEN 0 ELSE k - 1 + 1
      BY <3>1, FS_Interval, Zenon
    <3>3. IsFiniteSet(1 .. k)
      BY <3>1, FS_Interval, Zenon
    <3> QED BY <3>2, <3>3
  <2>3. IsFiniteSet(own) /\ Cardinality(own) = Cardinality({n}) * Cardinality(1 .. k)
    BY <2>1, <2>2, FS_Product, Zenon
  <2> QED BY <2>1, <2>2, <2>3
<1>6. IsFiniteSet(TurnPlaces(us)) /\ TurnsIn(us) = Cardinality(TurnPlaces(us)) /\ TurnsIn(us) \in Nat
  BY <1>1, TurnsCounted
<1>7. TurnsIn(ts) = Cardinality(TurnPlaces(ts))
  BY TurnsCounted
<1> HIDE DEF own
<1>8. Cardinality(TurnPlaces(ts)) = Cardinality(TurnPlaces(us)) + k - Cardinality({})
  BY <1>4, <1>5, <1>6, FS_Union
<1> QED BY <1>3, <1>6, <1>7, <1>8, FS_EmptySet DEF us

LEMMA SameTurnsBefore ==
  ASSUME NEW ts \in Seq(TraceRecords), NEW us \in Seq(TraceRecords),
         NEW m \in DOMAIN ts, m \in DOMAIN us,
         \A t \in DOMAIN ts : t < m => us[t].turns = ts[t].turns
  PROVE  TurnsIn(SubSeq(us, 1, m - 1)) = TurnsIn(SubSeq(ts, 1, m - 1))
<1>1. PICK k \in Nat : m = k + 1 /\ 1 .. k \subseteq DOMAIN ts /\ 1 .. k \subseteq DOMAIN us
  <2>1. m \in 1 .. Len(ts) /\ Len(ts) \in Nat /\ m \in 1 .. Len(us) /\ Len(us) \in Nat
    BY LenProperties
  <2>2. /\ m - 1 \in Nat /\ m = (m - 1) + 1
        /\ 1 .. m - 1 \subseteq 1 .. Len(ts) /\ 1 .. m - 1 \subseteq 1 .. Len(us)
    BY <2>1
  <2> QED BY <2>2, LenProperties
<1>2. /\ SubSeq(ts, 1, k) \in Seq(TraceRecords) /\ DOMAIN SubSeq(ts, 1, k) = 1 .. k
      /\ \A t \in 1 .. k : SubSeq(ts, 1, k)[t] = ts[t]
  <2>1. \A t \in 1 .. k : ts[t] \in TraceRecords
    BY <1>1, LenProperties
  <2> QED BY <2>1
<1>3. /\ DOMAIN SubSeq(us, 1, k) = 1 .. k /\ \A t \in 1 .. k : SubSeq(us, 1, k)[t] = us[t]
  <2>1. \A t \in 1 .. k : us[t] \in TraceRecords
    BY <1>1, LenProperties
  <2> QED BY <2>1
<1>4. \A t \in 1 .. k : us[t].turns = ts[t].turns
  BY <1>1
<1>5. m - 1 = k
  BY <1>1
<1>6. \A t \in 1 .. k : SubSeq(us, 1, k)[t].turns = SubSeq(ts, 1, k)[t].turns
  BY <1>2, <1>3, <1>4
<1>7. TurnsIn(SubSeq(us, 1, k)) = TurnsIn(SubSeq(ts, 1, k))
  BY <1>2, <1>3, <1>6, SameTurns
<1> QED BY <1>5, <1>7

-----------------------------------------------------------------------------
(* The traces.                                                             *)

TraceStages ==
  {"start", "loop", "turn", "calls", "parking", "fail", "leave", "record", "recorded",
   "draining", "exited"}
ToolStates == {"idle", "running", "handled", "unrecorded", "over", "left out"}

TracingTyped ==
  /\ tracer \in Tracers /\ stage \in TraceStages /\ tools \in [TracedCalls -> ToolStates]
  /\ traces \in Seq(TraceRecords) /\ Len(traces) <= MaxPauses + 1
  /\ stage = "start" => Len(traces) <= MaxPauses
  /\ stage # "start" => traces # <<>>
  /\ outgoing = <<>> \/ outgoing = <<outgoing[1]>>

\* How a trace may be closed when its run is at a stage.
EndFits(end, at_) ==
  /\ at_ \in {"loop", "turn", "calls", "fail"} => end = "none"
  /\ at_ \in {"start", "parking"} => end = "suspended"
  /\ at_ = "leave" => end \in {"none", "suspended"}
  /\ at_ \in {"record", "recorded", "draining", "exited"} => end # "none"

NoneFailed(t) == \A i \in DOMAIN t.turns : ~t.turns[i].failed

\* What a trace is like wherever it stands.
TraceFits(t, place) ==
  /\ t.linked = place - 1 /\ t.rootEnds = (IF t.end = "none" THEN 0 ELSE 1)
  /\ t.end = "suspended" => NoneFailed(t)
  /\ t.request \/ t.response \/ t.reasoning => tracer.payloads

\* What the last trace is like.
LiveFits(t, at_, turns_) ==
  /\ EndFits(t.end, at_) /\ (at_ \in {"loop", "turn", "calls"} => NoneFailed(t))
  /\ t.ctx = (IF at_ \in {"turn", "calls", "parking"} THEN turns_ + 1 ELSE Root)

TracesKept ==
  /\ \A t \in DOMAIN traces :
       /\ TraceFits(traces[t], t)
       /\ t < live => traces[t].end = "suspended" /\ traces[t].ctx = Root
  /\ traces # <<>> => LiveFits(traces[live], stage, TurnsIn(traces))

\* The turns are numbered through.
IndexKept ==
  \A t \in DOMAIN traces : \A i \in DOMAIN traces[t].turns :
    traces[t].turns[i].index = TurnsIn(SubSeq(traces, 1, t - 1)) + i

RecordFits(r) ==
  r.parent # Root /\ r.id = IDOf(r.call) /\ (tracer.ownIDs => r.reasoning \subseteq {r.call})

RecordsKept ==
  \A t \in DOMAIN traces : \A i \in DOMAIN traces[t].calls : RecordFits(traces[t].calls[i])

\* A call is recorded when its handler has recorded it, and once.
Placed(c, t, i) ==
  t \in DOMAIN traces /\ i \in DOMAIN traces[t].calls /\ traces[t].calls[i].call = c
CallsKept ==
  /\ \A c \in TracedCalls : tools[c] \in {"handled", "over"} =>
       \E t \in DOMAIN traces : \E i \in DOMAIN traces[t].calls : Placed(c, t, i)
  /\ \A t \in DOMAIN traces : \A i \in DOMAIN traces[t].calls :
       tools[traces[t].calls[i].call] \in {"handled", "over"}
  /\ \A t, u \in DOMAIN traces :
       \A i \in DOMAIN traces[t].calls, j \in DOMAIN traces[u].calls :
         traces[t].calls[i].call = traces[u].calls[j].call => t = u /\ i = j

\* What is said of a trace as a whole, and of one of its turns.
OfTrace(t) ==
  [id |-> <<t, Root>>, tells |-> <<traces[t].turns, traces[t].calls, traces[t].end>>,
   prompt |-> Form(TRUE), reply |-> Form(traces[t].reasoning)]
OfTurn(t, i, replied) ==
  [id |-> <<t, i>>, tells |-> <<i>>, prompt |-> Form(TRUE), reply |-> Form(replied)]

\* A trace that was recorded.
Told(t) == t < live \/ stage \in {"start", "recorded", "draining", "exited"}

EventsKept ==
  /\ \A e \in Events :
       \/ \E t \in DOMAIN traces : Told(t) /\ e = OfTrace(t)
       \/ \E t \in DOMAIN traces, i \in 1 .. TurnsIn(traces), b \in BOOLEAN :
            tracer.payloads /\ e = OfTurn(t, i, b)
  /\ \A e, f \in Events : e.id = f.id => e = f

SendsKept ==
  /\ IsFiniteSet(sending) /\ Cardinality(sending) <= ceMaxInflight
  /\ \A s \in sending :
       s = [event |-> s.event, retries |-> s.retries] /\ s.retries \in 0 .. ceMaxRetry
  /\ \A t \in DOMAIN traces : Told(t) => <<t, Root>> \in lost \cup {e.id : e \in Events}
  /\ stage \in {"draining", "exited"} => outgoing = <<>>
  /\ stage = "exited" => sending = {}

PayloadKept ==
  LET k == payload.kept IN
  /\ payload = [source |-> payload.source, kept |-> k, cut |-> payload.cut]
  /\ payload.source \in Seq(Nat \ {0})
  /\ \E n \in 0 .. Len(payload.source) : k = SubSeq(payload.source, 1, n)
  /\ payload.cut \in {"fits", "new", "shrinking", "whole", "cut"}
  /\ payload.cut \in {"new", "whole"} => k = payload.source
  /\ payload.cut = "whole" => Len(k) <= maxPayloadBytes
  /\ payload.cut = "cut" => EncodedLength(k) <= maxPayloadBytes

TracingIInv ==
  TracingTyped /\ TracesKept /\ IndexKept /\ RecordsKept /\ CallsKept /\ EventsKept
    /\ SendsKept /\ PayloadKept

-----------------------------------------------------------------------------
(* How the steps change the traces.                                        *)

LEMMA LiveFacts ==
  ASSUME TracingTyped, traces # <<>>
  PROVE  /\ live \in Nat \ {0} /\ live \in DOMAIN traces /\ DOMAIN traces = 1 .. live
         /\ traces[live] \in TraceRecords /\ \A t \in DOMAIN traces : traces[t] \in TraceRecords
<1>1. live \in Nat \ {0} /\ DOMAIN traces = 1 .. live
  BY LenProperties, EmptySeq DEF TracingTyped, live
<1>2. \A t \in DOMAIN traces : traces[t] \in TraceRecords
  BY LenProperties DEF TracingTyped
<1> QED BY <1>1, <1>2

\* The last trace is written anew.
LEMMA Rewritten ==
  ASSUME TracingTyped, traces # <<>>, NEW new \in TraceRecords,
         traces' = [traces EXCEPT ![live] = new]
  PROVE  /\ traces' \in Seq(TraceRecords) /\ live' = live /\ DOMAIN traces' = DOMAIN traces
         /\ traces' # <<>> /\ traces'[live] = new
         /\ \A t \in DOMAIN traces \ {live} : traces'[t] = traces[t]
<1>1. live \in 1 .. Len(traces) /\ DOMAIN traces = 1 .. Len(traces) /\ live = Len(traces)
  BY LiveFacts DEF live
<1>2. /\ traces' \in Seq(TraceRecords) /\ Len(traces') = Len(traces)
      /\ \A t \in 1 .. Len(traces) : traces'[t] = IF t = live THEN new ELSE traces[t]
  <2>1. PICK n \in 1 .. Len(traces) : n = live
    BY <1>1
  <2>2. PICK ts \in Seq(TraceRecords) : ts = traces
    BY DEF TracingTyped
  <2>3. /\ [ts EXCEPT ![n] = new] \in Seq(TraceRecords)
        /\ Len([ts EXCEPT ![n] = new]) = Len(ts)
        /\ \A j \in 1 .. Len(ts) : [ts EXCEPT ![n] = new][j] = IF j = n THEN new ELSE ts[j]
    BY <2>1, <2>2, ExceptSeq
  <2> QED BY <2>1, <2>2, <2>3, Zenon
<1>3. DOMAIN traces' = 1 .. Len(traces')
  BY <1>2, LenProperties
<1> QED BY <1>1, <1>2, <1>3 DEF live

\* A trace is begun.
LEMMA Begun ==
  ASSUME TracingTyped, NEW new \in TraceRecords, traces' = Append(traces, new)
  PROVE  /\ traces' \in Seq(TraceRecords) /\ live' = live + 1 /\ DOMAIN traces = 1 .. live
         /\ DOMAIN traces' = 1 .. live + 1 /\ traces'[live + 1] = new /\ live \in Nat
         /\ \A t \in DOMAIN traces : traces'[t] = traces[t]
BY AppendProperties, LenProperties DEF TracingTyped, live

\* The turns of the last trace stay.
LEMMA RewriteKeeps ==
  ASSUME TracingTyped, TracesKept, traces # <<>>, NEW new \in TraceRecords,
         traces' = [traces EXCEPT ![live] = new], UNCHANGED tracer,
         TraceFits(new, live), new.turns = traces[live].turns,
         LiveFits(new, stage', TurnsIn(traces))
  PROVE  TracesKept' /\ TurnsIn(traces)' = TurnsIn(traces)
<1>1. /\ live' = live /\ DOMAIN traces' = DOMAIN traces /\ traces'[live] = new
      /\ \A t \in DOMAIN traces \ {live} : traces'[t] = traces[t]
  BY Rewritten
<1>2. TurnsIn(traces') = TurnsIn(traces)
  BY <1>1, SameTurns
<1>3. \A t \in DOMAIN traces' :
        /\ TraceFits(traces[t], t)'
        /\ t < live => traces'[t].end = "suspended" /\ traces'[t].ctx = Root
  <2> TAKE t \in DOMAIN traces'
  <2>1. CASE t = live
    <3>1. TraceFits(traces[t], t)'
      BY <1>1, <2>1 DEF TraceFits, NoneFailed
    <3>2. ~(t < live)
      BY <2>1, LiveFacts
    <3> QED BY <3>1, <3>2
  <2>2. CASE t # live
    BY <1>1, <2>2 DEF TracesKept, TraceFits, NoneFailed
  <2> QED BY <2>1, <2>2
<1>4. LiveFits(traces'[live], stage', TurnsIn(traces'))
  BY <1>1, <1>2
<1> QED BY <1>1, <1>2, <1>3, <1>4 DEF TracesKept, LiveFits, NoneFailed

LEMMA IndexStays ==
  ASSUME TracingTyped, IndexKept, traces' \in Seq(TraceRecords),
         DOMAIN traces \subseteq DOMAIN traces',
         \A t \in DOMAIN traces' :
           traces'[t].turns = IF t \in DOMAIN traces THEN traces[t].turns ELSE <<>>
  PROVE  IndexKept'
<1> SUFFICES ASSUME NEW t \in DOMAIN traces', NEW i \in DOMAIN traces'[t].turns
             PROVE  traces'[t].turns[i].index = TurnsIn(SubSeq(traces', 1, t - 1)) + i
  BY DEF IndexKept
<1>1. t \in DOMAIN traces /\ traces'[t].turns = traces[t].turns
  OBVIOUS
<1>2. TurnsIn(SubSeq(traces', 1, t - 1)) = TurnsIn(SubSeq(traces, 1, t - 1))
  BY <1>1, SameTurnsBefore DEF TracingTyped
<1> QED BY <1>1, <1>2 DEF IndexKept

\* A turn ends.
LEMMA IndexGrows ==
  ASSUME TracingTyped, IndexKept, traces # <<>>, NEW new \in TraceRecords,
         traces' = [traces EXCEPT ![live] = new], NEW b \in BOOLEAN,
         NEW n \in Nat, n = TurnsIn(traces) + 1,
         new.turns = Append(traces[live].turns, [index |-> n, failed |-> b])
  PROVE  IndexKept' /\ TurnsIn(traces') = n
<1>1. /\ traces' \in Seq(TraceRecords) /\ DOMAIN traces' = DOMAIN traces /\ traces'[live] = new
      /\ \A t \in DOMAIN traces \ {live} : traces'[t] = traces[t]
  BY Rewritten
<1>2. /\ live \in DOMAIN traces /\ live \in Nat \ {0} /\ live = Len(traces)
      /\ DOMAIN traces = 1 .. live /\ traces[live] \in TraceRecords
      /\ traces \in Seq(TraceRecords)
  BY LiveFacts DEF live, TracingTyped
<1>3. [index |-> n, failed |-> b] \in TraceTurns
  BY DEF TraceTurns
<1>4. TurnsIn(traces') = n
  BY <1>1, <1>2, <1>3, OneTurnAdded
<1>5. ASSUME NEW t \in DOMAIN traces
      PROVE  TurnsIn(SubSeq(traces', 1, t - 1)) = TurnsIn(SubSeq(traces, 1, t - 1))
  <2>1. \A s \in DOMAIN traces : s < t => traces'[s].turns = traces[s].turns
    BY <1>1, <1>2
  <2> QED BY <1>1, <1>2, <2>1, SameTurnsBefore
<1>6. traces[live].turns \in Seq(TraceTurns)
  BY <1>2 DEF TraceRecords
<1>7. PICK k \in Nat : /\ k = Len(traces[live].turns) /\ DOMAIN traces[live].turns = 1 .. k
                       /\ DOMAIN new.turns = 1 .. k + 1
                       /\ new.turns[k + 1] = [index |-> n, failed |-> b]
                       /\ \A i \in 1 .. k : new.turns[i] = traces[live].turns[i]
  <2>1. PICK k \in Nat : k = Len(traces[live].turns) /\ DOMAIN traces[live].turns = 1 .. k
    BY <1>6, LenProperties
  <2>2. PICK e, q : e = [index |-> n, failed |-> b] /\ q = traces[live].turns
    OBVIOUS
  <2>3. e \in TraceTurns /\ q \in Seq(TraceTurns) /\ new.turns = Append(q, e) /\ k = Len(q)
    BY <1>3, <1>6, <2>1, <2>2
  <2>4. /\ Append(q, e)[Len(q) + 1] = e /\ \A i \in 1 .. Len(q) : Append(q, e)[i] = q[i]
        /\ DOMAIN Append(q, e) = 1 .. Len(q) + 1
    BY <2>3, Appended
  <2> QED BY <2>1, <2>2, <2>3, <2>4
<1>8. TurnsIn(traces) = TurnsIn(SubSeq(traces, 1, live - 1)) + k
  BY <1>2, <1>7, TurnsOfLast
<1>9. TurnsIn(traces) \in Nat /\ TurnsIn(SubSeq(traces, 1, live - 1)) \in Nat
  <2>1. PICK m \in Nat : m = live - 1 /\ 1 .. m \subseteq DOMAIN traces
    BY <1>2
  <2>2. \A j \in 1 .. m : traces[j] \in TraceRecords
    BY <2>1, LiveFacts
  <2>3. SubSeq(traces, 1, m) \in Seq(TraceRecords)
    BY <2>2
  <2> QED BY <1>2, <2>1, <2>3, TurnsCounted
<1>10. ASSUME NEW t \in DOMAIN traces, NEW i \in DOMAIN traces'[t].turns
       PROVE  traces'[t].turns[i].index = TurnsIn(SubSeq(traces', 1, t - 1)) + i
  <2>1. CASE t # live
    BY <1>1, <1>5, <2>1 DEF IndexKept
  <2>2. CASE t = live /\ i \in 1 .. k
    <3>1. traces'[t].turns[i] = traces[live].turns[i] /\ i \in DOMAIN traces[live].turns
      BY <1>1, <1>2, <1>7, <2>2
    <3>2. traces[live].turns[i].index = TurnsIn(SubSeq(traces, 1, live - 1)) + i
      BY <1>2, <3>1 DEF IndexKept
    <3>3. TurnsIn(SubSeq(traces', 1, live - 1)) = TurnsIn(SubSeq(traces, 1, live - 1))
      BY <1>2, <1>5
    <3> QED BY <2>2, <3>1, <3>2, <3>3
  <2>3. CASE t = live /\ i = k + 1
    <3>1. traces'[t].turns[i].index = n
      BY <1>1, <1>7, <2>3
    <3>2. TurnsIn(SubSeq(traces', 1, live - 1)) = TurnsIn(SubSeq(traces, 1, live - 1))
      BY <1>2, <1>5
    <3>3. PICK before_ \in Nat : before_ = TurnsIn(SubSeq(traces, 1, live - 1))
      BY <1>9
    <3>4. n = before_ + k + 1
      BY <1>8, <3>3
    <3> QED BY <2>3, <3>1, <3>2, <3>3, <3>4
  <2> QED BY <1>1, <1>7, <2>1, <2>2, <2>3
<1> QED BY <1>1, <1>4, <1>10 DEF IndexKept

-----------------------------------------------------------------------------
(* The records of the calls.                                               *)

LEMMA CallsStay ==
  ASSUME CallsKept, DOMAIN traces \subseteq DOMAIN traces',
         \A t \in DOMAIN traces' : t \notin DOMAIN traces => traces'[t].calls = <<>>,
         \A t \in DOMAIN traces :
           /\ DOMAIN traces'[t].calls = DOMAIN traces[t].calls
           /\ \A i \in DOMAIN traces[t].calls : traces'[t].calls[i].call = traces[t].calls[i].call,
         \A c \in TracedCalls : tools'[c] \in {"handled", "over"} <=> tools[c] \in {"handled", "over"},
         \A t \in DOMAIN traces : \A i \in DOMAIN traces[t].calls :
           traces[t].calls[i].call \in TracedCalls
  PROVE  CallsKept'
<1>1. \A t \in DOMAIN traces' : \A i \in DOMAIN traces'[t].calls :
        t \in DOMAIN traces /\ i \in DOMAIN traces[t].calls
          /\ traces'[t].calls[i].call = traces[t].calls[i].call
  OBVIOUS
<1>2. ASSUME NEW c \in TracedCalls, tools'[c] \in {"handled", "over"}
      PROVE  \E t \in DOMAIN traces' : \E i \in DOMAIN traces'[t].calls : Placed(c, t, i)'
  <2>1. PICK t \in DOMAIN traces : \E i \in DOMAIN traces[t].calls : Placed(c, t, i)
    BY <1>2 DEF CallsKept
  <2>2. PICK i \in DOMAIN traces[t].calls : traces[t].calls[i].call = c
    BY <2>1 DEF Placed
  <2> QED BY <2>2 DEF Placed
<1>3. \A t \in DOMAIN traces' : \A i \in DOMAIN traces'[t].calls :
        tools'[traces'[t].calls[i].call] \in {"handled", "over"}
  BY <1>1 DEF CallsKept
<1>4. \A t, u \in DOMAIN traces' :
        \A i \in DOMAIN traces'[t].calls, j \in DOMAIN traces'[u].calls :
          traces'[t].calls[i].call = traces'[u].calls[j].call => t = u /\ i = j
  BY <1>1 DEF CallsKept
<1> QED BY <1>2, <1>3, <1>4 DEF CallsKept

LEMMA RecordsStay ==
  ASSUME RecordsKept, UNCHANGED tracer, DOMAIN traces \subseteq DOMAIN traces',
         \A t \in DOMAIN traces' :
           traces'[t].calls = IF t \in DOMAIN traces THEN traces[t].calls ELSE <<>>
  PROVE  RecordsKept'
BY DEF RecordsKept, RecordFits, IDOf

\* A handler's record joins the last trace.
LEMMA RecordAdded ==
  ASSUME TracingTyped, RecordsKept, CallsKept, traces # <<>>, NEW c \in TracedCalls,
         tools[c] = "running", traces[live].ctx # Root, UNCHANGED tracer,
         NEW how \in {"handled", "over"}, tools' = [tools EXCEPT ![c] = how],
         traces' = [traces EXCEPT ![live].calls = Append(@, RecordOf(c))]
  PROVE  /\ RecordsKept' /\ CallsKept'
         /\ \E new \in TraceRecords :
              /\ traces' = [traces EXCEPT ![live] = new]
              /\ new = [traces[live] EXCEPT !.calls = Append(@, RecordOf(c))]
<1> DEFINE new == [traces[live] EXCEPT !.calls = Append(@, RecordOf(c))]
<1>1. traces[live] \in TraceRecords /\ live \in DOMAIN traces
  BY LiveFacts
<1>2. RecordOf(c) \in TraceCalls /\ RecordOf(c).call = c /\ RecordFits(RecordOf(c))
  BY <1>1 DEF RecordOf, TraceCalls, TraceRecords, IDOf, RecordFits
<1>3. traces[live].calls \in Seq(TraceCalls)
  BY <1>1 DEF TraceRecords
<1>4. PICK k \in Nat : /\ k = Len(traces[live].calls) /\ DOMAIN traces[live].calls = 1 .. k
                       /\ DOMAIN Append(traces[live].calls, RecordOf(c)) = 1 .. k + 1
                       /\ Append(traces[live].calls, RecordOf(c))[k + 1] = RecordOf(c)
                       /\ \A i \in 1 .. k : Append(traces[live].calls, RecordOf(c))[i] = traces[live].calls[i]
  <2>1. PICK s \in Seq(TraceCalls), r \in TraceCalls : s = traces[live].calls /\ r = RecordOf(c)
    BY <1>2, <1>3
  <2>2. /\ Len(s) \in Nat /\ DOMAIN s = 1 .. Len(s) /\ DOMAIN Append(s, r) = 1 .. Len(s) + 1
        /\ Append(s, r)[Len(s) + 1] = r /\ \A i \in 1 .. Len(s) : Append(s, r)[i] = s[i]
    BY AppendProperties, LenProperties
  <2> QED BY <2>1, <2>2
<1>5. new \in TraceRecords /\ new.calls = Append(traces[live].calls, RecordOf(c))
  <2>1. Append(traces[live].calls, RecordOf(c)) \in Seq(TraceCalls)
    BY <1>2, <1>3, AppendProperties
  <2> QED BY <1>1, <2>1 DEF TraceRecords
<1>6. traces' = [traces EXCEPT ![live] = new]
  OBVIOUS
<1> HIDE DEF new
<1>7. /\ DOMAIN traces' = DOMAIN traces /\ traces'[live] = new
      /\ \A t \in DOMAIN traces \ {live} : traces'[t] = traces[t]
  BY <1>5, <1>6, Rewritten
<1>8. \A t \in DOMAIN traces' : \A i \in DOMAIN traces'[t].calls :
        \/ i \in DOMAIN traces[t].calls /\ traces'[t].calls[i] = traces[t].calls[i]
        \/ t = live /\ i = k + 1 /\ traces'[t].calls[i] = RecordOf(c)
  BY <1>4, <1>5, <1>7
<1>9. RecordsKept'
  <2>1. ASSUME NEW r, RecordFits(r) PROVE RecordFits(r)'
    BY <2>1 DEF RecordFits, IDOf
  <2>2. PICK q : q = RecordOf(c)
    OBVIOUS
  <2>3. ASSUME NEW t \in DOMAIN traces', NEW i \in DOMAIN traces'[t].calls
        PROVE  RecordFits(traces[t].calls[i])'
    <3>1. PICK r : r = traces'[t].calls[i]
      OBVIOUS
    <3>2. RecordFits(r)
      BY <1>2, <1>7, <1>8, <3>1 DEF RecordsKept
    <3> QED BY <3>1, <3>2 DEF RecordFits, IDOf
  <2> QED BY <2>3 DEF RecordsKept
<1>10. \A t \in DOMAIN traces : \A i \in DOMAIN traces[t].calls :
         /\ traces[t].calls[i].call \in TracedCalls /\ traces[t].calls[i].call # c
         /\ tools[traces[t].calls[i].call] \in {"handled", "over"}
  <2> TAKE t \in DOMAIN traces
  <2> TAKE i \in DOMAIN traces[t].calls
  <2>1. tools[traces[t].calls[i].call] \in {"handled", "over"}
    BY DEF CallsKept
  <2>2. traces[t].calls \in Seq(TraceCalls)
    BY LiveFacts DEF TraceRecords
  <2>3. traces[t].calls[i] \in TraceCalls
    BY <2>2, LenProperties
  <2> QED BY <2>1, <2>3 DEF TraceCalls
<1>11. CallsKept'
  <2>1. ASSUME NEW d \in TracedCalls, tools'[d] \in {"handled", "over"}
        PROVE  \E t \in DOMAIN traces' : \E i \in DOMAIN traces'[t].calls : Placed(d, t, i)'
    <3>1. CASE d = c
      <4>1. live \in DOMAIN traces' /\ k + 1 \in DOMAIN traces'[live].calls
              /\ traces'[live].calls[k + 1].call = c
        BY <1>1, <1>2, <1>4, <1>5, <1>7
      <4> QED BY <3>1, <4>1 DEF Placed
    <3>2. CASE d # c
      <4>1. tools[d] \in {"handled", "over"}
        BY <2>1, <3>2 DEF TracingTyped
      <4>2. PICK t \in DOMAIN traces : \E i \in DOMAIN traces[t].calls : Placed(d, t, i)
        BY <4>1 DEF CallsKept
      <4>3. PICK i \in DOMAIN traces[t].calls : traces[t].calls[i].call = d
        BY <4>2 DEF Placed
      <4>4. i \in DOMAIN traces'[t].calls /\ traces'[t].calls[i] = traces[t].calls[i]
        BY <1>4, <1>5, <1>7
      <4> QED BY <1>7, <4>3, <4>4 DEF Placed
    <3> QED BY <3>1, <3>2
  <2>2. \A t \in DOMAIN traces' : \A i \in DOMAIN traces'[t].calls :
          tools'[traces'[t].calls[i].call] \in {"handled", "over"}
    BY <1>2, <1>7, <1>8, <1>10 DEF TracingTyped
  <2>3. \A t, u \in DOMAIN traces' :
          \A i \in DOMAIN traces'[t].calls, j \in DOMAIN traces'[u].calls :
            traces'[t].calls[i].call = traces'[u].calls[j].call => t = u /\ i = j
    BY <1>2, <1>7, <1>8, <1>10 DEF CallsKept
  <2> QED BY <2>1, <2>2, <2>3 DEF CallsKept
<1> QED BY <1>5, <1>6, <1>9, <1>11 DEF new

RunKept == TracingTyped /\ TracesKept /\ IndexKept /\ RecordsKept /\ CallsKept

\* What was told of a trace stays true, and turns are only added.
Continues ==
  /\ DOMAIN traces \subseteq DOMAIN traces' /\ TurnsIn(traces) <= TurnsIn(traces')
  /\ \A t \in DOMAIN traces : Told(t) =>
       /\ Told(t)' /\ traces'[t].turns = traces[t].turns /\ traces'[t].calls = traces[t].calls
       /\ traces'[t].end = traces[t].end /\ traces'[t].reasoning = traces[t].reasoning

TellsNoMore == \A t \in DOMAIN traces' : Told(t)' => t \in DOMAIN traces /\ Told(t)

SameClass(c) == tools'[c] \in {"handled", "over"} <=> tools[c] \in {"handled", "over"}

OutgoingTyped == outgoing = <<>> \/ outgoing = <<outgoing[1]>>

LEMMA RecordedCalls ==
  ASSUME TracingTyped
  PROVE  \A t \in DOMAIN traces : \A i \in DOMAIN traces[t].calls :
           traces[t].calls[i].call \in TracedCalls
<1> SUFFICES ASSUME NEW t \in DOMAIN traces, NEW i \in DOMAIN traces[t].calls
             PROVE  traces[t].calls[i].call \in TracedCalls
  OBVIOUS
<1>1. traces[t] \in TraceRecords
  BY LenProperties DEF TracingTyped
<1>2. traces[t].calls \in Seq(TraceCalls)
  BY <1>1 DEF TraceRecords
<1>3. traces[t].calls[i] \in TraceCalls
  BY <1>2, LenProperties
<1> QED BY <1>3 DEF TraceCalls

\* A step of the run that leaves the turns and the calls of its traces alone.
LEMMA QuietStep ==
  ASSUME RunKept, traces # <<>>, UNCHANGED tracer, OutgoingTyped',
         stage \notin {"start", "recorded", "draining", "exited"},
         stage' \in TraceStages \ {"start", "recorded", "draining", "exited"},
         tools' \in [TracedCalls -> ToolStates], \A c \in TracedCalls : SameClass(c),
         NEW new \in TraceRecords, traces' = [traces EXCEPT ![live] = new],
         new.turns = traces[live].turns, new.calls = traces[live].calls,
         TraceFits(new, live), LiveFits(new, stage', TurnsIn(traces))
  PROVE  RunKept' /\ Continues /\ TellsNoMore
<1> USE DEF RunKept
<1>1. /\ traces' \in Seq(TraceRecords) /\ live' = live /\ DOMAIN traces' = DOMAIN traces
      /\ traces' # <<>> /\ traces'[live] = new
      /\ \A t \in DOMAIN traces \ {live} : traces'[t] = traces[t]
  BY Rewritten
<1>2. \A t \in DOMAIN traces : /\ traces'[t].turns = traces[t].turns
                               /\ traces'[t].calls = traces[t].calls
  BY <1>1
<1>3. TracingTyped'
  BY <1>1 DEF TracingTyped, OutgoingTyped, live
<1>4. TracesKept' /\ TurnsIn(traces)' = TurnsIn(traces)
  BY RewriteKeeps
<1>5. IndexKept'
  BY <1>1, <1>2, IndexStays
<1>6. RecordsKept'
  BY <1>1, <1>2, RecordsStay
<1>7. CallsKept'
  BY <1>1, <1>2, CallsStay, RecordedCalls DEF SameClass
<1>8. TurnsIn(traces) \in Nat /\ live \in DOMAIN traces /\ live \in Nat
  BY TurnsCounted, LiveFacts DEF TracingTyped
<1>9. Continues
  <2>1. \A t \in DOMAIN traces : Told(t) => t # live /\ Told(t)'
    BY <1>1, <1>8 DEF Told
  <2> QED BY <1>1, <1>4, <1>8, <2>1 DEF Continues
<1>10. TellsNoMore
  BY <1>1 DEF TellsNoMore, Told
<1> QED BY <1>3, <1>4, <1>5, <1>6, <1>7, <1>9, <1>10

\* A step that leaves the traces alone, and the calls in them.
LEMMA BesideStep ==
  ASSUME RunKept, UNCHANGED <<tracer, traces>>, OutgoingTyped',
         tools' \in [TracedCalls -> ToolStates], \A c \in TracedCalls : SameClass(c),
         \/ stage' = stage
         \/ /\ stage = "recorded" /\ stage' = "start" /\ live <= MaxPauses
            /\ traces[live].end = "suspended"
         \/ stage = "recorded" /\ stage' = "draining"
         \/ stage = "draining" /\ stage' = "exited"
  PROVE  RunKept' /\ Continues /\ TellsNoMore
<1> USE DEF RunKept
<1>1. TracingTyped'
  BY DEF TracingTyped, OutgoingTyped, TraceStages, live
<1>2. TracesKept'
  <2>1. traces # <<>> => LiveFits(traces[live], stage', TurnsIn(traces))
    BY DEF TracesKept, LiveFits, EndFits
  <2> QED BY <2>1 DEF TracesKept, LiveFits, EndFits, NoneFailed, TraceFits, live
<1>3. IndexKept' /\ RecordsKept'
  BY DEF IndexKept, RecordsKept, RecordFits, IDOf
<1>4. CallsKept'
  BY CallsStay, RecordedCalls DEF SameClass, CallsKept
<1>5. TurnsIn(traces) \in Nat
  BY TurnsCounted DEF TracingTyped
<1>6. Continues /\ TellsNoMore
  BY <1>5 DEF Continues, TellsNoMore, Told, live
<1> QED BY <1>1, <1>2, <1>3, <1>4, <1>6

LEMMA NewTraceTyped ==
  ASSUME NEW n \in Nat
  PROVE  /\ NewTrace(n) \in TraceRecords /\ NewTrace(n).turns = <<>> /\ NewTrace(n).calls = <<>>
         /\ NewTrace(n).end = "none" /\ NewTrace(n).ctx = Root /\ NewTrace(n).linked = n
         /\ NewTrace(n).rootEnds = 0
         /\ ~NewTrace(n).request /\ ~NewTrace(n).response /\ ~NewTrace(n).reasoning
BY DEF NewTrace, TraceRecords, Root

LEMMA StartTraceKeeps == ASSUME RunKept, StartTrace PROVE RunKept' /\ Continues /\ TellsNoMore
<1> USE DEF RunKept
<1>1. PICK new \in TraceRecords :
        /\ traces' = Append(traces, new) /\ new = NewTrace(live)
        /\ new.turns = <<>> /\ new.calls = <<>> /\ new.end = "none" /\ new.ctx = Root
        /\ new.linked = live /\ new.rootEnds = 0
        /\ ~new.request /\ ~new.response /\ ~new.reasoning
  <2>1. live \in Nat
    BY LenProperties DEF TracingTyped, live
  <2> QED BY <2>1, NewTraceTyped DEF StartTrace
<1>2. /\ traces' \in Seq(TraceRecords) /\ live' = live + 1 /\ DOMAIN traces = 1 .. live
      /\ DOMAIN traces' = 1 .. live + 1 /\ traces'[live + 1] = new /\ live \in Nat
      /\ \A t \in DOMAIN traces : traces'[t] = traces[t]
  BY <1>1, Begun
<1>3. /\ stage = "start" /\ stage' = "loop" /\ Len(traces) <= MaxPauses
      /\ UNCHANGED <<tracer, tools, outgoing>>
  BY DEF StartTrace, Reached, RestUntouched, TracingTyped
<1>4. TracingTyped'
  <2>1. Len(traces') <= MaxPauses + 1 /\ traces' # <<>>
    BY <1>2, <1>3, EmptySeq, TracingAssumption DEF live
  <2> QED BY <1>2, <1>3, <2>1 DEF TracingTyped, TraceStages
<1>5. TurnsIn(traces') = TurnsIn(traces) /\ TurnsIn(traces) \in Nat
  BY <1>1, NoTurnsAdded, TurnsCounted DEF TracingTyped
<1>6. TracesKept'
  <2>1. ASSUME NEW t \in DOMAIN traces'
        PROVE  TraceFits(traces[t], t)' /\ (t < live' => traces'[t].end = "suspended" /\ traces'[t].ctx = Root)
    <3>1. CASE t = live + 1
      BY <1>1, <1>2, <1>3, <3>1 DEF TraceFits, NoneFailed
    <3>2. CASE t \in 1 .. live
      <4>1. TraceFits(traces[t], t)
        BY <1>2, <3>2 DEF TracesKept
      <4>2. TraceFits(traces[t], t)'
        BY <1>2, <1>3, <3>2, <4>1 DEF TraceFits, NoneFailed
      <4>3. traces[t].end = "suspended" /\ traces[t].ctx = Root
        <5>1. CASE t < live
          BY <1>2, <3>2, <5>1 DEF TracesKept
        <5>2. CASE t = live
          <6>1. traces # <<>>
            BY <3>2, <1>2
          <6> QED BY <1>3, <5>2, <6>1 DEF TracesKept, LiveFits, EndFits
        <5> QED BY <1>2, <3>2, <5>1, <5>2
      <4> QED BY <1>2, <3>2, <4>2, <4>3
    <3> QED BY <1>2, <3>1, <3>2
  <2>2. LiveFits(new, "loop", TurnsIn(traces))
    BY <1>1 DEF LiveFits, EndFits, NoneFailed
  <2> QED BY <1>2, <1>3, <1>5, <2>1, <2>2 DEF TracesKept, LiveFits, NoneFailed
<1>7. IndexKept'
  BY <1>1, <1>2, IndexStays
<1>8. RecordsKept'
  BY <1>1, <1>2, <1>3, RecordsStay
<1>9. CallsKept'
  BY <1>1, <1>2, <1>3, CallsStay, RecordedCalls
<1>10. Continues
  BY <1>2, <1>3, <1>5 DEF Continues, Told
<1>11. TellsNoMore
  BY <1>2, <1>3 DEF TellsNoMore, Told
<1> QED BY <1>4, <1>6, <1>7, <1>8, <1>9, <1>10, <1>11

LEMMA BeginKeepsTrace ==
  ASSUME RunKept, BeginTracedTurn PROVE RunKept' /\ Continues /\ TellsNoMore
<1> USE DEF RunKept
<1>1. traces # <<>> /\ stage = "loop" /\ stage' = "turn" /\ UNCHANGED <<tracer, tools, outgoing>>
  BY DEF BeginTracedTurn, Reached, TracingTyped, RestUntouched
<1>2. traces[live] \in TraceRecords /\ live \in DOMAIN traces /\ TurnsIn(traces) \in Nat
      /\ tracer.payloads \in BOOLEAN
  BY <1>1, LiveFacts, TurnsCounted, TracingAssumption DEF TracingTyped
<1> DEFINE new == [traces[live] EXCEPT !.ctx = TurnsIn(traces) + 1, !.request = tracer.payloads,
                                       !.response = FALSE]
<1>3. /\ new \in TraceRecords /\ new.ctx = TurnsIn(traces) + 1 /\ new.request = tracer.payloads
      /\ ~new.response /\ new.turns = traces[live].turns /\ new.calls = traces[live].calls
      /\ new.end = traces[live].end /\ new.rootEnds = traces[live].rootEnds
      /\ new.linked = traces[live].linked /\ new.reasoning = traces[live].reasoning
  <2>1. PICK n \in Nat : n = TurnsIn(traces) + 1
    BY <1>2
  <2> QED BY <1>2, <2>1 DEF TraceRecords
<1>4. traces' = [traces EXCEPT ![live] = new]
  BY <1>2 DEF BeginTracedTurn
<1> HIDE DEF new
<1>5. TraceFits(traces[live], live) /\ LiveFits(traces[live], "loop", TurnsIn(traces))
  BY <1>1, <1>2 DEF TracesKept
<1>6. TraceFits(new, live)
  BY <1>3, <1>5 DEF TraceFits, NoneFailed
<1>7. LiveFits(new, "turn", TurnsIn(traces))
  BY <1>3, <1>5 DEF LiveFits, EndFits, NoneFailed
<1>8. OutgoingTyped' /\ tools' \in [TracedCalls -> ToolStates] /\ \A c \in TracedCalls : SameClass(c)
  BY <1>1 DEF OutgoingTyped, TracingTyped, SameClass
<1> QED BY <1>1, <1>3, <1>4, <1>6, <1>7, <1>8, QuietStep DEF TraceStages

LEMMA ResponseKeeps ==
  ASSUME RunKept, RecordResponse PROVE RunKept' /\ Continues /\ TellsNoMore
<1> USE DEF RunKept
<1>1. traces # <<>> /\ stage = "turn" /\ stage' = "calls" /\ UNCHANGED <<tracer, outgoing>>
  BY DEF RecordResponse, Reached, TracingTyped
<1>2. traces[live] \in TraceRecords /\ live \in DOMAIN traces
      /\ tracer.payloads \in BOOLEAN
  BY <1>1, LiveFacts, TracingAssumption DEF TracingTyped
<1> DEFINE new == [traces[live] EXCEPT !.response = tracer.payloads,
                                       !.reasoning = @ \/ tracer.payloads]
<1>3. /\ new.response = tracer.payloads /\ new.reasoning = (traces[live].reasoning \/ tracer.payloads)
      /\ new.turns = traces[live].turns /\ new.calls = traces[live].calls
      /\ new.end = traces[live].end /\ new.rootEnds = traces[live].rootEnds
      /\ new.linked = traces[live].linked /\ new.request = traces[live].request
      /\ new.ctx = traces[live].ctx
  BY <1>2 DEF TraceRecords
<1>4. new \in TraceRecords
  <2>1. PICK b : b = (traces[live].reasoning \/ tracer.payloads)
    OBVIOUS
  <2>2. traces[live].reasoning \in BOOLEAN
    BY <1>2 DEF TraceRecords
  <2>3. b \in BOOLEAN
    BY <1>2, <2>1, <2>2, Zenon
  <2>4. [traces[live] EXCEPT !.response = tracer.payloads, !.reasoning = b] \in TraceRecords
    BY <1>2, <2>3 DEF TraceRecords
  <2> QED BY <1>2, <2>1, <2>4 DEF TraceRecords
<1>5. traces' = [traces EXCEPT ![live] = new]
  BY <1>2 DEF RecordResponse
<1> HIDE DEF new
<1>6. TraceFits(traces[live], live) /\ LiveFits(traces[live], "turn", TurnsIn(traces))
  BY <1>1, <1>2 DEF TracesKept
<1>7. TraceFits(new, live)
  BY <1>3, <1>6 DEF TraceFits, NoneFailed
<1>8. LiveFits(new, "calls", TurnsIn(traces))
  BY <1>3, <1>6 DEF LiveFits, EndFits, NoneFailed
<1>9. OutgoingTyped' /\ tools' \in [TracedCalls -> ToolStates] /\ \A c \in TracedCalls : SameClass(c)
  BY <1>1 DEF OutgoingTyped, TracingTyped, SameClass, RecordResponse, ToolStates
<1> QED BY <1>1, <1>3, <1>4, <1>5, <1>7, <1>8, <1>9, QuietStep DEF TraceStages

LEMMA FinalizedIs ==
  ASSUME NEW t \in TraceRecords, NEW end \in {"ok", "error", "suspended"}, NEW place,
         TraceFits(t, place), end = "suspended" => NoneFailed(t)
  PROVE  LET f == Finalized(t, end) IN
         /\ f \in TraceRecords /\ f.turns = t.turns /\ f.calls = t.calls /\ f.ctx = t.ctx
         /\ f.end = (IF t.end = "none" THEN end ELSE t.end) /\ TraceFits(f, place)
         /\ f.reasoning = t.reasoning
<1>1. CASE t.end = "none"
  <2> DEFINE f == [t EXCEPT !.end = end, !.rootEnds = @ + 1]
  <2>1. f \in TraceRecords /\ f.turns = t.turns /\ f.calls = t.calls /\ f.ctx = t.ctx
        /\ f.end = end /\ f.rootEnds = 1 /\ f.linked = t.linked
        /\ f.request = t.request /\ f.response = t.response /\ f.reasoning = t.reasoning
    <3>1. t.rootEnds = 0
      BY <1>1 DEF TraceFits
    <3>2. [t EXCEPT !.end = end, !.rootEnds = 1] \in TraceRecords
      BY DEF TraceRecords
    <3>3. f = [t EXCEPT !.end = end, !.rootEnds = 1]
      BY <3>1
    <3> HIDE DEF f
    <3> QED BY <3>2, <3>3 DEF TraceRecords
  <2>2. Finalized(t, end) = f
    BY <1>1 DEF Finalized
  <2> HIDE DEF f
  <2> QED BY <1>1, <2>1, <2>2 DEF TraceFits, NoneFailed
<1>2. CASE t.end # "none"
  BY <1>2 DEF Finalized
<1> QED BY <1>1, <1>2

LEMMA SuspendKeeps == ASSUME RunKept, SuspendTrace PROVE RunKept' /\ Continues /\ TellsNoMore
<1> USE DEF RunKept
<1>1. traces # <<>> /\ stage = "calls" /\ stage' = "parking" /\ UNCHANGED <<tracer, tools, outgoing>>
  BY DEF SuspendTrace, Reached, TracingTyped, RestUntouched
<1>2. traces[live] \in TraceRecords /\ live \in DOMAIN traces
  BY <1>1, LiveFacts
<1>3. TraceFits(traces[live], live) /\ LiveFits(traces[live], "calls", TurnsIn(traces))
  BY <1>1, <1>2 DEF TracesKept
<1>4. PICK new \in TraceRecords :
        /\ new = Finalized(traces[live], "suspended") /\ new.turns = traces[live].turns
        /\ new.calls = traces[live].calls /\ new.ctx = traces[live].ctx
        /\ new.end = "suspended" /\ TraceFits(new, live)
  BY <1>2, <1>3, FinalizedIs DEF LiveFits, EndFits
<1>5. traces' = [traces EXCEPT ![live] = new]
  BY <1>2, <1>4 DEF SuspendTrace
<1>6. LiveFits(new, "parking", TurnsIn(traces))
  BY <1>3, <1>4 DEF LiveFits, EndFits, NoneFailed
<1>7. OutgoingTyped' /\ tools' \in [TracedCalls -> ToolStates] /\ \A c \in TracedCalls : SameClass(c)
  BY <1>1 DEF OutgoingTyped, TracingTyped, SameClass
<1> QED BY <1>1, <1>4, <1>5, <1>6, <1>7, QuietStep DEF TraceStages

LEMMA CompleteKeeps == ASSUME RunKept, Complete PROVE RunKept' /\ Continues /\ TellsNoMore
<1> USE DEF RunKept
<1>1. traces # <<>> /\ stage \in {"loop", "fail", "leave"} /\ stage' = "record"
      /\ UNCHANGED <<tracer, tools, outgoing>>
  BY DEF Complete, TracingTyped, RestUntouched
<1>2. traces[live] \in TraceRecords /\ live \in DOMAIN traces
  BY <1>1, LiveFacts
<1>3. TraceFits(traces[live], live) /\ LiveFits(traces[live], stage, TurnsIn(traces))
  BY <1>1, <1>2 DEF TracesKept
<1>4. PICK end \in {"ok", "error"} : end = IF stage = "leave" THEN "ok" ELSE "error"
  OBVIOUS
<1>5. PICK new \in TraceRecords :
        /\ new = Finalized(traces[live], end) /\ new.turns = traces[live].turns
        /\ new.calls = traces[live].calls /\ new.ctx = traces[live].ctx
        /\ new.end = (IF traces[live].end = "none" THEN end ELSE traces[live].end)
        /\ TraceFits(new, live)
  BY <1>2, <1>3, FinalizedIs
<1>6. traces' = [traces EXCEPT ![live] = new]
  BY <1>2, <1>4, <1>5 DEF Complete
<1>7. LiveFits(new, "record", TurnsIn(traces))
  BY <1>1, <1>3, <1>5 DEF LiveFits, EndFits, NoneFailed
<1>8. OutgoingTyped' /\ tools' \in [TracedCalls -> ToolStates] /\ \A c \in TracedCalls : SameClass(c)
  BY <1>1 DEF OutgoingTyped, TracingTyped, SameClass
<1> QED BY <1>1, <1>5, <1>6, <1>7, <1>8, QuietStep DEF TraceStages

\* A step of a tool call, which writes the records of the last trace.
LEMMA CallStep ==
  ASSUME RunKept, stage = "calls", UNCHANGED <<tracer, stage, outgoing>>,
         tools' \in [TracedCalls -> ToolStates], NEW cs \in Seq(TraceCalls),
         traces' = [traces EXCEPT ![live].calls = cs], RecordsKept', CallsKept'
  PROVE  RunKept' /\ Continues /\ TellsNoMore
<1> USE DEF RunKept
<1>1. traces # <<>>
  BY DEF TracingTyped
<1>2. traces[live] \in TraceRecords /\ live \in DOMAIN traces /\ live \in Nat
  BY <1>1, LiveFacts
<1> DEFINE new == [traces[live] EXCEPT !.calls = cs]
<1>3. /\ new \in TraceRecords /\ new.turns = traces[live].turns /\ new.ctx = traces[live].ctx
      /\ new.end = traces[live].end /\ new.rootEnds = traces[live].rootEnds
      /\ new.linked = traces[live].linked /\ new.request = traces[live].request
      /\ new.response = traces[live].response /\ new.reasoning = traces[live].reasoning
  BY <1>2 DEF TraceRecords
<1>4. traces' = [traces EXCEPT ![live] = new]
  OBVIOUS
<1> HIDE DEF new
<1>5. TraceFits(traces[live], live) /\ LiveFits(traces[live], "calls", TurnsIn(traces))
  BY <1>1, <1>2 DEF TracesKept
<1>6. TraceFits(new, live) /\ LiveFits(new, "calls", TurnsIn(traces))
  BY <1>3, <1>5 DEF TraceFits, LiveFits, EndFits, NoneFailed
<1>7. TracesKept' /\ TurnsIn(traces)' = TurnsIn(traces)
  BY <1>1, <1>3, <1>4, <1>6, RewriteKeeps
<1>8. /\ traces' \in Seq(TraceRecords) /\ live' = live /\ DOMAIN traces' = DOMAIN traces
      /\ traces' # <<>> /\ traces'[live] = new
      /\ \A t \in DOMAIN traces \ {live} : traces'[t] = traces[t]
  BY <1>1, <1>3, <1>4, Rewritten
<1>9. TracingTyped'
  BY <1>8 DEF TracingTyped, live
<1>10. IndexKept'
  BY <1>3, <1>8, IndexStays
<1>11. TurnsIn(traces) \in Nat
  BY TurnsCounted DEF TracingTyped
<1>12. Continues
  BY <1>2, <1>7, <1>8, <1>11 DEF Continues, Told
<1>13. TellsNoMore
  BY <1>8 DEF TellsNoMore, Told
<1> QED BY <1>7, <1>9, <1>10, <1>12, <1>13

LEMMA RecordedKeeps ==
  ASSUME RunKept, NEW c \in TracedCalls, CompleteToolCall(c) \/ BadToolCall(c)
  PROVE  RunKept' /\ Continues /\ TellsNoMore
<1> USE DEF RunKept
<1>1. /\ stage = "calls" /\ tools[c] = "running" /\ UNCHANGED <<tracer, stage, outgoing>>
      /\ traces' = [traces EXCEPT ![live].calls = Append(@, RecordOf(c))]
  BY DEF CompleteToolCall, BadToolCall
<1>2. PICK how \in {"handled", "over"} : tools' = [tools EXCEPT ![c] = how]
  BY DEF CompleteToolCall, BadToolCall
<1>3. traces # <<>>
  BY <1>1 DEF TracingTyped
<1>4. traces[live] \in TraceRecords
  BY <1>3, LiveFacts
<1>5. traces[live].ctx # Root
  <2>1. traces[live].ctx = TurnsIn(traces) + 1 /\ TurnsIn(traces) \in Nat
    BY <1>1, <1>3, TurnsCounted DEF TracesKept, LiveFits, TracingTyped
  <2> QED BY <2>1 DEF Root
<1>6. RecordsKept' /\ CallsKept'
  BY <1>1, <1>2, <1>3, <1>5, RecordAdded
<1>7. RecordOf(c) \in TraceCalls
  BY <1>4 DEF RecordOf, TraceCalls, TraceRecords, IDOf
<1>8. traces[live].calls \in Seq(TraceCalls)
  BY <1>4 DEF TraceRecords
<1>9. PICK cs \in Seq(TraceCalls) : cs = Append(traces[live].calls, RecordOf(c))
  BY <1>7, <1>8, AppendProperties
<1>10. traces' = [traces EXCEPT ![live].calls = cs]
  BY <1>1, <1>9
<1>11. tools' \in [TracedCalls -> ToolStates]
  BY <1>2 DEF TracingTyped, ToolStates
<1> QED BY <1>1, <1>6, <1>10, <1>11, CallStep

LEMMA BailOutKeeps ==
  ASSUME RunKept, NEW c \in TracedCalls, BailOut(c)
  PROVE  RunKept' /\ Continues /\ TellsNoMore
<1>1. OutgoingTyped' /\ UNCHANGED <<tracer, traces, stage>>
  BY DEF BailOut, OutgoingTyped, RunKept, TracingTyped
<1>2. tools' \in [TracedCalls -> ToolStates] /\ \A d \in TracedCalls : SameClass(d)
  BY DEF BailOut, RunKept, TracingTyped, ToolStates, SameClass
<1> QED BY <1>1, <1>2, BesideStep

LEMMA Reasoned ==
  ASSUME NEW r \in TraceCalls, NEW c \in TracedCalls
  PROVE  /\ [r EXCEPT !.reasoning = {c}] \in TraceCalls
         /\ [r EXCEPT !.reasoning = {c}].call = r.call
         /\ [r EXCEPT !.reasoning = {c}].id = r.id
         /\ [r EXCEPT !.reasoning = {c}].parent = r.parent
         /\ [r EXCEPT !.reasoning = {c}].reasoning = {c}
BY DEF TraceCalls

\* What the model said of a call joins a record of that call, if the calls have
\* identifiers.
LEMMA ReasoningKeeps ==
  ASSUME RunKept, NEW c \in TracedCalls, AttachToolCallReasoning(c)
  PROVE  RunKept' /\ Continues /\ TellsNoMore
<1> USE DEF RunKept
<1>1. stage = "calls" /\ tools[c] \in {"handled", "unrecorded"} /\ UNCHANGED <<tracer, stage, outgoing>>
  BY DEF AttachToolCallReasoning
<1>2. traces # <<>>
  BY <1>1 DEF TracingTyped
<1>3. traces[live] \in TraceRecords /\ live \in DOMAIN traces
  BY <1>2, LiveFacts
<1>4. traces[live].calls \in Seq(TraceCalls)
  BY <1>3 DEF TraceRecords
<1>5. PICK old \in Seq(TraceCalls) : old = traces[live].calls
  BY <1>4
<1> DEFINE cs == [i \in DOMAIN old |-> IF i \in RecordedAs(IDOf(c)) /\ old[i].reasoning = {}
                                       THEN [old[i] EXCEPT !.reasoning = {c}] ELSE old[i]]
<1>6. DOMAIN old = 1 .. Len(old) /\ Len(old) \in Nat /\ \A i \in DOMAIN old : old[i] \in TraceCalls
  BY LenProperties
<1>7. \A i \in DOMAIN old :
        /\ cs[i] \in TraceCalls /\ cs[i].call = old[i].call /\ cs[i].id = old[i].id
        /\ cs[i].parent = old[i].parent
        /\ cs[i].reasoning = old[i].reasoning
             \/ (i \in RecordedAs(IDOf(c)) /\ cs[i].reasoning = {c})
  <2> TAKE i \in DOMAIN old
  <2>1. \/ cs[i] = old[i]
        \/ i \in RecordedAs(IDOf(c)) /\ cs[i] = [old[i] EXCEPT !.reasoning = {c}]
    OBVIOUS
  <2>2. CASE cs[i] = old[i]
    <3> HIDE DEF cs
    <3> QED BY <1>6, <2>2
  <2>3. CASE i \in RecordedAs(IDOf(c)) /\ cs[i] = [old[i] EXCEPT !.reasoning = {c}]
    <3> HIDE DEF cs
    <3>1. PICK r \in TraceCalls : r = old[i]
      BY <1>6
    <3>2. PICK q : q = cs[i]
      OBVIOUS
    <3>3. q = [r EXCEPT !.reasoning = {c}]
      BY <2>3, <3>1, <3>2
    <3>4. q \in TraceCalls /\ q.call = r.call /\ q.id = r.id /\ q.parent = r.parent
            /\ q.reasoning = {c}
      BY <3>3, Reasoned
    <3> QED BY <2>3, <3>1, <3>2, <3>4, Zenon
  <2> QED BY <2>1, <2>2, <2>3
<1>8. cs \in Seq(TraceCalls) /\ DOMAIN cs = DOMAIN old
  <2>1. cs \in [1 .. Len(old) -> TraceCalls]
    BY <1>6, <1>7
  <2> HIDE DEF cs
  <2>2. cs \in Seq(TraceCalls)
    BY <1>6, <2>1, FunctionIsSeq, Zenon
  <2> QED BY <1>6, <2>1, <2>2
<1>9. traces' = [traces EXCEPT ![live].calls = cs]
  BY <1>5 DEF AttachToolCallReasoning
<1> HIDE DEF cs
<1> DEFINE new == [traces[live] EXCEPT !.calls = cs]
<1>10. new \in TraceRecords /\ new.calls = cs /\ traces' = [traces EXCEPT ![live] = new]
  BY <1>3, <1>8, <1>9 DEF TraceRecords
<1> HIDE DEF new
<1>11. /\ DOMAIN traces' = DOMAIN traces /\ traces'[live].calls = cs
       /\ \A t \in DOMAIN traces \ {live} : traces'[t] = traces[t]
  BY <1>2, <1>10, Rewritten
<1>12. tools' \in [TracedCalls -> ToolStates] /\ \A d \in TracedCalls : SameClass(d)
  BY <1>1 DEF AttachToolCallReasoning, TracingTyped, ToolStates, SameClass
<1>13. CallsKept'
  <2>1. \A t \in DOMAIN traces :
          /\ DOMAIN traces'[t].calls = DOMAIN traces[t].calls
          /\ \A i \in DOMAIN traces[t].calls : traces'[t].calls[i].call = traces[t].calls[i].call
    BY <1>5, <1>7, <1>8, <1>11
  <2> QED BY <1>11, <1>12, <2>1, CallsStay, RecordedCalls DEF SameClass
<1>14. RecordsKept'
  <2>1. ASSUME NEW i \in DOMAIN old PROVE RecordFits(cs[i])
    <3>1. RecordFits(old[i])
      BY <1>3, <1>5 DEF RecordsKept
    <3>2. CASE cs[i].reasoning = old[i].reasoning
      BY <1>7, <3>1, <3>2 DEF RecordFits
    <3>3. CASE i \in RecordedAs(IDOf(c)) /\ cs[i].reasoning = {c}
      <4>1. tracer.ownIDs => old[i].call = c
        <5>1. old[i].id = IDOf(c) /\ old[i].id = IDOf(old[i].call)
          BY <1>5, <3>1, <3>3 DEF RecordedAs, RecordFits
        <5> QED BY <5>1 DEF IDOf
      <4> QED BY <1>7, <3>1, <3>3, <4>1 DEF RecordFits
    <3> QED BY <1>7, <3>2, <3>3
  <2>2. ASSUME NEW t \in DOMAIN traces', NEW i \in DOMAIN traces'[t].calls
        PROVE  RecordFits(traces[t].calls[i])'
    <3>1. PICK r : r = traces'[t].calls[i]
      OBVIOUS
    <3>2. RecordFits(r)
      BY <1>5, <1>8, <1>11, <2>1, <3>1 DEF RecordsKept
    <3> QED BY <1>1, <3>1, <3>2 DEF RecordFits, IDOf
  <2> QED BY <2>2 DEF RecordsKept
<1> QED BY <1>1, <1>8, <1>9, <1>12, <1>13, <1>14, CallStep

\* Stages between the traces, deliveries and payloads.
LEMMA BetweenKeeps ==
  ASSUME RunKept, \/ ResumeInNewTrace \/ Leave \/ Drain \/ Send \/ preparePayload
                  \/ \E s \in sending : Deliver(s)
  PROVE  RunKept' /\ Continues /\ TellsNoMore
<1>1. UNCHANGED <<tracer, traces, tools>> /\ OutgoingTyped'
  BY DEF ResumeInNewTrace, Leave, Drain, Send, preparePayload, Deliver, RestUntouched,
         OutgoingTyped, RunKept, TracingTyped
<1>2. \/ stage' = stage
      \/ /\ stage = "recorded" /\ stage' = "start" /\ live <= MaxPauses
         /\ traces[live].end = "suspended"
      \/ stage = "recorded" /\ stage' = "draining"
      \/ stage = "draining" /\ stage' = "exited"
  BY DEF ResumeInNewTrace, Leave, Drain, Send, preparePayload, Deliver, Reached
<1>3. tools' \in [TracedCalls -> ToolStates] /\ \A c \in TracedCalls : SameClass(c)
  BY <1>1 DEF RunKept, TracingTyped, SameClass
<1> QED BY <1>1, <1>2, <1>3, BesideStep

LEMMA OutgoingAfter ==
  ASSUME NEW e, Emit(e), outgoing = <<>> PROVE OutgoingTyped'
<1>1. CASE outgoing' = <<e>>
  BY <1>1 DEF OutgoingTyped
<1>2. CASE outgoing' = <<>>
  BY <1>2 DEF OutgoingTyped
<1> QED BY <1>1, <1>2 DEF Emit

\* The turn is over: its record is numbered as the next one.
LEMMA EndTurnKeeps ==
  ASSUME RunKept, EndTracedTurn
  PROVE  RunKept' /\ Continues /\ TellsNoMore /\ TurnsIn(traces') = TurnsIn(traces) + 1
<1> USE DEF RunKept
<1>1. /\ stage \in {"turn", "calls", "parking"} /\ outgoing = <<>> /\ UNCHANGED <<tracer, tools>>
      /\ stage' \in {"loop", "fail", "leave"} /\ (stage = "parking" => stage' = "leave")
      /\ traces' = [traces EXCEPT ![live].ctx = Root,
           ![live].turns = Append(@, [index |-> traces[live].ctx, failed |-> stage' = "fail"])]
  BY DEF EndTracedTurn
<1>2. traces # <<>>
  BY <1>1 DEF TracingTyped
<1>3. /\ traces[live] \in TraceRecords /\ live \in DOMAIN traces /\ live \in Nat
      /\ TurnsIn(traces) \in Nat
  BY <1>2, LiveFacts, TurnsCounted DEF TracingTyped
<1>4. TraceFits(traces[live], live) /\ LiveFits(traces[live], stage, TurnsIn(traces))
  BY <1>2, <1>3 DEF TracesKept
<1>5. PICK n \in Nat : n = TurnsIn(traces) + 1 /\ n = traces[live].ctx
  BY <1>1, <1>3, <1>4 DEF LiveFits
<1>6. PICK b \in BOOLEAN : b = (stage' = "fail")
  OBVIOUS
<1>7. PICK r \in TraceTurns : r = [index |-> n, failed |-> b]
  BY <1>5, <1>6 DEF TraceTurns
<1>8. traces[live].turns \in Seq(TraceTurns)
  BY <1>3 DEF TraceRecords
<1>9. PICK ts \in Seq(TraceTurns) : ts = Append(traces[live].turns, r)
  BY <1>7, <1>8, AppendProperties
<1> DEFINE new == [traces[live] EXCEPT !.ctx = Root, !.turns = ts]
<1>10. /\ new \in TraceRecords /\ new.ctx = Root /\ new.turns = ts /\ new.calls = traces[live].calls
       /\ new.end = traces[live].end /\ new.rootEnds = traces[live].rootEnds
       /\ new.linked = traces[live].linked /\ new.request = traces[live].request
       /\ new.response = traces[live].response /\ new.reasoning = traces[live].reasoning
  BY <1>3 DEF TraceRecords, Root
<1>11. traces' = [traces EXCEPT ![live] = new]
  BY <1>1, <1>3, <1>5, <1>6, <1>7, <1>9
<1> HIDE DEF new
<1>12. /\ traces' \in Seq(TraceRecords) /\ live' = live /\ DOMAIN traces' = DOMAIN traces
       /\ traces' # <<>> /\ traces'[live] = new
       /\ \A t \in DOMAIN traces \ {live} : traces'[t] = traces[t]
  BY <1>2, <1>10, <1>11, Rewritten
<1>13. IndexKept' /\ TurnsIn(traces') = n
  BY <1>2, <1>5, <1>6, <1>7, <1>9, <1>10, <1>11, IndexGrows
<1>14. new.end = "suspended" \/ stage' = "loop" => NoneFailed(new)
  <2> SUFFICES ASSUME new.end = "suspended" \/ stage' = "loop", NEW i \in DOMAIN new.turns
               PROVE  ~new.turns[i].failed
    BY DEF NoneFailed
  <2>1. stage' # "fail" /\ ~b
    BY <1>1, <1>4, <1>6, <1>10 DEF LiveFits, EndFits
  <2>2. NoneFailed(traces[live])
    BY <1>1, <1>4, <1>10 DEF LiveFits, EndFits, TraceFits
  <2>3. PICK s \in Seq(TraceTurns) : s = traces[live].turns
    BY <1>8
  <2>4. /\ DOMAIN Append(s, r) = 1 .. Len(s) + 1 /\ Len(s) \in Nat /\ DOMAIN s = 1 .. Len(s)
        /\ Append(s, r)[Len(s) + 1] = r /\ \A j \in 1 .. Len(s) : Append(s, r)[j] = s[j]
    BY AppendProperties, LenProperties
  <2>5. \/ i \in DOMAIN traces[live].turns /\ new.turns[i] = traces[live].turns[i]
        \/ new.turns[i] = r
    BY <1>9, <1>10, <2>3, <2>4
  <2>6. ~r.failed
    BY <1>7, <2>1
  <2> QED BY <2>2, <2>5, <2>6 DEF NoneFailed
<1>15. TraceFits(new, live)
  BY <1>4, <1>10, <1>14 DEF TraceFits
<1>16. LiveFits(new, stage', n)
  BY <1>1, <1>4, <1>10, <1>14 DEF LiveFits, EndFits
<1>17. TracesKept'
  <2>1. ASSUME NEW t \in DOMAIN traces'
        PROVE  TraceFits(traces[t], t)' /\ (t < live => traces'[t].end = "suspended" /\ traces'[t].ctx = Root)
    <3>1. CASE t = live
      BY <1>1, <1>3, <1>12, <1>15, <3>1 DEF TraceFits, NoneFailed
    <3>2. CASE t # live
      BY <1>1, <1>12, <3>2 DEF TracesKept, TraceFits, NoneFailed
    <3> QED BY <3>1, <3>2
  <2>2. LiveFits(traces'[live], stage', TurnsIn(traces'))
    BY <1>12, <1>13, <1>16
  <2> QED BY <1>12, <2>1, <2>2 DEF TracesKept, LiveFits, NoneFailed
<1>18. OutgoingTyped'
  BY <1>1, OutgoingAfter DEF EndTracedTurn, OutgoingTyped
<1>19. TracingTyped'
  BY <1>1, <1>12, <1>18 DEF TracingTyped, OutgoingTyped, TraceStages, live
<1>20. \A t \in DOMAIN traces : traces'[t].calls = traces[t].calls
  BY <1>10, <1>12
<1>21. RecordsKept' /\ CallsKept'
  BY <1>1, <1>12, <1>20, RecordsStay, CallsStay, RecordedCalls
<1>22. Continues
  BY <1>1, <1>3, <1>5, <1>12, <1>13 DEF Continues, Told
<1>23. TellsNoMore
  BY <1>1, <1>12 DEF TellsNoMore, Told
<1> QED BY <1>5, <1>13, <1>17, <1>19, <1>21, <1>22, <1>23

\* The trace is recorded as a whole.
LEMMA RecordTraceKeeps ==
  ASSUME RunKept, RecordTrace
  PROVE  RunKept' /\ Continues /\ \A t \in DOMAIN traces : Told(t) \/ t = live
<1> USE DEF RunKept
<1>1. /\ stage = "record" /\ stage' = "recorded" /\ outgoing = <<>>
      /\ UNCHANGED <<tracer, traces, tools>>
  BY DEF RecordTrace, Reached
<1>2. OutgoingTyped'
  BY <1>1, OutgoingAfter DEF RecordTrace
<1>3. TracingTyped'
  BY <1>1, <1>2 DEF TracingTyped, OutgoingTyped, TraceStages
<1>4. TracesKept'
  <2>1. traces # <<>> => LiveFits(traces[live], stage', TurnsIn(traces))
    BY <1>1 DEF TracesKept, LiveFits, EndFits
  <2> QED BY <1>1, <2>1 DEF TracesKept, LiveFits, EndFits, NoneFailed, TraceFits, live
<1>5. IndexKept' /\ RecordsKept'
  BY <1>1 DEF IndexKept, RecordsKept, RecordFits, IDOf
<1>6. CallsKept'
  BY <1>1, CallsStay, RecordedCalls DEF CallsKept
<1>7. TurnsIn(traces) \in Nat
  BY TurnsCounted DEF TracingTyped
<1>8. Continues
  BY <1>1, <1>7 DEF Continues, Told, live
<1>9. \A t \in DOMAIN traces : Told(t) \/ t = live
  <2>1. DOMAIN traces = 1 .. live /\ live \in Nat
    BY LenProperties DEF TracingTyped, live
  <2> QED BY <2>1 DEF Told
<1> QED BY <1>3, <1>4, <1>5, <1>6, <1>8, <1>9

-----------------------------------------------------------------------------
(* The events.                                                             *)

\* What may be told of a trace or a turn now.
EventFits(e) ==
  \/ \E t \in DOMAIN traces : Told(t) /\ e = OfTrace(t)
  \/ \E t \in DOMAIN traces, i \in 1 .. TurnsIn(traces), b \in BOOLEAN :
       tracer.payloads /\ e = OfTurn(t, i, b)

LEMMA FitsOn ==
  ASSUME RunKept, RunKept', Continues, UNCHANGED tracer, NEW e, EventFits(e)
  PROVE  EventFits(e)'
<1>1. CASE \E t \in DOMAIN traces : Told(t) /\ e = OfTrace(t)
  <2>1. PICK t \in DOMAIN traces : Told(t) /\ e = OfTrace(t)
    BY <1>1
  <2>2. t \in DOMAIN traces' /\ Told(t)' /\ e = OfTrace(t)'
    BY <2>1 DEF Continues, OfTrace, Form
  <2> QED BY <2>2 DEF EventFits
<1>2. CASE \E t \in DOMAIN traces, i \in 1 .. TurnsIn(traces), b \in BOOLEAN :
             tracer.payloads /\ e = OfTurn(t, i, b)
  <2>1. PICK t \in DOMAIN traces, i \in 1 .. TurnsIn(traces), b \in BOOLEAN :
          tracer.payloads /\ e = OfTurn(t, i, b)
    BY <1>2
  <2>2. TurnsIn(traces) \in Nat /\ TurnsIn(traces') \in Nat
    BY TurnsCounted DEF RunKept, TracingTyped
  <2>3. i \in 1 .. TurnsIn(traces') /\ t \in DOMAIN traces'
    BY <2>1, <2>2 DEF Continues
  <2>4. e = OfTurn(t, i, b)'
    BY <2>1 DEF OfTurn, Form
  <2> QED BY <2>1, <2>3, <2>4 DEF EventFits
<1> QED BY <1>1, <1>2 DEF EventFits

LEMMA EventsContinue ==
  ASSUME RunKept, RunKept', EventsKept, Continues, UNCHANGED tracer, Events' \subseteq Events
  PROVE  EventsKept'
<1>1. \A e \in Events' : EventFits(e)'
  <2> TAKE e \in Events'
  <2>1. EventFits(e)
    BY DEF EventsKept, EventFits
  <2> QED BY <2>1, FitsOn
<1>2. \A e, f \in Events' : e.id = f.id => e = f
  BY DEF EventsKept
<1> QED BY <1>1, <1>2 DEF EventsKept, EventFits

\* One event more, about what no event was about.
LEMMA EventJoins ==
  ASSUME RunKept, RunKept', EventsKept, Continues, UNCHANGED tracer, NEW new,
         Events' \subseteq Events \cup {new}, EventFits(new)',
         \A e \in Events : e.id # new.id
  PROVE  EventsKept'
<1>1. \A e \in Events' : EventFits(e)'
  <2> SUFFICES ASSUME NEW e \in Events' PROVE EventFits(e)'
    OBVIOUS
  <2>1. CASE e = new
    BY <2>1
  <2>2. CASE e \in Events
    <3>1. EventFits(e)
      BY <2>2 DEF EventsKept, EventFits
    <3> QED BY <3>1, FitsOn
  <2> QED BY <2>1, <2>2
<1>2. \A e, f \in Events' : e.id = f.id => e = f
  BY DEF EventsKept
<1> QED BY <1>1, <1>2 DEF EventsKept, EventFits

LEMMA EventIDs ==
  ASSUME NEW e, EventFits(e)
  PROVE  \/ \E t \in DOMAIN traces : Told(t) /\ e.id = <<t, Root>>
         \/ \E t \in DOMAIN traces, i \in 1 .. TurnsIn(traces) : e.id = <<t, i>>
<1>1. CASE \E t \in DOMAIN traces : Told(t) /\ e = OfTrace(t)
  <2>1. PICK t \in DOMAIN traces : Told(t) /\ e = OfTrace(t)
    BY <1>1
  <2>2. e.id = <<t, Root>>
    BY <2>1 DEF OfTrace
  <2> QED BY <2>1, <2>2
<1>2. CASE \E t \in DOMAIN traces, i \in 1 .. TurnsIn(traces), b \in BOOLEAN :
             tracer.payloads /\ e = OfTurn(t, i, b)
  <2>1. PICK t \in DOMAIN traces, i \in 1 .. TurnsIn(traces), b \in BOOLEAN : e = OfTurn(t, i, b)
    BY <1>2
  <2>2. e.id = <<t, i>>
    BY <2>1 DEF OfTurn
  <2> QED BY <2>2
<1> QED BY <1>1, <1>2 DEF EventFits

LEMMA NoneAboutTrace ==
  ASSUME EventsKept, NEW t \in DOMAIN traces, ~Told(t), NEW e \in Events
  PROVE  e.id # <<t, Root>>
<1>1. EventFits(e)
  BY DEF EventsKept, EventFits
<1>2. \A i \in 1 .. TurnsIn(traces) : i # Root
  BY DEF Root
<1> QED BY <1>1, <1>2, EventIDs

LEMMA NoneAboutTurn ==
  ASSUME RunKept, EventsKept, NEW t, NEW i, i = TurnsIn(traces) + 1, NEW e \in Events
  PROVE  e.id # <<t, i>>
<1>1. EventFits(e)
  BY DEF EventsKept, EventFits
<1>2. TurnsIn(traces) \in Nat
  BY TurnsCounted DEF RunKept, TracingTyped
<1>3. i # Root /\ i \notin 1 .. TurnsIn(traces)
  BY <1>2 DEF Root
<1> QED BY <1>1, <1>3, EventIDs

LEMMA OutgoingEvents ==
  ASSUME NEW e PROVE Range(<<>>) = {} /\ Range(<<e>>) = {e}
BY DEF Range

LEMMA EmittedEvents ==
  ASSUME NEW e, Emit(e), outgoing = <<>>, UNCHANGED <<sending, arrived>>
  PROVE  \/ Events' = Events \cup {e} /\ lost' = lost
         \/ Events' = Events /\ lost' = lost \cup {e.id}
<1>1. CASE outgoing' = <<e>> /\ UNCHANGED lost
  BY <1>1, OutgoingEvents DEF Events
<1>2. CASE lost' = lost \cup {e.id} /\ UNCHANGED outgoing
  BY <1>2 DEF Events
<1> QED BY <1>1, <1>2 DEF Emit

TracingRest == EventsKept /\ SendsKept /\ PayloadKept

LEMMA PayloadStays == ASSUME PayloadKept, UNCHANGED payload PROVE PayloadKept'
BY DEF PayloadKept, EncodedLength

\* A step that makes no event.
LEMMA NothingTold ==
  ASSUME RunKept, TracingRest, RunKept', Continues, TellsNoMore,
         UNCHANGED <<tracer, outgoing, sending, arrived, lost, payload>>,
         stage' \in {"draining", "exited"} => outgoing = <<>>,
         stage' = "exited" => sending = {}
  PROVE  TracingRest'
<1>1. Events' = Events
  BY DEF Events
<1>2. EventsKept'
  BY <1>1, EventsContinue DEF TracingRest
<1>3. SendsKept'
  <2>1. \A t \in DOMAIN traces' : Told(t)' => <<t, Root>> \in lost' \cup {e.id : e \in Events'}
    BY <1>1 DEF TracingRest, SendsKept, TellsNoMore
  <2> QED BY <2>1 DEF TracingRest, SendsKept
<1> QED BY <1>2, <1>3, PayloadStays DEF TracingRest

\* What a step told of, and gave up or made an event of.
LEMMA SendsAfter ==
  ASSUME SendsKept, outgoing = <<>>, UNCHANGED <<sending, arrived>>, NEW e, Emit(e),
         stage' \notin {"draining", "exited"},
         \A t \in DOMAIN traces' : Told(t)' => \/ t \in DOMAIN traces /\ Told(t)
                                               \/ e.id = <<t, Root>>
  PROVE  SendsKept'
<1>1. \/ Events' = Events \cup {e} /\ lost' = lost
      \/ Events' = Events /\ lost' = lost \cup {e.id}
  BY EmittedEvents
<1>2. \A t \in DOMAIN traces' : Told(t)' => <<t, Root>> \in lost' \cup {f.id : f \in Events'}
  BY <1>1 DEF SendsKept
<1> QED BY <1>2 DEF SendsKept

LEMMA TurnIsTold ==
  ASSUME RunKept, TracingRest, EndTracedTurn PROVE RunKept' /\ TracingRest'
<1>1. RunKept' /\ Continues /\ TellsNoMore /\ TurnsIn(traces') = TurnsIn(traces) + 1
  BY EndTurnKeeps
<1>2. /\ stage \in {"turn", "calls", "parking"} /\ stage' \in {"loop", "fail", "leave"}
      /\ outgoing = <<>> /\ UNCHANGED <<tracer, sending, arrived, payload>>
  BY DEF EndTracedTurn
<1>3. CASE ~traces[live].request
  BY <1>1, <1>2, <1>3, NothingTold DEF EndTracedTurn
<1>4. CASE traces[live].request
  <2>1. traces # <<>>
    BY <1>2 DEF RunKept, TracingTyped
  <2>2. live \in DOMAIN traces /\ traces[live] \in TraceRecords
    BY <2>1, LiveFacts DEF RunKept
  <2>3. PICK b \in BOOLEAN : b = traces[live].response
    BY <2>2 DEF TraceRecords
  <2>4. tracer.payloads
    BY <1>4, <2>2 DEF RunKept, TracesKept, TraceFits
  <2>5. TurnsIn(traces) \in Nat
    BY TurnsCounted DEF RunKept, TracingTyped
  <2>6. PICK i \in Nat \ {0} : i = TurnsIn(traces) + 1 /\ i = traces[live].ctx
    BY <1>2, <2>1, <2>5 DEF RunKept, TracesKept, LiveFits
  <2>7. PICK e : e = SpanEvent(traces[live], traces[live].ctx)
    OBVIOUS
  <2>8. Emit(e)
    BY <1>4, <2>7 DEF EndTracedTurn
  <2>9. e = OfTurn(live, i, b) /\ e = OfTurn(live, i, b)'
    <3>1. Form(traces[live].request) = Form(TRUE)
      BY <1>4 DEF Form
    <3>2. Form(traces[live].response) = Form(b)
      BY <2>3
    <3>3. live' = live
      <4>1. DOMAIN traces' = DOMAIN traces
        BY DEF EndTracedTurn
      <4>2. PICK m \in Nat, n \in Nat : /\ m = live' /\ n = live
                                        /\ DOMAIN traces' = 1 .. m /\ DOMAIN traces = 1 .. n
        BY <1>1, LenProperties DEF live, RunKept, TracingTyped
      <4>3. m = n
        <5>1. \A k : k \in 1 .. m <=> k \in 1 .. n
          BY <4>1, <4>2
        <5>2. ~(m < n)
          <6>1. n \in 1 .. m \/ ~(n \in 1 .. n)
            BY <5>1
          <6> QED BY <4>2, <6>1
        <5>3. ~(n < m)
          <6>1. m \in 1 .. n \/ ~(m \in 1 .. m)
            BY <5>1
          <6> QED BY <4>2, <6>1
        <5> QED BY <4>2, <5>2, <5>3
      <4> QED BY <4>2, <4>3
    <3>4. e = OfTurn(live, i, b)
      BY <2>6, <2>7, <3>1, <3>2 DEF SpanEvent, OfTurn
    <3> QED BY <1>2, <3>3, <3>4 DEF OfTurn, Form
  <2>10. EventFits(e)'
    <3>1. live \in DOMAIN traces' /\ i \in 1 .. TurnsIn(traces') /\ tracer'.payloads
      BY <1>1, <1>2, <2>2, <2>4, <2>6 DEF Continues
    <3>2. PICK t \in DOMAIN traces' : t = live
      BY <3>1
    <3>3. e = OfTurn(t, i, b)'
      BY <1>2, <2>9, <3>2 DEF OfTurn, Form
    <3> QED BY <3>1, <3>3 DEF EventFits
  <2>11. e.id = <<live, i>>
    BY <2>9 DEF OfTurn
  <2>12. \A f \in Events : f.id # e.id
    BY <2>6, <2>11, NoneAboutTurn DEF TracingRest
  <2>13. Events' \subseteq Events \cup {e}
    BY <1>2, <2>8, EmittedEvents
  <2>14. EventsKept'
    BY <1>1, <1>2, <2>10, <2>12, <2>13, EventJoins DEF TracingRest
  <2>15. SendsKept'
    BY <1>1, <1>2, <2>8, SendsAfter DEF TracingRest, TellsNoMore
  <2> QED BY <1>1, <1>2, <2>14, <2>15, PayloadStays DEF TracingRest
<1> QED BY <1>3, <1>4

LEMMA TraceIsTold ==
  ASSUME RunKept, TracingRest, RecordTrace PROVE RunKept' /\ TracingRest'
<1>1. RunKept' /\ Continues /\ \A t \in DOMAIN traces : Told(t) \/ t = live
  BY RecordTraceKeeps
<1>2. /\ stage = "record" /\ stage' = "recorded"
      /\ outgoing = <<>> /\ UNCHANGED <<tracer, traces, sending, arrived, payload>>
  BY DEF RecordTrace, Reached
<1>3. live \in DOMAIN traces /\ ~Told(live)
  <2>1. live \in DOMAIN traces /\ live \in Nat
    BY <1>2, LiveFacts DEF RunKept, TracingTyped
  <2> QED BY <1>2, <2>1 DEF Told
<1>4. PICK t \in DOMAIN traces : t = live
  BY <1>3
<1>5. PICK e : e = OfTrace(t)
  OBVIOUS
<1>6. Emit(e)
  BY <1>4, <1>5 DEF RecordTrace, OfTrace, TraceEvent
<1>7. e.id = <<t, Root>>
  BY <1>5 DEF OfTrace
<1>8. EventFits(e)'
  <2>1. e = OfTrace(t)' /\ Told(t)' /\ t \in DOMAIN traces'
    BY <1>2, <1>5 DEF OfTrace, Form, Told
  <2> QED BY <2>1 DEF EventFits
<1>9. \A f \in Events : f.id # e.id
  BY <1>3, <1>4, <1>7, NoneAboutTrace DEF TracingRest
<1>10. Events' \subseteq Events \cup {e}
  BY <1>2, <1>6, EmittedEvents
<1>11. EventsKept'
  BY <1>1, <1>2, <1>8, <1>9, <1>10, EventJoins DEF TracingRest
<1>12. SendsKept'
  BY <1>1, <1>2, <1>4, <1>6, <1>7, SendsAfter DEF TracingRest
<1> QED BY <1>1, <1>2, <1>11, <1>12, PayloadStays DEF TracingRest

-----------------------------------------------------------------------------
(* Deliveries.                                                             *)

LEMMA SendKeepsEvents ==
  ASSUME RunKept, TracingRest, Send PROVE RunKept' /\ TracingRest'
<1>1. RunKept' /\ Continues /\ TellsNoMore
  BY BetweenKeeps
<1>2. PICK e : e = outgoing[1]
  OBVIOUS
<1>3. outgoing = <<e>> /\ outgoing' = <<>>
  BY <1>2 DEF Send, RunKept, TracingTyped
<1>4. PICK s : s = [event |-> e, retries |-> 0]
  OBVIOUS
<1>5. sending' = sending \cup {s} /\ s.event = e /\ s.retries = 0
  BY <1>2, <1>4 DEF Send
<1>6. Events' = Events
  BY <1>3, <1>5, OutgoingEvents DEF Events, Send
<1>7. EventsKept'
  BY <1>1, <1>6, EventsContinue DEF TracingRest, Send
<1>8. IsFiniteSet(sending') /\ Cardinality(sending') <= ceMaxInflight
  <2>1. PICK n \in Nat : n = Cardinality(sending)
    BY FS_CardinalityType DEF TracingRest, SendsKept
  <2>2. /\ IsFiniteSet(sending \cup {s})
        /\ Cardinality(sending \cup {s}) = n \/ Cardinality(sending \cup {s}) = n + 1
    BY <2>1, FS_AddElement DEF TracingRest, SendsKept
  <2>3. n < ceMaxInflight /\ ceMaxInflight \in Nat
    BY <2>1, TracingAssumption DEF Send
  <2> QED BY <1>5, <2>2, <2>3
<1>9. \A x \in sending' : x = [event |-> x.event, retries |-> x.retries] /\ x.retries \in 0 .. ceMaxRetry
  <2>1. s = [event |-> s.event, retries |-> s.retries] /\ s.retries \in 0 .. ceMaxRetry
    BY <1>4, <1>5, TracingAssumption
  <2> QED BY <1>5, <2>1 DEF TracingRest, SendsKept
<1>10. SendsKept'
  <2>1. stage \notin {"draining", "exited"} /\ UNCHANGED <<lost, stage>>
    BY <1>3 DEF Send, TracingRest, SendsKept
  <2>2. \A t \in DOMAIN traces' : Told(t)' => <<t, Root>> \in lost' \cup {x.id : x \in Events'}
    BY <1>1, <1>6, <2>1 DEF TracingRest, SendsKept, TellsNoMore
  <2> QED BY <1>8, <1>9, <2>1, <2>2 DEF SendsKept
<1> QED BY <1>1, <1>7, <1>10, PayloadStays DEF TracingRest, Send

\* An event that leaves the deliveries has arrived or is given up.
LEMMA DeliverKeeps ==
  ASSUME RunKept, TracingRest, NEW s \in sending, Deliver(s) PROVE RunKept' /\ TracingRest'
<1>1. RunKept' /\ Continues /\ TellsNoMore
  BY BetweenKeeps
<1>2. s = [event |-> s.event, retries |-> s.retries] /\ s.retries \in 0 .. ceMaxRetry
  BY DEF TracingRest, SendsKept
<1>3. PICK arrives \in BOOLEAN, answered \in BOOLEAN :
        /\ answered => arrives
        /\ arrived' = IF arrives THEN arrived \cup {s.event} ELSE arrived
        /\ sending' = (sending \ {s}) \cup
             (IF ~answered /\ s.retries < ceMaxRetry
              THEN {[s EXCEPT !.retries = @ + 1]} ELSE {})
        /\ lost' = IF s.retries = ceMaxRetry /\ s.event \notin arrived'
                   THEN lost \cup {s.event.id} ELSE lost
  BY DEF Deliver
<1>4. UNCHANGED <<tracer, traces, stage, outgoing, payload>>
  BY DEF Deliver
<1>5. PICK r : r = [s EXCEPT !.retries = @ + 1]
  OBVIOUS
<1>6. r.event = s.event /\ r.retries = s.retries + 1 /\ r = [event |-> r.event, retries |-> r.retries]
  BY <1>2, <1>5
<1>7. /\ sending' \subseteq (sending \ {s}) \cup {r}
      /\ sending \ {s} \subseteq sending'
      /\ r \in sending' \/ sending' \subseteq sending
  <2>1. CASE ~answered /\ s.retries < ceMaxRetry
    <3>1. sending' = (sending \ {s}) \cup {r}
      BY <1>3, <1>5, <2>1
    <3> QED BY <3>1
  <2>2. CASE ~(~answered /\ s.retries < ceMaxRetry)
    <3>1. sending' = sending \ {s}
      BY <1>3, <2>2
    <3> QED BY <3>1
  <2> QED BY <2>1, <2>2
<1>8. Events' \subseteq Events
  BY <1>3, <1>4, <1>6, <1>7 DEF Events
<1>9. \A e \in Events : e \in Events' \/ e.id \in lost'
  <2>1. s.event \in Events' \/ s.event.id \in lost'
    <3>1. CASE s.event \in arrived'
      BY <3>1 DEF Events
    <3>2. CASE s.event \notin arrived' /\ s.retries = ceMaxRetry
      BY <1>3, <3>2
    <3>3. CASE s.event \notin arrived' /\ s.retries # ceMaxRetry
      <4>1. ~answered /\ s.retries < ceMaxRetry
        BY <1>2, <1>3, <3>3, TracingAssumption
      <4>2. r \in sending'
        BY <1>3, <1>5, <4>1
      <4> QED BY <1>6, <4>2 DEF Events
    <3> QED BY <3>1, <3>2, <3>3
  <2>2. arrived \subseteq arrived'
    BY <1>3
  <2> QED BY <1>4, <1>7, <2>1, <2>2 DEF Events
<1>10. EventsKept'
  BY <1>1, <1>4, <1>8, EventsContinue DEF TracingRest
<1>11. IsFiniteSet(sending') /\ Cardinality(sending') <= ceMaxInflight
  <2>1. PICK n \in Nat : n = Cardinality(sending) /\ n <= ceMaxInflight
    BY FS_CardinalityType DEF TracingRest, SendsKept
  <2>2. PICK rest : rest = sending \ {s}
    OBVIOUS
  <2>3. IsFiniteSet(rest) /\ Cardinality(rest) = n - 1
    BY <2>1, <2>2, FS_RemoveElement DEF TracingRest, SendsKept
  <2>4. IsFiniteSet(rest \cup {r}) /\ Cardinality(rest \cup {r}) <= n
    BY <2>1, <2>3, FS_AddElement
  <2>5. IsFiniteSet(sending') /\ Cardinality(sending') <= Cardinality(rest \cup {r})
    BY <1>7, <2>2, <2>4, FS_Subset
  <2>6. Cardinality(sending') \in Nat /\ Cardinality(rest \cup {r}) \in Nat /\ ceMaxInflight \in Nat
    BY <2>4, <2>5, FS_CardinalityType, TracingAssumption
  <2> QED BY <2>1, <2>4, <2>5, <2>6
<1>12. \A x \in sending' : x = [event |-> x.event, retries |-> x.retries] /\ x.retries \in 0 .. ceMaxRetry
  <2>1. r \in sending' => s.retries < ceMaxRetry \/ sending' \subseteq sending
    BY <1>3, <1>5
  <2>2. CASE sending' \subseteq sending
    BY <2>2 DEF TracingRest, SendsKept
  <2>3. CASE s.retries < ceMaxRetry
    <3>1. r.retries \in 0 .. ceMaxRetry
      BY <1>2, <1>6, <2>3, TracingAssumption
    <3> QED BY <1>6, <1>7, <3>1 DEF TracingRest, SendsKept
  <2> QED BY <1>7, <2>1, <2>2, <2>3
<1>13. SendsKept'
  <2>1. \A t \in DOMAIN traces' : Told(t)' => <<t, Root>> \in lost' \cup {x.id : x \in Events'}
    <3>1. lost \subseteq lost'
      BY <1>3
    <3> QED BY <1>1, <1>9, <3>1 DEF TracingRest, SendsKept, TellsNoMore
  <2>2. stage' # "exited"
    BY <1>4 DEF TracingRest, SendsKept
  <2>3. stage' \in {"draining", "exited"} => outgoing' = <<>>
    BY <1>4 DEF TracingRest, SendsKept
  <2> QED BY <1>11, <1>12, <2>1, <2>2, <2>3 DEF SendsKept
<1> QED BY <1>1, <1>4, <1>10, <1>13, PayloadStays DEF TracingRest

-----------------------------------------------------------------------------
(* Payloads.                                                               *)

Widths == Nat \ {0}

LEMMA Beginning ==
  ASSUME NEW p \in Seq(Widths), NEW n \in 0 .. Len(p), NEW k, k = SubSeq(p, 1, n)
  PROVE  k \in Seq(Widths) /\ Len(k) = n /\ \A i \in 1 .. n : k[i] = p[i]
<1>1. \A i \in 1 .. n : p[i] \in Widths
  BY LenProperties
<1> QED BY <1>1

\* The beginning of a beginning is one.
LEMMA CutAgain ==
  ASSUME NEW p \in Seq(Widths), NEW n \in 0 .. Len(p), NEW k, k = SubSeq(p, 1, n),
         NEW m \in 0 .. n
  PROVE  SubSeq(k, 1, m) = SubSeq(p, 1, m) /\ m \in 0 .. Len(p)
<1>1. m \in 0 .. Len(p) /\ m \in 0 .. Len(k) /\ k \in Seq(Widths)
  BY Beginning, LenProperties
<1>2. PICK a : a = SubSeq(p, 1, m)
  OBVIOUS
<1>3. PICK b : b = SubSeq(k, 1, m)
  OBVIOUS
<1>4. a \in Seq(Widths) /\ Len(a) = m /\ \A i \in 1 .. m : a[i] = p[i]
  BY <1>1, <1>2, Beginning
<1>5. b \in Seq(Widths) /\ Len(b) = m /\ \A i \in 1 .. m : b[i] = k[i]
  BY <1>1, <1>3, Beginning
<1>6. \A i \in 1 .. m : k[i] = p[i]
  <2>1. \A i \in 1 .. n : k[i] = p[i]
    BY Beginning
  <2>2. 1 .. m \subseteq 1 .. n
    BY <1>1
  <2> QED BY <2>1, <2>2
<1>7. a = b
  <2>1. \A i \in 1 .. Len(a) : a[i] = b[i]
    BY <1>4, <1>5, <1>6
  <2> QED BY <1>4, <1>5, <2>1, SeqEqual
<1> QED BY <1>1, <1>2, <1>3, <1>7

\* All of it is a beginning too.
LEMMA BeginsWhole ==
  ASSUME NEW p \in Seq(Widths) PROVE p = SubSeq(p, 1, Len(p)) /\ Len(p) \in 0 .. Len(p)
<1>1. Len(p) \in 0 .. Len(p)
  BY LenProperties
<1>2. PICK k : k = SubSeq(p, 1, Len(p))
  OBVIOUS
<1>3. k \in Seq(Widths) /\ Len(k) = Len(p) /\ \A i \in 1 .. Len(p) : k[i] = p[i]
  BY <1>1, <1>2, Beginning
<1>4. k = p
  BY <1>3, SeqEqual
<1> QED BY <1>1, <1>2, <1>4

LEMMA EncodedCounted ==
  ASSUME NEW p \in Seq(Widths) PROVE EncodedLength(p) \in Nat
<1>1. PICK n \in Nat : n = Len(p) /\ DOMAIN p = 1 .. n
  BY LenProperties
<1>2. IsFiniteSet(DOMAIN p)
  BY <1>1, FS_Interval
<1>3. ASSUME NEW i \in DOMAIN p PROVE IsFiniteSet({i} \X (1 .. p[i]))
  <2>1. PICK w \in Nat : w = p[i]
    <3>1. p[i] \in Widths
      BY <1>1, LenProperties
    <3> QED BY <3>1 DEF Widths
  <2>2. IsFiniteSet(1 .. w)
    BY FS_Interval
  <2>3. IsFiniteSet({i})
    BY FS_Singleton
  <2> QED BY <2>1, <2>2, <2>3, FS_Product, Zenon
<1> DEFINE sets == {{i} \X (1 .. p[i]) : i \in DOMAIN p}
           f == [i \in DOMAIN p |-> {i} \X (1 .. p[i])]
<1>4. IsFiniteSet(sets)
  <2>1. f \in Surjection(DOMAIN p, sets)
    BY Zenon DEF Surjection
  <2> HIDE DEF f, sets
  <2> QED BY <1>2, <2>1, FS_Surjection
<1>5. IsFiniteSet(UNION sets)
  <2>1. \A T \in sets : IsFiniteSet(T)
    BY <1>3
  <2> HIDE DEF sets
  <2> QED BY <1>4, <2>1, FS_UNION, Zenon
<1>6. Cardinality(UNION sets) \in Nat
  BY <1>5, FS_CardinalityType
<1>7. EncodedLength(p) = 2 + Cardinality(UNION sets)
  BY DEF EncodedLength
<1> HIDE DEF sets
<1> QED BY <1>6, <1>7

LEMMA EncodedNothing == EncodedLength(<<>>) = 2
<1>1. UNION {{n} \X (1 .. <<>>[n]) : n \in DOMAIN <<>>} = {}
  <2>1. DOMAIN <<>> = {}
    OBVIOUS
  <2> QED BY <2>1
<1>2. Cardinality(UNION {{n} \X (1 .. <<>>[n]) : n \in DOMAIN <<>>}) = 0
  BY <1>1, FS_EmptySet
<1> QED BY <1>2 DEF EncodedLength

LEMMA Recut ==
  ASSUME NEW p, NEW a, NEW b, NEW r, r = [source |-> p, kept |-> a, cut |-> b],
         NEW k, NEW c, NEW q, q = [r EXCEPT !.kept = k, !.cut = c]
  PROVE  q = [source |-> p, kept |-> k, cut |-> c]
OBVIOUS

\* Every cut leaves a beginning of what was given, and a cut that is over fits.
LEMMA PrepareKeeps == ASSUME PayloadKept, preparePayload PROVE PayloadKept'
<1>1. PICK p \in Seq(Widths) : p = payload.source
  BY DEF PayloadKept, Widths
<1>2. PICK k : k = payload.kept
  OBVIOUS
<1>3. PICK n \in 0 .. Len(p) : k = SubSeq(p, 1, n)
  BY <1>1, <1>2 DEF PayloadKept
<1>4. payload = [source |-> p, kept |-> k, cut |-> payload.cut]
  BY <1>1, <1>2 DEF PayloadKept
<1>5. k \in Seq(Widths) /\ Len(k) = n /\ n \in Nat
  BY <1>3, Beginning, LenProperties
<1>6. PICK raw : raw = truncatePayload(k)
  OBVIOUS
<1>7. maxPayloadBytes \in Nat \ {0, 1}
  BY TracingAssumption
<1>8. PICK m \in 0 .. Len(p) :
        /\ raw = SubSeq(p, 1, m) /\ raw \in Seq(Widths) /\ Len(raw) = m /\ m <= maxPayloadBytes
        /\ m <= n
  <2>1. CASE Len(k) <= maxPayloadBytes
    <3>1. raw = k
      BY <1>6, <2>1 DEF truncatePayload
    <3> QED BY <1>3, <1>5, <2>1, <3>1
  <2>2. CASE ~(Len(k) <= maxPayloadBytes)
    <3>1. PICK m : m = maxPayloadBytes
      OBVIOUS
    <3>2. raw = SubSeq(k, 1, m)
      BY <1>6, <2>2, <3>1 DEF truncatePayload
    <3>3. m \in 0 .. n /\ m <= n /\ m <= maxPayloadBytes
      BY <1>5, <1>7, <2>2, <3>1
    <3>4. SubSeq(k, 1, m) = SubSeq(p, 1, m) /\ m \in 0 .. Len(p)
      BY <1>3, <3>3, CutAgain
    <3>5. raw \in Seq(Widths) /\ Len(raw) = m
      BY <3>2, <3>4, Beginning
    <3> QED BY <3>2, <3>3, <3>4, <3>5
  <2> QED BY <2>1, <2>2
<1>9. PICK over \in Int : over = EncodedLength(raw) - maxPayloadBytes
  <2>1. PICK e \in Nat : e = EncodedLength(raw)
    BY <1>8, EncodedCounted
  <2>2. e - maxPayloadBytes \in Int
    BY <1>7, <2>1
  <2> QED BY <2>1, <2>2
<1>10. payload.cut \in {"new", "shrinking"} /\ (payload.cut = "new" => k = p)
  BY <1>1, <1>2 DEF preparePayload, PayloadKept
<1>11. payload' = IF payload.cut = "new" /\ raw = k THEN [payload EXCEPT !.cut = "whole"]
                  ELSE IF over <= 0 THEN [payload EXCEPT !.kept = raw, !.cut = "cut"]
                  ELSE IF over >= Len(raw) THEN [payload EXCEPT !.kept = <<>>, !.cut = "cut"]
                  ELSE [payload EXCEPT !.kept = SubSeq(raw, 1, Len(raw) - over),
                                       !.cut = "shrinking"]
  BY <1>2, <1>6, <1>9 DEF preparePayload
<1>17. ASSUME NEW new, NEW cut, payload' = [payload EXCEPT !.kept = new, !.cut = cut]
       PROVE  payload' = [source |-> p, kept |-> new, cut |-> cut]
  <2>1. PICK c : c = payload.cut
    OBVIOUS
  <2>2. PICK r : r = payload
    OBVIOUS
  <2>3. r = [source |-> p, kept |-> k, cut |-> c]
    BY <1>4, <2>1, <2>2
  <2>4. PICK q : q = payload' /\ q = [r EXCEPT !.kept = new, !.cut = cut]
    BY <1>17, <2>2
  <2>5. q = [source |-> p, kept |-> new, cut |-> cut]
    BY <2>3, <2>4, Recut
  <2> QED BY <2>4, <2>5
<1>12. ASSUME NEW new, NEW cut \in {"whole", "shrinking", "cut"}, NEW l \in 0 .. Len(p),
              new = SubSeq(p, 1, l), payload' = [source |-> p, kept |-> new, cut |-> cut],
              cut = "whole" => new = p /\ Len(new) <= maxPayloadBytes,
              cut = "cut" => EncodedLength(new) <= maxPayloadBytes
       PROVE  PayloadKept'
  <2>1. payload'.source = p /\ payload'.kept = new /\ payload'.cut = cut
    BY <1>12
  <2>2. payload' = [source |-> payload'.source, kept |-> payload'.kept, cut |-> payload'.cut]
    BY <1>12, <2>1
  <2>3. p \in Seq(Nat \ {0})
    BY DEF Widths
  <2>4. \E i \in 0 .. Len(payload'.source) : payload'.kept = SubSeq(payload'.source, 1, i)
    BY <1>12, <2>1
  <2>5. EncodedLength(payload'.kept) = EncodedLength(new)
    BY <2>1
  <2>6. (payload'.cut = "cut" => EncodedLength(payload'.kept) <= maxPayloadBytes)
    BY <1>12, <2>1, <2>5
  <2> QED BY <1>12, <2>1, <2>2, <2>3, <2>4, <2>6 DEF PayloadKept, EncodedLength
<1>13. CASE payload.cut = "new" /\ raw = k
  <2>1. payload' = [source |-> p, kept |-> k, cut |-> "whole"]
    BY <1>4, <1>11, <1>13
  <2>2. k = p /\ Len(k) <= maxPayloadBytes
    BY <1>8, <1>10, <1>13
  <2> QED BY <1>3, <1>12, <2>1, <2>2
<1>14. CASE ~(payload.cut = "new" /\ raw = k) /\ over <= 0
  <2>1. payload' = [source |-> p, kept |-> raw, cut |-> "cut"]
    <3>1. payload' = [payload EXCEPT !.kept = raw, !.cut = "cut"]
      BY <1>11, <1>14, Zenon
    <3> QED BY <1>17, <3>1
  <2>2. PICK e \in Nat : e = EncodedLength(raw)
    BY <1>8, EncodedCounted
  <2>3. EncodedLength(raw) <= maxPayloadBytes
    BY <1>7, <1>9, <1>14, <2>2
  <2> QED BY <1>8, <1>12, <2>1, <2>3
<1>15. CASE ~(payload.cut = "new" /\ raw = k) /\ ~(over <= 0) /\ over >= Len(raw)
  <2>1. payload' = [source |-> p, kept |-> <<>>, cut |-> "cut"]
    <3>1. payload' = [payload EXCEPT !.kept = <<>>, !.cut = "cut"]
      BY <1>11, <1>15, Zenon
    <3> QED BY <1>17, <3>1
  <2>2. <<>> = SubSeq(p, 1, 0) /\ 0 \in 0 .. Len(p)
    BY LenProperties
  <2>3. EncodedLength(<<>>) <= maxPayloadBytes
    BY <1>7, EncodedNothing
  <2> QED BY <1>12, <2>1, <2>2, <2>3
<1>16. CASE ~(payload.cut = "new" /\ raw = k) /\ ~(over <= 0) /\ ~(over >= Len(raw))
  <2>1. PICK l \in 0 .. m : l = m - over
    BY <1>8, <1>9, <1>16
  <2>2. payload' = [source |-> p, kept |-> SubSeq(raw, 1, l), cut |-> "shrinking"]
    <3>1. payload' = [payload EXCEPT !.kept = SubSeq(raw, 1, Len(raw) - over), !.cut = "shrinking"]
      BY <1>11, <1>16, Zenon
    <3>2. Len(raw) - over = l
      BY <1>8, <2>1
    <3> QED BY <1>17, <3>1, <3>2
  <2>3. SubSeq(raw, 1, l) = SubSeq(p, 1, l) /\ l \in 0 .. Len(p)
    BY <1>8, <2>1, CutAgain
  <2> QED BY <1>12, <2>2, <2>3
<1> QED BY <1>13, <1>14, <1>15, <1>16

LEMMA PayloadIsCut ==
  ASSUME RunKept, TracingRest, preparePayload PROVE RunKept' /\ TracingRest'
<1>1. RunKept' /\ Continues /\ TellsNoMore
  BY BetweenKeeps
<1>2. UNCHANGED <<tracer, traces, stage, outgoing, sending, arrived, lost>>
  BY DEF preparePayload
<1>3. Events' = Events
  BY <1>2 DEF Events
<1>4. EventsKept'
  BY <1>1, <1>2, <1>3, EventsContinue DEF TracingRest
<1>5. SendsKept'
  <2>1. \A t \in DOMAIN traces' : Told(t)' => <<t, Root>> \in lost' \cup {x.id : x \in Events'}
    BY <1>1, <1>2, <1>3 DEF TracingRest, SendsKept, TellsNoMore
  <2> QED BY <1>2, <2>1 DEF TracingRest, SendsKept
<1> QED BY <1>1, <1>4, <1>5, PrepareKeeps DEF TracingRest

-----------------------------------------------------------------------------
(* Every step.                                                             *)

LEMMA QuietRunStep ==
  ASSUME RunKept, TracingRest,
         \/ StartTrace \/ BeginTracedTurn \/ RecordResponse \/ SuspendTrace \/ Complete
         \/ ResumeInNewTrace \/ Leave \/ Drain
         \/ \E c \in TracedCalls : \/ CompleteToolCall(c) \/ BailOut(c) \/ BadToolCall(c)
                                   \/ AttachToolCallReasoning(c)
  PROVE  RunKept' /\ TracingRest'
<1>1. RunKept' /\ Continues /\ TellsNoMore
  BY StartTraceKeeps, BeginKeepsTrace, ResponseKeeps, SuspendKeeps, CompleteKeeps, BetweenKeeps,
     RecordedKeeps, BailOutKeeps, ReasoningKeeps
<1>2. UNCHANGED <<tracer, outgoing, sending, arrived, lost, payload>>
  BY DEF StartTrace, BeginTracedTurn, RecordResponse, SuspendTrace, Complete, ResumeInNewTrace,
         Leave, Drain, CompleteToolCall, BailOut, BadToolCall, AttachToolCallReasoning,
         RestUntouched
<1>3. /\ stage' \in {"draining", "exited"} => outgoing = <<>>
      /\ stage' = "exited" => sending = {}
  BY DEF StartTrace, BeginTracedTurn, RecordResponse, SuspendTrace, Complete, ResumeInNewTrace,
         Leave, Drain, CompleteToolCall, BailOut, BadToolCall, AttachToolCallReasoning,
         Reached, TracingRest, SendsKept
<1> QED BY <1>1, <1>2, <1>3, NothingTold

LEMMA TracingStepInv == TracingIInv /\ [TracingNext]_tracingVars => TracingIInv'
<1> SUFFICES ASSUME RunKept, TracingRest, [TracingNext]_tracingVars
             PROVE  RunKept' /\ TracingRest'
  BY DEF TracingIInv, RunKept, TracingRest
<1>1. CASE UNCHANGED tracingVars
  <2>1. /\ TracingTyped' /\ TracesKept' /\ IndexKept' /\ RecordsKept' /\ CallsKept'
    BY <1>1 DEF tracingVars, RunKept, TracingTyped, TracesKept, IndexKept, RecordsKept,
       CallsKept,
           TraceFits, LiveFits, RecordFits, IDOf, live, TurnsIn, Placed
  <2>2. Events' = Events
    BY <1>1 DEF tracingVars, Events
  <2>3. EventsKept'
    <3>1. TurnsIn(traces') = TurnsIn(traces) /\ TurnsIn(traces) \in Nat
      BY <1>1, TurnsCounted DEF tracingVars, RunKept, TracingTyped
    <3>2. Continues
      BY <1>1, <3>1 DEF tracingVars, Continues, Told, live
    <3> QED BY <1>1, <2>1, <2>2, <3>2, EventsContinue DEF tracingVars, TracingRest, RunKept
  <2>4. SendsKept'
    BY <1>1, <2>2 DEF tracingVars, TracingRest, SendsKept, Told, live
  <2>5. PayloadKept'
    BY <1>1, PayloadStays DEF tracingVars, TracingRest
  <2> QED BY <2>1, <2>3, <2>4, <2>5 DEF RunKept, TracingRest
<1>2. CASE TracingNext
  BY <1>2, QuietRunStep, TurnIsTold, TraceIsTold, SendKeepsEvents, DeliverKeeps, PayloadIsCut
  DEF TracingNext, RunSteps
<1> QED BY <1>1, <1>2

LEMMA TracingInitInv ==
  ASSUME NEW tracers \in SUBSET Tracers, NEW payloads \in SUBSET Payloads,
         TracingInit(tracers, payloads)
  PROVE  TracingIInv
<1>1. /\ tracer \in Tracers /\ traces = <<>> /\ tools = [c \in TracedCalls |-> "idle"]
      /\ stage = "start" /\ outgoing = <<>> /\ sending = {} /\ arrived = {} /\ lost = {}
      /\ payload \in {NoPayload} \cup {[source |-> p, kept |-> p, cut |-> "new"] : p \in payloads}
  BY DEF TracingInit
<1>2. Len(<<>>) = 0 /\ DOMAIN <<>> = {} /\ <<>> \in Seq(TraceRecords)
  BY EmptySeq
<1>3. TracingTyped
  BY <1>1, <1>2, TracingAssumption DEF TracingTyped, TraceStages, ToolStates
<1>4. TracesKept /\ IndexKept /\ RecordsKept
  BY <1>1, <1>2 DEF TracesKept, IndexKept, RecordsKept
<1>5. CallsKept
  BY <1>1, <1>2 DEF CallsKept
<1>6. Events = {}
  BY <1>1, OutgoingEvents DEF Events
<1>7. EventsKept
  BY <1>6 DEF EventsKept
<1>8. SendsKept
  <2>1. IsFiniteSet(sending) /\ Cardinality(sending) = 0 /\ ceMaxInflight \in Nat
    BY <1>1, FS_EmptySet, TracingAssumption
  <2> QED BY <1>1, <1>2, <2>1 DEF SendsKept
<1>9. PayloadKept
  <2>1. CASE payload = NoPayload
    <3>1. /\ payload.source = <<>> /\ payload.kept = <<>> /\ payload.cut = "fits"
          /\ payload = [source |-> payload.source, kept |-> payload.kept, cut |-> payload.cut]
      BY <2>1 DEF NoPayload
    <3>2. <<>> \in Seq(Nat \ {0}) /\ 0 \in 0 .. Len(<<>>) /\ <<>> = SubSeq(<<>>, 1, 0)
      OBVIOUS
    <3> QED BY <3>1, <3>2 DEF PayloadKept
  <2>2. CASE payload # NoPayload
    <3>1. PICK p \in payloads : payload = [source |-> p, kept |-> p, cut |-> "new"]
      BY <1>1, <2>2
    <3>2. p \in Seq(Nat \ {0})
      BY TracingAssumption
    <3>3. p = SubSeq(p, 1, Len(p)) /\ Len(p) \in 0 .. Len(p)
      BY <3>2, BeginsWhole DEF Widths
    <3>4. /\ payload.source = p /\ payload.kept = p /\ payload.cut = "new"
          /\ payload = [source |-> payload.source, kept |-> payload.kept, cut |-> payload.cut]
      BY <3>1
    <3> QED BY <3>2, <3>3, <3>4 DEF PayloadKept
  <2> QED BY <2>1, <2>2
<1> QED BY <1>3, <1>4, <1>5, <1>7, <1>8, <1>9 DEF TracingIInv

-----------------------------------------------------------------------------
(* What the invariant says.                                                *)

LEMMA TypedTracing == TracingIInv => TracingTypeOK
<1> SUFFICES ASSUME TracingTyped PROVE TracingTypeOK
  BY DEF TracingIInv
<1>1. Len(outgoing) <= 1
  <2>1. CASE outgoing = <<>>
    BY <2>1
  <2>2. CASE outgoing = <<outgoing[1]>>
    <3>1. PICK e : outgoing = <<e>>
      BY <2>2
    <3> QED BY <3>1
  <2> QED BY <2>1, <2>2 DEF TracingTyped
<1> QED BY <1>1 DEF TracingTyped, TracingTypeOK, TraceStages, ToolStates

LEMMA EventFacts ==
  ASSUME TracingIInv, NEW e \in Events
  PROVE  \/ \E t \in DOMAIN traces : Told(t) /\ e = OfTrace(t)
         \/ /\ tracer.payloads
            /\ \E t \in DOMAIN traces, i \in Nat \ {0}, b \in BOOLEAN : e = OfTurn(t, i, b)
<1>1. \/ \E t \in DOMAIN traces : Told(t) /\ e = OfTrace(t)
      \/ \E t \in DOMAIN traces, i \in 1 .. TurnsIn(traces), b \in BOOLEAN :
           tracer.payloads /\ e = OfTurn(t, i, b)
  BY DEF TracingIInv, EventsKept
<1>2. \A i \in 1 .. TurnsIn(traces) : i \in Nat \ {0}
  BY TurnsCounted DEF TracingIInv, TracingTyped
<1> QED BY <1>1, <1>2

LEMMA NothingIsInTheClear == ASSUME TracingIInv PROVE NothingInTheClear
<1> SUFFICES ASSUME NEW e \in Events
             PROVE  /\ tracer.sealed => "clear" \notin {e.prompt, e.reply}
                    /\ ~tracer.payloads => e.id[2] = Root /\ e.reply = "none"
  BY DEF NothingInTheClear
<1>1. ASSUME NEW there, tracer.sealed PROVE Form(there) # "clear"
  BY <1>1 DEF Form
<1>2. CASE \E t \in DOMAIN traces : Told(t) /\ e = OfTrace(t)
  <2>1. PICK t \in DOMAIN traces : e = OfTrace(t)
    BY <1>2
  <2>2. /\ e.id = <<t, Root>> /\ e.prompt = Form(TRUE) /\ e.reply = Form(traces[t].reasoning)
    BY <2>1 DEF OfTrace
  <2>3. ~tracer.payloads => e.reply = "none"
    BY <2>2 DEF TracingIInv, TracesKept, TraceFits, Form
  <2>4. tracer.sealed => e.prompt # "clear" /\ e.reply # "clear"
    BY <1>1, <2>2
  <2>5. e.id[2] = Root
    BY <2>2
  <2> QED BY <2>3, <2>4, <2>5
<1>3. CASE tracer.payloads /\ \E t \in DOMAIN traces, i \in Nat \ {0}, b \in BOOLEAN :
                                e = OfTurn(t, i, b)
  <2>1. PICK t \in DOMAIN traces, i \in Nat \ {0}, b \in BOOLEAN : e = OfTurn(t, i, b)
    BY <1>3
  <2>2. e.prompt = Form(TRUE) /\ e.reply = Form(b)
    BY <2>1 DEF OfTurn
  <2> QED BY <1>1, <1>3, <2>2
<1> QED BY <1>2, <1>3, EventFacts

\* A call has one record, where its handler has returned, and none before.
LEMMA RecordedOnce ==
  ASSUME TracingIInv, NEW c \in TracedCalls
  PROVE  Cardinality({r \in AllRecords : r.call = c})
           = (IF tools[c] \in {"handled", "over"} THEN 1 ELSE 0)
<1> DEFINE own == {r \in AllRecords : r.call = c}
<1>1. ASSUME NEW r
      PROVE  r \in AllRecords <=>
               \E t \in DOMAIN traces : \E i \in DOMAIN traces[t].calls :
                 r = [call |-> traces[t].calls[i].call, at |-> <<t, i>>]
  <2>1. r \in AllRecords <=>
          \E t \in DOMAIN traces :
            r \in {[call |-> traces[t].calls[i].call, at |-> <<t, i>>] :
                     i \in DOMAIN traces[t].calls}
    BY DEF AllRecords
  <2> QED BY <2>1
<1>2. CASE tools[c] \in {"handled", "over"}
  <2>1. PICK t \in DOMAIN traces : \E i \in DOMAIN traces[t].calls : Placed(c, t, i)
    BY <1>2 DEF TracingIInv, CallsKept
  <2>2. PICK i \in DOMAIN traces[t].calls : traces[t].calls[i].call = c
    BY <2>1 DEF Placed
  <2>3. PICK r : r = [call |-> c, at |-> <<t, i>>]
    OBVIOUS
  <2>4. r \in own
    BY <1>1, <2>2, <2>3
  <2>5. ASSUME NEW q \in own PROVE q = r
    <3>1. PICK u \in DOMAIN traces : \E j \in DOMAIN traces[u].calls :
            q = [call |-> traces[u].calls[j].call, at |-> <<u, j>>]
      BY <1>1
    <3>2. PICK j \in DOMAIN traces[u].calls :
            q = [call |-> traces[u].calls[j].call, at |-> <<u, j>>]
      BY <3>1
    <3>3. traces[u].calls[j].call = c
      BY <3>2
    <3>4. u = t /\ j = i
      BY <2>2, <3>3 DEF TracingIInv, CallsKept
    <3> QED BY <2>3, <3>2, <3>3, <3>4
  <2>6. own = {r}
    BY <2>4, <2>5
  <2>7. Cardinality(own) = 1
    BY <2>6, FS_Singleton
  <2> QED BY <1>2, <2>7
<1>3. CASE tools[c] \notin {"handled", "over"}
  <2>1. ASSUME NEW q \in own PROVE FALSE
    <3>1. PICK u \in DOMAIN traces : \E j \in DOMAIN traces[u].calls :
            q = [call |-> traces[u].calls[j].call, at |-> <<u, j>>]
      BY <1>1
    <3>2. PICK j \in DOMAIN traces[u].calls :
            q = [call |-> traces[u].calls[j].call, at |-> <<u, j>>]
      BY <3>1
    <3>3. traces[u].calls[j].call = c
      BY <3>2
    <3> QED BY <1>3, <3>3 DEF TracingIInv, CallsKept
  <2>2. own = {}
    BY <2>1
  <2>3. Cardinality(own) = 0
    BY <2>2, FS_EmptySet
  <2> QED BY <1>3, <2>3
<1> QED BY <1>2, <1>3

LEMMA EventsDoTell == ASSUME TracingIInv PROVE EventsTell
<1>1. \A e, f \in Events : e.id = f.id => e = f
  BY DEF TracingIInv, EventsKept
<1>2. ASSUME NEW e \in Events, e.id[2] = Root
      PROVE  e.tells = <<traces[e.id[1]].turns, traces[e.id[1]].calls, traces[e.id[1]].end>>
  <2>1. CASE \E t \in DOMAIN traces : Told(t) /\ e = OfTrace(t)
    <3>1. PICK t \in DOMAIN traces : e = OfTrace(t)
      BY <2>1
    <3>2. /\ e.id = <<t, Root>>
          /\ e.tells = <<traces[t].turns, traces[t].calls, traces[t].end>>
      BY <3>1 DEF OfTrace
    <3> QED BY <3>2
  <2>2. CASE \E t \in DOMAIN traces, i \in Nat \ {0}, b \in BOOLEAN : e = OfTurn(t, i, b)
    <3>1. PICK t \in DOMAIN traces, i \in Nat \ {0}, b \in BOOLEAN : e = OfTurn(t, i, b)
      BY <2>2
    <3>2. e.id = <<t, i>>
      BY <3>1 DEF OfTurn
    <3> QED BY <1>2, <3>1, <3>2 DEF Root
  <2> QED BY <2>1, <2>2, EventFacts
<1>3. ASSUME NEW t \in DOMAIN traces
      PROVE  /\ \A i \in DOMAIN traces[t].turns :
                  traces[t].turns[i].index = TurnsIn(SubSeq(traces, 1, t - 1)) + i
             /\ \A i \in DOMAIN traces[t].calls : traces[t].calls[i].parent # Root
             /\ traces[t].ctx \in {Root, TurnsIn(traces) + 1}
  <2>1. traces[t].ctx \in {Root, TurnsIn(traces) + 1}
    <3>1. traces # <<>>
      OBVIOUS
    <3>2. t = live \/ t < live
      BY <3>1, LiveFacts DEF TracingIInv
    <3> QED BY <3>1, <3>2 DEF TracingIInv, TracesKept, LiveFits
  <2> QED BY <2>1 DEF TracingIInv, IndexKept, RecordsKept, RecordFits
<1> QED BY <1>1, <1>2, <1>3, RecordedOnce DEF EventsTell

LEMMA ClosedOnceOnly == ASSUME TracingIInv PROVE ClosedOnce
<1> SUFFICES ASSUME NEW t \in DOMAIN traces
             PROVE  /\ traces[t].rootEnds = (IF traces[t].end = "none" THEN 0 ELSE 1)
                    /\ t < live => traces[t].end = "suspended" /\ traces[t + 1].linked = t
                    /\ traces[t].end = "suspended" =>
                         \A i \in DOMAIN traces[t].turns : ~traces[t].turns[i].failed
  BY DEF ClosedOnce
<1>1. TraceFits(traces[t], t) /\ (t < live => traces[t].end = "suspended")
  BY DEF TracingIInv, TracesKept
<1>2. t < live => traces[t + 1].linked = t
  <2>1. SUFFICES ASSUME t < live PROVE traces[t + 1].linked = t
    OBVIOUS
  <2>2. live \in Nat /\ t \in Nat /\ t + 1 \in DOMAIN traces
    <3>1. traces # <<>>
      OBVIOUS
    <3> QED BY <2>1, <3>1, LiveFacts DEF TracingIInv
  <2>3. PICK u \in DOMAIN traces : u = t + 1
    BY <2>2
  <2>4. TraceFits(traces[u], u)
    BY DEF TracingIInv, TracesKept
  <2> QED BY <2>2, <2>3, <2>4 DEF TraceFits
<1> QED BY <1>1, <1>2 DEF TraceFits, NoneFailed

LEMMA AllFlushed == ASSUME TracingIInv PROVE Flushed
<1>1. Cardinality(sending) <= ceMaxInflight
  BY DEF TracingIInv, SendsKept
<1>2. ASSUME stage = "exited", NEW t \in DOMAIN traces
      PROVE  \E id \in lost \cup {e.id : e \in arrived} : id = <<t, Root>>
  <2>1. sending = {} /\ outgoing = <<>>
    BY <1>2 DEF TracingIInv, SendsKept
  <2>2. Events = arrived
    BY <2>1, OutgoingEvents DEF Events
  <2>3. <<t, Root>> \in lost \cup {e.id : e \in Events}
    BY <1>2 DEF TracingIInv, SendsKept, Told
  <2> QED BY <2>2, <2>3
<1> QED BY <1>1, <1>2 DEF Flushed

LEMMA PayloadsDoFit == ASSUME TracingIInv PROVE PayloadsFit
<1>1. PICK p \in Seq(Widths) : p = payload.source
  BY DEF TracingIInv, PayloadKept, Widths
<1>2. PICK k : k = payload.kept
  OBVIOUS
<1>3. PICK n \in 0 .. Len(p) : k = SubSeq(p, 1, n)
  BY <1>1, <1>2 DEF TracingIInv, PayloadKept
<1>4. Len(k) = n /\ n <= Len(p)
  BY <1>3, Beginning, LenProperties
<1>5. k = SubSeq(k, 1, Len(k))
  BY <1>3, Beginning, BeginsWhole
<1>6. IsPrefix(k, p)
  BY <1>3, <1>4, <1>5 DEF IsPrefix
<1> QED BY <1>1, <1>2, <1>6 DEF TracingIInv, PayloadKept, PayloadsFit

LEMMA TracingIsSound == TracingIInv => TracingSound
<1> SUFFICES ASSUME TracingIInv PROVE TracingSound
  OBVIOUS
<1>1. ReasonsBelong
  BY DEF TracingIInv, RecordsKept, RecordFits, ReasonsBelong
<1> QED
  BY <1>1, NothingIsInTheClear, EventsDoTell, ClosedOnceOnly, AllFlushed, PayloadsDoFit
  DEF TracingSound

-----------------------------------------------------------------------------
(***************************************************************************)
(* Every behaviour of AgentService shows one of these parts.               *)
(***************************************************************************)

LEMMA ExecutorsSteps ==
  /\ AgentServiceInit => Init
  /\ [AgentServiceNext]_agentServiceVars => [Next]_vars
BY DEF AgentServiceInit, ExecutorStarts, AgentServiceNext, agentServiceVars, Runs

LEMMA FindingToolsSteps ==
  /\ AgentServiceInit => FindingToolsInit
  /\ [AgentServiceNext]_agentServiceVars => [FindingToolsNext]_findingToolsVars
BY DEF AgentServiceInit, AgentServiceNext, agentServiceVars, Runs

LEMMA ReviewSteps ==
  /\ AgentServiceInit => ReviewInit
  /\ [AgentServiceNext]_agentServiceVars => [ReviewNext]_reviewVars
BY DEF AgentServiceInit, ReviewStarts, AgentServiceNext, agentServiceVars, Runs

LEMMA FilesSteps ==
  /\ AgentServiceInit => FilesInit \/ NoTurn
  /\ [AgentServiceNext]_agentServiceVars => [FilesNext]_filesVars
BY DEF AgentServiceInit, FilesStart, AgentServiceNext, agentServiceVars, Runs

LEMMA NoTurnInv == NoTurn => FilesIInv /\ FilesTyped
<1> SUFFICES ASSUME NoTurn PROVE FilesIInv /\ FilesTyped
  OBVIOUS
<1>1. FilesIInv
  BY DEF NoTurn, FilesIInv
<1>2. disk = <<>> /\ Len(disk) = 0 /\ calls = <<>>
  BY DEF NoTurn
<1>3. disk \in Seq(FileType) /\ names \in [Names -> 0 .. Len(disk)] /\ DOMAIN calls = {}
  BY <1>2 DEF NoTurn
<1> QED BY <1>1, <1>3 DEF FilesTyped, NoTurn

LEMMA RunsOfService == AgentServiceSpec => Spec
<1> QED BY ExecutorsSteps, PTL DEF AgentServiceSpec, Spec

LEMMA ToolsInvariant == AgentServiceSpec => []ToolsIInv
<1> QED BY ToolsInitInv, ToolsStepInv, FindingToolsSteps, PTL DEF AgentServiceSpec

LEMMA ReviewInvariant == AgentServiceSpec => []ReviewIInv
<1> QED BY ReviewInitInv, ReviewStepInv, ReviewSteps, PTL DEF AgentServiceSpec

LEMMA FilesInvariant == AgentServiceSpec => []FilesIInv
<1> QED
  BY FilesInitInv, NoTurnInv, FilesStepInv, FilesSteps, PTL DEF AgentServiceSpec

LEMMA FilesTypedInvariant == AgentServiceSpec => []FilesTypeOK
<1>1. AgentServiceSpec => []FilesTyped
  BY TypedInit, NoTurnInv, TypedNext, FilesSteps, FilesInvariant, PTL DEF AgentServiceSpec
<1> QED BY <1>1, FilesInvariant, FilesAreTyped, PTL

\* The state of a run has its type, and a request of Claude holds no more cache
\* markers than the API takes (claudeexecutor/cache.go).
THEOREM RunsAreTyped == AgentServiceSpec => [](TypeOK /\ MarkersBounded)
<1>1. ExecutorsIInv => BudgetsKept
  BY DEF ExecutorsIInv
<1>2. ExecutorsTyped /\ BudgetsKept /\ BudgetsKept' /\ [Next]_vars => ExecutorsTyped'
  BY ExecutorsStepTyped
<1>3. ExecutorsTyped /\ BudgetsKept => TypeOK /\ MarkersBounded
  BY ExecutorsAreTyped
<1> QED
  BY <1>1, <1>2, <1>3, ExecutorsInitTyped, RunsOfService, ExecutorsInvariant, PTL DEF Spec

\* However many calls of a turn run at once, no check is run twice by the tools of
\* a run, no range of a log is given in two versions, and a log is fetched at most
\* once by each call (findings tools of toolcall).
THEOREM ToolsRunOnce == AgentServiceSpec => []FindingToolsSound
<1> QED BY ToolsInvariant, ToolsAreSound, PTL

\* Once the calls that missed the cache together are through, a log is the same for
\* every later call of the run and is not fetched again (findings tools of toolcall).
THEOREM LogsNeverChange == AgentServiceSpec => LogsStay
<1>1. ToolsIInv /\ [AgentServiceNext]_agentServiceVars => [LogsKept]_findingToolsVars
  BY StepKeepsLogs, FindingToolsSteps
<1>2. LogsStay <=> [][LogsKept]_findingToolsVars
  BY PTL DEF LogsStay, LogsKept
<1> QED BY <1>1, <1>2, ToolsInvariant, PTL DEF AgentServiceSpec

\* A head of a pull request shows a result of its own contents only, however many
\* passes overlap and whatever is pushed meanwhile (metapathreconciler, statusmanager).
THEOREM HeadsShowTheirOwn == AgentServiceSpec => []HeadJudgedRightly
<1> QED BY ReviewInvariant, HeadsAreJudged, PTL

\* The parallel edits of a turn leave none of their temporary files, in whichever
\* order their system calls come (worktree callbacks of clonemanager).
THEOREM EditsCleanUp == AgentServiceSpec => []NothingLeft
<1> QED BY FilesInvariant, NothingIsLeft, PTL

LEMMA TracingSteps ==
  /\ AgentServiceInit => TracingIInv
  /\ [AgentServiceNext]_agentServiceVars => [TracingNext]_tracingVars
<1>1. SomeTracer \in Tracers
  BY TracingAssumption DEF SomeTracer
<1>2. ASSUME AgentServiceInit PROVE TracingIInv
  <2>1. TracingInit(Tracers, Payloads) \/ TracingInit({SomeTracer}, {})
    BY <1>2 DEF AgentServiceInit, TracingStarts
  <2> QED BY <1>1, <2>1, TracingInitInv
<1>3. [AgentServiceNext]_agentServiceVars => [TracingNext]_tracingVars
  BY DEF AgentServiceNext, agentServiceVars, Runs
<1> QED BY <1>2, <1>3

LEMMA TracingInvariant == AgentServiceSpec => []TracingIInv
<1> QED BY TracingStepInv, TracingSteps, PTL DEF AgentServiceSpec

\* What leaves the process about a run tells of it what happened: each event tells
\* of a turn, a call or an end that was, in order and once, with what is to be
\* sealed sealed and no payload longer than allowed; a run that ended is told of
\* (agenttrace and its emitter).
THEOREM TracesTell == AgentServiceSpec => [](TracingTypeOK /\ TracingSound)
<1> QED BY TracingInvariant, TypedTracing, TracingIsSound, PTL

-----------------------------------------------------------------------------
(* Pages.                                                                  *)

-----------------------------------------------------------------------------
(***************************************************************************)
(* The pages of a reading, for any items, limits and widths of characters. *)
(***************************************************************************)

LEMMA MaxOfTwo ==
  ASSUME NEW a \in Int, NEW b \in Int PROVE Max({a, b}) = (IF a >= b THEN a ELSE b)
<1>1. PICK c \in Int : c = (IF a >= b THEN a ELSE b)
  OBVIOUS
<1>2. c \in {a, b} /\ \A y \in {a, b} : c >= y
  BY <1>1
<1>3. \A x \in {a, b} : (\A y \in {a, b} : x >= y) => x = c
  BY <1>1, <1>2
<1> QED BY <1>1, <1>2, <1>3 DEF Max

LEMMA MinOfThree ==
  ASSUME NEW a \in Int, NEW b \in Int, NEW c \in Int
  PROVE  Min({a, b, c}) = Min({a, Min({b, c})})
<1>1. PICK d \in Int : d = Min({b, c}) /\ d = (IF b <= c THEN b ELSE c)
  BY MinOfTwo
<1>2. PICK e \in Int : e = Min({a, d}) /\ e = (IF a <= d THEN a ELSE d)
  BY MinOfTwo
<1>3. e \in {a, b, c} /\ \A y \in {a, b, c} : e <= y
  BY <1>1, <1>2
<1>4. \A x \in {a, b, c} : (\A y \in {a, b, c} : x <= y) => x = e
  BY <1>1, <1>2, <1>3
<1>5. Min({a, b, c}) = e
  BY <1>3, <1>4 DEF Min
<1> QED BY <1>1, <1>2, <1>5

\* The greatest of some numbers up to a bound.
LEMMA MaxIsOne ==
  ASSUME NEW n \in Nat, NEW T \in SUBSET (1 .. n), T # {} PROVE Max(T) \in T
<1> DEFINE U == {m \in Nat : \E x \in T : m = n - x}
<1>1. U \in SUBSET Nat /\ U # {}
  <2>1. PICK x \in T : TRUE
    OBVIOUS
  <2>2. n - x \in Nat
    BY <2>1
  <2> QED BY <2>1, <2>2
<1>2. PICK m \in U : \A y \in U : m <= y
  BY <1>1, SmallestExists
<1>3. PICK x \in T : m = n - x
  BY <1>2
<1>4. ASSUME NEW y \in T PROVE x >= y
  <2>1. n - y \in Nat /\ n - y \in U
    OBVIOUS
  <2>2. m <= n - y
    BY <1>2, <2>1
  <2> QED BY <1>3, <2>2
<1> QED BY <1>4 DEF Max

LEMMA Part ==
  ASSUME NEW S, NEW s \in Seq(S), NEW a \in Nat, NEW b \in Nat, a <= b, b <= Len(s)
  PROVE  /\ SubSeq(s, a + 1, b) \in Seq(S) /\ Len(SubSeq(s, a + 1, b)) = b - a
         /\ \A i \in 1 .. b - a : SubSeq(s, a + 1, b)[i] = s[a + i]
<1>1. Len(s) \in Nat /\ DOMAIN s = 1 .. Len(s) /\ \A i \in a + 1 .. b : s[i] \in S
  BY LenProperties
<1>2. a + 1 \in Int /\ b \in Int
  OBVIOUS
<1>3. /\ SubSeq(s, a + 1, b) \in Seq(S)
      /\ Len(SubSeq(s, a + 1, b)) = (IF a + 1 <= b THEN b - (a + 1) + 1 ELSE 0)
      /\ \A i \in 1 .. b - (a + 1) + 1 : SubSeq(s, a + 1, b)[i] = s[a + 1 + i - 1]
  BY <1>1, <1>2, SubSeqProperties
<1>4. b - (a + 1) + 1 = b - a /\ \A i \in 1 .. b - a : a + 1 + i - 1 = a + i
  OBVIOUS
<1> QED BY <1>3, <1>4

LEMMA Start ==
  ASSUME NEW S, NEW s \in Seq(S), NEW n \in Nat, n <= Len(s)
  PROVE  /\ SubSeq(s, 1, n) \in Seq(S) /\ Len(SubSeq(s, 1, n)) = n
         /\ \A i \in 1 .. n : SubSeq(s, 1, n)[i] = s[i]
<1>1. Len(s) \in Nat /\ DOMAIN s = 1 .. Len(s) /\ \A i \in 1 .. n : s[i] \in S
  BY LenProperties
<1>2. /\ SubSeq(s, 1, n) \in Seq(S)
      /\ Len(SubSeq(s, 1, n)) = (IF 1 <= n THEN n - 1 + 1 ELSE 0)
      /\ \A i \in 1 .. n - 1 + 1 : SubSeq(s, 1, n)[i] = s[1 + i - 1]
  BY <1>1, SubSeqProperties
<1>3. n - 1 + 1 = n /\ \A i \in 1 .. n : 1 + i - 1 = i
  OBVIOUS
<1> QED BY <1>2, <1>3

LEMMA PartOfPart ==
  ASSUME NEW S, NEW s \in Seq(S), NEW a \in Nat, NEW b \in Nat, a <= b, b <= Len(s),
         NEW c \in Nat, NEW d \in Nat, c <= d, d <= b - a
  PROVE  SubSeq(SubSeq(s, a + 1, b), c + 1, d) = SubSeq(s, a + c + 1, a + d)
<1>11. PICK t : t = SubSeq(s, a + 1, b)
  OBVIOUS
<1>1. t \in Seq(S) /\ Len(t) = b - a /\ \A i \in 1 .. b - a : t[i] = s[a + i]
  BY <1>11, Part, Zenon
<1>12. PICK u : u = SubSeq(t, c + 1, d)
  OBVIOUS
<1>2. u \in Seq(S) /\ Len(u) = d - c /\ \A i \in 1 .. d - c : u[i] = t[c + i]
  BY <1>1, <1>12, Part
<1>3. PICK e \in Nat, f \in Nat : e = a + c /\ f = a + d /\ e <= f /\ f <= Len(s)
  BY LenProperties
<1>13. PICK v : v = SubSeq(s, e + 1, f)
  OBVIOUS
<1>4. v \in Seq(S) /\ Len(v) = f - e /\ \A i \in 1 .. f - e : v[i] = s[e + i]
  <2>1. SUFFICES ASSUME NEW x \in Nat, NEW y \in Nat, x = e, y = f, x <= y, y <= Len(s)
                 PROVE  v \in Seq(S) /\ Len(v) = y - x /\ \A i \in 1 .. y - x : v[i] = s[x + i]
    BY <1>3
  <2>2. v = SubSeq(s, x + 1, y)
    BY <1>13, <2>1
  <2>3. /\ SubSeq(s, x + 1, y) \in Seq(S) /\ Len(SubSeq(s, x + 1, y)) = y - x
        /\ \A i \in 1 .. y - x : SubSeq(s, x + 1, y)[i] = s[x + i]
    <3>1. x <= y /\ y <= Len(s)
      BY <2>1
    <3> QED BY <3>1, Part
  <2> QED BY <2>2, <2>3, Zenon
<1>5. Len(u) = Len(v) /\ f - e = d - c
  BY <1>2, <1>3, <1>4
<1>6. ASSUME NEW i \in 1 .. Len(u) PROVE u[i] = v[i]
  <2>1. i \in 1 .. d - c /\ c + i \in 1 .. b - a
    BY <1>2
  <2>2. u[i] = s[a + (c + i)]
    BY <1>1, <1>2, <2>1
  <2>3. v[i] = s[e + i]
    BY <1>4, <1>5, <2>1
  <2>4. a + (c + i) = e + i
    BY <1>3, <2>1
  <2> QED BY <2>2, <2>3, <2>4
<1>7. u = v
  BY <1>2, <1>4, <1>5, <1>6, SeqEqual, Zenon
<1> QED BY <1>3, <1>7, <1>11, <1>12, <1>13

LEMMA StartOfPart ==
  ASSUME NEW S, NEW s \in Seq(S), NEW a \in Nat, NEW b \in Nat, a <= b, b <= Len(s),
         NEW d \in Nat, d <= b - a
  PROVE  SubSeq(SubSeq(s, a + 1, b), 1, d) = SubSeq(s, a + 1, a + d)
<1>1. 0 <= d /\ 0 + 1 = 1 /\ a + 0 + 1 = a + 1
  OBVIOUS
<1>2. SubSeq(SubSeq(s, a + 1, b), 0 + 1, d) = SubSeq(s, a + 0 + 1, a + d)
  BY <1>1, PartOfPart
<1> QED BY <1>1, <1>2

LEMMA Pasted ==
  ASSUME NEW S, NEW s \in Seq(S), NEW a \in Nat, NEW b \in Nat, a <= b, b <= Len(s)
  PROVE  SubSeq(s, 1, a) \o SubSeq(s, a + 1, b) = SubSeq(s, 1, b)
<1>11. PICK t : t = SubSeq(s, 1, a)
  OBVIOUS
<1>1. t \in Seq(S) /\ Len(t) = a /\ \A i \in 1 .. a : t[i] = s[i]
  <2>1. a <= Len(s)
    BY LenProperties
  <2> QED BY <1>11, <2>1, Start
<1>12. PICK u : u = SubSeq(s, a + 1, b)
  OBVIOUS
<1>2. u \in Seq(S) /\ Len(u) = b - a /\ \A i \in 1 .. b - a : u[i] = s[a + i]
  BY <1>12, Part, Zenon
<1>13. PICK v : v = SubSeq(s, 1, b)
  OBVIOUS
<1>3. v \in Seq(S) /\ Len(v) = b /\ \A i \in 1 .. b : v[i] = s[i]
  BY <1>13, Start
<1>4. PICK w : w = t \o u
  OBVIOUS
<1>5. /\ w \in Seq(S) /\ Len(w) = Len(t) + Len(u)
      /\ \A i \in 1 .. Len(t) + Len(u) : w[i] = IF i <= Len(t) THEN t[i] ELSE u[i - Len(t)]
  BY <1>1, <1>2, <1>4, ConcatProperties, Zenon
<1>6. ASSUME NEW i \in 1 .. Len(w) PROVE w[i] = v[i]
  <2>1. CASE i <= a
    <3>1. i \in 1 .. a /\ i \in 1 .. b
      BY <1>1, <1>2, <1>5, <2>1
    <3>2. w[i] = t[i]
      BY <1>1, <1>2, <1>5, <3>1
    <3> QED BY <1>1, <1>3, <3>1, <3>2
  <2>2. CASE a < i
    <3>1. PICK k \in 1 .. b - a : k = i - a
      BY <1>1, <1>2, <1>5, <2>2
    <3>2. w[i] = u[k]
      BY <1>1, <1>5, <2>2, <3>1
    <3>3. u[k] = s[a + k] /\ a + k = i
      BY <1>2, <3>1
    <3>4. i \in 1 .. b
      BY <1>1, <1>2, <1>5
    <3>5. v[i] = s[i]
      BY <1>3, <3>4
    <3> QED BY <3>2, <3>3, <3>5
  <2> QED BY <2>1, <2>2
<1>7. w = v
  <2>1. Len(w) = Len(v)
    BY <1>1, <1>2, <1>3, <1>5
  <2> QED BY <1>3, <1>5, <1>6, <2>1, SeqEqual, Zenon
<1> QED BY <1>4, <1>7, <1>11, <1>12, <1>13

-----------------------------------------------------------------------------
(* Places in order.                                                        *)

UpTo(S, n) == {m \in S : m <= n}

LEMMA CountUpTo ==
  ASSUME NEW N \in Nat, NEW S \in SUBSET (1 .. N), NEW n \in Nat
  PROVE  IsFiniteSet(UpTo(S, n)) /\ Cardinality(UpTo(S, n)) \in Nat
<1>1. IsFiniteSet(1 .. N)
  BY FS_Interval
<1>2. UpTo(S, n) \subseteq 1 .. N
  BY DEF UpTo
<1> QED BY <1>1, <1>2, FS_Subset, FS_CardinalityType

LEMMA UpToAll ==
  ASSUME NEW N \in Nat, NEW S \in SUBSET (1 .. N) PROVE UpTo(S, N) = S /\ UpTo(S, 0) = {}
<1>0. \A x \in S : x <= N /\ ~(x <= 0)
  <2>1. \A x \in S : x \in 1 .. N
    OBVIOUS
  <2> QED BY <2>1
<1>1. ASSUME NEW x PROVE x \in UpTo(S, N) <=> x \in S
  BY <1>0, Zenon DEF UpTo
<1>2. ASSUME NEW x PROVE x \notin UpTo(S, 0)
  BY <1>0, Zenon DEF UpTo
<1> QED BY <1>1, <1>2

LEMMA UpToNext ==
  ASSUME NEW N \in Nat, NEW S \in SUBSET (1 .. N), NEW m \in Nat, NEW n \in Nat, n = m + 1
  PROVE  /\ n \notin UpTo(S, m)
         /\ n \in S => UpTo(S, n) = UpTo(S, m) \cup {n}
         /\ n \notin S => UpTo(S, n) = UpTo(S, m)
<1>1. \A x \in S : x <= n <=> x <= m \/ x = n
  OBVIOUS
<1>2. ASSUME NEW x PROVE x \in UpTo(S, n) <=> x \in S /\ (x <= m \/ x = n)
  BY <1>1 DEF UpTo
<1>3. ASSUME NEW x PROVE x \in UpTo(S, m) <=> x \in S /\ x <= m
  BY DEF UpTo
<1>4. ASSUME n \in S PROVE UpTo(S, n) = UpTo(S, m) \cup {n}
  BY <1>2, <1>3, <1>4
<1>5. ASSUME n \notin S PROVE UpTo(S, n) = UpTo(S, m)
  BY <1>2, <1>3, <1>5
<1>6. n \notin UpTo(S, m)
  BY <1>3
<1> QED BY <1>4, <1>5, <1>6

LEMMA PlaceOf ==
  ASSUME NEW N \in Nat, NEW S \in SUBSET (1 .. N)
  PROVE  \A k \in Nat : (0 < k /\ k <= Cardinality(S)) => \E n \in S : Cardinality(UpTo(S, n)) = k
<1> SUFFICES ASSUME NEW k \in Nat
             PROVE  (0 < k /\ k <= Cardinality(S)) => \E n \in S : Cardinality(UpTo(S, n)) = k
  OBVIOUS
<1>0. SUFFICES ASSUME 0 < k, k <= Cardinality(S)
               PROVE  \E n \in S : Cardinality(UpTo(S, n)) = k
  OBVIOUS
<1> DEFINE T == {n \in Nat : Cardinality(UpTo(S, n)) >= k}
<1>1. N \in T
  <2>1. UpTo(S, N) = S
    BY UpToAll
  <2> QED BY <1>0, <2>1
<1>2. PICK n \in T : \A y \in T : n <= y
  BY <1>1, SmallestExists
<1>3. n # 0
  <2>1. UpTo(S, 0) = {}
    BY UpToAll
  <2>2. Cardinality(UpTo(S, 0)) = 0
    BY <2>1, FS_EmptySet
  <2> QED BY <1>0, <1>2, <2>2
<1>4. PICK m \in Nat : n = m + 1
  BY <1>2, <1>3
<1>5. PICK i \in Nat, j \in Nat : i = Cardinality(UpTo(S, m)) /\ j = Cardinality(UpTo(S, n))
  BY <1>2, <1>4, CountUpTo
<1>6. i < k
  <2>1. m \notin T
    BY <1>2, <1>4
  <2> QED BY <1>5, <2>1
<1>7. j >= k
  BY <1>2, <1>5
<1>8. n \in S /\ j = i + 1
  <2>1. CASE n \notin S
    <3>1. UpTo(S, n) = UpTo(S, m)
      BY <1>2, <1>4, <2>1, UpToNext
    <3> QED BY <1>5, <1>6, <1>7, <3>1
  <2>2. CASE n \in S
    <3>1. UpTo(S, n) = UpTo(S, m) \cup {n} /\ n \notin UpTo(S, m)
      BY <1>2, <1>4, <2>2, UpToNext
    <3>2. IsFiniteSet(UpTo(S, m))
      BY CountUpTo
    <3> QED BY <1>5, <2>2, <3>1, <3>2, FS_AddElement
  <2> QED BY <2>1, <2>2
<1>9. j = k
  BY <1>6, <1>7, <1>8
<1> QED BY <1>5, <1>8, <1>9

LEMMA PlacesInOrder ==
  ASSUME NEW N \in Nat, NEW S \in SUBSET (1 .. N)
  PROVE  /\ InOrderOf(S) \in Seq(S) /\ Len(InOrderOf(S)) = Cardinality(S)
         /\ Cardinality(S) \in Nat /\ Cardinality(S) <= N
<1>1. IsFiniteSet(1 .. N) /\ Cardinality(1 .. N) = N
  <2>1. 1 \in Int /\ N \in Int
    OBVIOUS
  <2>2. Cardinality(1 .. N) = IF 1 > N THEN 0 ELSE N - 1 + 1
    BY <2>1, FS_Interval, Zenon
  <2>3. IsFiniteSet(1 .. N)
    BY <2>1, FS_Interval, Zenon
  <2> QED BY <2>2, <2>3
<1>2. Cardinality(S) \in Nat /\ Cardinality(S) <= N
  BY <1>1, FS_Subset, FS_CardinalityType
<1>3. PICK c \in Nat : c = Cardinality(S)
  BY <1>2
<1>4. ASSUME NEW k \in 1 .. c PROVE \E n \in S : Cardinality(UpTo(S, n)) = k
  BY <1>3, PlaceOf
<1>5. InOrderOf(S) = [k \in 1 .. c |-> CHOOSE n \in S : Cardinality(UpTo(S, n)) = k]
  BY <1>3 DEF InOrderOf, UpTo
<1>6. PICK f : f = [k \in 1 .. c |-> CHOOSE n \in S : Cardinality(UpTo(S, n)) = k]
  OBVIOUS
<1>7. f \in [1 .. c -> S]
  <2>1. \A k \in 1 .. c : f[k] \in S
    BY <1>4, <1>6
  <2> QED BY <1>6, <2>1
<1>8. f \in Seq(S) /\ Len(f) = c
  BY <1>7, FunctionIsSeq
<1> QED BY <1>2, <1>3, <1>5, <1>6, <1>8

\* Where every place counts, the k-th one is k.
LEMMA EveryPlace ==
  ASSUME NEW N \in Nat
  PROVE  Len(InOrderOf(1 .. N)) = N /\ \A k \in 1 .. N : InOrderOf(1 .. N)[k] = k
<1>1. ASSUME NEW n \in Nat PROVE Cardinality(1 .. n) = n
  <2>1. 1 \in Int /\ n \in Int
    OBVIOUS
  <2>2. Cardinality(1 .. n) = IF 1 > n THEN 0 ELSE n - 1 + 1
    BY <2>1, FS_Interval, Zenon
  <2> QED BY <2>2
<1>2. Len(InOrderOf(1 .. N)) = N
  BY <1>1, PlacesInOrder
<1>3. ASSUME NEW k \in 1 .. N PROVE InOrderOf(1 .. N)[k] = k
  <2>1. \A n \in 1 .. N : {m \in 1 .. N : m <= n} = 1 .. n
    OBVIOUS
  <2>2. \A n \in 1 .. N : Cardinality({m \in 1 .. N : m <= n}) = n
    <3> SUFFICES ASSUME NEW n \in 1 .. N PROVE Cardinality({m \in 1 .. N : m <= n}) = n
      OBVIOUS
    <3>1. n \in Nat /\ {m \in 1 .. N : m <= n} = 1 .. n
      BY <2>1
    <3> QED BY <1>1, <3>1
  <2>3. InOrderOf(1 .. N)[k] = CHOOSE n \in 1 .. N : Cardinality({m \in 1 .. N : m <= n}) = k
    BY <1>1 DEF InOrderOf
  <2> QED BY <2>2, <2>3
<1> QED BY <1>2, <1>3

-----------------------------------------------------------------------------
(* What there is to read.                                                  *)

PagesTyped ==
  /\ reader \in Readers /\ source \in Items /\ source \in Seq(BOOLEAN)
  /\ limit \in Limits \cup {-1} /\ finished \in BOOLEAN
  /\ limit = -1 => reader \in {"git read", "local read"} \cup Unlimited
  /\ offset \in 0 .. Len(source) /\ more \in 0 .. Len(source)

\* Where the reader is: what was read is the beginning of what there is, and a
\* reader who has not finished goes on behind it.
PagesKept ==
  /\ Len(got) \in 0 .. Len(Given) /\ got = SubSeq(Given, 1, Len(got))
  /\ (more = 0) = (Len(got) = Len(Given))
  /\ IF finished THEN Len(got) = Len(Given) ELSE offset = Len(got)
  /\ WholeCharacters

PagesIInv == PagesTyped /\ PagesKept

Places == 1 .. Len(source)

LEMMA WantedIs ==
  ASSUME source \in Seq(BOOLEAN)
  PROVE  /\ Wanted \in Seq(Places) /\ Len(Wanted) \in Nat /\ Len(Wanted) <= Len(source)
         /\ OfBytes => Len(Wanted) = Len(source) /\ \A n \in Places : Wanted[n] = n
<1>1. PICK N \in Nat : N = Len(source) /\ DOMAIN source = 1 .. N
  BY LenProperties
<1> DEFINE S == {n \in DOMAIN source : OfBytes \/ source[n]}
<1>2. S \in SUBSET (1 .. N)
  BY <1>1
<1>3. Wanted = InOrderOf(S)
  BY DEF Wanted
<1>4. OfBytes => S = 1 .. N
  BY <1>1
<1> HIDE DEF S
<1>5. /\ InOrderOf(S) \in Seq(S) /\ Len(InOrderOf(S)) = Cardinality(S)
      /\ Cardinality(S) \in Nat /\ Cardinality(S) <= N
  BY <1>2, PlacesInOrder
<1>6. Wanted \in Seq(Places)
  <2>1. PICK n \in Nat : n = Len(InOrderOf(S))
    BY <1>5
  <2>2. InOrderOf(S) \in [1 .. n -> S]
    BY <1>5, <2>1, LenProperties
  <2>3. InOrderOf(S) \in [1 .. n -> 1 .. N]
    BY <1>2, <2>2
  <2>4. InOrderOf(S) \in Seq(1 .. N)
    BY <2>3, FunctionIsSeq
  <2> QED BY <1>1, <1>3, <2>4 DEF Places
<1>7. ASSUME OfBytes PROVE Len(Wanted) = Len(source) /\ \A n \in Places : Wanted[n] = n
  <2>1. Wanted = InOrderOf(1 .. N)
    BY <1>3, <1>4, <1>7
  <2> QED BY <1>1, <2>1, EveryPlace DEF Places
<1> QED BY <1>1, <1>3, <1>5, <1>6, <1>7

LEMMA CommitsAreWanted == ASSUME reader = "commits" PROVE collectCommits = Wanted
<1>1. {n \in DOMAIN source : OfBytes \/ source[n]} = {n \in DOMAIN source : source[n]}
  BY DEF OfBytes
<1> QED BY <1>1 DEF collectCommits, Wanted

\* What is given is the beginning of what is wanted.
LEMMA GivenIs ==
  ASSUME source \in Seq(BOOLEAN)
  PROVE  \E g \in Nat :
           /\ g <= Len(Wanted) /\ Given = SubSeq(Wanted, 1, g) /\ Given \in Seq(Places)
           /\ Len(Given) = g /\ g <= Len(source) /\ (g = 0 <=> Len(Wanted) = 0)
           /\ reader # "log search" => Given = Wanted /\ g = Len(Wanted)
           /\ reader = "log search" =>
                g = (IF maxFindingSearchMatches <= Len(Wanted) THEN maxFindingSearchMatches
                     ELSE Len(Wanted))
<1>1. PICK W : W = Wanted
  OBVIOUS
<1>2. W \in Seq(Places) /\ Len(W) \in Nat /\ Len(W) <= Len(source) /\ Len(source) \in Nat
  BY <1>1, WantedIs, LenProperties
<1>3. CASE reader # "log search"
  <2>1. Given = W
    BY <1>1, <1>3 DEF Given
  <2>2. SubSeq(W, 1, Len(W)) = W
    BY <1>2, SubSeqFull
  <2>3. PICK g \in Nat : g = Len(W)
    BY <1>2
  <2>4. SubSeq(W, 1, g) = W /\ g <= Len(W) /\ g <= Len(source) /\ (g = 0 <=> Len(W) = 0)
    BY <1>2, <2>2, <2>3
  <2> QED BY <1>1, <1>2, <1>3, <2>1, <2>3, <2>4
<1>4. CASE reader = "log search"
  <2>1. maxFindingSearchMatches \in Nat \ {0}
    BY PagesAssumption
  <2>2. PICK g \in Nat : /\ g = (IF maxFindingSearchMatches <= Len(W) THEN maxFindingSearchMatches
                                 ELSE Len(W))
                         /\ g = Min({maxFindingSearchMatches, Len(W)})
    BY <1>2, <2>1, MinOfTwo
  <2>3. Given = SubSeq(W, 1, g)
    BY <1>1, <1>4, <2>2 DEF Given
  <2>4. g <= Len(W) /\ g <= Len(source) /\ (g = 0 <=> Len(W) = 0)
    BY <1>2, <2>1, <2>2
  <2>5. SubSeq(W, 1, g) \in Seq(Places) /\ Len(SubSeq(W, 1, g)) = g
    BY <1>2, <2>4, Start
  <2> QED BY <1>1, <1>4, <2>2, <2>3, <2>4, <2>5
<1> QED BY <1>3, <1>4

-----------------------------------------------------------------------------
(* A page.                                                                 *)

\* A page that goes on where the reader is: so many of what is given, and it is
\* the last one when they are all.
PageIs(p, n) ==
  /\ n \in Nat /\ offset + n <= Len(Given)
  /\ p.items = SubSeq(Given, offset + 1, offset + n)
  /\ p.left \in 0 .. Len(source) /\ (p.left = 0) = (offset + n = Len(Given))
  /\ p.left > 0 => p.next = offset + n
  /\ reader = "worktreefs" /\ n = 0 => offset = Len(Given)
  /\ (reader = "git read" /\ offset + n < Len(source)) => source[offset + n + 1]

\* A slice of what is wanted.
LEMMA SliceIs ==
  ASSUME NEW S, NEW s \in Seq(S), offset \in Nat, offset <= Len(s), NEW most \in Nat
  PROVE  \E n \in Nat :
           /\ n = (IF most <= Len(s) - offset THEN most ELSE Len(s) - offset)
           /\ Slice(s, most) = SubSeq(s, offset + 1, offset + n)
           /\ Len(Slice(s, most)) = n /\ offset + n <= Len(s)
<1>1. PICK l \in Nat, o \in Nat : l = Len(s) /\ o = offset /\ o <= l
  BY LenProperties
<1>2. PICK n \in Nat : n = (IF most <= l - o THEN most ELSE l - o)
  <2>1. l - o \in Nat
    BY <1>1
  <2> QED BY <2>1
<1>3. Min({o + most, l}) = o + n
  <2>1. o + most \in Int /\ l \in Int
    BY <1>1
  <2>2. Min({o + most, l}) = (IF o + most <= l THEN o + most ELSE l)
    BY <2>1, MinOfTwo
  <2> QED BY <1>1, <1>2, <2>2
<1>4. Slice(s, most) = SubSeq(s, o + 1, o + n)
  BY <1>1, <1>3 DEF Slice
<1>5. PICK e \in Nat : e = o + n /\ o <= e /\ e <= l /\ e - o = n
  BY <1>1, <1>2
<1>6. Len(SubSeq(s, o + 1, e)) = e - o
  BY <1>1, <1>5, Part
<1> QED BY <1>1, <1>2, <1>4, <1>5, <1>6

\* A page of so many items of G, behind the first o of them; it is the last one
\* when it says that nothing is left.
IsPage(p, G, o, n) ==
  /\ n \in Nat /\ o + n <= Len(G) /\ p.items = SubSeq(G, o + 1, o + n)
  /\ p.left \in 0 .. Len(G) /\ (p.left = 0) = (o + n = Len(G))
  /\ p.left > 0 => p.next = o + n

LEMMA PageOf ==
  ASSUME NEW S, NEW G \in Seq(S), NEW o \in Nat, NEW n \in Nat, NEW e \in Nat, e = o + n,
         e <= Len(G), NEW t, NEW l, l = Len(G) - e, l > 0 => t = e
  PROVE  IsPage(Page(SubSeq(G, o + 1, e), t, l), G, o, n)
<1>1. PICK g \in Nat : g = Len(G)
  BY LenProperties
<1>2. l \in 0 .. g /\ (l = 0) = (e = g)
  BY <1>1
<1>3. PICK p : p = Page(SubSeq(G, o + 1, e), t, l)
  OBVIOUS
<1>4. p.items = SubSeq(G, o + 1, e) /\ p.next = t /\ p.left = l
  BY <1>3 DEF Page
<1>5. IsPage(p, G, o, n)
  BY <1>1, <1>2, <1>4 DEF IsPage
<1> QED BY <1>3, <1>5

LEMMA EmptyPage ==
  ASSUME NEW S, NEW G \in Seq(S), NEW o \in Nat, o = Len(G), NEW t
  PROVE  IsPage(Page(<<>>, t, 0), G, o, 0)
<1>1. SubSeq(G, o + 1, o) = <<>>
  <2>1. o \in Int /\ o + 1 \in Int /\ o + 1 > o
    <3>1. \A x \in Nat : x \in Int /\ x + 1 \in Int /\ x + 1 > x
      OBVIOUS
    <3> QED BY <3>1
  <2> QED BY <2>1, SubSeqEmpty, Zenon
<1>2. o = o + 0 /\ o <= Len(G) /\ 0 = Len(G) - o
  OBVIOUS
<1>3. IsPage(Page(SubSeq(G, o + 1, o), t, 0), G, o, 0)
  BY <1>2, PageOf
<1> QED BY <1>1, <1>3

\* The rest, or the first ones of it.
LEMMA RestPage ==
  ASSUME NEW S, NEW G \in Seq(S), NEW o \in Nat, o <= Len(G), NEW d, d = SubSeq(G, o + 1, Len(G))
  PROVE  /\ Len(d) \in Nat /\ o + Len(d) = Len(G)
         /\ \A t : IsPage(Page(d, t, 0), G, o, Len(d))
         /\ \A m \in Nat : m < Len(d) => IsPage(Page(SubSeq(d, 1, m), o + m, Len(d) - m), G, o, m)
<1>1. PICK g \in Nat : g = Len(G)
  BY LenProperties
<1>2. Len(d) = g - o /\ g - o \in Nat
  <2>1. Len(SubSeq(G, o + 1, g)) = g - o
    BY <1>1, Part
  <2> QED BY <1>1, <2>1
<1>3. PICK l \in Nat : l = Len(d) /\ g = o + l
  <2>1. PICK l \in Nat : l = g - o
    BY <1>2
  <2>2. g = o + l
    BY <1>1, <2>1
  <2> QED BY <1>2, <2>1, <2>2
<1>4. ASSUME NEW t PROVE IsPage(Page(d, t, 0), G, o, l)
  <2>1. 0 = Len(G) - g /\ g <= Len(G)
    BY <1>1
  <2>2. IsPage(Page(SubSeq(G, o + 1, g), t, 0), G, o, l)
    BY <1>3, <2>1, PageOf
  <2> QED BY <1>1, <2>2
<1>5. ASSUME NEW m \in Nat, m < l PROVE IsPage(Page(SubSeq(d, 1, m), o + m, l - m), G, o, m)
  <2>1. PICK e \in Nat : e = o + m /\ e <= g
    BY <1>3, <1>5
  <2>2. l - m = Len(G) - e
    BY <1>1, <1>3, <2>1
  <2>3. IsPage(Page(SubSeq(G, o + 1, e), e, l - m), G, o, m)
    BY <1>1, <2>1, <2>2, PageOf
  <2>4. SubSeq(d, 1, m) = SubSeq(G, o + 1, e)
    <3>1. m <= g - o /\ o <= g /\ 0 \in Nat /\ 0 <= m
      BY <1>3, <1>5
    <3>2. SubSeq(SubSeq(G, o + 1, g), 0 + 1, m) = SubSeq(G, o + 0 + 1, o + m)
      BY <1>1, <3>1, PartOfPart
    <3>3. 0 + 1 = 1 /\ o + 0 + 1 = o + 1
      OBVIOUS
    <3> QED BY <1>1, <2>1, <3>2, <3>3
  <2> QED BY <2>1, <2>3, <2>4
<1> QED BY <1>1, <1>3, <1>4, <1>5

LEMMA LimitIs ==
  ASSUME PagesTyped
  PROVE  \/ limit \in Nat \ {0}
         \/ limit = -1 /\ reader \in {"git read", "local read"} \cup Unlimited
<1>1. maxChar \in Nat \ {0} /\ Limits \subseteq Nat \ (0 .. maxChar - 1)
  BY PagesAssumption
<1>2. 0 \in 0 .. maxChar - 1
  BY <1>1
<1> QED BY <1>1, <1>2 DEF PagesTyped

\* What is known of a reader who goes on.
AsksAt(G, W, o, m) ==
  /\ PagesIInv /\ ~finished /\ Given = G /\ Wanted = W /\ offset = o /\ limit = m
  /\ G \in Seq(Places) /\ W \in Seq(Places) /\ o \in Nat /\ o <= Len(G)
  /\ Len(source) \in Nat /\ Len(G) <= Len(W) /\ Len(W) <= Len(source)
  /\ reader # "log search" => G = W
  /\ OfBytes => Len(W) = Len(source) /\ \A n \in Places : W[n] = n
  /\ \/ m \in Nat \ {0}
     \/ m = -1 /\ reader \in {"git read", "local read"} \cup Unlimited

LEMMA ReaderGoesOn ==
  ASSUME PagesIInv, ~finished PROVE \E G, W, o, m : AsksAt(G, W, o, m)
<1>1. PICK W : W = Wanted
  OBVIOUS
<1>2. /\ W \in Seq(Places) /\ Len(W) <= Len(source)
      /\ OfBytes => Len(W) = Len(source) /\ \A n \in Places : W[n] = n
  BY <1>1, WantedIs DEF PagesIInv, PagesTyped
<1>3. PICK G : G = Given
  OBVIOUS
<1>4. G \in Seq(Places) /\ Len(G) <= Len(W) /\ (reader # "log search" => G = W)
  <2>1. PICK g \in Nat : /\ g <= Len(Wanted) /\ Given \in Seq(Places) /\ Len(Given) = g
                         /\ (reader # "log search" => Given = Wanted)
    BY GivenIs DEF PagesIInv, PagesTyped
  <2> QED BY <1>1, <1>3, <2>1
<1>5. Len(source) \in Nat /\ Len(G) \in Nat
  BY <1>4, LenProperties DEF PagesIInv, PagesTyped
<1>6. offset = Len(got) /\ Len(got) \in 0 .. Len(G)
  BY <1>3 DEF PagesIInv, PagesKept
<1>7. offset \in Nat /\ offset <= Len(G)
  <2>1. PICK r : r = Len(got)
    OBVIOUS
  <2>2. r \in 0 .. Len(G)
    BY <1>6, <2>1
  <2>3. r \in Nat /\ r <= Len(G)
    BY <1>5, <2>2
  <2> QED BY <1>6, <2>1, <2>3
<1>8. \/ limit \in Nat \ {0}
      \/ limit = -1 /\ reader \in {"git read", "local read"} \cup Unlimited
  <2>1. PagesTyped
    BY DEF PagesIInv
  <2> QED BY <2>1, LimitIs, Zenon
<1>9. AsksAt(G, W, offset, limit)
  BY <1>1, <1>2, <1>3, <1>4, <1>5, <1>7, <1>8 DEF AsksAt
<1> QED BY <1>9

-----------------------------------------------------------------------------

LEMMA NotAbove == \A a, b \in Nat : a <= b => ~(a > b)
OBVIOUS

LEMMA LimitOr ==
  ASSUME NEW m, m \in Nat \ {0} \/ m = -1, NEW l \in Nat
  PROVE  m < 0 \/ m >= l \/ (m \in Nat /\ m < l)
OBVIOUS

LEMMA LocalReadPageIs ==
  ASSUME NEW G, NEW W, NEW o, NEW m, AsksAt(G, W, o, m), reader = "local read"
  PROVE  \E n : IsPage(LocalReadPage, G, o, n)
<1>1. W = G /\ G \in Seq(Places) /\ o \in Nat /\ o <= Len(G) /\ Wanted = G /\ offset = o
  BY DEF AsksAt
<1>2. limit = m /\ (m \in Nat \ {0} \/ m = -1)
  BY DEF AsksAt
<1>3. PICK d : d = SubSeq(G, o + 1, Len(G))
  OBVIOUS
<1>4. /\ Len(d) \in Nat /\ o + Len(d) = Len(G)
      /\ \A t : IsPage(Page(d, t, 0), G, o, Len(d))
      /\ \A k \in Nat : k < Len(d) => IsPage(Page(SubSeq(d, 1, k), o + k, Len(d) - k), G, o, k)
  BY <1>1, <1>3, RestPage
<1>5. LocalReadPage = IF o > Len(G) THEN Past(o)
                      ELSE IF m < 0 \/ m >= Len(d) THEN Page(d, o, 0)
                      ELSE Page(SubSeq(d, 1, m), o + m, Len(d) - m)
  BY <1>1, <1>2, <1>3, Zenon DEF LocalReadPage
<1>6. ~(o > Len(G))
  <2>2. Len(G) \in Nat
    BY <1>1, LenProperties, Zenon
  <2> QED BY <1>1, <2>2, NotAbove, Zenon
<1>7. CASE m < 0 \/ m >= Len(d)
  BY <1>4, <1>5, <1>6, <1>7, Zenon
<1>8. CASE ~(m < 0 \/ m >= Len(d))
  <2>1. m \in Nat /\ m < Len(d)
    BY <1>2, <1>4, <1>8, LimitOr, Zenon
  <2> QED BY <1>4, <1>5, <1>6, <1>8, <2>1, Zenon
<1> QED BY <1>7, <1>8

LEMMA LocalListDirectoryIs ==
  ASSUME NEW G, NEW W, NEW o, NEW m, AsksAt(G, W, o, m), reader \in Unlimited
  PROVE  \E n : IsPage(LocalListDirectory, G, o, n)
<1>1. W = G /\ G \in Seq(Places) /\ o \in Nat /\ o <= Len(G) /\ Wanted = G /\ offset = o
  BY DEF AsksAt, Unlimited
<1>2. limit = m /\ (m \in Nat \ {0} \/ m = -1)
  BY DEF AsksAt
<1>3. PICK d : d = SubSeq(G, o + 1, Len(G))
  OBVIOUS
<1>4. /\ Len(d) \in Nat /\ o + Len(d) = Len(G)
      /\ \A t : IsPage(Page(d, t, 0), G, o, Len(d))
      /\ \A k \in Nat : k < Len(d) => IsPage(Page(SubSeq(d, 1, k), o + k, Len(d) - k), G, o, k)
  BY <1>1, <1>3, RestPage
<1>5. LocalListDirectory = IF o >= Len(G) THEN Page(<<>>, o, 0)
                           ELSE IF m > 0 /\ m < Len(d)
                                THEN Page(SubSeq(d, 1, m), o + m, Len(d) - m)
                                ELSE Page(d, o, 0)
  BY <1>1, <1>2, <1>3, Zenon DEF LocalListDirectory, Past
<1>6. CASE o >= Len(G)
  <2>1. o = Len(G)
    BY <1>1, <1>6, LenProperties
  <2> QED BY <1>1, <1>5, <1>6, <2>1, EmptyPage, Zenon
<1>7. CASE ~(o >= Len(G)) /\ ~(m > 0 /\ m < Len(d))
  BY <1>4, <1>5, <1>7, Zenon
<1>8. CASE ~(o >= Len(G)) /\ m > 0 /\ m < Len(d)
  <2>1. m \in Nat
    BY <1>2, <1>8
  <2> QED BY <1>4, <1>5, <1>8, <2>1, Zenon
<1> QED BY <1>6, <1>7, <1>8

\* A slice of G with what is left behind it.
LEMMA SlicePage ==
  ASSUME NEW S, NEW G \in Seq(S), NEW o \in Nat, o <= Len(G), offset = o, NEW m \in Nat \ {0}
  PROVE  \E n \in Nat, e \in Nat :
           /\ Slice(G, m) = SubSeq(G, o + 1, e) /\ Len(Slice(G, m)) = n /\ e = o + n
           /\ e <= Len(G) /\ e = Min({o + m, Len(G)}) /\ (e < Len(G) => e = o + m)
           /\ (o < Len(G) => n > 0)
           /\ IsPage(Page(Slice(G, m), e, Len(G) - e), G, o, n)
           /\ IsPage(Page(Slice(G, m), o + m, Len(G) - e), G, o, n)
<1>1. PICK g \in Nat : g = Len(G)
  BY LenProperties
<1>2. PICK n \in Nat : n = (IF m <= g - o THEN m ELSE g - o)
  <2>1. g - o \in Nat
    BY <1>1
  <2> QED BY <2>1
<1>3. PICK e \in Nat : e = o + n
  OBVIOUS
<1>4. /\ e <= g /\ e = (IF o + m <= g THEN o + m ELSE g) /\ (e < g => e = o + m)
      /\ (o < g => n > 0)
  BY <1>1, <1>2, <1>3
<1>5. e = Min({o + m, g})
  <2>1. o + m \in Int /\ g \in Int
    OBVIOUS
  <2>2. Min({o + m, g}) = (IF o + m <= g THEN o + m ELSE g)
    BY <2>1, MinOfTwo
  <2> QED BY <1>4, <2>2
<1>6. Slice(G, m) = SubSeq(G, o + 1, e)
  BY <1>1, <1>5, Zenon DEF Slice
<1>7. Len(SubSeq(G, o + 1, e)) = n
  <2>1. o <= e /\ e - o = n
    BY <1>3
  <2>2. Len(SubSeq(G, o + 1, e)) = e - o
    BY <1>1, <1>4, <2>1, Part
  <2> QED BY <2>1, <2>2
<1>8. /\ g - e = Len(G) - e /\ (g - e > 0 => e = e) /\ (g - e > 0 => o + m = e)
  BY <1>1, <1>4
<1>9. /\ IsPage(Page(SubSeq(G, o + 1, e), e, g - e), G, o, n)
      /\ IsPage(Page(SubSeq(G, o + 1, e), o + m, g - e), G, o, n)
  BY <1>1, <1>3, <1>4, <1>8, PageOf
<1> QED BY <1>1, <1>3, <1>4, <1>5, <1>6, <1>7, <1>9

\* A page that says otherwise how much is left, but not whether something is.
LEMMA PageSays ==
  ASSUME NEW S, NEW G \in Seq(S), NEW o \in Nat, NEW n \in Nat, NEW e \in Nat, e = o + n,
         e <= Len(G), NEW t, NEW l \in Nat, l <= Len(G), (l = 0) = (e = Len(G)), l > 0 => t = e
  PROVE  IsPage(Page(SubSeq(G, o + 1, e), t, l), G, o, n)
<1>1. PICK g \in Nat : g = Len(G)
  BY LenProperties
<1>2. l \in 0 .. g /\ (l = 0) = (e = g)
  BY <1>1
<1>3. PICK p : p = Page(SubSeq(G, o + 1, e), t, l)
  OBVIOUS
<1>4. p.items = SubSeq(G, o + 1, e) /\ p.next = t /\ p.left = l
  BY <1>3 DEF Page
<1>5. IsPage(p, G, o, n)
  BY <1>1, <1>2, <1>4 DEF IsPage
<1> QED BY <1>3, <1>5

Left(g, o, m) == Max({0, g - o - m})

LEMMA LeftIs ==
  ASSUME NEW g \in Nat, NEW o \in Nat, NEW m \in Nat, NEW e \in Nat, e <= g,
         e < g => e = o + m, e <= o + m
  PROVE  Left(g, o, m) = g - e
<1>1. 0 \in Int /\ g - o - m \in Int
  OBVIOUS
<1>2. Max({0, g - o - m}) = (IF 0 >= g - o - m THEN 0 ELSE g - o - m)
  BY <1>1, MaxOfTwo
<1> QED BY <1>2 DEF Left

LEMMA LeftOf ==
  \A a, b, c, d \in Nat :
    d <= a /\ (d < a => d = b + c) /\ d <= b + c => Left(a, b, c) = a - d
BY LeftIs

OfNumbers(k, e, g, l) ==
  /\ k \in Nat /\ e \in Nat /\ g \in Nat /\ l \in Nat
  /\ k <= g /\ e <= k /\ (e = k) = (e = g) /\ l = k - e

LEMMA WhatIsLeft ==
  \A k, e, g, l : OfNumbers(k, e, g, l) => l <= g /\ (l = 0) = (e = g) /\ e <= g
BY DEF OfNumbers

LEMMA MinAtMost ==
  ASSUME NEW a \in Nat, NEW b \in Nat PROVE Min({a, b}) \in Nat /\ Min({a, b}) <= a /\ Min({a, b}) <= b
<1>1. a \in Int /\ b \in Int
  OBVIOUS
<1>2. Min({a, b}) = (IF a <= b THEN a ELSE b)
  BY <1>1, MinOfTwo
<1> QED BY <1>2

\* What is looked at holds the page of it, and shows whether that is the last.
LookedAt(G, o, m, k, f) ==
  /\ k \in Nat /\ o <= k /\ k <= Len(G) /\ Len(f) = k
  /\ o = k => o = Len(G)
  /\ \E n \in Nat, e \in Nat :
       /\ Slice(f, m) = SubSeq(G, o + 1, e) /\ Len(Slice(f, m)) = n /\ e = o + n
       /\ e <= k /\ (e < k => e = o + m) /\ (e = k) = (e = Len(G))
       /\ e <= o + m

\* What ends at e, within w, of a beginning of k of the g there are.
EndsWithin(e, k, g, w) ==
  e \in Nat /\ k \in Nat /\ g \in Nat /\ w \in Nat
    /\ e <= k /\ k <= g /\ e <= w /\ (k < g => k > w)

\* It ends with that beginning just if it ends with all there is.
EndsAlike(e, k, g) == e = k <=> e = g

LEMMA EndTogether ==
  ASSUME NEW e, NEW k, NEW g, NEW w, EndsWithin(e, k, g, w)
  PROVE  EndsAlike(e, k, g)
BY DEF EndsWithin, EndsAlike

\* How a page that looks no further than one item more than it takes begins.
LEMMA Looked ==
  ASSUME NEW S, NEW G \in Seq(S), NEW o \in Nat, o <= Len(G), offset = o, NEW m \in Nat \ {0},
         NEW k, k = Min({o + m + 1, Len(G)}), NEW f, f = SubSeq(G, 1, k)
  PROVE  LookedAt(G, o, m, k, f)
<1>1. PICK g \in Nat : g = Len(G)
  BY LenProperties
<1>2. k \in Nat /\ k = (IF o + m + 1 <= g THEN o + m + 1 ELSE g)
  <2>1. o + m + 1 \in Int /\ g \in Int
    OBVIOUS
  <2>2. Min({o + m + 1, g}) = (IF o + m + 1 <= g THEN o + m + 1 ELSE g)
    BY <2>1, MinOfTwo
  <2> QED BY <1>1, <2>2
<1>3. o <= k /\ k <= g /\ (o = k => o = g) /\ (k < g => k > o + m)
  BY <1>1, <1>2
<1>4. f \in Seq(S) /\ Len(f) = k
  BY <1>1, <1>2, <1>3, Start
<1>5. o <= Len(f)
  BY <1>3, <1>4
<1>6. \E n \in Nat, e \in Nat :
        /\ Slice(f, m) = SubSeq(f, o + 1, e) /\ Len(Slice(f, m)) = n /\ e = o + n
        /\ e <= Len(f) /\ e = Min({o + m, Len(f)}) /\ (e < Len(f) => e = o + m)
        /\ (o < Len(f) => n > 0)
        /\ IsPage(Page(Slice(f, m), e, Len(f) - e), f, o, n)
        /\ IsPage(Page(Slice(f, m), o + m, Len(f) - e), f, o, n)
  BY <1>4, <1>5, SlicePage, Zenon
<1>11. PICK n \in Nat, e \in Nat :
        /\ Slice(f, m) = SubSeq(f, o + 1, e) /\ Len(Slice(f, m)) = n /\ e = o + n
        /\ e <= k /\ e = Min({o + m, k}) /\ (e < k => e = o + m)
  BY <1>4, <1>6, Zenon
<1>8. e <= o + m
  <2>1. o + m \in Nat
    OBVIOUS
  <2>2. k \in Nat
    BY <1>2
  <2> QED BY <1>11, <2>1, <2>2, MinAtMost, Zenon
<1>9. (e = k) = (e = g)
  <2>1. o + m \in Nat /\ k \in Nat /\ g \in Nat /\ e \in Nat
    BY <1>2
  <2>2. e <= k /\ k <= g /\ e <= o + m /\ (k < g => k > o + m)
    BY <1>3, <1>8, <1>11, Zenon
  <2>3. EndsWithin(e, k, g, o + m)
    BY <2>1, <2>2, Zenon DEF EndsWithin
  <2>4. EndsAlike(e, k, g)
    BY <2>3, EndTogether, Zenon
  <2> QED BY <2>4 DEF EndsAlike
<1>10. SubSeq(f, o + 1, e) = SubSeq(G, o + 1, e)
  <2>1. 0 \in Nat /\ 0 <= k /\ o <= e /\ e <= k - 0 /\ k <= Len(G)
    BY <1>1, <1>2, <1>3, <1>11
  <2>2. SubSeq(SubSeq(G, 0 + 1, k), o + 1, e) = SubSeq(G, 0 + o + 1, 0 + e)
    BY <1>2, <1>11, <2>1, PartOfPart
  <2>3. 0 + 1 = 1 /\ 0 + o + 1 = o + 1 /\ 0 + e = e
    OBVIOUS
  <2> QED BY <2>2, <2>3
<1> QED BY <1>1, <1>2, <1>3, <1>4, <1>8, <1>9, <1>10, <1>11 DEF LookedAt

-----------------------------------------------------------------------------

ListPageOf(s, o, m) ==
  IF o >= Len(s) THEN Page(<<>>, o, 0) ELSE Page(Slice(s, m), o + m, Left(Len(s), o, m))

\* A page that is empty at the end only.
MovesOn(p, G, o) == \E n : IsPage(p, G, o, n) /\ (n = 0 => o = Len(G))

\* Pages that are computed from the offset and the limit.
LEMMA ListPage ==
  ASSUME NEW S, NEW G \in Seq(S), NEW o \in Nat, o <= Len(G), offset = o, NEW m \in Nat \ {0},
         NEW p, p = ListPageOf(G, o, m)
  PROVE  MovesOn(p, G, o)
<1>2. PICK n \in Nat, e \in Nat :
        /\ Slice(G, m) = SubSeq(G, o + 1, e) /\ Len(Slice(G, m)) = n /\ e = o + n
        /\ e <= Len(G) /\ e = Min({o + m, Len(G)}) /\ (e < Len(G) => e = o + m)
        /\ (o < Len(G) => n > 0)
        /\ IsPage(Page(Slice(G, m), e, Len(G) - e), G, o, n)
        /\ IsPage(Page(Slice(G, m), o + m, Len(G) - e), G, o, n)
  BY SlicePage, Zenon
<1>3. PICK g \in Nat : g = Len(G)
  BY LenProperties
<1>4. Left(g, o, m) = g - e
  <2>1. o + m \in Nat /\ m \in Nat
    OBVIOUS
  <2>2. e <= o + m
    BY <1>2, <1>3, <2>1, MinAtMost, Zenon
  <2>3. g \in Nat /\ e \in Nat /\ e <= g /\ (e < g => e = o + m)
    BY <1>2, <1>3, Zenon
  <2>4. o \in Nat /\ m \in Nat
    BY <2>1
  <2>5. \A b, c, d \in Nat :
          d <= g /\ (d < g => d = b + c) /\ d <= b + c => Left(g, b, c) = g - d
    BY <2>3, LeftOf
  <2>6. \A b, c \in Nat :
          e <= g /\ (e < g => e = b + c) /\ e <= b + c => Left(g, b, c) = g - e
    BY <2>3, <2>5
  <2>7. e <= g /\ (e < g => e = o + m) /\ e <= o + m => Left(g, o, m) = g - e
    BY <2>4, <2>6, Zenon
  <2> QED BY <2>2, <2>3, <2>7, Zenon
<1>6. CASE o >= g
  <2>1. o = Len(G)
    BY <1>3, <1>6
  <2>2. IsPage(Page(<<>>, o, 0), G, o, 0)
    BY <2>1, EmptyPage
  <2> QED BY <1>3, <1>6, <2>1, <2>2, Zenon DEF ListPageOf, MovesOn
<1>7. CASE ~(o >= g)
  <2>1. IsPage(p, G, o, n)
    BY <1>2, <1>3, <1>4, <1>7, Zenon DEF ListPageOf
  <2>2. o < g
    BY <1>3, <1>7
  <2>3. n > 0
    BY <1>2, <1>3, <2>2, Zenon
  <2>4. n # 0
    BY <2>3
  <2> QED BY <2>1, <2>4, Zenon DEF MovesOn
<1> QED BY <1>6, <1>7

LEMMA SearchPage ==
  ASSUME NEW S, NEW G \in Seq(S), NEW o \in Nat, o <= Len(G), offset = o, NEW m \in Nat \ {0},
         NEW k, k = Min({o + m + 1, Len(G)}), NEW f, f = SubSeq(G, 1, k),
         NEW p, p = ListPageOf(f, o, m)
  PROVE  \E n : IsPage(p, G, o, n)
<1>4. /\ k \in Nat /\ o <= k /\ k <= Len(G) /\ Len(f) = k
      /\ o = k => o = Len(G)
      /\ \E n \in Nat, e \in Nat :
           /\ Slice(f, m) = SubSeq(G, o + 1, e) /\ Len(Slice(f, m)) = n /\ e = o + n
           /\ e <= k /\ (e < k => e = o + m) /\ (e = k) = (e = Len(G))
           /\ e <= o + m
  <2>1. LookedAt(G, o, m, k, f)
    BY Looked, Zenon
  <2> QED BY <2>1 DEF LookedAt
<1>5. PICK n \in Nat, e \in Nat :
        /\ Slice(f, m) = SubSeq(G, o + 1, e) /\ e = o + n
        /\ e <= k /\ (e < k => e = o + m) /\ (e = k) = (e = Len(G)) /\ e <= o + m
  BY <1>4, Zenon
<1>7. CASE o >= k
  <2>0. o = k
    BY <1>4, <1>7
  <2>1. o = Len(G)
    BY <1>4, <2>0, Zenon
  <2>2. IsPage(Page(<<>>, o, 0), G, o, 0)
    BY <2>1, EmptyPage
  <2> QED BY <1>4, <1>7, <2>2, Zenon DEF ListPageOf
<1>8. CASE ~(o >= k)
  <2>1. o + m \in Nat /\ m \in Nat
    OBVIOUS
  <2>2. e <= o + m
    BY <1>5, Zenon
  <2>3. Left(k, o, m) = k - e
    <3>1. k \in Nat /\ e \in Nat /\ e <= k /\ (e < k => e = o + m)
      BY <1>4, <1>5, Zenon
    <3> QED BY <2>1, <2>2, <3>1, LeftIs
  <2>4. PICK l \in Nat : l = k - e
    <3>1. k \in Nat /\ e <= k
      BY <1>4, <1>5, Zenon
    <3> QED BY <3>1
  <2>5. PICK g \in Nat : g = Len(G)
    BY LenProperties
  <2>6. l <= g /\ (l = 0) = (e = g) /\ (l > 0 => o + m = e) /\ e <= g
    <3>1. OfNumbers(k, e, g, l)
      BY <1>4, <1>5, <2>4, <2>5, Zenon DEF OfNumbers
    <3>2. l <= g /\ (l = 0) = (e = g) /\ e <= g
      BY <3>1, WhatIsLeft, Zenon
    <3>3. l > 0 => e < k
      BY <1>4, <2>4
    <3> QED BY <1>5, <3>2, <3>3, Zenon
  <2>7. IsPage(Page(SubSeq(G, o + 1, e), o + m, l), G, o, n)
    <3>1. e = o + n /\ l <= Len(G) /\ (l = 0) = (e = Len(G)) /\ e <= Len(G)
      BY <1>5, <2>5, <2>6, Zenon
    <3> QED BY <2>6, <3>1, PageSays
  <2> QED BY <1>4, <1>5, <1>8, <2>3, <2>4, <2>7, Zenon DEF ListPageOf
<1> QED BY <1>7, <1>8

LEMMA DiffPage ==
  ASSUME NEW S, NEW G \in Seq(S), NEW o \in Nat, o <= Len(G), offset = o, NEW m \in Nat \ {0},
         NEW e, e = Min({o + m, Len(G)})
  PROVE  /\ \E n : IsPage(Page(Slice(G, m), e, Len(G) - e), G, o, n)
         /\ o + Len(Slice(G, m)) = e /\ Len(Slice(G, m)) \in Nat
<1>1. \E n \in Nat, d \in Nat :
        /\ Slice(G, m) = SubSeq(G, o + 1, d) /\ Len(Slice(G, m)) = n /\ d = o + n
        /\ d <= Len(G) /\ d = Min({o + m, Len(G)}) /\ (d < Len(G) => d = o + m)
        /\ (o < Len(G) => n > 0)
        /\ IsPage(Page(Slice(G, m), d, Len(G) - d), G, o, n)
        /\ IsPage(Page(Slice(G, m), o + m, Len(G) - d), G, o, n)
  BY SlicePage, Zenon
<1> QED BY <1>1, Zenon

\* The search of the logs of a finding.
LEMMA MatchesPage ==
  ASSUME NEW S, NEW G \in Seq(S), NEW o \in Nat, o <= Len(G), offset = o, NEW m \in Nat \ {0},
         NEW k, k = Min({o + m + 1, Len(G)}), NEW f, f = SubSeq(G, 1, k),
         NEW s, s = Slice(f, m)
  PROVE  \E n : IsPage(Page(s, o + Len(s), Len(f) - Min({o + Len(s), Len(f)})), G, o, n)
<1>4. /\ k \in Nat /\ o <= k /\ k <= Len(G) /\ Len(f) = k
      /\ o = k => o = Len(G)
      /\ \E n \in Nat, e \in Nat :
           /\ Slice(f, m) = SubSeq(G, o + 1, e) /\ Len(Slice(f, m)) = n /\ e = o + n
           /\ e <= k /\ (e < k => e = o + m) /\ (e = k) = (e = Len(G))
           /\ e <= o + m
  <2>1. LookedAt(G, o, m, k, f)
    BY Looked, Zenon
  <2> QED BY <2>1 DEF LookedAt
<1>5. PICK n \in Nat, e \in Nat :
        /\ s = SubSeq(G, o + 1, e) /\ Len(s) = n /\ e = o + n
        /\ e <= k /\ (e = k) = (e = Len(G))
  BY <1>4, Zenon
<1>6. Min({e, k}) = e
  <2>1. k \in Int /\ e \in Int /\ e <= k
    BY <1>4, <1>5
  <2>2. Min({e, k}) = (IF e <= k THEN e ELSE k)
    BY <2>1, MinOfTwo
  <2> QED BY <2>1, <2>2
<1>7. PICK g \in Nat : g = Len(G)
  BY LenProperties
<1>8. PICK l \in Nat : l = k - e
  <2>1. k \in Nat /\ e <= k
    BY <1>4, <1>5, Zenon
  <2> QED BY <2>1
<1>9. l <= g /\ (l = 0) = (e = g) /\ e <= g
  <2>1. OfNumbers(k, e, g, l)
    BY <1>4, <1>5, <1>7, <1>8, Zenon DEF OfNumbers
  <2> QED BY <2>1, WhatIsLeft, Zenon
<1>10. IsPage(Page(SubSeq(G, o + 1, e), e, l), G, o, n)
  <2>1. e = o + n /\ l <= Len(G) /\ (l = 0) = (e = Len(G)) /\ e <= Len(G)
    BY <1>5, <1>7, <1>9, Zenon
  <2> QED BY <2>1, PageSays
<1> QED BY <1>4, <1>5, <1>6, <1>8, <1>10, Zenon

-----------------------------------------------------------------------------

LEMMA ListDirectoryIs ==
  ASSUME NEW G, NEW W, NEW o, NEW m, AsksAt(G, W, o, m), reader \in {"git list", "worktreefs"}
  PROVE  MovesOn(ListDirectory, G, o)
<1>1. /\ W = G /\ G \in Seq(Places) /\ o \in Nat /\ o <= Len(G) /\ Wanted = G /\ offset = o
      /\ limit = m /\ m \in Nat \ {0}
  BY DEF AsksAt, Unlimited
<1>2. ListDirectory = ListPageOf(G, o, m)
  BY <1>1, Zenon DEF ListDirectory, Past, ListPageOf, Left
<1>3. G \in Seq(Places) /\ o \in Nat /\ o <= Len(G) /\ offset = o /\ m \in Nat \ {0}
  BY <1>1
<1>4. PICK p : p = ListPageOf(G, o, m)
  OBVIOUS
<1>5. MovesOn(p, G, o)
  BY <1>3, <1>4, ListPage, Zenon
<1> QED BY <1>2, <1>4, <1>5, Zenon

LEMMA SearchCodebaseIs ==
  ASSUME NEW G, NEW W, NEW o, NEW m, AsksAt(G, W, o, m), reader = "git search"
  PROVE  \E n : IsPage(SearchCodebase, G, o, n)
<1>1. /\ W = G /\ G \in Seq(Places) /\ o \in Nat /\ o <= Len(G) /\ Wanted = G /\ offset = o
      /\ limit = m /\ m \in Nat \ {0}
  BY DEF AsksAt, Unlimited
<1>2. PICK f : f = SubSeq(G, 1, Min({o + m + 1, Len(G)}))
  OBVIOUS
<1>3. SearchCodebase = ListPageOf(f, o, m)
  BY <1>1, <1>2, Zenon DEF SearchCodebase, Need, Past, ListPageOf, Left
<1> QED BY <1>1, <1>2, <1>3, SearchPage, Zenon

LEMMA ListCommitsIs ==
  ASSUME NEW G, NEW W, NEW o, NEW m, AsksAt(G, W, o, m), reader = "commits"
  PROVE  \E n : IsPage(ListCommits, G, o, n)
<1>1. /\ W = G /\ G \in Seq(Places) /\ o \in Nat /\ o <= Len(G) /\ collectCommits = G
      /\ offset = o /\ limit = m /\ m \in Nat \ {0}
  BY CommitsAreWanted DEF AsksAt, Unlimited
<1>2. PICK s : s = Slice(G, m)
  OBVIOUS
<1>3. ListCommits = IF o >= Len(G) THEN Page(<<>>, o, 0)
                    ELSE Page(s, o + Len(s), Len(G) - o - Len(s))
  BY <1>1, <1>2, Zenon DEF ListCommits, Past
<1>4. PICK e : e = Min({o + m, Len(G)})
  OBVIOUS
<1>5. /\ \E n : IsPage(Page(s, e, Len(G) - e), G, o, n)
      /\ o + Len(s) = e /\ Len(s) \in Nat
  BY <1>1, <1>2, <1>4, DiffPage, Zenon
<1>6. PICK l \in Nat, g \in Nat : l = Len(s) /\ g = Len(G)
  BY <1>1, <1>5, LenProperties
<1>7. g - o - l = g - e
  <2>1. o \in Nat /\ o + l = e
    BY <1>1, <1>5, <1>6, Zenon
  <2> QED BY <1>6, <2>1
<1>8. CASE o >= g
  <2>0. o \in Nat /\ o <= g
    BY <1>1, <1>6, Zenon
  <2>1. o = g
    BY <1>6, <1>8, <2>0
  <2>2. IsPage(Page(<<>>, o, 0), G, o, 0)
    BY <1>1, <1>6, <2>1, EmptyPage, Zenon
  <2> QED BY <1>3, <1>6, <1>8, <2>2, Zenon
<1>9. CASE ~(o >= g)
  BY <1>3, <1>5, <1>6, <1>7, <1>9, Zenon
<1> QED BY <1>8, <1>9

LEMMA paginateDiffIs ==
  ASSUME NEW G, NEW W, NEW o, NEW m, AsksAt(G, W, o, m), reader = "diff"
  PROVE  \E n : IsPage(paginateDiff, G, o, n)
<1>1. /\ W = G /\ G \in Seq(Places) /\ o \in Nat /\ o <= Len(G) /\ Wanted = G
      /\ offset = o /\ limit = m /\ m \in Nat \ {0} /\ Len(source) = Len(G)
  BY DEF AsksAt, Unlimited, OfBytes
<1>2. PICK e : e = Min({o + m, Len(G)})
  OBVIOUS
<1>3. paginateDiff = IF o >= Len(G) THEN Page(<<>>, o, 0) ELSE Page(Slice(G, m), e, Len(G) - e)
  BY <1>1, <1>2, Zenon DEF paginateDiff, Past
<1>4. \E n : IsPage(Page(Slice(G, m), e, Len(G) - e), G, o, n)
  BY <1>1, <1>2, DiffPage, Zenon
<1>5. CASE o >= Len(G)
  <2>0. PICK g \in Nat : g = Len(G)
    BY <1>1, LenProperties
  <2>1. o \in Nat /\ o <= g /\ o >= g
    BY <1>1, <1>5, <2>0, Zenon
  <2>2. o = g
    BY <2>0, <2>1
  <2>3. IsPage(Page(<<>>, o, 0), G, o, 0)
    BY <1>1, <2>0, <2>2, EmptyPage, Zenon
  <2> QED BY <1>3, <1>5, <2>3, Zenon
<1>6. CASE ~(o >= Len(G))
  BY <1>3, <1>4, <1>6, Zenon
<1> QED BY <1>5, <1>6

LEMMA findingReadContentIs ==
  ASSUME NEW G, NEW W, NEW o, NEW m, AsksAt(G, W, o, m), reader = "log read"
  PROVE  \E n : IsPage(findingReadContent, G, o, n)
<1>1. /\ W = G /\ G \in Seq(Places) /\ o \in Nat /\ o <= Len(G) /\ Wanted = G
      /\ offset = o /\ limit = m /\ m \in Nat \ {0} /\ Len(source) = Len(G)
  BY DEF AsksAt, Unlimited, OfBytes
<1>2. PICK e : e = Min({o + m, Len(G)})
  OBVIOUS
<1>3. findingReadContent = Page(Slice(G, m), e, Len(G) - e)
  BY <1>1, <1>2, Zenon DEF findingReadContent
<1> QED BY <1>1, <1>2, <1>3, DiffPage, Zenon

LEMMA BeginningOfBeginning ==
  ASSUME NEW S, NEW s \in Seq(S), NEW c \in Nat, c <= Len(s), NEW k \in Nat, k <= c
  PROVE  SubSeq(SubSeq(s, 1, c), 1, k) = SubSeq(s, 1, k)
<1>1. 0 \in Nat /\ 0 <= c /\ 0 <= k /\ k <= c - 0
  OBVIOUS
<1>2. SubSeq(SubSeq(s, 0 + 1, c), 0 + 1, k) = SubSeq(s, 0 + 0 + 1, 0 + k)
  BY <1>1, PartOfPart
<1>3. 0 + 1 = 1 /\ 0 + 0 + 1 = 1 /\ 0 + k = k
  OBVIOUS
<1> QED BY <1>2, <1>3

LookedUp(W, G, o, m, q) ==
  SubSeq(W, 1, Min({o + m + 1, q, Len(W)})) = SubSeq(G, 1, Min({o + m + 1, Len(G)}))

\* What is looked at of the logs is looked at of what is given.
LEMMA LookedUpIs ==
  ASSUME NEW S, NEW W \in Seq(S), NEW o \in Nat, NEW m \in Nat, NEW q \in Nat,
         NEW G, G = SubSeq(W, 1, Min({q, Len(W)}))
  PROVE  LookedUp(W, G, o, m, q)
<1>2. PICK w \in Nat : w = Len(W)
  BY LenProperties
<1>4. PICK c \in Nat : c = Min({q, w}) /\ c <= w
  BY <1>2, MinAtMost
<1>5. G = SubSeq(W, 1, c)
  BY <1>2, <1>4, Zenon
<1>6. Len(G) = c
  BY <1>2, <1>4, <1>5, Start
<1>7. PICK k \in Nat : k = Min({o + m + 1, c}) /\ k <= c
  <2>1. o + m + 1 \in Nat
    OBVIOUS
  <2> QED BY <1>4, <2>1, MinAtMost
<1>8. Min({o + m + 1, q, w}) = k
  <2>1. o + m + 1 \in Int /\ q \in Int /\ w \in Int
    OBVIOUS
  <2>2. Min({o + m + 1, q, w}) = Min({o + m + 1, Min({q, w})})
    BY <2>1, MinOfThree
  <2> QED BY <1>4, <1>7, <2>2, Zenon
<1>9. SubSeq(SubSeq(W, 1, c), 1, k) = SubSeq(W, 1, k)
  <2>1. c <= Len(W)
    BY <1>2, <1>4, Zenon
  <2> QED BY <1>4, <1>7, <2>1, BeginningOfBeginning, Zenon
<1> QED BY <1>2, <1>5, <1>6, <1>7, <1>8, <1>9, Zenon DEF LookedUp

LEMMA findingSearchContentIs ==
  ASSUME NEW G, NEW W, NEW o, NEW m, AsksAt(G, W, o, m), reader = "log search"
  PROVE  \E n : IsPage(findingSearchContent, G, o, n)
<1>1. /\ W \in Seq(Places) /\ G \in Seq(Places) /\ o \in Nat /\ o <= Len(G) /\ Wanted = W
      /\ Given = G /\ offset = o /\ limit = m /\ m \in Nat \ {0}
  BY DEF AsksAt, Unlimited
<1>2. PICK q \in Nat : q = maxFindingSearchMatches
  BY PagesAssumption
<1>3. G = SubSeq(W, 1, Min({q, Len(W)}))
  BY <1>1, <1>2, Zenon DEF Given
<1>4. o \in Nat /\ m \in Nat /\ W \in Seq(Places)
  BY <1>1, Zenon
<1>5. PICK k : k = Min({o + m + 1, Len(G)})
  OBVIOUS
<1>6. PICK f : f = SubSeq(G, 1, k)
  OBVIOUS
<1>7. SubSeq(W, 1, Min({o + m + 1, q, Len(W)})) = f
  <2>1. q \in Nat
    BY <1>2
  <2>2. LookedUp(W, G, o, m, q)
    BY <1>3, <1>4, <2>1, LookedUpIs
  <2> QED BY <1>5, <1>6, <2>2, Zenon DEF LookedUp
<1>8. PICK s : s = Slice(f, m)
  OBVIOUS
<1>9. findingSearchContent
        = Page(s, o + Len(s), Len(f) - Min({o + Len(s), Len(f)}))
  BY <1>1, <1>2, <1>7, <1>8, Zenon DEF findingSearchContent, Need
<1>10. G \in Seq(Places) /\ o \in Nat /\ o <= Len(G) /\ offset = o /\ m \in Nat \ {0}
  BY <1>1, Zenon
<1>11. \E n : IsPage(Page(s, o + Len(s), Len(f) - Min({o + Len(s), Len(f)})), G, o, n)
  BY <1>5, <1>6, <1>8, <1>10, MatchesPage, Zenon
<1> QED BY <1>9, <1>11, Zenon

-----------------------------------------------------------------------------
(* Whole characters.                                                       *)

\* A page of a file of a git worktree ends where a character begins.
EndsWhole(o, n) == o + n < Len(source) => source[o + n + 1]

BeginsIn(b) == {i \in DOMAIN b : source[b[i]]}

PieceFrom(b, o, n) == Len(b) = n /\ DOMAIN b = 1 .. n /\ \A i \in 1 .. n : b[i] = o + i

LastBegun(b, o, n) ==
  \E M \in Nat : M = Max(BeginsIn(b)) - 1 /\ M < n /\ source[o + M + 1]

\* The last character that begins in a piece begins at a place of it.
LEMMA LastBegins ==
  ASSUME NEW o \in Nat, NEW n \in Nat, n > 0, NEW b, PieceFrom(b, o, n), source[o + 1]
  PROVE  LastBegun(b, o, n)
<1>0. Len(b) = n /\ DOMAIN b = 1 .. n /\ \A i \in 1 .. n : b[i] = o + i
  BY DEF PieceFrom
<1> DEFINE T == {i \in DOMAIN b : source[b[i]]}
<1>1. T \in SUBSET (1 .. n)
  BY <1>0
<1>2. 1 \in T
  <2>1. 1 \in 1 .. n
    OBVIOUS
  <2>2. b[1] = o + 1
    BY <1>0, <2>1
  <2> QED BY <1>0, <2>1, <2>2
<1>3. Max(T) \in T
  BY <1>1, <1>2, MaxIsOne
<1>4. PICK k \in 1 .. n : k = Max(T) /\ source[b[k]]
  BY <1>1, <1>3
<1>5. b[k] = o + k
  BY <1>0
<1>6. PICK M \in Nat : M = k - 1
  <2>1. k - 1 \in Nat
    OBVIOUS
  <2> QED BY <2>1
<1>7. M < n /\ o + M + 1 = o + k
  BY <1>6
<1> QED BY <1>4, <1>5, <1>6, <1>7 DEF BeginsIn, LastBegun

CutWhole(W, b, o, n) ==
  \E k \in Nat : /\ k <= n /\ EndsWhole(o, k)
                  /\ adjustUTF8Boundary(b) = SubSeq(W, o + 1, o + k)
                  /\ Len(adjustUTF8Boundary(b)) = k

LEMMA adjustUTF8BoundaryIs ==
  ASSUME NEW W \in Seq(Places), Len(W) = Len(source), \A n \in Places : W[n] = n,
         NEW o \in Nat, offset = o, NEW n \in Nat, n > 0, NEW e \in Nat, e = o + n, e <= Len(W),
         NEW b, b = SubSeq(W, o + 1, e), Len(b) = n, source[o + 1], Len(source) \in Nat
  PROVE  CutWhole(W, b, o, n)
<1>1. o <= e /\ e - o = n
  OBVIOUS
<1>2. b \in Seq(Places) /\ \A i \in 1 .. n : b[i] = W[o + i]
  <2>1. /\ SubSeq(W, o + 1, e) \in Seq(Places)
        /\ \A i \in 1 .. e - o : SubSeq(W, o + 1, e)[i] = W[o + i]
    BY <1>1, Part
  <2> QED BY <1>1, <2>1
<1>3. ASSUME NEW i \in 1 .. n PROVE b[i] = o + i
  <2>1. o + i \in Places
    <3>1. o + i \in Nat /\ 1 <= o + i /\ o + i <= Len(source)
      OBVIOUS
    <3> QED BY <3>1 DEF Places
  <2> QED BY <1>2, <2>1
<1>4. PICK z \in Nat : z = Len(source)
  OBVIOUS
<1>5. PICK t \in Nat : t = e + 1
  OBVIOUS
<1>6. adjustUTF8Boundary(b) =
        IF t > z \/ source[t] THEN b
        ELSE SubSeq(b, 1, Max(BeginsIn(b)) - 1)
  <2>1. o + n + 1 = t
    BY <1>5
  <2> QED BY <1>4, <2>1, Zenon DEF adjustUTF8Boundary, BeginsIn
<1>7. CASE t > z \/ source[t]
  <2>1. EndsWhole(o, n)
    <3>1. o + n + 1 = t /\ (o + n < z => ~(t > z))
      BY <1>4, <1>5
    <3> QED BY <1>4, <1>7, <3>1, Zenon DEF EndsWhole
  <2>2. adjustUTF8Boundary(b) = b
    BY <1>6, <1>7, Zenon
  <2>3. n <= n /\ o + n = e
    OBVIOUS
  <2> QED BY <2>1, <2>2, <2>3, Zenon DEF CutWhole
<1>8. CASE ~(t > z \/ source[t])
  <2>1. DOMAIN b = 1 .. n
    BY <1>2, LenProperties
  <2>2. PICK M \in Nat : /\ M = Max(BeginsIn(b)) - 1
                         /\ M < n /\ source[o + M + 1]
    <3>1. PieceFrom(b, o, n)
      BY <1>3, <2>1 DEF PieceFrom
    <3>2. n > 0 /\ source[o + 1]
      OBVIOUS
    <3>3. LastBegun(b, o, n)
      BY <3>1, <3>2, LastBegins
    <3> QED BY <3>3, Zenon DEF LastBegun
  <2>9. M \in Nat /\ M < n
    BY <2>2, Zenon
  <2>3. adjustUTF8Boundary(b) = SubSeq(b, 1, M)
    BY <1>6, <1>8, <2>2, Zenon
  <2>4. M <= e - o /\ o <= e /\ e <= Len(W) /\ M <= Len(b)
    BY <1>1, <2>9
  <2>6. SubSeq(b, 1, M) = SubSeq(W, o + 1, o + M)
    <3>1. \A d \in Nat : d <= e - o =>
            SubSeq(SubSeq(W, o + 1, e), 1, d) = SubSeq(W, o + 1, o + d)
      BY <2>4, StartOfPart
    <3>2. SubSeq(SubSeq(W, o + 1, e), 1, M) = SubSeq(W, o + 1, o + M)
      BY <2>4, <2>9, <3>1, Zenon
    <3> QED BY <3>2
  <2>7. Len(SubSeq(b, 1, M)) = M
    BY <1>2, <2>4, <2>9, Start
  <2>8. EndsWhole(o, M)
    BY <2>2 DEF EndsWhole
  <2>5. M <= n
    BY <2>9
  <2> QED BY <2>3, <2>5, <2>6, <2>7, <2>8, <2>9, Zenon DEF CutWhole
<1> QED BY <1>7, <1>8

\* What a page of a git worktree is made of.
ReadPageOf(b, o, z) ==
  IF o >= z THEN Page(<<>>, o, 0) ELSE Page(b, o + Len(b), z - o - Len(b))

WholePage(p, G, o) == \E n : IsPage(p, G, o, n) /\ EndsWhole(o, n)

LEMMA PageOfBytes ==
  ASSUME NEW S, NEW W \in Seq(S), NEW o \in Nat, NEW z \in Nat, z = Len(W), o < z,
         NEW k \in Nat, o + k <= z, NEW b, b = SubSeq(W, o + 1, o + k), Len(b) = k
  PROVE  IsPage(ReadPageOf(b, o, z), W, o, k)
<1>1. PICK e \in Nat : e = o + k
  OBVIOUS
<1>2. ReadPageOf(b, o, z) = Page(b, o + k, z - o - k)
  <2>1. ~(o >= z)
    OBVIOUS
  <2> QED BY <2>1, Zenon DEF ReadPageOf
<1>3. PICK l \in Nat : l = z - o - k
  <2>1. z - o - k \in Nat
    OBVIOUS
  <2> QED BY <2>1
<1>4. l = Len(W) - e /\ e <= Len(W) /\ (l > 0 => e = e)
  BY <1>1, <1>3
<1>5. IsPage(Page(SubSeq(W, o + 1, e), e, l), W, o, k)
  BY <1>1, <1>4, PageOf
<1> QED BY <1>1, <1>2, <1>3, <1>5

LEMMA WholePageIs ==
  ASSUME NEW W \in Seq(Places), Len(W) = Len(source), \A n \in Places : W[n] = n,
         NEW o \in Nat, offset = o, o <= Len(W), NEW m \in Nat \ {0}, Len(source) \in Nat,
         o < Len(source) => source[o + 1]
  PROVE  WholePage(ReadPageOf(adjustUTF8Boundary(Slice(W, m)), o, Len(source)), W, o)
<1>1. PICK z \in Nat : z = Len(W) /\ z = Len(source)
  OBVIOUS
<1>2. CASE o >= z
  <2>1. o = z
    BY <1>1, <1>2
  <2>2. IsPage(Page(<<>>, o, 0), W, o, 0)
    BY <1>1, <2>1, EmptyPage
  <2>3. EndsWhole(o, 0)
    BY <1>1, <2>1 DEF EndsWhole
  <2> QED BY <1>1, <1>2, <2>2, <2>3, Zenon DEF WholePage, ReadPageOf
<1>3. CASE o < z
  <2>1. PICK n \in Nat, e \in Nat :
          /\ Slice(W, m) = SubSeq(W, o + 1, e) /\ Len(Slice(W, m)) = n /\ e = o + n
          /\ e <= Len(W) /\ e = Min({o + m, Len(W)}) /\ (e < Len(W) => e = o + m)
          /\ (o < Len(W) => n > 0)
          /\ IsPage(Page(Slice(W, m), e, Len(W) - e), W, o, n)
          /\ IsPage(Page(Slice(W, m), o + m, Len(W) - e), W, o, n)
    BY SlicePage, Zenon
  <2>2. PICK b : b = Slice(W, m)
    OBVIOUS
  <2>3. b = SubSeq(W, o + 1, e) /\ Len(b) = n /\ e = o + n /\ e <= Len(W) /\ n > 0 /\ e <= z
    BY <1>1, <1>3, <2>1, <2>2, Zenon
  <2>4. source[o + 1]
    BY <1>1, <1>3
  <2>5. CutWhole(W, b, o, n)
    BY <2>3, <2>4, adjustUTF8BoundaryIs
  <2>6. PICK k \in Nat : /\ k <= n /\ EndsWhole(o, k)
                         /\ adjustUTF8Boundary(b) = SubSeq(W, o + 1, o + k)
                         /\ Len(adjustUTF8Boundary(b)) = k
    BY <2>5, Zenon DEF CutWhole
  <2>7. PICK a : a = adjustUTF8Boundary(b)
    OBVIOUS
  <2>8. o + k <= z
    <3>1. k <= n /\ e = o + n /\ e <= z
      BY <2>3, <2>6, Zenon
    <3> QED BY <3>1
  <2>9. a = SubSeq(W, o + 1, o + k) /\ Len(a) = k
    BY <2>6, <2>7, Zenon
  <2>10. IsPage(ReadPageOf(a, o, z), W, o, k)
    BY <1>1, <1>3, <2>8, <2>9, PageOfBytes
  <2> QED BY <1>1, <2>2, <2>6, <2>7, <2>10, Zenon DEF WholePage
<1> QED BY <1>1, <1>2, <1>3

LEMMA NoneLeft ==
  ASSUME NEW z \in Nat, z = 0, NEW o \in Nat, o <= z PROVE o = z /\ o >= z /\ ~(o + 0 < z)
OBVIOUS

LEMMA MostOf ==
  ASSUME NEW z \in Nat, z # 0, NEW m, m \in Nat \ {0} \/ m = -1
  PROVE  (IF m < 0 THEN z ELSE m) \in Nat \ {0}
OBVIOUS

LEMMA ReadPageIs ==
  ASSUME NEW G, NEW W, NEW o, NEW m, AsksAt(G, W, o, m), reader = "git read",
         o < Len(source) => source[o + 1]
  PROVE  WholePage(ReadPage, G, o)
<1>1. /\ W = G /\ G \in Seq(Places) /\ o \in Nat /\ o <= Len(G) /\ Wanted = G
      /\ offset = o /\ limit = m /\ (m \in Nat \ {0} \/ m = -1) /\ Len(source) = Len(G)
      /\ Len(source) \in Nat /\ \A n \in Places : G[n] = n
  BY DEF AsksAt, Unlimited, OfBytes
<1>2. PICK z \in Nat : z = Len(source)
  BY <1>1
<1>3. PICK q : q = (IF m < 0 THEN z ELSE m)
  OBVIOUS
<1>4. ReadPage = ReadPageOf(adjustUTF8Boundary(Slice(G, q)), o, z)
  BY <1>1, <1>2, <1>3, Zenon DEF ReadPage, ReadPageOf, Past
<1>5. CASE z = 0
  <2>1. o = z /\ o >= z
    <3>1. o \in Nat /\ o <= z
      BY <1>1, <1>2, Zenon
    <3> QED BY <1>5, <3>1, NoneLeft, Zenon
  <2>2. IsPage(Page(<<>>, o, 0), G, o, 0)
    BY <1>1, <1>2, <2>1, EmptyPage
  <2>3. EndsWhole(o, 0)
    <3>1. ~(o + 0 < z)
      BY <1>1, <1>2, <1>5, NoneLeft, Zenon
    <3> QED BY <1>2, <3>1 DEF EndsWhole
  <2> QED BY <1>4, <2>1, <2>2, <2>3, Zenon DEF WholePage, ReadPageOf
<1>6. CASE z # 0
  <2>1. q \in Nat \ {0}
    <3>1. m \in Nat \ {0} \/ m = -1
      BY <1>1, Zenon
    <3> QED BY <1>3, <1>6, <3>1, MostOf, Zenon
  <2>2. /\ G \in Seq(Places) /\ Len(G) = Len(source) /\ \A n \in Places : G[n] = n
        /\ o \in Nat /\ offset = o /\ o <= Len(G) /\ Len(source) \in Nat
    BY <1>1, Zenon
  <2>3. WholePage(ReadPageOf(adjustUTF8Boundary(Slice(G, q)), o, Len(source)), G, o)
    BY <2>1, <2>2, WholePageIs
  <2> QED BY <1>2, <1>4, <2>3, Zenon
<1> QED BY <1>5, <1>6

-----------------------------------------------------------------------------

\* Every answer is a page of what is given.
AnswerFits(p, G, o) ==
  \E n : /\ IsPage(p, G, o, n)
         /\ reader = "git read" => EndsWhole(o, n)
         /\ reader = "worktreefs" => (n = 0 => o = Len(G))

LEMMA AnswerIs ==
  ASSUME NEW G, NEW W, NEW o, NEW m, AsksAt(G, W, o, m)
  PROVE  AnswerFits(Answer, G, o)
<1>1. reader \in Readers
  BY DEF AsksAt, PagesIInv, PagesTyped
<1>2. CASE reader = "git read"
  <2>1. o < Len(source) => source[o + 1]
    <3>1. offset = Len(got) /\ WholeCharacters /\ offset = o
      BY DEF AsksAt, PagesIInv, PagesKept
    <3> QED BY <1>2, <3>1 DEF WholeCharacters
  <2>2. WholePage(ReadPage, G, o)
    BY <1>2, <2>1, ReadPageIs
  <2>3. Answer = ReadPage
    BY <1>2 DEF Answer
  <2> QED BY <1>2, <2>2, <2>3 DEF WholePage, AnswerFits
<1>3. CASE reader \in {"git list", "worktreefs"}
  <2>1. MovesOn(ListDirectory, G, o)
    BY <1>3, ListDirectoryIs
  <2>2. Answer = ListDirectory
    BY <1>3 DEF Answer
  <2> QED BY <1>3, <2>1, <2>2 DEF MovesOn, AnswerFits
<1>4. CASE reader \notin {"git read", "git list", "worktreefs"}
  <2>1. \E n : IsPage(Answer, G, o, n)
    <3>1. CASE reader = "local read"
      BY <3>1, LocalReadPageIs DEF Answer
    <3>2. CASE reader \in Unlimited
      <4>1. Answer = LocalListDirectory
        BY <3>2 DEF Answer, Unlimited, LocalSearchCodebase
      <4> QED BY <3>2, <4>1, LocalListDirectoryIs
    <3>3. CASE reader = "git search"
      BY <3>3, SearchCodebaseIs DEF Answer
    <3>4. CASE reader = "commits"
      BY <3>4, ListCommitsIs DEF Answer
    <3>5. CASE reader = "diff"
      BY <3>5, paginateDiffIs DEF Answer
    <3>6. CASE reader = "log read"
      BY <3>6, findingReadContentIs DEF Answer
    <3>7. CASE reader = "log search"
      BY <3>7, findingSearchContentIs DEF Answer
    <3> QED BY <1>1, <1>4, <3>1, <3>2, <3>3, <3>4, <3>5, <3>6, <3>7 DEF Readers, Unlimited
  <2> QED BY <1>4, <2>1 DEF AnswerFits
<1> QED BY <1>2, <1>3, <1>4

Adds(r, p, G, o, n) ==
  /\ o + n \in Nat /\ o + n <= Len(G)
  /\ r \o p.items = SubSeq(G, 1, o + n) /\ Len(r \o p.items) = o + n
  /\ Len(p.items) = n /\ (n = 0 <=> p.items = <<>>)

\* What was read and a page that goes on there are the beginning of what is given.
LEMMA PageAdds ==
  ASSUME NEW S, NEW G \in Seq(S), NEW r, NEW o \in Nat, o <= Len(G), r = SubSeq(G, 1, o),
         NEW n, NEW p, IsPage(p, G, o, n)
  PROVE  Adds(r, p, G, o, n)
<1>1. n \in Nat /\ o + n <= Len(G) /\ p.items = SubSeq(G, o + 1, o + n)
  BY DEF IsPage
<1>2. PICK e \in Nat : e = o + n
  BY <1>1
<1>3. o <= e /\ e <= Len(G) /\ e - o = n
  BY <1>1, <1>2
<1>4. SubSeq(G, 1, o) \o SubSeq(G, o + 1, e) = SubSeq(G, 1, e)
  BY <1>3, Pasted
<1>5. Len(SubSeq(G, 1, e)) = e
  BY <1>3, Start
<1>6. Len(SubSeq(G, o + 1, e)) = e - o /\ SubSeq(G, o + 1, e) \in Seq(S)
  BY <1>3, Part
<1>7. n = 0 <=> SubSeq(G, o + 1, e) = <<>>
  BY <1>1, <1>3, <1>6, EmptySeq
<1> QED BY <1>1, <1>2, <1>3, <1>4, <1>5, <1>6, <1>7 DEF Adds

LEMMA PagesStep == ASSUME PagesIInv, NextPage PROVE PagesIInv'
<1>1. ~finished /\ Takes(Answer)
  BY DEF NextPage, TurnPage, readN
<1>2. PICK G, W, o, m : AsksAt(G, W, o, m)
  BY <1>1, ReaderGoesOn
<1>3. AnswerFits(Answer, G, o)
  BY <1>2, AnswerIs
<1>4. PICK p : p = Answer
  OBVIOUS
<1>5. PICK n : /\ IsPage(p, G, o, n)
               /\ reader = "git read" => EndsWhole(o, n)
               /\ reader = "worktreefs" => (n = 0 => o = Len(G))
  BY <1>3, <1>4 DEF AnswerFits
<1>6. /\ G \in Seq(Places) /\ o \in Nat /\ o <= Len(G) /\ Given = G /\ offset = o
      /\ Len(G) <= Len(source) /\ got = SubSeq(G, 1, o)
  <2>1. /\ G \in Seq(Places) /\ o \in Nat /\ o <= Len(G) /\ Given = G /\ offset = o
        /\ Len(G) <= Len(W) /\ Len(W) <= Len(source) /\ Len(source) \in Nat /\ W \in Seq(Places)
    BY <1>2 DEF AsksAt
  <2>2. Len(G) \in Nat /\ Len(W) \in Nat
    BY <2>1, LenProperties
  <2>3. Len(G) <= Len(source)
    BY <2>1, <2>2
  <2>4. got = SubSeq(Given, 1, Len(got)) /\ offset = Len(got)
    BY <1>1 DEF PagesIInv, PagesKept
  <2> QED BY <2>1, <2>3, <2>4
<1>0. Adds(got, p, G, o, n)
  <2>1. IsPage(p, G, o, n)
    BY <1>5
  <2> QED BY <1>6, <2>1, PageAdds, Zenon
<1>7. PICK k \in Nat : k = o + n /\ k <= Len(G)
  BY <1>0 DEF Adds
<1>8. /\ got \o p.items = SubSeq(G, 1, k) /\ Len(got \o p.items) = k
      /\ Len(p.items) = n /\ (n = 0 <=> p.items = <<>>)
  BY <1>0, <1>7, Zenon DEF Adds
<1>9. /\ got' = SubSeq(G, 1, k) /\ Len(got') = k /\ more' = p.left
      /\ reader' = reader /\ source' = source /\ limit' = limit
  BY <1>1, <1>4, <1>8 DEF Takes
<1>10. /\ Given' = G /\ PagesTyped
  BY <1>6, <1>9 DEF Given, Wanted, OfBytes, PagesIInv
<1>11. /\ p.left \in 0 .. Len(G) /\ (p.left = 0) = (k = Len(G))
       /\ p.left > 0 => p.next = k
  BY <1>5, <1>7 DEF IsPage
<1>12. /\ finished' \in BOOLEAN
       /\ IF finished' THEN k = Len(G) ELSE offset' = k
       /\ finished' => offset' \in 0 .. Len(G)
  <2>1. CASE TurnPage
    <3>1. /\ offset' = (IF p.left > 0 THEN p.next ELSE offset) /\ finished' = (p.left = 0)
      BY <1>4, <2>1 DEF TurnPage
    <3>2. p.left \in Nat
      BY <1>11
    <3>3. CASE p.left = 0
      <4>1. finished' = TRUE /\ offset' = o /\ k = Len(G)
        <5>1. finished' = TRUE /\ k = Len(G) /\ offset' = offset
          <6>1. ~(p.left > 0)
            BY <3>3
          <6> QED BY <1>11, <3>1, <3>3, <6>1
        <5> QED BY <1>6, <5>1, Zenon
      <4>2. o \in 0 .. Len(G)
        BY <1>6
      <4> QED BY <4>1, <4>2
    <3>4. CASE p.left # 0
      <4>1. p.left > 0
        BY <3>2, <3>4
      <4> QED BY <1>11, <3>1, <3>4, <4>1
    <3> QED BY <3>3, <3>4
  <2>2. CASE readN
    <3>1. /\ offset' = (IF p.left > 0 THEN p.next ELSE offset + Len(p.items))
          /\ finished' = (p.items = <<>>) /\ reader = "worktreefs"
      BY <1>4, <2>2 DEF readN
    <3>2. offset' = k
      BY <1>6, <1>7, <1>8, <1>11, <3>1
    <3>3. finished' => k = Len(G)
      <4>1. ASSUME finished' PROVE k = Len(G)
        <5>1. n = 0
          BY <1>8, <3>1, <4>1
        <5>2. o = Len(G)
          BY <1>5, <3>1, <5>1
        <5> QED BY <1>6, <1>7, <5>1, <5>2
      <4> QED BY <4>1
    <3>4. k \in 0 .. Len(G)
      BY <1>7
    <3> QED BY <3>1, <3>2, <3>3, <3>4
  <2> QED BY <2>1, <2>2 DEF NextPage
<1>13. PICK g \in Nat, z \in Nat : g = Len(G) /\ z = Len(source) /\ g <= z /\ k <= g
  BY <1>2, <1>6, <1>7, LenProperties DEF AsksAt
<1>14. PagesTyped'
  <2>1. more' \in 0 .. z
    BY <1>9, <1>11, <1>13
  <2>2. offset' \in 0 .. z
    <3>1. CASE finished'
      BY <1>12, <1>13, <3>1
    <3>2. CASE ~finished'
      BY <1>12, <1>13, <3>2
    <3> QED BY <3>1, <3>2
  <2> QED BY <1>9, <1>10, <1>12, <1>13, <2>1, <2>2 DEF PagesTyped
<1>15. WholeCharacters'
  <2>1. CASE reader = "git read"
    <3>1. EndsWhole(o, n)
      BY <1>5, <2>1
    <3> QED BY <1>7, <1>9, <3>1 DEF EndsWhole, WholeCharacters
  <2>2. CASE reader # "git read"
    BY <1>9, <2>2 DEF WholeCharacters
  <2> QED BY <2>1, <2>2
<1>16. PagesKept'
  <2>1. (more' = 0) = (k = g)
    BY <1>9, <1>11, <1>13
  <2>2. k \in 0 .. g
    BY <1>13
  <2>3. IF finished' THEN k = g ELSE offset' = k
    BY <1>12, <1>13
  <2> QED BY <1>9, <1>10, <1>13, <1>15, <2>1, <2>2, <2>3 DEF PagesKept
<1> QED BY <1>14, <1>16 DEF PagesIInv

LEMMA PagesStepInv == PagesIInv /\ [NextPage]_pagesVars => PagesIInv'
<1>1. ASSUME PagesIInv, UNCHANGED pagesVars PROVE PagesIInv'
  BY <1>1 DEF PagesIInv, PagesTyped, PagesKept, pagesVars, Given, Wanted, OfBytes,
     WholeCharacters
<1> QED BY <1>1, PagesStep

LEMMA OneIsPlace == \A z \in Nat : 0 < z => 1 \in 1 .. z
OBVIOUS

LEMMA PagesInitInv == PagesInit => PagesIInv
<1> SUFFICES ASSUME PagesInit PROVE PagesIInv
  OBVIOUS
<1>1. /\ reader \in Readers /\ source \in Items /\ source \in Seq(BOOLEAN)
      /\ limit \in Limits \cup {-1} /\ finished \in BOOLEAN /\ ~finished
      /\ offset = 0 /\ got = <<>> /\ more = Len(Wanted)
      /\ OfBytes => Characters(source)
  BY ItemsAssumption DEF PagesInit
<1>2. limit = -1 => reader \in {"git read", "local read"} \cup Unlimited
  <2>1. Limits \subseteq Nat
    BY PagesAssumption
  <2>2. -1 \notin Limits
    BY <2>1
  <2> QED BY <2>2 DEF PagesInit
<1>3. PICK z \in Nat : z = Len(source)
  BY <1>1, LenProperties
<1>4. Len(Wanted) \in Nat /\ Len(Wanted) <= z
  BY <1>1, <1>3, WantedIs
<1>5. PICK g \in Nat : Len(Given) = g /\ (g = 0 <=> Len(Wanted) = 0) /\ g <= z
  BY <1>1, <1>3, GivenIs
<1>6. PagesTyped
  <2>1. more \in 0 .. z /\ offset \in 0 .. z
    BY <1>1, <1>4
  <2> QED BY <1>1, <1>2, <1>3, <2>1 DEF PagesTyped
<1>7. WholeCharacters
  <2>1. ASSUME reader = "git read", 0 < z PROVE source[1]
    <3>1. Characters(source)
      BY <1>1, <2>1 DEF OfBytes
    <3>2. 1 \in DOMAIN source
      <4>1. DOMAIN source = 1 .. z
        BY <1>1, <1>3, LenProperties
      <4>2. 1 \in 1 .. z
        BY <2>1, OneIsPlace, Zenon
      <4> QED BY <4>1, <4>2, Zenon
    <3> QED BY <3>1, <3>2 DEF Characters
  <2>2. Len(got) = 0
    BY <1>1, EmptySeq
  <2>3. 0 + 1 = 1
    OBVIOUS
  <2> QED BY <1>3, <2>1, <2>2, <2>3 DEF WholeCharacters
<1>8. PagesKept
  <2>1. Len(got) = 0
    BY <1>1, EmptySeq
  <2>2. got = SubSeq(Given, 1, Len(got))
    <3>1. 1 \in Int /\ 0 \in Int /\ 1 > 0
      OBVIOUS
    <3>2. SubSeq(Given, 1, 0) = <<>>
      BY <3>1, SubSeqEmpty, Zenon
    <3> QED BY <1>1, <2>1, <3>2
  <2>3. (more = 0) = (Len(got) = Len(Given))
    BY <1>1, <1>5, <2>1
  <2>4. Len(got) \in 0 .. Len(Given)
    BY <1>5, <2>1
  <2> QED BY <1>1, <1>7, <2>1, <2>2, <2>3, <2>4 DEF PagesKept
<1> QED BY <1>6, <1>8 DEF PagesIInv

LEMMA PagesAreTiled == PagesIInv => PagesTile /\ WholeCharacters /\ PagesTypeOK
<1> SUFFICES ASSUME PagesIInv PROVE PagesTile /\ WholeCharacters /\ PagesTypeOK
  OBVIOUS
<1>1. /\ PagesTyped /\ WholeCharacters
      /\ Len(got) \in 0 .. Len(Given) /\ got = SubSeq(Given, 1, Len(got))
      /\ (more = 0) = (Len(got) = Len(Given)) /\ (finished => Len(got) = Len(Given))
  BY DEF PagesIInv, PagesKept
<1>2. PICK G : G = Given
  OBVIOUS
<1>3. G \in Seq(Places)
  BY <1>1, <1>2, GivenIs DEF PagesTyped
<1>4. PICK r \in Nat : r = Len(got) /\ r <= Len(G)
  <2>1. PICK l \in Nat : l = Len(G)
    BY <1>3, LenProperties
  <2>2. PICK r : r = Len(got)
    OBVIOUS
  <2>3. r \in 0 .. l
    BY <1>1, <1>2, <2>1, <2>2, Zenon
  <2>4. r \in Nat /\ r <= l
    BY <2>3
  <2> QED BY <2>1, <2>2, <2>4, Zenon
<1>5. got = SubSeq(G, 1, r)
  BY <1>1, <1>2, <1>4
<1>6. r = Len(G) <=> got = G
  <2>1. SubSeq(G, 1, Len(G)) = G
    BY <1>3, SubSeqFull
  <2> QED BY <1>4, <1>5, <2>1
<1>7. PagesTile
  BY <1>1, <1>2, <1>4, <1>5, <1>6 DEF PagesTile
<1>8. Range(got) \subseteq DOMAIN source
  <2>1. got \in Seq(Places)
    BY <1>3, <1>4, <1>5, Start
  <2>2. DOMAIN source = Places
    BY <1>1, LenProperties DEF PagesTyped, Places
  <2>3. \A i \in DOMAIN got : got[i] \in Places
    BY <2>1, LenProperties
  <2> QED BY <2>2, <2>3 DEF Range
<1> QED BY <1>1, <1>7, <1>8 DEF PagesTypeOK, PagesTyped

LEMMA PagesSteps ==
  /\ AgentServiceInit => PagesInit
  /\ [AgentServiceNext]_agentServiceVars => [NextPage]_pagesVars
<1>1. AgentServiceInit => PagesInit
  BY DEF AgentServiceInit, PagesStart
<1>2. [AgentServiceNext]_agentServiceVars => [NextPage]_pagesVars
  BY DEF AgentServiceNext, agentServiceVars, Runs
<1> QED BY <1>1, <1>2

LEMMA PagesInvariant == AgentServiceSpec => []PagesIInv
<1> QED BY PagesInitInv, PagesStepInv, PagesSteps, PTL DEF AgentServiceSpec

\* Whatever is read in pages, the pages give every item that is asked for once and
\* in order, whole characters of files, and the reader knows when there are no more
\* (the readers of toolcall, worktreefs, history and findings).
THEOREM PagesGiveAll == AgentServiceSpec => [](PagesTypeOK /\ PagesTile /\ WholeCharacters)
<1> QED BY PagesInvariant, PagesAreTiled, PTL

-----------------------------------------------------------------------------
(* The issues of the findings of a path.                                   *)

\* The numbers of a set in order are its members, each once.
InItsOrder(o, S) ==
  /\ o \in Seq(S) /\ Len(o) = Cardinality(S) /\ Cardinality(S) \in Nat
  /\ \A n \in S : \E k \in 1 .. Cardinality(S) : o[k] = n
  /\ \A k, l \in 1 .. Cardinality(S) : o[k] = o[l] => k = l

LEMMA SortedIs ==
  ASSUME NEW N \in Nat, NEW S \in SUBSET (1 .. N) PROVE InItsOrder(Sorted(S), S)
<1>1. Sorted(S) = InOrderOf(S)
  BY DEF Sorted, InOrderOf
<1>2. Sorted(S) \in Seq(S) /\ Len(Sorted(S)) = Cardinality(S) /\ Cardinality(S) \in Nat
  BY <1>1, PlacesInOrder
<1>3. PICK c \in Nat : c = Cardinality(S)
  BY <1>2
<1>12. PICK o : o = Sorted(S)
  OBVIOUS
<1>4. o \in [1 .. c -> S]
  BY <1>2, <1>3, <1>12, LenProperties
<1>5. o = [k \in 1 .. c |-> CHOOSE n \in S : Cardinality(UpTo(S, n)) = k]
  BY <1>3, <1>12 DEF Sorted, UpTo
<1>6. \A n \in S : n \in Nat /\ n \in UpTo(S, n)
  BY DEF UpTo
<1>7. ASSUME NEW m \in S, NEW n \in S, m < n PROVE Cardinality(UpTo(S, m)) # Cardinality(UpTo(S, n))
  <2>1. UpTo(S, m) \subseteq UpTo(S, n) /\ n \notin UpTo(S, m)
    <3>1. ASSUME NEW x \in S, x <= m PROVE x <= n
      BY <1>7, <3>1
    <3>2. ~(n <= m)
      BY <1>7
    <3> QED BY <3>1, <3>2, Zenon DEF UpTo
  <2>2. IsFiniteSet(UpTo(S, n))
    BY <1>6, CountUpTo
  <2> QED BY <1>6, <2>1, <2>2, FS_Subset
<1>8. \A m, n \in S : Cardinality(UpTo(S, m)) = Cardinality(UpTo(S, n)) => m = n
  BY <1>6, <1>7
<1>9. ASSUME NEW n \in S PROVE \E k \in 1 .. c : k = Cardinality(UpTo(S, n))
  <2>1. IsFiniteSet(UpTo(S, n)) /\ Cardinality(UpTo(S, n)) \in Nat
    BY <1>6, CountUpTo
  <2>2. Cardinality(UpTo(S, n)) # 0
    BY <1>6, <2>1, FS_EmptySet
  <2>3. UpTo(S, n) \subseteq S /\ IsFiniteSet(S)
    <3>1. IsFiniteSet(1 .. N)
      BY FS_Interval
    <3> QED BY <3>1, FS_Subset DEF UpTo
  <2>4. Cardinality(UpTo(S, n)) <= c
    BY <1>3, <2>3, FS_Subset
  <2> QED BY <2>1, <2>2, <2>4
<1>10. ASSUME NEW n \in S PROVE \E k \in 1 .. c : o[k] = n
  <2>1. PICK k \in 1 .. c : k = Cardinality(UpTo(S, n))
    BY <1>9
  <2>2. o[k] = CHOOSE m \in S : Cardinality(UpTo(S, m)) = k
    BY <1>5
  <2>3. o[k] \in S /\ Cardinality(UpTo(S, o[k])) = k
    BY <2>1, <2>2
  <2> QED BY <1>8, <2>1, <2>3
<1>11. ASSUME NEW k \in 1 .. c PROVE Cardinality(UpTo(S, o[k])) = k
  <2>1. o[k] = CHOOSE m \in S : Cardinality(UpTo(S, m)) = k
    BY <1>5
  <2>2. \E m \in S : Cardinality(UpTo(S, m)) = k
    BY <1>3, PlaceOf
  <2> QED BY <2>1, <2>2
<1> QED BY <1>2, <1>3, <1>10, <1>11, <1>12 DEF InItsOrder

\* What is kept of a sequence: each of its members has its own place there.
KeptOf(o, s, S, T) ==
  /\ o \in Seq(T \cap S) /\ Len(o) = Cardinality({i \in DOMAIN s : s[i] \in S})
  /\ \A x \in S : (\E i \in DOMAIN s : s[i] = x) => \E k \in DOMAIN o : o[k] = x
  /\ \E f \in [DOMAIN o -> DOMAIN s] :
       /\ \A k \in DOMAIN o : o[k] = s[f[k]] /\ s[f[k]] \in S
       /\ \A k, l \in DOMAIN o : f[k] = f[l] => k = l

LEMMA OnlyIs ==
  ASSUME NEW T, NEW s \in Seq(T), NEW S PROVE KeptOf(Only(s, S), s, S, T)
<1> DEFINE A == {i \in DOMAIN s : s[i] \in S}
<1>1. PICK N \in Nat : N = Len(s) /\ DOMAIN s = 1 .. N
  BY LenProperties
<1>2. A \in SUBSET (1 .. N)
  BY <1>1
<1>3. PICK g : g = Sorted(A)
  OBVIOUS
<1>4. InItsOrder(g, A)
  BY <1>2, <1>3, SortedIs
<1>5. PICK c \in Nat : c = Cardinality(A)
  BY <1>4 DEF InItsOrder
<1>6. DOMAIN g = 1 .. c /\ g \in [1 .. c -> A]
  BY <1>4, <1>5, LenProperties DEF InItsOrder
<1>7. PICK o : o = [k \in 1 .. c |-> s[g[k]]]
  OBVIOUS
<1>8. o = Only(s, S)
  BY <1>3, <1>6, <1>7 DEF Only
<1>9. \A k \in 1 .. c : g[k] \in A /\ o[k] = s[g[k]] /\ s[g[k]] \in T \cap S
  BY <1>1, <1>6, <1>7
<1>10. o \in Seq(T \cap S) /\ DOMAIN o = 1 .. c /\ Len(o) = c
  <2>1. o \in [1 .. c -> T \cap S]
    BY <1>7, <1>9
  <2> QED BY <2>1, FunctionIsSeq
<1>11. ASSUME NEW x \in S, NEW i \in DOMAIN s, s[i] = x PROVE \E k \in DOMAIN o : o[k] = x
  <2>1. PICK k \in 1 .. c : g[k] = i
    BY <1>4, <1>5, <1>11 DEF InItsOrder
  <2> QED BY <1>9, <1>10, <1>11, <2>1
<1>12. g \in [DOMAIN o -> DOMAIN s]
  BY <1>6, <1>10
<1>13. \A k, l \in DOMAIN o : g[k] = g[l] => k = l
  BY <1>4, <1>5, <1>10 DEF InItsOrder
<1> QED BY <1>5, <1>8, <1>9, <1>10, <1>11, <1>12, <1>13 DEF KeptOf

-----------------------------------------------------------------------------
(***************************************************************************)
(* The issues of a path, for any findings, passes and people.              *)
(***************************************************************************)

SweepRecords ==
  [at : {"idle", "leased", "resize", "calling"}, saw : Findings, desired : Seq(RuleKeys),
   calls : Seq(IssueCalls)]

IssuesTyped ==
  /\ found \in Findings /\ tracked \in Seq(Issues) /\ sweep \in [Sweeps -> SweepRecords]
  /\ happenings \in 0 .. MaxHappenings /\ broken \in 0 .. MaxBrokenSweeps

NumbersOnce == \A i, j \in DOMAIN tracked : tracked[i].number = tracked[j].number => i = j

\* What the listing shows of a finding.
LEMMA MatchingIs ==
  ASSUME NEW listed \in Seq(Issues), NEW k
  PROVE  /\ Matching(listed, k) \in {0} \cup DOMAIN listed
         /\ Matching(listed, k) # 0 => listed[Matching(listed, k)].key = k
         /\ \A i \in DOMAIN listed : listed[i].key = k => Matching(listed, k) # 0
<1> DEFINE I == {i \in 1 .. Len(listed) : listed[i].key = k}
<1>1. Len(listed) \in Nat /\ DOMAIN listed = 1 .. Len(listed)
  BY LenProperties
<1>2. Matching(listed, k) = IF I # {} THEN Min(I) ELSE 0
  BY DEF Matching, SelectInSeq
<1>3. I # {} => Min(I) \in I
  <2>1. I \in SUBSET Nat
    BY <1>1
  <2>2. I # {} => \E x \in I : \A y \in I : x =< y
    BY <2>1, SmallestExists
  <2> QED BY <2>2 DEF Min
<1>4. \A i \in I : i \in DOMAIN listed /\ i # 0 /\ listed[i].key = k
  BY <1>1
<1>5. \A i \in DOMAIN listed : listed[i].key = k => i \in I
  BY <1>1
<1> QED BY <1>2, <1>3, <1>4, <1>5

LEMMA PriorityIs ==
  ASSUME NEW f \in Findings, NEW k \in Reported(f) PROVE f[k] \in Severities /\ PathPriority(f) \in Severities
<1> DEFINE L == {f[j] : j \in RuleKeys}
<1>1. PICK n \in Nat : n = Cardinality(Severities) /\ Severities \subseteq 1 .. n
  BY IssuesAssumption, FS_CardinalityType
<1>2. \A j \in RuleKeys : f[j] \in Severities \cup {0}
  BY DEF Findings
<1>3. k \in RuleKeys /\ f[k] # 0
  BY DEF Reported
<1>4. f[k] \in Severities
  BY <1>2, <1>3
<1> DEFINE D == {m \in Nat : \E x \in L : m = n - x}
<1>5. ASSUME NEW x \in L PROVE x \in 0 .. n /\ x \in Severities \cup {0}
  <2>1. x \in Severities \cup {0}
    BY <1>2
  <2> HIDE DEF L
  <2>2. \A y \in Severities : y \in 1 .. n
    BY <1>1
  <2>3. \A y \in 1 .. n : y \in 0 .. n
    OBVIOUS
  <2> QED BY <2>1, <2>2, <2>3
<1>6. D \in SUBSET Nat /\ D # {}
  <2>1. f[k] \in L /\ f[k] \in 0 .. n
    BY <1>3, <1>5
  <2>2. n - f[k] \in Nat
    BY <2>1
  <2> QED BY <2>1, <2>2
<1>7. PICK m \in D : \A y \in D : m <= y
  BY <1>6, SmallestExists
<1>8. PICK x \in L : m = n - x
  BY <1>7
<1>9. ASSUME NEW y \in L PROVE x >= y
  <2>1. y \in 0 .. n /\ x \in 0 .. n
    BY <1>5
  <2>2. n - y \in Nat
    BY <2>1
  <2>3. m <= n - y
    BY <1>7, <2>2
  <2> QED BY <1>8, <2>1, <2>3
<1>10. Max(L) \in L /\ \A y \in L : Max(L) >= y
  BY <1>9 DEF Max
<1>11. f[k] \in L /\ f[k] \in 1 .. n
  BY <1>1, <1>3, <1>4
<1>12. Max(L) # 0
  BY <1>10, <1>11
<1>13. Max(L) \in Severities
  BY <1>5, <1>10, <1>12
<1> QED BY <1>4, <1>13 DEF PathPriority

LEMMA FiledIs ==
  ASSUME NEW n \in Numbers, NEW f \in Findings, NEW k \in Reported(f)
  PROVE  /\ Filed(n, k, f) \in Issues /\ Filed(n, k, f).number = n /\ Filed(n, k, f).key = k
         /\ Filed(n, k, f).person = "no"
<1>1. k \in RuleKeys
  BY DEF Reported
<1> QED BY <1>1, PriorityIs DEF Filed, Issues

TwoParts(A, B) ==
  /\ Cardinality(A) \in Nat /\ Cardinality(B) \in Nat
  /\ Cardinality(A \cup B) = Cardinality(A) + Cardinality(B)

LEMMA PartsCounted ==
  ASSUME NEW A, NEW B, IsFiniteSet(A), IsFiniteSet(B), A \cap B = {}
  PROVE  TwoParts(A, B)
<1>1. PICK a \in Nat, b \in Nat : a = Cardinality(A) /\ b = Cardinality(B)
  BY FS_CardinalityType
<1>2. Cardinality(A \cap B) = 0
  BY FS_EmptySet
<1>3. Cardinality(A \cup B) = Cardinality(A) + Cardinality(B) - Cardinality(A \cap B)
  BY FS_Union
<1> QED BY <1>1, <1>2, <1>3 DEF TwoParts

\* Of the wanted issues those that are tracked stay, whatever the cap.
LEMMA TruncatedIs ==
  ASSUME NEW ks \in SUBSET RuleKeys, NEW prior,
         NEW d, d = truncateDesired(Sorted(ks), prior)
  PROVE  d \in Seq(ks) /\ \A k \in ks \cap prior : k \in ToSet(d)
<1>1. PICK N \in Nat : N = Cardinality(Numbers) /\ Numbers \subseteq 1 .. N
  BY IssuesAssumption, FS_CardinalityType
<1>2. ks \in SUBSET (1 .. N)
  BY <1>1, IssuesAssumption
<1>3. PICK s : s = Sorted(ks)
  OBVIOUS
<1>4. InItsOrder(s, ks)
  BY <1>2, <1>3, SortedIs
<1>5. PICK n \in Nat : n = Len(s) /\ DOMAIN s = 1 .. n /\ s \in Seq(ks) /\ n = Cardinality(ks)
  BY <1>4, LenProperties DEF InItsOrder
<1>6. ASSUME NEW k \in ks PROVE \E i \in DOMAIN s : s[i] = k
  BY <1>4, <1>5 DEF InItsOrder
<1>7. PICK known, fresh : known = Only(s, prior) /\ fresh = Only(s, RuleKeys \ prior)
  OBVIOUS
<1>8. KeptOf(known, s, prior, ks) /\ KeptOf(fresh, s, RuleKeys \ prior, ks)
  BY <1>5, <1>7, OnlyIs
<1>9. known \in Seq(ks) /\ fresh \in Seq(ks)
  <2>1. known \in Seq(ks \cap prior) /\ fresh \in Seq(ks \cap (RuleKeys \ prior))
    BY <1>8 DEF KeptOf
  <2> QED BY <2>1
<1> DEFINE A == {i \in DOMAIN s : s[i] \in prior}
           B == {i \in DOMAIN s : s[i] \in RuleKeys \ prior}
<1>10. A \cup B = DOMAIN s /\ A \cap B = {}
  <2>1. \A i \in DOMAIN s : s[i] \in RuleKeys
    BY <1>5
  <2> QED BY <2>1
<1>11. IsFiniteSet(DOMAIN s) /\ Cardinality(DOMAIN s) = n
  <2>1. IsFiniteSet(1 .. n) /\ Cardinality(1 .. n) = (IF 1 <= n THEN n - 1 + 1 ELSE 0)
    BY FS_Interval
  <2> QED BY <1>5, <2>1
<1>12. PICK a \in Nat, b \in Nat : a = Cardinality(A) /\ b = Cardinality(B) /\ n = a + b
  <2>1. IsFiniteSet(A) /\ IsFiniteSet(B)
    BY <1>11, FS_Subset
  <2>2. TwoParts(A, B)
    BY <1>10, <2>1, PartsCounted
  <2> QED BY <1>10, <1>11, <2>2, Zenon DEF TwoParts
<1>13. Len(known) = a /\ Len(fresh) = b
  BY <1>8, <1>12 DEF KeptOf
<1>14. PICK m \in Nat : m = Max({maxDesiredIssues, a}) /\ m = (IF maxDesiredIssues >= a THEN maxDesiredIssues ELSE a)
  BY IssuesAssumption, MaxOfTwo
<1>15. CASE n <= maxDesiredIssues
  <2>1. d = s
    BY <1>3, <1>5, <1>15 DEF truncateDesired
  <2> QED BY <1>5, <1>6, <2>1 DEF ToSet
<1>16. CASE ~(n <= maxDesiredIssues)
  <2>1. d = SubSeq(known \o fresh, 1, m)
    BY <1>3, <1>5, <1>7, <1>13, <1>14, <1>16 DEF truncateDesired
  <2>2. PICK w : w = known \o fresh
    OBVIOUS
  <2>3. w \in Seq(ks) /\ Len(w) = n /\ \A i \in 1 .. a : w[i] = known[i]
    <3>1. /\ w \in Seq(ks) /\ Len(w) = Len(known) + Len(fresh)
          /\ \A i \in 1 .. Len(known) + Len(fresh) :
               w[i] = IF i <= Len(known) THEN known[i] ELSE fresh[i - Len(known)]
      BY <1>9, <2>2, ConcatProperties, Zenon
    <3>2. \A i \in 1 .. a : i \in 1 .. a + b /\ i <= a
      OBVIOUS
    <3> QED BY <1>12, <1>13, <3>1, <3>2, Zenon
  <2>4. m <= n /\ a <= m
    BY <1>12, <1>14, <1>16, IssuesAssumption
  <2>5. d \in Seq(ks) /\ Len(d) = m /\ \A i \in 1 .. m : d[i] = w[i]
    BY <2>1, <2>2, <2>3, <2>4, Start
  <2>6. ASSUME NEW k \in ks \cap prior PROVE k \in ToSet(d)
    <3>1. PICK i \in DOMAIN known : known[i] = k
      BY <1>6, <1>8 DEF KeptOf
    <3>2. i \in 1 .. a
      BY <1>9, <1>13, LenProperties
    <3>3. i \in 1 .. m /\ DOMAIN d = 1 .. m
      BY <2>4, <2>5, <3>2, LenProperties
    <3> QED BY <2>3, <2>5, <3>1, <3>2, <3>3 DEF ToSet
  <2> QED BY <2>5, <2>6
<1> QED BY <1>15, <1>16

\* What a call of a session on the listed issues may be.
CallOn(c, desired, listed, f) ==
  \/ c.do = "create"
  \/ \E i \in DOMAIN listed :
       /\ listed[i].person # "skip"
       /\ \/ c.do = "update" /\ c.issue = Relabeled(listed[i], f)
          \/ /\ c.do = "close" /\ c.issue = listed[i]
             /\ \A k \in ToSet(desired) :
                  Matching(listed, k) # 0 => listed[Matching(listed, k)] # listed[i]

LEMMA RelabeledIs ==
  ASSUME NEW f \in Findings, NEW t \in Issues, t.key \in Reported(f)
  PROVE  /\ Relabeled(t, f) \in Issues /\ Relabeled(t, f).number = t.number
         /\ Relabeled(t, f).key = t.key /\ Relabeled(t, f).person = t.person
<1>1. t.number \in Numbers /\ t.person \in {"no", "label", "skip"}
  BY DEF Issues
<1>2. Filed(t.number, t.key, f) \in Issues /\ Filed(t.number, t.key, f).number = t.number
      /\ Filed(t.number, t.key, f).key = t.key
  BY <1>1, FiledIs
<1> QED BY <1>1, <1>2 DEF Relabeled, Issues

LEMMA CallsPlanned ==
  ASSUME NEW f \in Findings, NEW desired \in Seq(Reported(f)), NEW listed \in Seq(Issues),
         NEW rest, rest = Unmatched(desired, listed),
         NEW plan, plan = SessionCalls(desired, rest, listed, f),
         NEW cs, cs = Only(plan, ToSet(plan) \ {NoCall})
  PROVE  cs \in Seq(IssueCalls) /\ \A c \in ToSet(cs) : CallOn(c, desired, listed, f)
<1> DEFINE callFor(k) ==
             LET i == Matching(listed, k) IN
             IF i = 0 THEN [do |-> "create", issue |-> Filed(k, k, f)]
             ELSE IF listed[i].person # "skip" /\ needsUpdate(listed[i], f)
               THEN [do |-> "update", issue |-> Relabeled(listed[i], f)]
             ELSE NoCall
           close(t) == IF t.person = "skip" THEN NoCall ELSE [do |-> "close", issue |-> t]
           Planned == {c \in IssueCalls : CallOn(c, desired, listed, f)} \cup {NoCall}
<1>1. \A i \in DOMAIN listed : listed[i] \in Issues
  BY ElementOfSeq, LenProperties
<1>2. ASSUME NEW k \in Reported(f) PROVE callFor(k) \in Planned
  <2>1. Matching(listed, k) \in {0} \cup DOMAIN listed
    BY MatchingIs
  <2>2. CASE Matching(listed, k) = 0
    <3>1. k \in Numbers
      BY IssuesAssumption DEF Reported
    <3>2. Filed(k, k, f) \in Issues
      BY <3>1, FiledIs
    <3>3. [do |-> "create", issue |-> Filed(k, k, f)] \in IssueCalls
      BY <3>2 DEF IssueCalls
    <3> QED BY <2>2, <3>3 DEF CallOn
  <2>3. CASE Matching(listed, k) # 0
    <3>1. PICK i \in DOMAIN listed : i = Matching(listed, k) /\ listed[i].key = k
      BY <2>1, <2>3, MatchingIs
    <3>2. Relabeled(listed[i], f) \in Issues
      BY <1>1, <3>1, RelabeledIs
    <3>3. CASE ~(listed[i].person # "skip" /\ needsUpdate(listed[i], f))
      BY <2>3, <3>1, <3>3
    <3>4. CASE listed[i].person # "skip" /\ needsUpdate(listed[i], f)
      <4>1. callFor(k) = [do |-> "update", issue |-> Relabeled(listed[i], f)]
        BY <2>3, <3>1, <3>4
      <4>2. callFor(k) \in IssueCalls
        BY <3>2, <4>1 DEF IssueCalls
      <4>3. CallOn(callFor(k), desired, listed, f)
        BY <3>4, <4>1 DEF CallOn
      <4> QED BY <4>2, <4>3
    <3> QED BY <3>3, <3>4
  <2> QED BY <2>2, <2>3
<1> DEFINE matched == {Matching(listed, k) : k \in ToSet(desired)} \ {0}
           Remaining == {t \in ToSet(listed) : \A i \in matched : listed[i] # t}
<1>3. ASSUME NEW t \in Remaining PROVE close(t) \in Planned
  <2>1. PICK i \in DOMAIN listed : listed[i] = t
    BY DEF ToSet
  <2>2. CASE t.person = "skip"
    BY <2>2
  <2>3. CASE t.person # "skip"
    <3>1. close(t) = [do |-> "close", issue |-> t] /\ t \in Issues
      BY <1>1, <2>1, <2>3
    <3>2. close(t) \in IssueCalls
      BY <3>1 DEF IssueCalls
    <3>3. \A k \in ToSet(desired) :
            Matching(listed, k) # 0 => listed[Matching(listed, k)] # listed[i]
      BY <2>1
    <3>4. CallOn(close(t), desired, listed, f)
      BY <2>1, <2>3, <3>1, <3>3 DEF CallOn
    <3> QED BY <3>2, <3>4
  <2> QED BY <2>2, <2>3
<1>5. rest \in Seq(Remaining)
  <2>1. rest = Only(listed, Remaining)
    BY DEF Unmatched
  <2>2. KeptOf(rest, listed, Remaining, Issues)
    BY <2>1, OnlyIs
  <2>3. rest \in Seq(Issues \cap Remaining)
    BY <2>2 DEF KeptOf
  <2> QED BY <2>3
<1> HIDE DEF Planned, Remaining
<1>6. PICK u, v : u = [i \in DOMAIN desired |-> callFor(desired[i])]
                  /\ v = [i \in DOMAIN rest |-> close(rest[i])]
  OBVIOUS
<1>7. u \in Seq(Planned)
  <2>1. PICK n \in Nat : n = Len(desired) /\ DOMAIN desired = 1 .. n
    BY LenProperties
  <2>2. \A i \in 1 .. n : desired[i] \in Reported(f)
    BY <2>1
  <2>3. u \in [1 .. n -> Planned]
    BY <1>2, <1>6, <2>1, <2>2
  <2> QED BY <2>3, FunctionIsSeq
<1>8. v \in Seq(Planned)
  <2>1. PICK n \in Nat : n = Len(rest) /\ DOMAIN rest = 1 .. n
    BY <1>5, LenProperties
  <2>2. \A i \in 1 .. n : rest[i] \in Remaining
    BY <1>5, <2>1
  <2>3. v \in [1 .. n -> Planned]
    BY <1>3, <1>6, <2>1, <2>2
  <2> QED BY <2>3, FunctionIsSeq
<1>9. plan = u \o v
  BY <1>6, Zenon DEF SessionCalls
<1>10. plan \in Seq(Planned)
  BY <1>7, <1>8, <1>9, ConcatProperties
<1>12. cs \in Seq(Planned \cap (ToSet(plan) \ {NoCall}))
  <2>1. KeptOf(cs, plan, ToSet(plan) \ {NoCall}, Planned)
    BY <1>10, OnlyIs
  <2> QED BY <2>1 DEF KeptOf
<1>13. PICK Q : Q = {c \in IssueCalls : CallOn(c, desired, listed, f)}
  OBVIOUS
<1>14. cs \in Seq(Q) /\ Q \subseteq IssueCalls
  <2>1. Planned \cap (ToSet(plan) \ {NoCall}) \subseteq Q
    BY <1>13 DEF Planned
  <2>2. Q \subseteq IssueCalls
    BY <1>13
  <2> QED BY <1>12, <2>1, <2>2
<1>15. cs \in Seq(IssueCalls) /\ \A c \in ToSet(cs) : c \in Q
  BY <1>14 DEF ToSet
<1> QED BY <1>13, <1>15

-----------------------------------------------------------------------------
(* What a pass relies on.                                                  *)

\* A call still names the issue it was planned for; unless a person touched it
\* since, the call keeps what people did to it.
CallKept(p, c, t) ==
  (c.do # "create" /\ c.issue.number = t.number) =>
    /\ c.issue.key = t.key
    /\ p \notin t.since => /\ t.person # "skip"
                           /\ t.person = "label" => c.issue.person = "label"

\* An open issue that is reported is wanted, unless it was opened since.
WantedKept(p, t) ==
  (t.key \in Reported(sweep[p].saw) /\ p \notin t.since) => t.key \in ToSet(sweep[p].desired)

PassKept(p) ==
  /\ sweep[p].at # "calling" => sweep[p].calls = <<>>
  /\ \A c \in ToSet(sweep[p].calls) : \A t \in ToSet(tracked) : CallKept(p, c, t)
  /\ sweep[p].at = "resize" =>
       /\ sweep[p].desired \in Seq(Reported(sweep[p].saw))
       /\ \A t \in ToSet(tracked) : WantedKept(p, t)

IssuesIInv == IssuesTyped /\ NumbersOnce /\ \A p \in Sweeps : PassKept(p)

\* An issue after a step, as a pass that relies on it sees it: the calls on it
\* mean it, and it was there before, with the same labels, or changed since.
Follows(u, q) ==
  /\ \A c \in ToSet(sweep[q].calls) :
       (c.do # "create" /\ c.issue.number = u.number) => c.issue.key = u.key
  /\ q \notin u.since =>
       \E t \in ToSet(tracked) : /\ t.number = u.number /\ t.key = u.key
                                 /\ t.person = u.person /\ q \notin t.since

GoesOnFor(q) == \A u \in ToSet(tracked') : Follows(u, q)

TrackedGoesOn ==
  /\ tracked' \in Seq(Issues) /\ NumbersOnce'
  /\ \A q \in Sweeps : sweep[q].at \in {"calling", "resize"} => GoesOnFor(q)

\* A pass that does nothing, or only makes its calls.
LEMMA PassStays ==
  ASSUME NEW q \in Sweeps, PassKept(q), sweep'[q].at = sweep[q].at,
         sweep'[q].saw = sweep[q].saw, sweep'[q].desired = sweep[q].desired,
         ToSet(sweep'[q].calls) \subseteq ToSet(sweep[q].calls),
         sweep[q].at # "calling" => sweep'[q].calls = sweep[q].calls,
         sweep[q].at \in {"calling", "resize"} => GoesOnFor(q)
  PROVE  PassKept(q)'
<1>1. sweep'[q].at # "calling" => sweep'[q].calls = <<>>
  BY DEF PassKept
<1>2. ASSUME NEW c \in ToSet(sweep'[q].calls), NEW u \in ToSet(tracked') PROVE CallKept(q, c, u)
  <2>1. c \in ToSet(sweep[q].calls)
    OBVIOUS
  <2>2. sweep[q].at = "calling"
    <3>1. ToSet(<<>>) = {}
      BY DEF ToSet
    <3> QED BY <2>1, <3>1 DEF PassKept
  <2>3. Follows(u, q)
    BY <2>2 DEF GoesOnFor
  <2>4. \A t \in ToSet(tracked) : CallKept(q, c, t)
    BY <2>1 DEF PassKept
  <2> QED BY <2>1, <2>3, <2>4 DEF Follows, CallKept
<1>3. ASSUME sweep'[q].at = "resize", NEW u \in ToSet(tracked') PROVE WantedKept(q, u)'
  <2>1. Follows(u, q)
    BY <1>3 DEF GoesOnFor
  <2>2. \A t \in ToSet(tracked) : WantedKept(q, t)
    BY <1>3 DEF PassKept
  <2> QED BY <2>1, <2>2 DEF Follows, WantedKept
<1>4. sweep'[q].at = "resize" => sweep'[q].desired \in Seq(Reported(sweep'[q].saw))
  BY DEF PassKept
<1> QED BY <1>1, <1>2, <1>3, <1>4 DEF PassKept, CallKept

\* The calls that a pass has mean what they name.
LEMMA CallsMean ==
  ASSUME IssuesIInv, NEW q \in Sweeps, NEW t \in ToSet(tracked), NEW u, u.number = t.number, u.key = t.key
  PROVE  \A c \in ToSet(sweep[q].calls) :
           (c.do # "create" /\ c.issue.number = u.number) => c.issue.key = u.key
BY DEF IssuesIInv, PassKept, CallKept

LEMMA TrackedIs ==
  ASSUME IssuesIInv
  PROVE  /\ tracked \in Seq(Issues) /\ Len(tracked) \in Nat /\ DOMAIN tracked = 1 .. Len(tracked)
         /\ \A i \in DOMAIN tracked : tracked[i] \in Issues /\ tracked[i] \in ToSet(tracked)
         /\ \A t \in ToSet(tracked) : t \in Issues /\ \E i \in DOMAIN tracked : t = tracked[i]
<1>1. tracked \in Seq(Issues)
  BY DEF IssuesIInv, IssuesTyped
<1>2. Len(tracked) \in Nat /\ DOMAIN tracked = 1 .. Len(tracked)
  BY <1>1, LenProperties
<1>3. \A i \in DOMAIN tracked : tracked[i] \in Issues
  BY <1>1, <1>2, ElementOfSeq
<1> QED BY <1>1, <1>2, <1>3 DEF ToSet

\* Issues that stay what they are but for their labels.
LEMMA TrackedMapped ==
  ASSUME IssuesIInv, DOMAIN tracked' = DOMAIN tracked,
         tracked' = [i \in DOMAIN tracked' |-> tracked'[i]],
         \A i \in DOMAIN tracked :
           /\ tracked'[i] \in Issues
           /\ tracked'[i].number = tracked[i].number /\ tracked'[i].key = tracked[i].key,
         \A i \in DOMAIN tracked : \A q \in Sweeps :
           (sweep[q].at \in {"calling", "resize"} /\ q \notin tracked'[i].since) =>
             tracked'[i].person = tracked[i].person /\ q \notin tracked[i].since
  PROVE  TrackedGoesOn
<1>1. tracked' \in Seq(Issues)
  <2>1. PICK n \in Nat : n = Len(tracked) /\ DOMAIN tracked = 1 .. n
    BY TrackedIs
  <2>2. tracked' \in [1 .. n -> Issues]
    BY <2>1
  <2> QED BY <2>2, FunctionIsSeq
<1>2. NumbersOnce'
  BY DEF IssuesIInv, NumbersOnce
<1>3. ASSUME NEW q \in Sweeps, sweep[q].at \in {"calling", "resize"}, NEW u \in ToSet(tracked')
      PROVE  Follows(u, q)
  <2>1. PICK i \in DOMAIN tracked : u = tracked'[i]
    BY DEF ToSet
  <2>2. tracked[i] \in ToSet(tracked)
    BY TrackedIs
  <2>3. u.number = tracked[i].number /\ u.key = tracked[i].key
    BY <2>1
  <2>4. \A c \in ToSet(sweep[q].calls) :
          (c.do # "create" /\ c.issue.number = u.number) => c.issue.key = u.key
    BY <2>2, <2>3, CallsMean
  <2> QED BY <1>3, <2>1, <2>2, <2>3, <2>4 DEF Follows
<1> QED BY <1>1, <1>2, <1>3 DEF TrackedGoesOn, GoesOnFor

\* Issues that are closed.
LEMMA TrackedKept ==
  ASSUME IssuesIInv, NEW S, tracked' = Only(tracked, S) PROVE TrackedGoesOn
<1>1. KeptOf(tracked', tracked, S, Issues)
  BY TrackedIs, OnlyIs
<1>2. tracked' \in Seq(Issues \cap S)
  BY <1>1 DEF KeptOf
<1>3. PICK f \in [DOMAIN tracked' -> DOMAIN tracked] :
        /\ \A k \in DOMAIN tracked' : tracked'[k] = tracked[f[k]]
        /\ \A k, l \in DOMAIN tracked' : f[k] = f[l] => k = l
  BY <1>1 DEF KeptOf
<1>4. NumbersOnce'
  BY <1>3 DEF IssuesIInv, NumbersOnce
<1>5. ASSUME NEW q \in Sweeps, sweep[q].at \in {"calling", "resize"}, NEW u \in ToSet(tracked')
      PROVE  Follows(u, q)
  <2>1. u \in ToSet(tracked)
    BY <1>3, TrackedIs DEF ToSet
  <2>2. \A c \in ToSet(sweep[q].calls) :
          (c.do # "create" /\ c.issue.number = u.number) => c.issue.key = u.key
    BY <2>1, CallsMean
  <2> QED BY <2>1, <2>2 DEF Follows
<1> QED BY <1>2, <1>4, <1>5 DEF TrackedGoesOn, GoesOnFor

LEMMA TrackedSame == ASSUME IssuesIInv, UNCHANGED tracked PROVE TrackedGoesOn
<1>1. ASSUME NEW q \in Sweeps, NEW u \in ToSet(tracked) PROVE Follows(u, q)
  <2>1. \A c \in ToSet(sweep[q].calls) :
          (c.do # "create" /\ c.issue.number = u.number) => c.issue.key = u.key
    BY CallsMean
  <2> QED BY <2>1 DEF Follows
<1> QED BY <1>1 DEF TrackedGoesOn, GoesOnFor, IssuesIInv, IssuesTyped, NumbersOnce

\* One that is put among the others, which keep their order.
PutAt(o, s, x, a, f) ==
  /\ o[a] = x
  /\ \A k \in DOMAIN o : k # a => f[k] \in DOMAIN s /\ o[k] = s[f[k]]
  /\ \A k, l \in DOMAIN o : (k # a /\ l # a /\ f[k] = f[l]) => k = l

PutAmong(o, s, x) ==
  /\ \E a \in DOMAIN o : \E f \in [DOMAIN o -> {0} \cup DOMAIN s] : PutAt(o, s, x, a, f)
  /\ \A i \in DOMAIN s : \E k \in DOMAIN o : o[k] = s[i]

LEMMA PutAmongIs ==
  ASSUME NEW T, NEW s \in Seq(T), NEW x \in T, NEW o, o = <<x>> \o s \/ o = Append(s, x)
  PROVE  o \in Seq(T) /\ PutAmong(o, s, x)
<1>1. PICK n \in Nat : n = Len(s) /\ DOMAIN s = 1 .. n
  BY LenProperties
<1>2. CASE o = <<x>> \o s
  <2>1. PICK w : w = <<x>>
    OBVIOUS
  <2>2. w \in Seq(T) /\ Len(w) = 1 /\ w[1] = x
    BY <2>1
  <2>3. o \in Seq(T) /\ Len(o) = 1 + n /\ \A i \in 1 .. 1 + n : o[i] = IF i <= 1 THEN w[i] ELSE s[i - 1]
    BY <1>1, <1>2, <2>1, <2>2, ConcatProperties
  <2>4. DOMAIN o = 1 .. n + 1
    BY <2>3, LenProperties
  <2>5. o[1] = x /\ \A i \in 2 .. n + 1 : o[i] = s[i - 1]
    BY <2>2, <2>3
  <2>6. PICK f : f = [k \in 1 .. n + 1 |-> k - 1]
    OBVIOUS
  <2>7. f \in [DOMAIN o -> {0} \cup DOMAIN s]
    <3>1. \A k \in 1 .. n + 1 : k - 1 \in {0} \cup 1 .. n
      OBVIOUS
    <3> QED BY <1>1, <2>4, <2>6, <3>1
  <2>8. \A k \in DOMAIN o : k # 1 => f[k] \in DOMAIN s /\ o[k] = s[f[k]]
    BY <1>1, <2>4, <2>5, <2>6
  <2>9. \A k, l \in DOMAIN o : (k # 1 /\ l # 1 /\ f[k] = f[l]) => k = l
    BY <2>4, <2>6
  <2>10. \A i \in DOMAIN s : i + 1 \in DOMAIN o /\ o[i + 1] = s[i]
    BY <1>1, <2>4, <2>5
  <2>11. 1 \in DOMAIN o
    BY <2>4
  <2>12. PutAt(o, s, x, 1, f)
    BY <2>5, <2>8, <2>9 DEF PutAt
  <2> QED BY <2>3, <2>7, <2>10, <2>11, <2>12 DEF PutAmong
<1>3. CASE o = Append(s, x)
  <2>1. /\ o \in Seq(T) /\ Len(o) = n + 1
        /\ \A i \in 1 .. n : o[i] = s[i] /\ o[n + 1] = x
    BY <1>1, <1>3, AppendProperties
  <2>2. o[n + 1] = x
    BY <1>1, <1>3, AppendProperties
  <2>4. DOMAIN o = 1 .. n + 1
    BY <2>1, LenProperties
  <2>6. PICK f : f = [k \in 1 .. n + 1 |-> IF k = n + 1 THEN 0 ELSE k]
    OBVIOUS
  <2>7. f \in [DOMAIN o -> {0} \cup DOMAIN s]
    <3>1. \A k \in 1 .. n + 1 : (IF k = n + 1 THEN 0 ELSE k) \in {0} \cup 1 .. n
      OBVIOUS
    <3> QED BY <1>1, <2>4, <2>6, <3>1
  <2>8. \A k \in DOMAIN o : k # n + 1 => f[k] \in DOMAIN s /\ o[k] = s[f[k]]
    BY <1>1, <2>1, <2>4, <2>6
  <2>9. \A k, l \in DOMAIN o : (k # n + 1 /\ l # n + 1 /\ f[k] = f[l]) => k = l
    BY <2>4, <2>6
  <2>10. \A i \in DOMAIN s : i \in DOMAIN o /\ o[i] = s[i]
    BY <1>1, <2>1, <2>4
  <2>11. n + 1 \in DOMAIN o
    BY <2>4
  <2>12. PutAt(o, s, x, n + 1, f)
    BY <2>2, <2>8, <2>9 DEF PutAt
  <2> QED BY <2>1, <2>7, <2>10, <2>11, <2>12 DEF PutAmong
<1> QED BY <1>2, <1>3

NewTo(x) ==
  /\ x \in Issues /\ x.since = Underway /\ x.number \notin {t.number : t \in ToSet(tracked)}
  /\ \A t \in Referred : t.number = x.number => t.key = x.key

\* An issue that is opened.
LEMMA TrackedAdds ==
  ASSUME IssuesIInv, NEW x, NewTo(x), tracked' = <<x>> \o tracked \/ tracked' = Append(tracked, x)
  PROVE  TrackedGoesOn /\ x \in Issues /\ PutAmong(tracked', tracked, x)
<1>1. x \in Issues /\ tracked \in Seq(Issues)
  BY TrackedIs DEF NewTo
<1>2. tracked' \in Seq(Issues) /\ PutAmong(tracked', tracked, x)
  BY <1>1, PutAmongIs
<1>3. PICK a \in DOMAIN tracked' : \E f \in [DOMAIN tracked' -> {0} \cup DOMAIN tracked] :
        PutAt(tracked', tracked, x, a, f)
  BY <1>2 DEF PutAmong
<1>9. PICK f \in [DOMAIN tracked' -> {0} \cup DOMAIN tracked] : PutAt(tracked', tracked, x, a, f)
  BY <1>3
<1>4. /\ tracked'[a] = x
      /\ \A k \in DOMAIN tracked' : k # a => f[k] \in DOMAIN tracked /\ tracked'[k] = tracked[f[k]]
      /\ \A k, l \in DOMAIN tracked' : (k # a /\ l # a /\ f[k] = f[l]) => k = l
  BY <1>9 DEF PutAt
<1>5. \A i \in DOMAIN tracked : tracked[i].number # x.number
  BY TrackedIs DEF NewTo
<1>6. NumbersOnce'
  <2> SUFFICES ASSUME NEW k \in DOMAIN tracked', NEW l \in DOMAIN tracked',
                      tracked'[k].number = tracked'[l].number
               PROVE  k = l
    BY DEF NumbersOnce
  <2>1. k # a => f[k] \in DOMAIN tracked /\ tracked'[k] = tracked[f[k]]
    BY <1>4
  <2>2. l # a => f[l] \in DOMAIN tracked /\ tracked'[l] = tracked[f[l]]
    BY <1>4
  <2>3. (k # a /\ l # a) => f[k] = f[l]
    BY <2>1, <2>2 DEF IssuesIInv, NumbersOnce
  <2> QED BY <1>4, <1>5, <2>1, <2>2, <2>3
<1>7. ASSUME NEW q \in Sweeps, sweep[q].at \in {"calling", "resize"}, NEW u \in ToSet(tracked')
      PROVE  Follows(u, q)
  <2>1. CASE u = x
    <3>1. q \in Underway
      BY <1>7 DEF Underway
    <3>2. ASSUME NEW c \in ToSet(sweep[q].calls), c.do # "create", c.issue.number = u.number
          PROVE  c.issue.key = u.key
      <4>1. c.issue \in Referred
        BY <3>2 DEF Referred
      <4> QED BY <2>1, <3>2, <4>1 DEF NewTo
    <3> QED BY <2>1, <3>1, <3>2 DEF Follows, NewTo
  <2>2. CASE u \in ToSet(tracked)
    <3>1. \A c \in ToSet(sweep[q].calls) :
            (c.do # "create" /\ c.issue.number = u.number) => c.issue.key = u.key
      BY <2>2, CallsMean
    <3> QED BY <2>2, <3>1 DEF Follows
  <2>3. u = x \/ u \in ToSet(tracked)
    <3>1. PICK k \in DOMAIN tracked' : u = tracked'[k]
      BY DEF ToSet
    <3>2. k # a => f[k] \in DOMAIN tracked /\ u = tracked[f[k]]
      BY <1>4, <3>1
    <3> QED BY <1>4, <3>1, <3>2, TrackedIs
  <2> QED BY <2>1, <2>2, <2>3
<1>8. TrackedGoesOn
  BY <1>2, <1>6, <1>7 DEF TrackedGoesOn, GoesOnFor
<1> QED BY <1>1, <1>2, <1>8

-----------------------------------------------------------------------------
(* Every step keeps it.                                                    *)

Stays(q) == UNCHANGED sweep[q]

\* A step of the passes in Ps, that keep what they rely on.
LEMMA StepKept ==
  ASSUME IssuesIInv, TrackedGoesOn, found' \in Findings,
         happenings' \in 0 .. MaxHappenings, broken' \in 0 .. MaxBrokenSweeps,
         sweep' \in [Sweeps -> SweepRecords],
         \A q \in Sweeps : sweep'[q] = sweep[q] \/ PassKept(q)'
  PROVE  IssuesIInv'
<1>1. IssuesTyped' /\ NumbersOnce'
  BY DEF IssuesTyped, TrackedGoesOn
<1>2. ASSUME NEW q \in Sweeps, sweep'[q] = sweep[q] PROVE PassKept(q)'
  <2>1. PassKept(q)
    BY DEF IssuesIInv
  <2>2. sweep[q].at \in {"calling", "resize"} => GoesOnFor(q)
    BY DEF TrackedGoesOn
  <2>3. /\ sweep'[q].at = sweep[q].at /\ sweep'[q].saw = sweep[q].saw
        /\ sweep'[q].desired = sweep[q].desired /\ sweep'[q].calls = sweep[q].calls
    BY <1>2
  <2>4. ToSet(sweep'[q].calls) \subseteq ToSet(sweep[q].calls)
    BY <2>3
  <2> QED BY <2>1, <2>2, <2>3, <2>4, PassStays
<1> QED BY <1>1, <1>2 DEF IssuesIInv

\* A pass that has no calls and waits for nothing.
LEMMA PassIdle ==
  ASSUME NEW q, sweep[q].calls = <<>>, sweep[q].at # "resize" PROVE PassKept(q)
<1>1. ToSet(<<>>) = {}
  BY DEF ToSet
<1> QED BY <1>1 DEF PassKept

LEMMA NoFindingsIs == NoFindings \in Findings /\ <<>> \in Seq(RuleKeys) /\ <<>> \in Seq(IssueCalls)
<1>1. NoFindings \in Findings
  BY DEF NoFindings, Findings
<1> QED BY <1>1, EmptySeq

LEMMA SweepIs ==
  ASSUME IssuesIInv
  PROVE  /\ sweep \in [Sweeps -> SweepRecords] /\ found \in Findings
         /\ \A p \in Sweeps : /\ sweep[p].saw \in Findings /\ sweep[p].desired \in Seq(RuleKeys)
                              /\ sweep[p].calls \in Seq(IssueCalls)
BY DEF IssuesIInv, IssuesTyped, SweepRecords

LEMMA LeaseKeeps ==
  ASSUME IssuesIInv, NEW p \in Sweeps, LeaseClone(p), broken' \in 0 .. MaxBrokenSweeps
  PROVE  IssuesIInv'
<1>1. PICK r : r = [NotSweeping EXCEPT !.at = "leased", !.saw = found]
  OBVIOUS
<1>2. r = [at |-> "leased", saw |-> found, desired |-> <<>>, calls |-> <<>>]
  BY <1>1 DEF NotSweeping
<1>3. r \in SweepRecords
  BY <1>2, NoFindingsIs, SweepIs DEF SweepRecords
<1>4. sweep' = [sweep EXCEPT ![p] = r] /\ sweep[p].at = "idle" /\ UNCHANGED <<found, happenings>>
  BY <1>1 DEF LeaseClone
<1>5. sweep' \in [Sweeps -> SweepRecords] /\ sweep'[p] = r /\ \A q \in Sweeps \ {p} : sweep'[q] = sweep[q]
  BY <1>3, <1>4, SweepIs
<1>6. PassKept(p)'
  <2>1. sweep'[p].calls = <<>> /\ sweep'[p].at = "leased"
    BY <1>2, <1>5
  <2>2. ToSet(<<>>) = {}
    BY DEF ToSet
  <2> QED BY <2>1, <2>2 DEF PassKept
<1>7. TrackedGoesOn
  <2>1. tracked' = [i \in DOMAIN tracked |-> [tracked[i] EXCEPT !.since = @ \ {p}]]
    BY DEF LeaseClone
  <2>2. \A i \in DOMAIN tracked : tracked'[i] = [tracked[i] EXCEPT !.since = tracked[i].since \ {p}]
    BY <2>1
  <2>3. \A i \in DOMAIN tracked : tracked[i] \in Issues
    BY TrackedIs
  <2>4. \A i \in DOMAIN tracked : /\ tracked'[i] \in Issues
           /\ tracked'[i].number = tracked[i].number /\ tracked'[i].key = tracked[i].key
           /\ tracked'[i].person = tracked[i].person /\ tracked'[i].since = tracked[i].since \ {p}
    <3> SUFFICES ASSUME NEW i \in DOMAIN tracked
                 PROVE  /\ tracked'[i] \in Issues
                        /\ tracked'[i].number = tracked[i].number
                        /\ tracked'[i].key = tracked[i].key
                        /\ tracked'[i].person = tracked[i].person
                        /\ tracked'[i].since = tracked[i].since \ {p}
      OBVIOUS
    <3>1. PICK t \in Issues : t = tracked[i]
      BY <2>3
    <3>2. tracked'[i] = [t EXCEPT !.since = t.since \ {p}]
      BY <2>2, <3>1
    <3> QED BY <3>1, <3>2 DEF Issues
  <2>5. \A i \in DOMAIN tracked : \A q \in Sweeps :
          (sweep[q].at \in {"calling", "resize"} /\ q \notin tracked'[i].since) =>
             tracked'[i].person = tracked[i].person /\ q \notin tracked[i].since
    BY <1>4, <2>4
  <2>6. DOMAIN tracked' = DOMAIN tracked /\ tracked' = [i \in DOMAIN tracked' |-> tracked'[i]]
    BY <2>1
  <2> QED BY <2>4, <2>5, <2>6, TrackedMapped
<1>8. found' \in Findings /\ happenings' \in 0 .. MaxHappenings
  BY <1>4 DEF IssuesIInv, IssuesTyped
<1> QED BY <1>5, <1>6, <1>7, <1>8, StepKept

\* What a pass plans is for the issues that are listed.
LEMMA PlanKept ==
  ASSUME IssuesIInv, NEW p \in Sweeps, UNCHANGED <<found, tracked, happenings, broken>>,
         NEW desired \in Seq(Reported(sweep[p].saw)), PlanCalls(p, desired)
  PROVE  /\ IssuesIInv'
         /\ \A c \in ToSet(sweep'[p].calls) : CallOn(c, desired, tracked, sweep[p].saw)
<1>1. PICK f : f = sweep[p].saw
  OBVIOUS
<1>13. PICK rest \in {Unmatched(desired, tracked)} :
         \E plan \in {SessionCalls(desired, rest, tracked, sweep[p].saw)} :
           sweep' = [sweep EXCEPT ![p] = [NotSweeping EXCEPT !.at = "calling",
                                           !.calls = Only(plan, ToSet(plan) \ {NoCall})]]
  BY Zenon DEF PlanCalls
<1>14. PICK plan \in {SessionCalls(desired, rest, tracked, sweep[p].saw)} :
         sweep' = [sweep EXCEPT ![p] = [NotSweeping EXCEPT !.at = "calling",
                                         !.calls = Only(plan, ToSet(plan) \ {NoCall})]]
  BY <1>13, Zenon
<1>15. PICK cs : cs = Only(plan, ToSet(plan) \ {NoCall})
  OBVIOUS
<1>2. cs \in Seq(IssueCalls) /\ \A c \in ToSet(cs) : CallOn(c, desired, tracked, f)
  <2>1. f \in Findings /\ tracked \in Seq(Issues) /\ desired \in Seq(Reported(f))
    BY <1>1, SweepIs, TrackedIs
  <2>2. rest = Unmatched(desired, tracked) /\ plan = SessionCalls(desired, rest, tracked, f)
    BY <1>1, <1>13, <1>14
  <2> QED BY <1>15, <2>1, <2>2, CallsPlanned
<1>3. PICK r : r = [NotSweeping EXCEPT !.at = "calling", !.calls = cs]
  OBVIOUS
<1>4. r = [at |-> "calling", saw |-> NoFindings, desired |-> <<>>, calls |-> cs]
  BY <1>3 DEF NotSweeping
<1>5. r \in SweepRecords
  BY <1>2, <1>4, NoFindingsIs DEF SweepRecords
<1>6. sweep' = [sweep EXCEPT ![p] = r]
  BY <1>3, <1>14, <1>15
<1>7. sweep' \in [Sweeps -> SweepRecords] /\ sweep'[p] = r /\ \A q \in Sweeps \ {p} : sweep'[q] = sweep[q]
  BY <1>5, <1>6, SweepIs
<1>8. sweep'[p].at = "calling" /\ sweep'[p].calls = cs
  BY <1>4, <1>7
<1>9. ASSUME NEW c \in ToSet(cs), NEW t \in ToSet(tracked) PROVE CallKept(p, c, t)
  <2> SUFFICES ASSUME c.do # "create", c.issue.number = t.number
               PROVE  /\ c.issue.key = t.key /\ t.person # "skip"
                      /\ t.person = "label" => c.issue.person = "label"
    BY DEF CallKept
  <2>1. CallOn(c, desired, tracked, f)
    BY <1>2
  <2>2. PICK i \in DOMAIN tracked :
          /\ tracked[i].person # "skip"
          /\ c.issue = Relabeled(tracked[i], f) \/ c.issue = tracked[i]
    BY <2>1 DEF CallOn
  <2>3. tracked[i] \in Issues
    BY TrackedIs
  <2>4. /\ c.issue.number = tracked[i].number /\ c.issue.key = tracked[i].key
        /\ c.issue.person = tracked[i].person
    BY <2>2 DEF Relabeled, Filed
  <2>5. PICK j \in DOMAIN tracked : t = tracked[j]
    BY TrackedIs
  <2>6. i = j
    BY <2>4, <2>5 DEF IssuesIInv, NumbersOnce
  <2> QED BY <2>2, <2>4, <2>5, <2>6
<1>10. PassKept(p)'
  <2>1. \A c \in ToSet(sweep'[p].calls) : \A t \in ToSet(tracked') : CallKept(p, c, t)
    BY <1>8, <1>9
  <2> QED BY <1>8, <2>1 DEF PassKept, CallKept
<1>11. TrackedGoesOn
  BY TrackedSame
<1>12. found' \in Findings /\ happenings' \in 0 .. MaxHappenings /\ broken' \in 0 .. MaxBrokenSweeps
  BY DEF IssuesIInv, IssuesTyped
<1>16. IssuesIInv'
  BY <1>7, <1>10, <1>11, <1>12, StepKept
<1> QED BY <1>1, <1>2, <1>8, <1>16

\* What is wanted: whatever is reported and tracked, and nothing unreported.
DesiredOf(p, desired) ==
  /\ desired \in Seq(Reported(sweep[p].saw)) /\ desired \in Seq(RuleKeys)
  /\ \A t \in ToSet(tracked) : t.key \in Reported(sweep[p].saw) => t.key \in ToSet(desired)

LEMMA DesiredIs ==
  ASSUME IssuesIInv, NEW p \in Sweeps
  PROVE  DesiredOf(p, truncateDesired(Sorted(Reported(sweep[p].saw)), TrackedKeys(tracked)))
<1>1. PICK ks : ks = Reported(sweep[p].saw)
  OBVIOUS
<1>2. ks \in SUBSET RuleKeys
  BY <1>1 DEF Reported
<1>3. PICK d : d = truncateDesired(Sorted(Reported(sweep[p].saw)), TrackedKeys(tracked))
  OBVIOUS
<1>4. d \in Seq(ks) /\ \A k \in ks \cap TrackedKeys(tracked) : k \in ToSet(d)
  BY <1>1, <1>2, <1>3, TruncatedIs
<1>5. d \in Seq(RuleKeys)
  BY <1>2, <1>4
<1>6. DesiredOf(p, d)
  BY <1>1, <1>4, <1>5 DEF TrackedKeys, DesiredOf
<1> QED BY <1>3, <1>6

LEMMA OpenKeeps ==
  ASSUME IssuesIInv, NEW p \in Sweeps, OpenIssueSession(p)
  PROVE  IssuesIInv'
<1>1. PICK desired : desired = truncateDesired(Sorted(Reported(sweep[p].saw)), TrackedKeys(tracked))
  OBVIOUS
<1>2. /\ desired \in Seq(Reported(sweep[p].saw)) /\ desired \in Seq(RuleKeys)
      /\ \A t \in ToSet(tracked) : t.key \in Reported(sweep[p].saw) => t.key \in ToSet(desired)
  BY <1>1, DesiredIs DEF DesiredOf
<1>3. /\ UNCHANGED <<found, tracked, happenings, broken>> /\ sweep[p].at = "leased"
      /\ \/ sweep' = [sweep EXCEPT ![p].at = "resize", ![p].desired = desired]
         \/ PlanCalls(p, desired)
  BY <1>1 DEF OpenIssueSession
<1>4. CASE PlanCalls(p, desired)
  BY <1>2, <1>3, <1>4, PlanKept
<1>5. CASE sweep' = [sweep EXCEPT ![p].at = "resize", ![p].desired = desired]
  <2>1. sweep[p] \in SweepRecords /\ sweep[p].calls = <<>>
    BY <1>3, SweepIs DEF IssuesIInv, PassKept
  <2>2. PICK r : r = [sweep[p] EXCEPT !.at = "resize", !.desired = desired]
    OBVIOUS
  <2>3. r \in SweepRecords /\ r.at = "resize" /\ r.desired = desired /\ r.calls = <<>> /\ r.saw = sweep[p].saw
    BY <1>2, <2>1, <2>2 DEF SweepRecords
  <2>4. sweep' = [sweep EXCEPT ![p] = r]
    BY <1>5, <2>2
  <2>5. sweep' \in [Sweeps -> SweepRecords] /\ sweep'[p] = r /\ \A q \in Sweeps \ {p} : sweep'[q] = sweep[q]
    BY <2>3, <2>4, SweepIs
  <2>6. PassKept(p)'
    <3>1. ToSet(<<>>) = {}
      BY DEF ToSet
    <3>2. /\ sweep'[p].at = "resize" /\ sweep'[p].desired = desired
          /\ sweep'[p].calls = <<>> /\ sweep'[p].saw = sweep[p].saw
      BY <2>3, <2>5
    <3>3. \A t \in ToSet(tracked') : WantedKept(p, t)'
      BY <1>2, <1>3, <3>2 DEF WantedKept
    <3> QED BY <1>2, <3>1, <3>2, <3>3 DEF PassKept
  <2>7. TrackedGoesOn
    BY <1>3, TrackedSame
  <2>8. found' \in Findings /\ happenings' \in 0 .. MaxHappenings /\ broken' \in 0 .. MaxBrokenSweeps
    BY <1>3 DEF IssuesIInv, IssuesTyped
  <2> QED BY <2>5, <2>6, <2>7, <2>8, StepKept
<1> QED BY <1>3, <1>4, <1>5

LEMMA ResizeKeeps == ASSUME IssuesIInv, NEW p \in Sweeps, ResizeSession(p) PROVE IssuesIInv'
<1>1. sweep[p].desired \in Seq(Reported(sweep[p].saw))
  BY DEF ResizeSession, IssuesIInv, PassKept
<1> QED BY <1>1, PlanKept DEF ResizeSession

\* What a call makes of the open issues.
LEMMA CallGoesOn ==
  ASSUME IssuesIInv, NEW p \in Sweeps, MakeCall(p),
         NEW c, c = Head(sweep[p].calls), c \in ToSet(sweep[p].calls), c \in IssueCalls
  PROVE  TrackedGoesOn
<1>1. CASE c.do = "create"
  <2>1. PICK free : free = Numbers \ {t.number : t \in ToSet(tracked) \cup Referred}
    OBVIOUS
  <2>2. PICK x : x = [c.issue EXCEPT !.number = Min(free), !.since = Underway]
    OBVIOUS
  <2>3. free # {} /\ tracked' = <<x>> \o tracked
    BY <1>1, <2>1, <2>2 DEF MakeCall
  <2>4. Min(free) \in free
    <3>1. \A n \in Numbers : n \in Nat
      BY IssuesAssumption, FS_CardinalityType
    <3>2. free \in SUBSET Nat
      BY <2>1, <3>1
    <3>3. \E n \in free : \A m \in free : n <= m
      BY <2>3, <3>2, SmallestExists
    <3> QED BY <3>3 DEF Min
  <2>5. Underway \in SUBSET Sweeps
    BY DEF Underway
  <2>6. PICK n \in Numbers : n = Min(free) /\ n \notin {t.number : t \in ToSet(tracked) \cup Referred}
    BY <2>1, <2>4
  <2>7. c.issue \in Issues
    BY DEF IssueCalls
  <2>8. x \in Issues /\ x.number = n /\ x.since = Underway
    BY <2>2, <2>5, <2>6, <2>7 DEF Issues
  <2>9. NewTo(x)
    BY <2>6, <2>8 DEF NewTo
  <2> QED BY <2>3, <2>9, TrackedAdds
<1>2. CASE c.do = "update"
  <2>1. tracked' = [i \in DOMAIN tracked |->
                      IF tracked[i].number # c.issue.number THEN tracked[i]
                      ELSE [c.issue EXCEPT !.since = Touched(tracked[i], c.issue)]]
    BY <1>2 DEF MakeCall
  <2>2. c.issue \in Issues
    BY DEF IssueCalls
  <2>3. DOMAIN tracked' = DOMAIN tracked /\ tracked' = [i \in DOMAIN tracked' |-> tracked'[i]]
    BY <2>1
  <2>4. ASSUME NEW i \in DOMAIN tracked, tracked[i].number = c.issue.number
        PROVE  /\ tracked'[i] \in Issues
               /\ tracked'[i].number = tracked[i].number /\ tracked'[i].key = tracked[i].key
               /\ tracked'[i].person = c.issue.person
               /\ tracked'[i].since = Touched(tracked[i], c.issue)
    <3>1. tracked'[i] = [c.issue EXCEPT !.since = Touched(tracked[i], c.issue)]
      BY <2>1, <2>4
    <3>2. tracked[i] \in Issues /\ tracked[i] \in ToSet(tracked)
      BY TrackedIs
    <3>3. CallKept(p, c, tracked[i])
      BY <3>2 DEF IssuesIInv, PassKept
    <3>4. c.issue.key = tracked[i].key
      BY <1>2, <2>4, <3>3 DEF CallKept
    <3>5. PICK u : u = Touched(tracked[i], c.issue)
      OBVIOUS
    <3>6. u \in SUBSET Sweeps
      BY <3>2, <3>5 DEF Touched, Underway, Issues
    <3> QED BY <2>2, <2>4, <3>1, <3>4, <3>5, <3>6 DEF Issues
  <2>5. \A i \in DOMAIN tracked : tracked[i].number # c.issue.number => tracked'[i] = tracked[i]
    BY <2>1
  <2>6. \A i \in DOMAIN tracked :
          /\ tracked'[i] \in Issues
          /\ tracked'[i].number = tracked[i].number /\ tracked'[i].key = tracked[i].key
    BY <2>4, <2>5, TrackedIs
  <2>7. ASSUME NEW i \in DOMAIN tracked, NEW q \in Sweeps,
               sweep[q].at \in {"calling", "resize"}, q \notin tracked'[i].since
        PROVE  tracked'[i].person = tracked[i].person /\ q \notin tracked[i].since
    <3>1. CASE tracked[i].number # c.issue.number
      BY <2>5, <2>7, <3>1
    <3>2. CASE tracked[i].number = c.issue.number
      <4>1. q \in Underway
        BY <2>7 DEF Underway
      <4>2. tracked[i].person = c.issue.person /\ q \notin tracked[i].since
        BY <2>4, <2>7, <3>2, <4>1 DEF Touched
      <4> QED BY <2>4, <3>2, <4>2
    <3> QED BY <3>1, <3>2
  <2> QED BY <2>3, <2>6, <2>7, TrackedMapped
<1>3. CASE c.do = "close"
  <2>1. tracked' = Only(tracked, {t \in ToSet(tracked) : t.number # c.issue.number})
    BY <1>3 DEF MakeCall
  <2> QED BY <2>1, TrackedKept
<1> QED BY <1>1, <1>2, <1>3 DEF IssueCalls

\* The calls that are left after the first.
LEMMA CallsLeft ==
  ASSUME IssuesIInv, NEW p \in Sweeps, sweep[p].calls # <<>>
  PROVE  /\ Head(sweep[p].calls) \in ToSet(sweep[p].calls) /\ Head(sweep[p].calls) \in IssueCalls
         /\ Tail(sweep[p].calls) \in Seq(IssueCalls)
         /\ ToSet(Tail(sweep[p].calls)) \subseteq ToSet(sweep[p].calls)
<1>1. PICK s \in Seq(IssueCalls) : s = sweep[p].calls
  BY SweepIs
<1>2. s # <<>>
  BY <1>1
<1>3. PICK n \in Nat : n = Len(s) /\ DOMAIN s = 1 .. n
  BY LenProperties
<1>4. Head(s) \in IssueCalls /\ Tail(s) \in Seq(IssueCalls)
  BY <1>2, HeadTailProperties
<1>5. Head(s) = s[1] /\ 1 \in DOMAIN s
  BY <1>2, <1>3, EmptySeq
<1>6. Head(s) \in ToSet(s)
  BY <1>5 DEF ToSet
<1>7. PICK u : u = Tail(s)
  OBVIOUS
<1>8. \A i \in DOMAIN u : i + 1 \in DOMAIN s /\ u[i] = s[i + 1]
  <2>1. Len(u) = n - 1 /\ u \in Seq(IssueCalls) /\ \A i \in 1 .. n - 1 : u[i] = s[i + 1]
    BY <1>2, <1>3, <1>7, HeadTailProperties
  <2>2. DOMAIN u = 1 .. n - 1
    BY <2>1, LenProperties
  <2> QED BY <1>3, <2>1, <2>2
<1>9. ToSet(u) \subseteq ToSet(s)
  BY <1>8 DEF ToSet
<1> QED BY <1>1, <1>4, <1>6, <1>7, <1>9

LEMMA CallKeeps == ASSUME IssuesIInv, NEW p \in Sweeps, MakeCall(p) PROVE IssuesIInv'
<1>1. sweep[p].at = "calling" /\ sweep[p].calls # <<>> /\ UNCHANGED <<found, happenings, broken>>
      /\ sweep' = [sweep EXCEPT ![p].calls = Tail(sweep[p].calls)]
  BY DEF MakeCall
<1>2. PICK c : c = Head(sweep[p].calls) /\ c \in ToSet(sweep[p].calls) /\ c \in IssueCalls
  BY <1>1, CallsLeft
<1>3. TrackedGoesOn
  BY <1>2, CallGoesOn
<1>4. PICK cs \in Seq(IssueCalls) : cs = Tail(sweep[p].calls) /\ ToSet(cs) \subseteq ToSet(sweep[p].calls)
  BY <1>1, CallsLeft
<1>5. PICK r : r = [sweep[p] EXCEPT !.calls = cs]
  OBVIOUS
<1>6. sweep[p] \in SweepRecords
  BY SweepIs
<1>7. /\ r \in SweepRecords /\ r.at = sweep[p].at /\ r.saw = sweep[p].saw
      /\ r.desired = sweep[p].desired /\ r.calls = cs
  BY <1>5, <1>6 DEF SweepRecords
<1>8. sweep' = [sweep EXCEPT ![p] = r]
  BY <1>1, <1>4, <1>5
<1>9. sweep' \in [Sweeps -> SweepRecords] /\ sweep'[p] = r /\ \A q \in Sweeps \ {p} : sweep'[q] = sweep[q]
  BY <1>7, <1>8, SweepIs
<1>10. PassKept(p)'
  <2>1. PassKept(p) /\ GoesOnFor(p)
    BY <1>1, <1>3 DEF IssuesIInv, TrackedGoesOn
  <2>2. /\ sweep'[p].at = sweep[p].at /\ sweep'[p].saw = sweep[p].saw
        /\ sweep'[p].desired = sweep[p].desired
        /\ ToSet(sweep'[p].calls) \subseteq ToSet(sweep[p].calls)
    BY <1>4, <1>7, <1>9
  <2> QED BY <1>1, <2>1, <2>2, PassStays
<1>11. found' \in Findings /\ happenings' \in 0 .. MaxHappenings /\ broken' \in 0 .. MaxBrokenSweeps
  BY <1>1 DEF IssuesIInv, IssuesTyped
<1> QED BY <1>3, <1>9, <1>10, <1>11, StepKept

\* A pass that is over, or dies.
LEMMA PassEnds ==
  ASSUME IssuesIInv, NEW p \in Sweeps, sweep' = [sweep EXCEPT ![p] = NotSweeping],
         UNCHANGED <<found, tracked, happenings>>, broken' \in 0 .. MaxBrokenSweeps
  PROVE  IssuesIInv'
<1>1. NotSweeping \in SweepRecords /\ NotSweeping.calls = <<>> /\ NotSweeping.at = "idle"
  BY NoFindingsIs DEF NotSweeping, SweepRecords
<1>2. sweep' \in [Sweeps -> SweepRecords] /\ sweep'[p] = NotSweeping
      /\ \A q \in Sweeps \ {p} : sweep'[q] = sweep[q]
  BY <1>1, SweepIs
<1>3. PassKept(p)'
  <2>1. ToSet(<<>>) = {}
    BY DEF ToSet
  <2> QED BY <1>1, <1>2, <2>1 DEF PassKept
<1>4. TrackedGoesOn
  BY TrackedSame
<1>5. found' \in Findings /\ happenings' \in 0 .. MaxHappenings
  BY DEF IssuesIInv, IssuesTyped
<1> QED BY <1>2, <1>3, <1>4, <1>5, StepKept

\* What people do.
LEMMA PersonsKeep ==
  ASSUME IssuesIInv, PathChanges \/ PersonLabels \/ PersonCloses \/ PersonReopens
  PROVE  IssuesIInv' /\ UNCHANGED sweep
<1>1. UNCHANGED sweep /\ UNCHANGED broken
  BY DEF PathChanges, PersonLabels, PersonCloses, PersonReopens
<1>2. happenings' \in 0 .. MaxHappenings
  <2>1. Happens
    BY DEF PathChanges, PersonLabels, PersonCloses, PersonReopens
  <2> QED BY <2>1, IssuesAssumption DEF Happens, IssuesIInv, IssuesTyped
<1>3. found' \in Findings
  BY DEF PathChanges, PersonLabels, PersonCloses, PersonReopens, IssuesIInv, IssuesTyped
<1>4. TrackedGoesOn
  <2>1. CASE PathChanges
    BY <2>1, TrackedSame DEF PathChanges
  <2>2. CASE PersonLabels
    <3>1. PICK i \in DOMAIN tracked, how \in {"no", "label", "skip"} :
            tracked' = [tracked EXCEPT ![i].person = how, ![i].since = Underway]
      BY <2>2 DEF PersonLabels
    <3>2. PICK t \in Issues : t = tracked[i]
      BY TrackedIs
    <3>3. PICK u : u = [t EXCEPT !.person = how, !.since = Underway]
      OBVIOUS
    <3>4. Underway \in SUBSET Sweeps
      BY DEF Underway
    <3>5. u \in Issues /\ u.number = t.number /\ u.key = t.key /\ u.since = Underway
      BY <3>3, <3>4 DEF Issues
    <3>6. tracked' = [tracked EXCEPT ![i] = u]
      BY <3>1, <3>2, <3>3
    <3>7. /\ DOMAIN tracked' = DOMAIN tracked /\ tracked' = [j \in DOMAIN tracked' |-> tracked'[j]]
          /\ \A j \in DOMAIN tracked : tracked'[j] = IF j = i THEN u ELSE tracked[j]
      <4>1. tracked = [j \in DOMAIN tracked |-> tracked[j]]
        BY TrackedIs
      <4> QED BY <3>6, <4>1
    <3>8. \A j \in DOMAIN tracked :
            /\ tracked'[j] \in Issues
            /\ tracked'[j].number = tracked[j].number /\ tracked'[j].key = tracked[j].key
      BY <3>2, <3>5, <3>7, TrackedIs
    <3>9. ASSUME NEW j \in DOMAIN tracked, NEW q \in Sweeps,
                 sweep[q].at \in {"calling", "resize"}, q \notin tracked'[j].since
          PROVE  tracked'[j].person = tracked[j].person /\ q \notin tracked[j].since
      <4>1. q \in Underway
        BY <3>9 DEF Underway
      <4>2. j # i
        BY <3>5, <3>7, <3>9, <4>1
      <4> QED BY <3>7, <3>9, <4>2
    <3> QED BY <3>7, <3>8, <3>9, TrackedMapped
  <2>3. CASE PersonCloses
    BY <2>3, TrackedKept DEF PersonCloses
  <2>4. CASE PersonReopens
    <3>1. PICK k \in RuleKeys, n \in Numbers \ {t.number : t \in ToSet(tracked)}, l \in Severities :
            /\ \A t \in Referred : t.number = n => t.key = k
            /\ tracked' = Append(tracked, [Filed(n, k, [NoFindings EXCEPT ![k] = l]) EXCEPT !.since = Underway])
      BY <2>4 DEF PersonReopens
    <3>2. PICK f : f = [NoFindings EXCEPT ![k] = l]
      OBVIOUS
    <3>3. f \in Findings /\ k \in Reported(f)
      <4>1. l # 0
        BY IssuesAssumption
      <4> QED BY <3>2, <4>1 DEF NoFindings, Findings, Reported
    <3>4. PICK x : x = [Filed(n, k, f) EXCEPT !.since = Underway]
      OBVIOUS
    <3>5. Filed(n, k, f) \in Issues /\ Filed(n, k, f).number = n /\ Filed(n, k, f).key = k
      BY <3>3, FiledIs
    <3>6. Underway \in SUBSET Sweeps
      BY DEF Underway
    <3>7. x \in Issues /\ x.number = n /\ x.key = k /\ x.since = Underway
      BY <3>4, <3>5, <3>6 DEF Issues
    <3>8. NewTo(x)
      BY <3>1, <3>7 DEF NewTo
    <3> QED BY <3>1, <3>2, <3>4, <3>8, TrackedAdds
  <2> QED BY <2>1, <2>2, <2>3, <2>4
<1>5. broken' \in 0 .. MaxBrokenSweeps /\ sweep' \in [Sweeps -> SweepRecords]
  BY <1>1 DEF IssuesIInv, IssuesTyped
<1>6. \A q \in Sweeps : sweep'[q] = sweep[q]
  BY <1>1
<1> QED BY <1>1, <1>2, <1>3, <1>4, <1>5, <1>6, StepKept

LEMMA PassKeeps ==
  ASSUME IssuesIInv, NEW p \in Sweeps, SweepRuns(p) \/ SweepBreaks(p) \/ StartBeside(p)
  PROVE  IssuesIInv'
<1>1. broken \in 0 .. MaxBrokenSweeps
  BY DEF IssuesIInv, IssuesTyped
<1>2. CASE StartSweep(p)
  BY <1>1, <1>2, LeaseKeeps DEF StartSweep
<1>3. CASE StartBeside(p)
  <2>1. LeaseClone(p) /\ broken < MaxBrokenSweeps /\ broken' = broken + 1
    BY <1>3 DEF StartBeside
  <2>2. broken' \in 0 .. MaxBrokenSweeps
    BY <1>1, <2>1, IssuesAssumption
  <2> QED BY <2>1, <2>2, LeaseKeeps
<1>4. CASE SweepDone(p)
  BY <1>1, <1>4, PassEnds DEF SweepDone
<1>5. CASE SweepBreaks(p)
  <2>1. /\ broken < MaxBrokenSweeps /\ broken' = broken + 1
        /\ sweep' = [sweep EXCEPT ![p] = NotSweeping] /\ UNCHANGED <<found, tracked, happenings>>
    BY <1>5 DEF SweepBreaks
  <2>2. broken' \in 0 .. MaxBrokenSweeps
    BY <1>1, <2>1, IssuesAssumption
  <2> QED BY <2>1, <2>2, PassEnds
<1> QED BY <1>2, <1>3, <1>4, <1>5, OpenKeeps, ResizeKeeps, CallKeeps DEF SweepRuns

LEMMA IssuesStep == IssuesIInv /\ [IssuesNext]_issuesVars => IssuesIInv'
<1>1. ASSUME IssuesIInv, UNCHANGED issuesVars PROVE IssuesIInv'
  BY <1>1 DEF IssuesIInv, IssuesTyped, NumbersOnce, PassKept, CallKept, WantedKept, issuesVars
<1>2. ASSUME IssuesIInv, NEW p \in Sweeps, SweepRuns(p) \/ SweepBreaks(p) \/ StartBeside(p)
      PROVE  IssuesIInv'
  BY <1>2, PassKeeps
<1>3. ASSUME IssuesIInv, PathChanges \/ PersonLabels \/ PersonCloses \/ PersonReopens
      PROVE  IssuesIInv'
  BY <1>3, PersonsKeep
<1> QED BY <1>1, <1>2, <1>3, Zenon DEF IssuesNext

\* What earlier passes have filed.
AllNumbered(s) ==
  s \in Seq(Issues) /\ \A i, j \in DOMAIN s : s[i].number = s[j].number => i = j

Backlog(s, ks, f, o) == s = [i \in DOMAIN ks |-> [Filed(ks[i], ks[i], f) EXCEPT !.person = o]]

LEMMA BacklogIs ==
  ASSUME NEW f \in Findings, NEW o, o \in {"no", "label", "skip"}, NEW ks, ks = Sorted(Reported(f)),
         NEW s, Backlog(s, ks, f, o)
  PROVE  AllNumbered(s)
<1>1. PICK N \in Nat : N = Cardinality(Numbers) /\ Numbers \subseteq 1 .. N
  BY IssuesAssumption, FS_CardinalityType
<1>2. PICK S : S = Reported(f)
  OBVIOUS
<1>9. S \subseteq RuleKeys /\ S \in SUBSET (1 .. N)
  <2>1. S \subseteq RuleKeys
    BY <1>2 DEF Reported
  <2> QED BY <1>1, <2>1, IssuesAssumption
<1>3. InItsOrder(ks, S)
  BY <1>2, <1>9, SortedIs
<1>4. PICK n \in Nat : n = Cardinality(S) /\ DOMAIN ks = 1 .. n
  BY <1>3, LenProperties DEF InItsOrder
<1>5. ASSUME NEW i \in 1 .. n PROVE s[i] \in Issues /\ s[i].number = ks[i]
  <2>1. ks[i] \in S
    BY <1>3, <1>4 DEF InItsOrder
  <2>2. PICK k \in Reported(f) : k = ks[i] /\ k \in Numbers
    BY <1>2, <1>9, <2>1, IssuesAssumption
  <2>3. Filed(k, k, f) \in Issues /\ Filed(k, k, f).number = k
    BY <2>2, FiledIs
  <2>4. s[i] = [Filed(k, k, f) EXCEPT !.person = o]
    BY <1>4, <2>2 DEF Backlog
  <2> QED BY <2>2, <2>3, <2>4 DEF Issues
<1>6. s \in [1 .. n -> Issues]
  BY <1>4, <1>5 DEF Backlog
<1>7. s \in Seq(Issues)
  BY <1>6, FunctionIsSeq
<1>8. \A i, j \in 1 .. n : ks[i] = ks[j] => i = j
  BY <1>3, <1>4 DEF InItsOrder
<1>10. DOMAIN s = 1 .. n
  BY <1>6
<1> QED BY <1>5, <1>7, <1>8, <1>10 DEF AllNumbered

LEMMA IssuesStartInv == IssuesInit => IssuesIInv
<1> SUFFICES ASSUME IssuesInit PROVE IssuesIInv
  OBVIOUS
<1>1. /\ found \in Findings /\ sweep = [p \in Sweeps |-> NotSweeping]
      /\ happenings = 0 /\ broken = 0
  BY DEF IssuesInit
<1>2. PICK f \in Backlogs :
        tracked \in {[i \in DOMAIN Sorted(Reported(f)) |->
                        [Filed(Sorted(Reported(f))[i], Sorted(Reported(f))[i], f) EXCEPT !.person = person]] :
                       person \in {"no", "label", "skip"}}
  BY Zenon DEF IssuesInit
<1>3. PICK ks : ks = Sorted(Reported(f))
  OBVIOUS
<1>4. PICK o \in {"no", "label", "skip"} :
        tracked = [i \in DOMAIN ks |-> [Filed(ks[i], ks[i], f) EXCEPT !.person = o]]
  BY <1>2, <1>3
<1>5. f \in Findings
  BY IssuesAssumption DEF Findings
<1>6. tracked \in Seq(Issues) /\ NumbersOnce
  <2>1. AllNumbered(tracked)
    <3>1. Backlog(tracked, ks, f, o)
      BY <1>4, Zenon DEF Backlog
    <3> QED BY <1>3, <1>5, <3>1, BacklogIs
  <2> QED BY <2>1 DEF AllNumbered, NumbersOnce
<1>7. NotSweeping \in SweepRecords /\ NotSweeping.at = "idle" /\ NotSweeping.calls = <<>>
  BY NoFindingsIs DEF NotSweeping, SweepRecords
<1>8. sweep \in [Sweeps -> SweepRecords]
  BY <1>1, <1>7
<1>9. ASSUME NEW p \in Sweeps PROVE PassKept(p)
  <2>1. sweep[p] = NotSweeping
    BY <1>1
  <2> QED BY <1>7, <2>1, PassIdle
<1>10. happenings \in 0 .. MaxHappenings /\ broken \in 0 .. MaxBrokenSweeps
  BY <1>1, IssuesAssumption
<1> QED BY <1>1, <1>6, <1>8, <1>9, <1>10 DEF IssuesIInv, IssuesTyped

LEMMA IssuesSteps ==
  /\ AgentServiceInit => IssuesInit
  /\ [AgentServiceNext]_agentServiceVars => [IssuesNext]_issuesVars
<1>1. AgentServiceInit => IssuesInit
  BY DEF AgentServiceInit, IssuesStart
<1>2. [AgentServiceNext]_agentServiceVars => [IssuesNext]_issuesVars
  BY DEF AgentServiceNext, agentServiceVars, Runs
<1> QED BY <1>1, <1>2

LEMMA IssuesInvariant == AgentServiceSpec => []IssuesIInv
<1> QED BY IssuesStartInv, IssuesStep, IssuesSteps, PTL DEF AgentServiceSpec

\* The open issues have a number each, and the passes know findings and calls.
THEOREM IssuesAreTyped == AgentServiceSpec => []IssuesTypeOK
<1>1. IssuesIInv => IssuesTypeOK
  BY SweepIs DEF IssuesIInv, IssuesTyped, NumbersOnce, IssuesTypeOK, SweepRecords
<1> QED BY <1>1, IssuesInvariant, PTL

-----------------------------------------------------------------------------
(* What a pass does to the issues of people.                               *)

\* What an issue is owed that a pass has found as it is.
Respects(t) ==
  /\ t.person = "skip" => t \in ToSet(tracked')
  /\ t.person = "label" => \A u \in ToSet(tracked') : u.number = t.number => u.person = "label"

LEMMA CallRespects ==
  ASSUME IssuesIInv, NEW p \in Sweeps, MakeCall(p), NEW t \in ToSet(tracked), p \notin t.since
  PROVE  Respects(t)
<1>1. sweep[p].calls # <<>>
  BY DEF MakeCall
<1>2. PICK c : c = Head(sweep[p].calls) /\ c \in ToSet(sweep[p].calls) /\ c \in IssueCalls
  BY <1>1, CallsLeft
<1>3. CallKept(p, c, t)
  BY <1>2 DEF IssuesIInv, PassKept
<1>4. \A u \in ToSet(tracked) : u.number = t.number => u = t
  BY TrackedIs DEF IssuesIInv, NumbersOnce
<1>5. CASE c.do = "create"
  <2>1. PICK x : /\ tracked' = <<x>> \o tracked
                 /\ x.number \notin {u.number : u \in ToSet(tracked)}
                 /\ x \in Issues
    <3>1. PICK free : free = Numbers \ {u.number : u \in ToSet(tracked) \cup Referred}
      OBVIOUS
    <3>2. PICK x : x = [c.issue EXCEPT !.number = Min(free), !.since = Underway]
      OBVIOUS
    <3>3. free # {} /\ tracked' = <<x>> \o tracked
      BY <1>2, <1>5, <3>1, <3>2 DEF MakeCall
    <3>4. Min(free) \in free
      <4>1. \A n \in Numbers : n \in Nat
        BY IssuesAssumption, FS_CardinalityType
      <4>2. free \in SUBSET Nat
        BY <3>1, <4>1
      <4>3. \E n \in free : \A m \in free : n <= m
        BY <3>3, <4>2, SmallestExists
      <4> QED BY <4>3 DEF Min
    <3>5. Underway \in SUBSET Sweeps
      BY DEF Underway
    <3>6. PICK n \in Numbers : n = Min(free) /\ n \notin {u.number : u \in ToSet(tracked) \cup Referred}
      BY <3>1, <3>4
    <3>7. c.issue \in Issues
      BY <1>2 DEF IssueCalls
    <3>8. x \in Issues /\ x.number = n
      BY <3>2, <3>5, <3>6, <3>7 DEF Issues
    <3> QED BY <3>3, <3>6, <3>8
  <2>2. PutAmong(tracked', tracked, x)
    BY <2>1, TrackedIs, PutAmongIs
  <2>3. ASSUME NEW u \in ToSet(tracked) PROVE u \in ToSet(tracked')
    BY <2>2, TrackedIs DEF PutAmong, ToSet
  <2>4. ASSUME NEW u \in ToSet(tracked'), u.number = t.number PROVE u = t
    <3>1. u = x \/ u \in ToSet(tracked)
      <4>1. PICK k \in DOMAIN tracked' : u = tracked'[k]
        BY DEF ToSet
      <4>2. PICK a \in DOMAIN tracked' : \E f \in [DOMAIN tracked' -> {0} \cup DOMAIN tracked] :
              PutAt(tracked', tracked, x, a, f)
        BY <2>2 DEF PutAmong
      <4>3. k # a => u \in ToSet(tracked)
        BY <4>1, <4>2, TrackedIs DEF PutAt
      <4>4. k = a => u = x
        BY <4>1, <4>2 DEF PutAt
      <4> QED BY <4>3, <4>4
    <3> QED BY <1>4, <2>1, <2>4, <3>1
  <2> QED BY <2>3, <2>4 DEF Respects
<1>6. CASE c.do = "update"
  <2>1. tracked' = [i \in DOMAIN tracked |->
                      IF tracked[i].number # c.issue.number THEN tracked[i]
                      ELSE [c.issue EXCEPT !.since = Touched(tracked[i], c.issue)]]
    BY <1>2, <1>6 DEF MakeCall
  <2>2. c.issue \in Issues
    BY <1>2 DEF IssueCalls
  <2>3. PICK j \in DOMAIN tracked : t = tracked[j]
    BY TrackedIs
  <2>4. ASSUME t.person = "skip" PROVE t \in ToSet(tracked')
    <3>1. t.number # c.issue.number
      BY <1>3, <1>6, <2>4 DEF CallKept
    <3>2. tracked'[j] = t /\ j \in DOMAIN tracked'
      BY <2>1, <2>3, <3>1
    <3> QED BY <3>2 DEF ToSet
  <2>5. ASSUME t.person = "label", NEW u \in ToSet(tracked'), u.number = t.number
        PROVE  u.person = "label"
    <3>1. PICK i \in DOMAIN tracked : u = tracked'[i]
      BY <2>1 DEF ToSet
    <3>2. tracked[i] \in ToSet(tracked)
      BY TrackedIs
    <3>3. CASE tracked[i].number # c.issue.number
      <4>1. u = tracked[i]
        BY <2>1, <3>1, <3>3
      <4> QED BY <1>4, <2>5, <3>2, <4>1
    <3>4. CASE tracked[i].number = c.issue.number
      <4>1. u = [c.issue EXCEPT !.since = Touched(tracked[i], c.issue)]
        BY <2>1, <3>1, <3>4
      <4>2. u.number = c.issue.number /\ u.person = c.issue.person
        BY <2>2, <4>1 DEF Issues
      <4> QED BY <1>3, <1>6, <2>5, <4>2 DEF CallKept
    <3> QED BY <3>3, <3>4
  <2> QED BY <2>4, <2>5 DEF Respects
<1>7. CASE c.do = "close"
  <2>1. PICK S : S = {u \in ToSet(tracked) : u.number # c.issue.number}
    OBVIOUS
  <2>2. tracked' = Only(tracked, S)
    BY <1>2, <1>7, <2>1 DEF MakeCall
  <2>3. KeptOf(tracked', tracked, S, Issues)
    BY <2>2, TrackedIs, OnlyIs
  <2>4. ASSUME t.person = "skip" PROVE t \in ToSet(tracked')
    <3>1. t \in S
      BY <1>3, <1>7, <2>1, <2>4 DEF CallKept
    <3>2. \E i \in DOMAIN tracked : tracked[i] = t
      BY TrackedIs
    <3> QED BY <2>3, <3>1, <3>2 DEF KeptOf, ToSet
  <2>5. ASSUME NEW u \in ToSet(tracked') PROVE u \in ToSet(tracked)
    <3>1. PICK f \in [DOMAIN tracked' -> DOMAIN tracked] :
            \A k \in DOMAIN tracked' : tracked'[k] = tracked[f[k]]
      BY <2>3 DEF KeptOf
    <3> QED BY <3>1 DEF ToSet
  <2> QED BY <1>4, <2>4, <2>5 DEF Respects
<1> QED BY <1>2, <1>5, <1>6, <1>7 DEF IssueCalls

\* A pass that is making its calls does so, or is over.
LEMMA WhoCalls ==
  ASSUME IssuesIInv, IssuesNext, NEW p \in Sweeps, sweep[p].at = "calling", sweep'[p] # sweep[p]
  PROVE  MakeCall(p) \/ UNCHANGED tracked
<1>1. ASSUME NEW q \in Sweeps, SweepRuns(q) \/ SweepBreaks(q) \/ StartBeside(q)
      PROVE  MakeCall(p) \/ UNCHANGED tracked
  <2>2. ASSUME StartSweep(q) \/ StartBeside(q) PROVE FALSE
    <3>1. LeaseClone(q)
      BY <2>2 DEF StartSweep, StartBeside
    <3>2. q # p
      BY <3>1 DEF LeaseClone
    <3>3. sweep'[p] = sweep[p]
      BY <3>1, <3>2, SweepIs DEF LeaseClone
    <3> QED BY <3>3
  <2>3. ASSUME MakeCall(q) PROVE q = p
    BY <2>3, SweepIs DEF MakeCall
  <2>4. ASSUME OpenIssueSession(q) \/ ResizeSession(q) \/ SweepDone(q) \/ SweepBreaks(q)
        PROVE  UNCHANGED tracked
    BY <2>4 DEF OpenIssueSession, ResizeSession, SweepDone, SweepBreaks
  <2> QED BY <1>1, <2>2, <2>3, <2>4 DEF SweepRuns
<1>2. ASSUME PathChanges \/ PersonLabels \/ PersonCloses \/ PersonReopens PROVE FALSE
  BY <1>2, PersonsKeep
<1> QED BY <1>1, <1>2, Zenon DEF IssuesNext

RespectStep ==
  \A p \in Sweeps :
    sweep[p].at = "calling" /\ sweep'[p] # sweep[p] =>
      \A t \in ToSet(tracked) :
        p \notin t.since =>
          /\ t.person = "skip" => t \in ToSet(tracked')
          /\ t.person = "label" =>
               \A u \in ToSet(tracked') : u.number = t.number => u.person = "label"

LEMMA StepRespects == IssuesIInv /\ [IssuesNext]_issuesVars => [RespectStep]_issuesVars
<1>1. ASSUME IssuesIInv, IssuesNext, NEW p \in Sweeps, sweep[p].at = "calling", sweep'[p] # sweep[p],
             NEW t \in ToSet(tracked), p \notin t.since
      PROVE  Respects(t)
  <2>1. CASE MakeCall(p)
    BY <1>1, <2>1, CallRespects
  <2>2. CASE UNCHANGED tracked
    <3>1. \A u \in ToSet(tracked') : u.number = t.number => u = t
      BY <1>1, <2>2, TrackedIs DEF IssuesIInv, NumbersOnce
    <3>2. t \in ToSet(tracked')
      BY <2>2
    <3> QED BY <3>1, <3>2 DEF Respects
  <2> QED BY <1>1, <2>1, <2>2, WhoCalls
<1>2. ASSUME IssuesIInv, IssuesNext PROVE RespectStep
  BY <1>1, <1>2 DEF RespectStep, Respects
<1> QED BY <1>2

\* A pass that plans its calls wants whatever is reported and was open before.
Planning(p, desired) ==
  /\ PlanCalls(p, desired) /\ UNCHANGED <<found, tracked, happenings, broken>>
  /\ desired \in Seq(Reported(sweep[p].saw))
  /\ \A t \in ToSet(tracked) :
       (t.key \in Reported(sweep[p].saw) /\ p \notin t.since) => t.key \in ToSet(desired)

LEMMA WhoPlans ==
  ASSUME IssuesIInv, IssuesNext, NEW p \in Sweeps,
         sweep[p].at # "calling", sweep'[p].at = "calling"
  PROVE  \E desired : Planning(p, desired)
<1>1. ASSUME NEW q \in Sweeps, SweepRuns(q) \/ SweepBreaks(q) \/ StartBeside(q)
      PROVE  OpenIssueSession(p) \/ ResizeSession(p)
  <2>1. ASSUME LeaseClone(q) PROVE FALSE
    BY <2>1, SweepIs DEF LeaseClone
  <2>2. ASSUME OpenIssueSession(q) PROVE q = p
    BY <2>2, SweepIs DEF OpenIssueSession, PlanCalls
  <2>3. ASSUME ResizeSession(q) PROVE q = p
    BY <2>3, SweepIs DEF ResizeSession, PlanCalls
  <2>4. ASSUME MakeCall(q) PROVE FALSE
    BY <2>4, SweepIs DEF MakeCall
  <2>5. ASSUME SweepDone(q) \/ SweepBreaks(q) PROVE FALSE
    BY <2>5, SweepIs DEF SweepDone, SweepBreaks, NotSweeping
  <2> QED BY <1>1, <2>1, <2>2, <2>3, <2>4, <2>5 DEF SweepRuns, StartSweep, StartBeside
<1>2. ASSUME PathChanges \/ PersonLabels \/ PersonCloses \/ PersonReopens PROVE FALSE
  BY <1>2, PersonsKeep
<1>3. CASE OpenIssueSession(p)
  <2>1. PICK d : d = truncateDesired(Sorted(Reported(sweep[p].saw)), TrackedKeys(tracked))
    OBVIOUS
  <2>2. DesiredOf(p, d)
    BY <2>1, DesiredIs
  <2>3. /\ UNCHANGED <<found, tracked, happenings, broken>>
        /\ \/ sweep' = [sweep EXCEPT ![p].at = "resize", ![p].desired = d]
           \/ PlanCalls(p, d)
    BY <1>3, <2>1 DEF OpenIssueSession
  <2>4. ASSUME sweep' = [sweep EXCEPT ![p].at = "resize", ![p].desired = d] PROVE FALSE
    BY <2>4, SweepIs DEF SweepRecords
  <2>5. Planning(p, d)
    BY <2>2, <2>3, <2>4 DEF Planning, DesiredOf
  <2> QED BY <2>5
<1>4. CASE ResizeSession(p)
  <2>1. Planning(p, sweep[p].desired)
    BY <1>4 DEF ResizeSession, Planning, IssuesIInv, PassKept, WantedKept
  <2> QED BY <2>1
<1> QED BY <1>1, <1>2, <1>3, <1>4, Zenon DEF IssuesNext

CloseStep ==
  \A p \in Sweeps :
    sweep[p].at # "calling" /\ sweep'[p].at = "calling" =>
      \A c \in ToSet(sweep'[p].calls) :
        c.do = "close" =>
          \/ c.issue.key \notin Reported(sweep[p].saw) \/ p \in c.issue.since
          \/ tracked[Matching(tracked, c.issue.key)] # c.issue

LEMMA StepCloses == IssuesIInv /\ [IssuesNext]_issuesVars => [CloseStep]_issuesVars
<1>1. ASSUME IssuesIInv, IssuesNext, NEW p \in Sweeps,
             sweep[p].at # "calling", sweep'[p].at = "calling",
             NEW c \in ToSet(sweep'[p].calls), c.do = "close",
             c.issue.key \in Reported(sweep[p].saw), p \notin c.issue.since
      PROVE  tracked[Matching(tracked, c.issue.key)] # c.issue
  <2>1. PICK desired : Planning(p, desired)
    BY <1>1, WhoPlans
  <2>2. CallOn(c, desired, tracked, sweep[p].saw)
    BY <1>1, <2>1, PlanKept DEF Planning
  <2>3. PICK i \in DOMAIN tracked :
          /\ c.issue = tracked[i]
          /\ \A k \in ToSet(desired) :
               Matching(tracked, k) # 0 => tracked[Matching(tracked, k)] # tracked[i]
    BY <1>1, <2>2 DEF CallOn
  <2>4. tracked[i] \in ToSet(tracked) /\ tracked \in Seq(Issues)
    BY <1>1, TrackedIs
  <2>5. c.issue.key \in ToSet(desired)
    BY <1>1, <2>1, <2>3, <2>4 DEF Planning
  <2>6. Matching(tracked, c.issue.key) # 0
    BY <2>3, <2>4, MatchingIs
  <2> QED BY <2>3, <2>5, <2>6
<1>2. ASSUME IssuesIInv, IssuesNext PROVE CloseStep
  BY <1>1, <1>2 DEF CloseStep
<1> QED BY <1>2

\* A pass leaves an issue alone that had the skip label when it began, and keeps
\* a label that someone had put before, however late its calls arrive, whichever
\* passes overlap and whatever people do (metapathreconciler, issuemanager).
THEOREM PersonsAreRespected == AgentServiceSpec => PersonsRespected
<1>1. IssuesIInv /\ [AgentServiceNext]_agentServiceVars => [RespectStep]_issuesVars
  BY StepRespects, IssuesSteps
<1>2. PersonsRespected <=> [][RespectStep]_issuesVars
  BY PTL DEF PersonsRespected, RespectStep
<1> QED BY <1>1, <1>2, IssuesInvariant, PTL DEF AgentServiceSpec

\* A pass closes an issue only when its finding is not reported any more, or the
\* listing has another issue of the same finding before it: never for the cap.
\* Exempt is an issue that came between the two listings of the pass.
THEOREM OnlyUnreportedClosed == AgentServiceSpec => ClosedOnlyUnreported
<1>1. IssuesIInv /\ [AgentServiceNext]_agentServiceVars => [CloseStep]_issuesVars
  BY StepCloses, IssuesSteps
<1>2. ClosedOnlyUnreported <=> [][CloseStep]_issuesVars
  BY PTL DEF ClosedOnlyUnreported, CloseStep
<1> QED BY <1>1, <1>2, IssuesInvariant, PTL DEF AgentServiceSpec

-----------------------------------------------------------------------------
(* The parts together.                                                     *)

\* Each part keeps what it promises, whichever of them the behaviour is of: the
\* markers of a request, the results on a head, the temporary files, the checks
\* that run again, the pages and the trace.
THEOREM PartsAreSound == AgentServiceSpec => []PartsSound
<1>1. /\ MarkersBounded /\ HeadJudgedRightly /\ NothingLeft /\ FindingToolsSound
      /\ PagesTile /\ WholeCharacters /\ TracingSound
      => PartsSound
  BY DEF PartsSound
<1> QED
  BY <1>1, RunsAreTyped, HeadsShowTheirOwn, EditsCleanUp, ToolsRunOnce, PagesGiveAll,
     TracesTell, PTL

\* The state of every part keeps its types: executors, file tools, finding tools,
\* readers, issues, reviews and traces.
THEOREM PartsAreTyped == AgentServiceSpec => []AgentServiceTypeOK
<1>1. AgentServiceInit => part \in Parts
  BY DEF AgentServiceInit
<1>2. part \in Parts /\ [AgentServiceNext]_agentServiceVars => (part \in Parts)'
  BY DEF AgentServiceNext, agentServiceVars, Runs
<1>3. ToolsIInv => FindingToolsTypeOK
  BY DEF ToolsIInv
<1>4. ReviewIInv => ReviewTypeOK
  BY DEF ReviewIInv
<1>5. AgentServiceSpec => [](part \in Parts)
  BY <1>1, <1>2, PTL DEF AgentServiceSpec
<1>6. /\ part \in Parts /\ TypeOK /\ FilesTypeOK /\ FindingToolsTypeOK /\ PagesTypeOK
      /\ IssuesTypeOK /\ ReviewTypeOK /\ TracingTypeOK
      => AgentServiceTypeOK
  BY DEF AgentServiceTypeOK
<1> QED
  BY <1>3, <1>4, <1>5, <1>6, RunsAreTyped, ToolsInvariant, ReviewInvariant, PagesGiveAll,
     IssuesAreTyped, TracesTell, FilesTypedInvariant, PTL

=============================================================================
