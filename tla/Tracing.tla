-------------------------------- MODULE Tracing --------------------------------
(***************************************************************************)
(* The trace of an agent's run and the events made of it                   *)
(* (src/agents/agenttrace).  A run traces its turns and the tool calls in  *)
(* them, which run at once; a turn with a recorded prompt is sent as an    *)
(* event when it ends, and the whole trace when the run returns.  A run    *)
(* that parks leaves a suspended trace and goes on in a trace of its own.  *)
(*                                                                         *)
(* Events are sealed as they are made, delivered in the background and     *)
(* retried, and flushed before the process exits.                          *)
(***************************************************************************)
EXTENDS Integers, Sequences, FiniteSets, SequencesExt

CONSTANTS
  Tracers,          \* [sealed, payloads, ownIDs : BOOLEAN]: whether there is an encryptor,
                    \* payloads are opted in, and tool calls have identifiers
  TracedCalls,      \* tool calls of a run
  MaxTracedTurns,   \* turns of one run, over its pauses
  MaxPauses,        \* times a parked run is resumed
  ceMaxInflight,    \* events being delivered at once
  ceMaxRetry,       \* retries of one delivery
  maxPayloadBytes,  \* cap of a recorded payload
  Payloads          \* payloads to be recorded, by the encoded width of their bytes

ASSUME TracingAssumption ==
  /\ Tracers # {} /\ Tracers \subseteq [sealed : BOOLEAN, payloads : BOOLEAN, ownIDs : BOOLEAN]
  /\ {MaxTracedTurns, ceMaxInflight} \subseteq Nat \ {0}
  /\ {MaxPauses, ceMaxRetry} \subseteq Nat
  /\ maxPayloadBytes \in Nat \ {0, 1}
  /\ Payloads \subseteq Seq(Nat \ {0})

VARIABLES
  tracer,    \* what the tracer and the context of the run were set up with
  traces,    \* the traces of the run, the last one live
  tools,     \* what each tool call is at
  stage,     \* where the executor is
  outgoing,  \* the event that waits for a delivery slot, if any
  sending,   \* events being delivered, with the retries used
  arrived,   \* events the broker has
  lost,      \* identifiers of the events that will never arrive
  payload    \* a payload being cut to size

SomeTracer == CHOOSE t \in Tracers : TRUE

tracingVars ==
  <<tracer, traces, tools, stage, outgoing, sending, arrived, lost, payload>>

\* The spans a context stands in: the run's root span, or one of its turns.
Root == 0

\* Gemini may leave the identifiers of its calls empty.
IDOf(c) == IF tracer.ownIDs THEN <<c>> ELSE <<>>

live == Len(traces)

\* The turns of a run are counted through its pauses.
TurnsIn(ts) == Cardinality(UNION {{t} \X DOMAIN ts[t].turns : t \in DOMAIN ts})

NewTrace(linked) ==
  [linked |-> linked, ctx |-> Root, turns |-> <<>>, calls |-> <<>>, reasoning |-> FALSE,
   request |-> FALSE, response |-> FALSE, end |-> "none", rootEnds |-> 0]

NoPayload == [source |-> <<>>, kept |-> <<>>, cut |-> "fits"]

TracingInit(tracers, payloads) ==
  /\ tracer \in tracers
  /\ traces = <<>>
  /\ tools = [c \in TracedCalls |-> "idle"]
  /\ stage = "start"
  /\ outgoing = <<>> /\ sending = {} /\ arrived = {} /\ lost = {}
  /\ payload \in {NoPayload} \cup {[source |-> p, kept |-> p, cut |-> "new"] : p \in payloads}
  /\ payload # NoPayload => tracer.payloads

-----------------------------------------------------------------------------

\* The executor is at a stage and not held up by a delivery slot.
Reached(s) == stage = s /\ outgoing = <<>>

RestUntouched == UNCHANGED <<tracer, tools, outgoing, sending, arrived, lost, payload>>

\* A resumed run starts a trace of its own, linked to the one that was suspended.
StartTrace ==
  /\ Reached("start")
  /\ payload.cut = "fits"
  /\ traces' = Append(traces, NewTrace(live))
  /\ stage' = "loop"
  /\ RestUntouched

\* The turn's span becomes the parent of what starts during the turn.  RecordRequest
\* stores the prompt only where payloads are enabled.
BeginTracedTurn ==
  /\ Reached("loop")
  /\ TurnsIn(traces) < MaxTracedTurns
  /\ traces' = [traces EXCEPT ![live].ctx = TurnsIn(traces) + 1,
                              ![live].request = tracer.payloads,
                              ![live].response = FALSE]
  /\ stage' = "turn"
  /\ RestUntouched

\* The answer came: its payload is recorded, and what the model thought, and the
\* tool calls in it start.
RecordResponse ==
  /\ Reached("turn")
  /\ traces' = [traces EXCEPT ![live].response = tracer.payloads,
                              ![live].reasoning = @ \/ tracer.payloads]
  /\ stage' = "calls"
  /\ \E started \in SUBSET {c \in TracedCalls : tools[c] = "idle"} :
       tools' = [c \in TracedCalls |-> IF c \in started THEN "running" ELSE tools[c]]
  /\ UNCHANGED <<tracer, outgoing, sending, arrived, lost, payload>>

\* A call's record: in the span it was made in, without a reason so far.
RecordOf(c) == [call |-> c, id |-> IDOf(c), parent |-> traces[live].ctx, reasoning |-> {}]

\* A handler returns; only then is its call part of the trace.
CompleteToolCall(c) ==
  /\ stage = "calls" /\ tools[c] = "running"
  /\ traces' = [traces EXCEPT ![live].calls = Append(@, RecordOf(c))]
  /\ tools' = [tools EXCEPT ![c] = "handled"]
  /\ UNCHANGED <<tracer, stage, outgoing, sending, arrived, lost, payload>>

\* A handler that found its arguments bad returns without a record.
BailOut(c) ==
  /\ stage = "calls" /\ tools[c] = "running"
  /\ tools' = [tools EXCEPT ![c] = "unrecorded"]
  /\ UNCHANGED <<tracer, traces, stage, outgoing, sending, arrived, lost, payload>>

\* A call that names no tool is recorded at once, with a span of its own.
BadToolCall(c) ==
  /\ stage = "calls" /\ tools[c] = "running"
  /\ traces' = [traces EXCEPT ![live].calls = Append(@, RecordOf(c))]
  /\ tools' = [tools EXCEPT ![c] = "over"]
  /\ UNCHANGED <<tracer, stage, outgoing, sending, arrived, lost, payload>>

\* The last record with the call's identifier, if there is one.
RecordedAs(id) ==
  {i \in DOMAIN traces[live].calls :
     /\ traces[live].calls[i].id = id
     /\ \A j \in DOMAIN traces[live].calls : j > i => traces[live].calls[j].id # id}

\* What the model said of a call joins its record, unless that has a reason already.
AttachToolCallReasoning(c) ==
  /\ stage = "calls" /\ tools[c] \in {"handled", "unrecorded"}
  /\ traces' = [traces EXCEPT ![live].calls =
                  [i \in DOMAIN @ |->
                     IF i \in RecordedAs(IDOf(c)) /\ @[i].reasoning = {}
                     THEN [@[i] EXCEPT !.reasoning = {c}] ELSE @[i]]]
  /\ tools' = [tools EXCEPT ![c] = IF @ = "handled" THEN "over" ELSE "left out"]
  /\ UNCHANGED <<tracer, stage, outgoing, sending, arrived, lost, payload>>

Returned == \A c \in TracedCalls : tools[c] \in {"idle", "over", "left out"}

Finalized(t, end) ==
  IF t.end = "none" THEN [t EXCEPT !.end = end, !.rootEnds = @ + 1] ELSE t

\* The run parks: the trace is closed before the turn is.
SuspendTrace ==
  /\ Reached("calls") /\ Returned
  /\ traces' = [traces EXCEPT ![live] = Finalized(@, "suspended")]
  /\ stage' = "parking"
  /\ RestUntouched

\* What an event carries of a text that is there.
Form(there) == IF ~there THEN "none" ELSE IF tracer.sealed THEN "sealed" ELSE "clear"

SpanEvent(t, i) ==
  [id |-> <<live, i>>, tells |-> <<i>>, prompt |-> Form(t.request),
   reply |-> Form(t.response)]

\* The prompt of the whole run is part of its trace, whatever is enabled.
TraceEvent(t) ==
  [id |-> <<live, Root>>, tells |-> <<t.turns, t.calls, t.end>>, prompt |-> Form(TRUE),
   reply |-> Form(t.reasoning)]

\* An event is sealed when it is made, under a key wrapped for it; where that fails
\* it is dropped.
Emit(event) ==
  \/ outgoing' = <<event>> /\ UNCHANGED lost
  \/ tracer.sealed /\ lost' = lost \cup {event.id} /\ UNCHANGED outgoing

\* The turn ends: its context gives way to the one before, its record joins the
\* trace, and its event is made where there is a prompt to show.
EndTracedTurn ==
  /\ stage \in {"turn", "calls", "parking"} /\ outgoing = <<>> /\ Returned
  /\ \E next \in IF stage = "parking" THEN {"leave"} ELSE {"loop", "fail", "leave"} :
       /\ stage' = next
       /\ traces' = [traces EXCEPT
            ![live].ctx = Root,
            ![live].turns = Append(@, [index |-> traces[live].ctx, failed |-> next = "fail"])]
  /\ IF traces[live].request
     THEN Emit(SpanEvent(traces[live], traces[live].ctx))
     ELSE UNCHANGED <<outgoing, lost>>
  /\ UNCHANGED <<tracer, tools, sending, arrived, payload>>

\* The run returns: the trace is closed with its error or without.
Complete ==
  /\ outgoing = <<>>
  /\ \/ stage = "loop" /\ TurnsIn(traces) = MaxTracedTurns
     \/ stage \in {"fail", "leave"}
  /\ traces' = [traces EXCEPT ![live] =
                  Finalized(@, IF stage = "leave" THEN "ok" ELSE "error")]
  /\ stage' = "record"
  /\ RestUntouched

RecordTrace ==
  /\ Reached("record")
  /\ Emit(TraceEvent(traces[live]))
  /\ stage' = "recorded"
  /\ UNCHANGED <<tracer, traces, tools, sending, arrived, payload>>

\* The answer a parked run waits for may come in this process.
ResumeInNewTrace ==
  /\ Reached("recorded") /\ traces[live].end = "suspended" /\ live <= MaxPauses
  /\ stage' = "start"
  /\ UNCHANGED traces /\ RestUntouched

\* The process is told to go, and flushes what is being delivered.
Leave ==
  /\ Reached("recorded")
  /\ stage' = "draining"
  /\ UNCHANGED traces /\ RestUntouched

Drain ==
  /\ stage = "draining" /\ sending = {}
  /\ stage' = "exited"
  /\ UNCHANGED traces /\ RestUntouched

-----------------------------------------------------------------------------

\* A delivery gets a slot, or whoever made the event waits for one.
Send ==
  /\ outgoing # <<>> /\ Cardinality(sending) < ceMaxInflight
  /\ sending' = sending \cup {[event |-> outgoing[1], retries |-> 0]}
  /\ outgoing' = <<>>
  /\ UNCHANGED <<tracer, traces, tools, stage, arrived, lost, payload>>

\* One attempt: the event may arrive and its answer be lost.
Deliver(s) ==
  /\ \E arrives, answered \in BOOLEAN :
       /\ answered => arrives
       /\ arrived' = IF arrives THEN arrived \cup {s.event} ELSE arrived
       /\ sending' = (sending \ {s}) \cup
            (IF ~answered /\ s.retries < ceMaxRetry
             THEN {[s EXCEPT !.retries = @ + 1]} ELSE {})
       /\ lost' = IF s.retries = ceMaxRetry /\ s.event \notin arrived'
                  THEN lost \cup {s.event.id} ELSE lost
  /\ UNCHANGED <<tracer, traces, tools, stage, outgoing, payload>>

-----------------------------------------------------------------------------

\* Quotes around the escaped bytes, each of its width.
EncodedLength(p) == 2 + Cardinality(UNION {{n} \X (1 .. p[n]) : n \in DOMAIN p})

truncatePayload(p) == IF Len(p) <= maxPayloadBytes THEN p ELSE SubSeq(p, 1, maxPayloadBytes)

\* A payload over the cap is cut, and its encoding again by what it is over.
preparePayload ==
  /\ stage = "start" /\ payload.cut \in {"new", "shrinking"}
  /\ LET raw  == truncatePayload(payload.kept)
         over == EncodedLength(raw) - maxPayloadBytes
     IN payload' =
          IF payload.cut = "new" /\ raw = payload.kept THEN [payload EXCEPT !.cut = "whole"]
          ELSE IF over <= 0 THEN [payload EXCEPT !.kept = raw, !.cut = "cut"]
          ELSE IF over >= Len(raw) THEN [payload EXCEPT !.kept = <<>>, !.cut = "cut"]
          ELSE [payload EXCEPT !.kept = SubSeq(raw, 1, Len(raw) - over), !.cut = "shrinking"]
  /\ UNCHANGED <<tracer, traces, tools, stage, outgoing, sending, arrived, lost>>

-----------------------------------------------------------------------------

RunSteps ==
  \/ StartTrace \/ BeginTracedTurn \/ RecordResponse \/ SuspendTrace \/ EndTracedTurn \/ Complete
  \/ RecordTrace \/ ResumeInNewTrace
  \/ \E c \in TracedCalls : \/ CompleteToolCall(c) \/ BailOut(c) \/ BadToolCall(c)
                            \/ AttachToolCallReasoning(c)

TracingNext ==
  \/ RunSteps \/ Leave \/ Drain \/ Send \/ preparePayload
  \/ \E s \in sending : Deliver(s)

TracingTypeOK ==
  /\ tracer \in Tracers
  /\ Len(traces) <= MaxPauses + 1
  /\ stage \in {"start", "loop", "turn", "calls", "parking", "fail", "leave", "record",
                "recorded", "draining", "exited"}
  /\ Len(outgoing) <= 1
  /\ tools \in [TracedCalls -> {"idle", "running", "handled", "unrecorded", "over", "left out"}]

-----------------------------------------------------------------------------

\* The events on their way and those that came.
Events == arrived \cup {s.event : s \in sending} \cup Range(outgoing)

\* With an encryptor nothing of a prompt, an answer or a thought leaves in the clear,
\* and without the opt-in none of it but the run's prompt leaves at all.
NothingInTheClear ==
  \A e \in Events :
    /\ tracer.sealed => "clear" \notin {e.prompt, e.reply}
    /\ ~tracer.payloads => e.id[2] = Root /\ e.reply = "none"

\* The recorded calls of all traces, each at its place.
AllRecords ==
  UNION {{[call |-> traces[t].calls[i].call, at |-> <<t, i>>] : i \in DOMAIN traces[t].calls} :
           t \in DOMAIN traces}

\* What came of a trace is the trace: two events with one identifier are one event,
\* which says how the run went, turn after turn, and every call that was recorded
\* once, under the turn it belongs to.
EventsTell ==
  /\ \A e, f \in Events : e.id = f.id => e = f
  /\ \A e \in Events :
       e.id[2] = Root => e.tells = <<traces[e.id[1]].turns, traces[e.id[1]].calls,
                                     traces[e.id[1]].end>>
  /\ \A t \in DOMAIN traces :
       /\ \A i \in DOMAIN traces[t].turns :
            traces[t].turns[i].index = TurnsIn(SubSeq(traces, 1, t - 1)) + i
       /\ \A i \in DOMAIN traces[t].calls : traces[t].calls[i].parent # Root
       /\ traces[t].ctx \in {Root, TurnsIn(traces) + 1}
  /\ \A c \in TracedCalls :
       Cardinality({r \in AllRecords : r.call = c})
         = (IF tools[c] \in {"handled", "over"} THEN 1 ELSE 0)

\* A reason is attached to the call it was given for, where calls have identifiers.
ReasonsBelong ==
  tracer.ownIDs =>
    \A t \in DOMAIN traces : \A i \in DOMAIN traces[t].calls :
      traces[t].calls[i].reasoning \subseteq {traces[t].calls[i].call}

\* The root span ends once; a run that parked is never closed as one that failed.
ClosedOnce ==
  \A t \in DOMAIN traces :
    /\ traces[t].rootEnds = (IF traces[t].end = "none" THEN 0 ELSE 1)
    /\ t < live => traces[t].end = "suspended" /\ traces[t + 1].linked = t
    /\ traces[t].end = "suspended" =>
         \A i \in DOMAIN traces[t].turns : ~traces[t].turns[i].failed

\* Deliveries stay within their slots, and when the process goes nothing is left that
\* was neither delivered nor given up.
Flushed ==
  /\ Cardinality(sending) <= ceMaxInflight
  /\ stage = "exited" =>
       \A t \in DOMAIN traces : \E id \in lost \cup {e.id : e \in arrived} : id = <<t, Root>>

\* What is recorded of a payload is its beginning, within the cap.
PayloadsFit ==
  payload.cut \in {"whole", "cut"} =>
    /\ IsPrefix(payload.kept, payload.source)
    /\ (payload.cut = "whole" => payload.kept = payload.source)
    /\ (IF payload.cut = "whole" THEN Len(payload.kept) ELSE EncodedLength(payload.kept))
         <= maxPayloadBytes

TracingSound ==
  NothingInTheClear /\ EventsTell /\ ReasonsBelong /\ ClosedOnce /\ Flushed /\ PayloadsFit

\* A run's trace is delivered or given up before the process goes.
TracingEnded == stage = "exited" \/ payload.cut \in {"whole", "cut"}

=============================================================================
