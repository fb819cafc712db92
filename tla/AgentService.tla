----------------------------- MODULE AgentService -----------------------------
(***************************************************************************)
(* An agent's run, its trace, the tools it calls, and what reconcilers     *)
(* file and report of its findings.                                        *)
(* The parts share no state, so each behaviour is of one of them and       *)
(* leaves the others at rest.                                              *)
(***************************************************************************)
EXTENDS Executors, FileTools, FindingTools, Pages, PathIssues, PathReview,
        Tracing

VARIABLE part

agentServiceVars ==
  <<part, vars, issuesVars, reviewVars, filesVars, pagesVars, findingToolsVars,
    tracingVars>>

\* How a part starts, and the one state it has in the behaviours of another.
ExecutorStarts ==
  (part # "executor" => provider = "openai" /\ heldOutTools = {}) /\ Init

IssuesStart == (part # "issues" => found = NoFindings /\ tracked = <<>>) /\ IssuesInit

ReviewStarts ==
  /\ part # "review" =>
       /\ pull = [head |-> 1, skip |-> FALSE, ours |-> TRUE, mode |-> "fix"]
       /\ content = [h \in Heads |-> "empty"]
  /\ ReviewInit

\* A turn without tool calls in an empty directory.
NoTurn ==
  /\ backing = "git" /\ calls = <<>> /\ doing = <<>> /\ disk = <<>>
  /\ names = [x \in Names |-> 0] /\ before = Tree

FilesStart == IF part = "files" THEN FilesInit ELSE NoTurn

PagesStart ==
  (part # "pages" => reader = "git read" /\ source = <<>> /\ limit = -1) /\ PagesInit

\* A run that has not begun, and no payload to record.
TracingStarts ==
  IF part = "tracing" THEN TracingInit(Tracers, Payloads) ELSE TracingInit({SomeTracer}, {})

Parts == {"executor", "files", "findings", "pages", "issues", "review", "tracing"}

AgentServiceInit ==
  /\ part \in Parts /\ ExecutorStarts /\ FindingToolsInit /\ PagesStart
  /\ IssuesStart /\ ReviewStarts /\ FilesStart /\ TracingStarts

\* A step of the part the behaviour is of; the others rest.
Runs(p, A) ==
  /\ part = p /\ UNCHANGED part /\ A
  /\ p # "executor" => UNCHANGED vars
  /\ p # "files"    => UNCHANGED filesVars
  /\ p # "findings" => UNCHANGED findingToolsVars
  /\ p # "pages"    => UNCHANGED pagesVars
  /\ p # "issues"   => UNCHANGED issuesVars
  /\ p # "review"   => UNCHANGED reviewVars
  /\ p # "tracing"  => UNCHANGED tracingVars

AgentServiceNext ==
  \/ Runs("executor", Next) \/ Runs("files", FilesNext)
  \/ Runs("findings", FindingToolsNext) \/ Runs("pages", NextPage)
  \/ Runs("issues", IssuesNext) \/ Runs("review", ReviewNext)
  \/ Runs("tracing", TracingNext)

AgentServiceSpec == AgentServiceInit /\ [][AgentServiceNext]_agentServiceVars

\* A request is answered or fails, handlers return, a parked run is woken, and the
\* queue goes on with its passes.  A behaviour is of one part, so conditions of
\* several parts are stated together.
GoesOn ==
  \/ Runs("executor", Next)
  \/ Runs("files", FilesNext) \/ Runs("pages", NextPage)
  \/ Runs("issues", \E p \in Sweeps : SweepRuns(p))
  \/ Runs("tracing", TracingNext)
  \/ Runs("review", \E p \in Reviews : ReviewRuns(p))

FairAgentService ==
  /\ AgentServiceSpec
  /\ WF_agentServiceVars(GoesOn) /\ WF_agentServiceVars(Runs("executor", Wake))

AgentServiceTypeOK ==
  /\ part \in Parts /\ TypeOK /\ FilesTypeOK /\ FindingToolsTypeOK /\ PagesTypeOK
  /\ IssuesTypeOK /\ ReviewTypeOK /\ TracingTypeOK

-----------------------------------------------------------------------------

\* Every run ends, every tool call returns, a reader gets to the end, the issues
\* are the findings', each once (IssuesSettled), and the head of a pull request
\* shows a result, and the trace of a run is delivered or given up: again and
\* again, whatever the model answers and whichever pass failed half way or
\* overlapped.
EverythingComesRight ==
  []<>( /\ part = "executor" => at = "done"
        /\ part = "files" => AllOver
        /\ part = "pages" => finished
        /\ part = "issues" => IssuesSettled
        /\ part = "review" => HeadIsJudged
        /\ part = "tracing" => TracingEnded )

\* A request of Claude never holds more cache markers than the API takes, and a
\* head shows a result only of its own contents (HeadJudgedRightly).  The calls of
\* a turn leave no temporary file (NothingLeft).  The finding tools of a run never
\* run a check twice (FindingToolsSound), and the pages of a reading give
\* everything once (PagesTile), in whole characters.  The events of a trace tell
\* what the run did, nothing of it in the clear that is to be sealed (TracingSound).
PartsSound ==
  /\ MarkersBounded
  /\ part = "review" => HeadJudgedRightly
  /\ part = "files" => NothingLeft
  /\ part = "findings" => FindingToolsSound
  /\ part = "pages" => PagesTile /\ WholeCharacters
  /\ part = "tracing" => TracingSound

\* No pass of the path issues undoes what a person did to an issue, and none
\* closes an issue that is still reported; cached logs stay (LogsStay); and the calls of
\* a turn that the tools keep apart do what they do in some order (TurnAsInOrder).
StepsSound ==
  /\ PersonsRespected /\ ClosedOnlyUnreported /\ LogsStay
  /\ [](part = "files" => TurnAsInOrder)

-----------------------------------------------------------------------------
(* A small instance.                                                       *)

\* Turns of one and two calls, with at most one question.
OneQuestion ==
  {<<"tool">>, <<"submit">>, <<"ask">>, <<"tool", "submit">>, <<"ask", "submit">>,
   <<"ask", "tool">>, <<"tool", "gate">>}

\* Nothing filed so far, one issue, and more than the cap allows.
SomeBacklogs == {<<0, 0>>, <<1, 1>>}

\* Strings of a small alphabet: one for two calls, in which a pattern occurs twice
\* and one across the end of a buffer, and all short ones for one call.
Strings(alphabet, longest) == UNION {[1 .. n -> alphabet] : n \in 0 .. longest}
SomeTexts    == {<<"a", "b", "b", "a">>}
LongTexts    == Strings({"a", "b"}, 5)
SomePatterns == {<<"a">>, <<"a", "b", "b">>}
SomeWritten  == {<<"b", "a">>}
SomePayloads == UNION {[1 .. n -> {1, 2, 6}] : n \in 3 .. 6}

\* Everything recorded and sealed, and neither, with calls that have no identifiers.
SomeTracers ==
  {[sealed |-> b, payloads |-> b, ownIDs |-> b] : b \in BOOLEAN}

SomeItems    == Strings(BOOLEAN, 5)

=============================================================================
