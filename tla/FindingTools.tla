---------------------------- MODULE FindingTools ----------------------------
(***************************************************************************)
(* The tools an agent looks at and retries findings with, called in        *)
(* parallel within a run (toolcall's findings tools on a change session's  *)
(* callbacks): guards against calls that were made before, and a cache of  *)
(* logs whose lock is not held while logs are fetched.  The tools are made *)
(* anew when a parked run resumes.                                         *)
(***************************************************************************)
EXTENDS FiniteSets, Integers

CONSTANTS
  Checks,      \* the failed checks among the findings
  Threads,     \* the review threads among them
  Callers,     \* the calls of a turn that may run at once
  MaxVersions  \* how often the logs of a check may change

ASSUME FindingToolsAssumption == IsFiniteSet(Callers) /\ MaxVersions \in Nat \ {0}

Asked == Checks \cup Threads
Ranges   == {"from start", "further"}

\* The requests of the tools, with all that a guard compares.
Requesting(tools, of, ranges) == [tool : tools, of : of, range : ranges]
readFindingLogsTool   == Requesting({"read"}, Checks, Ranges)
searchFindingLogsTool == Requesting({"search"}, Checks, Ranges)
retryFindingTool      == Requesting({"retry"}, Asked, {"from start"})
resolveFindingTool    == Requesting({"resolve"}, Asked, {"from start"})

Lookups  == readFindingLogsTool \cup searchFindingLogsTool
Requests == Lookups \cup retryFindingTool \cup resolveFindingTool
NoRequest == [tool |-> "none", of |-> "none", range |-> "from start"]

NoLogs == 0

VARIABLES
  logs,     \* the version of each check's logs on GitHub
  rerun,    \* history: how often each check was rerun since the tools were made
  resolved, \* the threads that are resolved
  seen,     \* what the guards have recorded
  cache,    \* the logs that are cached, by version
  call,     \* what each caller is at
  fetched,  \* history: how often each check's logs were fetched since then
  shown     \* history: the requests that were answered with logs, and which

findingToolsVars == <<logs, rerun, resolved, seen, cache, call, fetched, shown>>

Idle == [at |-> "idle", request |-> NoRequest, version |-> NoLogs]

FindingToolsTypeOK ==
  /\ logs \in [Checks -> 1 .. MaxVersions] /\ cache \in [Checks -> 0 .. MaxVersions]
  /\ rerun \in [Checks -> Nat] /\ fetched \in [Checks -> Nat]
  /\ resolved \subseteq Threads /\ seen \subseteq Lookups \cup retryFindingTool
  /\ call \in [Callers -> [at : {"idle", "looking", "fetching", "fetched", "retrying",
                                 "resolving"},
                           request : Requests \cup {NoRequest},
                           version : 0 .. MaxVersions]]
  /\ shown \subseteq Lookups \X (1 .. MaxVersions)

FindingToolsInit ==
  /\ logs = [f \in Checks |-> 1] /\ rerun = [f \in Checks |-> 0] /\ resolved = {}
  /\ seen = {} /\ cache = [f \in Checks |-> NoLogs] /\ fetched = [f \in Checks |-> 0]
  /\ call = [c \in Callers |-> Idle] /\ shown = {}

Moves(c, at, version) == call' = [call EXCEPT ![c].at = at, ![c].version = version]
Answered(c) == call' = [call EXCEPT ![c] = Idle]

Duplicate(r) == r \in seen

\* duplicate records a request and tells whether it was recorded before, both
\* under the guard's lock; such a one is answered with an error.  Resolving has
\* no guard.
Begin(c, r) ==
  /\ call[c].at = "idle"
  /\ ~Duplicate(r)
  /\ seen' = seen \cup ({r} \ resolveFindingTool)
  /\ call' = [call EXCEPT ![c] =
       [at |-> CASE r.tool = "retry"   -> "retrying"
                 [] r.tool = "resolve" -> "resolving"
                 [] OTHER              -> "looking",
        request |-> r, version |-> NoLogs]]
  /\ UNCHANGED <<logs, rerun, resolved, cache, fetched, shown>>

About(c) == call[c].request.of

\* Content of these logs is the answer.
Show(c, version) ==
  /\ shown' = shown \cup {<<call[c].request, version>>} /\ Answered(c)

\* fetch looks into the cache, and fetches what is not there without the lock.
Look(c) ==
  /\ call[c].at = "looking"
  /\ \/ cache[About(c)] # NoLogs /\ Show(c, cache[About(c)])
     \/ cache[About(c)] = NoLogs /\ Moves(c, "fetching", NoLogs) /\ UNCHANGED shown
  /\ UNCHANGED <<logs, rerun, resolved, seen, cache, fetched>>

GetLogs(c) ==
  /\ call[c].at = "fetching"
  /\ \/ /\ Moves(c, "fetched", logs[About(c)])
        /\ fetched' = [fetched EXCEPT ![About(c)] = @ + 1]
     \/ Answered(c) /\ UNCHANGED fetched
  /\ UNCHANGED <<logs, rerun, resolved, seen, cache, shown>>

Store(c) ==
  /\ call[c].at = "fetched"
  /\ cache' = [cache EXCEPT ![About(c)] = call[c].version] /\ Show(c, call[c].version)
  /\ UNCHANGED <<logs, rerun, resolved, seen, fetched>>

\* Only a check can be run again.  The request may fail on its way there or back.
RetryFinding(c) ==
  /\ call[c].at = "retrying"
  /\ \/ About(c) \in Checks /\ rerun' = [rerun EXCEPT ![About(c)] = @ + 1]
     \/ UNCHANGED rerun
  /\ Answered(c) /\ UNCHANGED <<logs, resolved, seen, cache, fetched, shown>>

Resolve(c) ==
  /\ call[c].at = "resolving"
  /\ \/ About(c) \in Threads /\ resolved' = resolved \cup {About(c)}
     \/ UNCHANGED resolved
  /\ Answered(c) /\ UNCHANGED <<logs, rerun, seen, cache, fetched, shown>>

\* A job that runs again replaces its logs.
NewLogs(f) ==
  /\ logs[f] < MaxVersions /\ logs' = [logs EXCEPT ![f] = @ + 1]
  /\ UNCHANGED <<rerun, resolved, seen, cache, call, fetched, shown>>

\* The run parks between two turns, and the one that resumes it has new tools.
ToolsAnew ==
  /\ \A c \in Callers : call[c].at = "idle"
  /\ rerun' = [f \in Checks |-> 0] /\ fetched' = [f \in Checks |-> 0]
  /\ seen' = {} /\ cache' = [f \in Checks |-> NoLogs] /\ shown' = {}
  /\ UNCHANGED <<logs, resolved, call>>

FindingToolsNext ==
  \/ \E c \in Callers :
       \/ \E r \in Requests : Begin(c, r)
       \/ Look(c) \/ GetLogs(c) \/ Store(c) \/ RetryFinding(c) \/ Resolve(c)
  \/ \E f \in Checks : NewLogs(f)
  \/ ToolsAnew

FindingToolsSpec == FindingToolsInit /\ [][FindingToolsNext]_findingToolsVars

-----------------------------------------------------------------------------

\* However many calls run at once, the tools of a run never run a check twice,
\* and give no range of a log in two versions, and a log is fetched at most once
\* by each of the calls that missed it together.
FindingToolsSound ==
  /\ \A f \in Checks : rerun[f] <= 1 /\ fetched[f] <= Cardinality(Callers)
  /\ \A s, t \in shown : s[1] = t[1] => s = t

\* The logs of a check are cached, and no call is under way that may replace them.
LogsSettled(f) ==
  /\ cache[f] # NoLogs
  /\ \A c \in Callers : About(c) = f => call[c].at \notin {"fetching", "fetched"}

\* Calls that missed the cache together each fetch the logs and cache what they got,
\* but once the last of them is through, the logs are the same for every later call
\* of the run, and none fetches them again: the pages and the matches that it reads
\* fit together.
LogsStay ==
  [][\A f \in Checks : LogsSettled(f) =>
       ToolsAnew \/ (cache'[f] = cache[f] /\ LogsSettled(f)')]_findingToolsVars

=============================================================================
