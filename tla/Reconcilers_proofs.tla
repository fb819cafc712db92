-------------------------- MODULE Reconcilers_proofs --------------------------
(***************************************************************************)
(* Proofs about the pull requests of Reconcilers: their labels, bodies and *)
(* budgets, and the state of a Linear issue.                               *)
(***************************************************************************)
EXTENDS Reconcilers, SequenceTheorems, TLAPS

(***************************************************************************)
(* Plans.  The calls a run has yet to make are a sequence; the proofs look *)
(* at its first call and at what may follow it.                            *)
(***************************************************************************)

LEMMA TailFollows ==
  ASSUME NEW S, NEW t \in Seq(S), WellFormed(t), t # <<>>
  PROVE  /\ Head(t) \in S /\ Tail(t) \in Seq(S) /\ WellFormed(Tail(t))
         /\ Tail(t) = <<>> => Head(t) \in LastCalls /\ t[Len(t)] = Head(t)
         /\ Tail(t) # <<>> => /\ <<Head(t), Head(Tail(t))>> \in Follows
                              /\ Tail(t)[Len(Tail(t))] = t[Len(t)]
<1>1. Len(t) \in Nat /\ Len(t) > 0 /\ Head(t) = t[1] /\ Head(t) \in S /\ Tail(t) \in Seq(S)
  BY HeadTailProperties, LenProperties
<1>2. Len(Tail(t)) = Len(t) - 1 /\ \A i \in 1 .. Len(t) - 1 : Tail(t)[i] = t[i + 1]
  BY <1>1, HeadTailProperties
<1>3. Tail(t) # <<>> => Len(t) > 1 /\ Head(Tail(t)) = t[2]
  BY <1>1, <1>2, HeadTailProperties
<1>4. Tail(t) = <<>> => Len(t) = 1
  <2> SUFFICES ASSUME Tail(t) = <<>> PROVE Len(Tail(t)) = 0
    BY <1>1, <1>2
  <2> QED BY EmptySeq
<1>5. WellFormed(Tail(t))
  BY <1>1, <1>2, <1>3, <1>4 DEF WellFormed
<1> QED BY <1>1, <1>2, <1>3, <1>4, <1>5 DEF WellFormed

LEMMA OneThenTwo ==
  ASSUME NEW a, NEW b, NEW c
  PROVE  <<a>> \o <<b, c>> = <<a, b, c>>
<1> DEFINE S == {a, b, c}
<1>1. <<a>> \in Seq(S) /\ <<b, c>> \in Seq(S) /\ <<a, b, c>> \in Seq(S)
  OBVIOUS
<1> HIDE DEF S
<1>2. /\ <<a>> \o <<b, c>> \in Seq(S) /\ Len(<<a>> \o <<b, c>>) = 3
      /\ \A i \in 1 .. 3 : (<<a>> \o <<b, c>>)[i] = IF i <= 1 THEN <<a>>[i] ELSE <<b, c>>[i - 1]
  BY <1>1, ConcatProperties
<1>3. \A i \in 1 .. 3 : (<<a>> \o <<b, c>>)[i] = <<a, b, c>>[i]
  BY <1>2
<1> QED BY <1>1, <1>2, <1>3, SeqEqual, Len(<<a, b, c>>) = 3

LEMMA TwoThenOne ==
  ASSUME NEW a, NEW b, NEW c
  PROVE  <<a, b>> \o <<c>> = <<a, b, c>>
<1> DEFINE S == {a, b, c}
<1>1. <<a, b>> \in Seq(S) /\ <<c>> \in Seq(S) /\ <<a, b, c>> \in Seq(S)
  OBVIOUS
<1> HIDE DEF S
<1>2. /\ <<a, b>> \o <<c>> \in Seq(S) /\ Len(<<a, b>> \o <<c>>) = 3
      /\ \A i \in 1 .. 3 : (<<a, b>> \o <<c>>)[i] = IF i <= 2 THEN <<a, b>>[i] ELSE <<c>>[i - 2]
  BY <1>1, ConcatProperties
<1>3. \A i \in 1 .. 3 : (<<a, b>> \o <<c>>)[i] = <<a, b, c>>[i]
  BY <1>2
<1> QED BY <1>1, <1>2, <1>3, SeqEqual, Len(<<a, b, c>>) = 3

LEMMA OneThenOne ==
  ASSUME NEW a, NEW b
  PROVE  <<a>> \o <<b>> = <<a, b>>
<1> DEFINE S == {a, b}
<1>1. <<a>> \in Seq(S) /\ <<b>> \in Seq(S) /\ <<a, b>> \in Seq(S)
  OBVIOUS
<1> HIDE DEF S
<1>2. /\ <<a>> \o <<b>> \in Seq(S) /\ Len(<<a>> \o <<b>>) = 2
      /\ \A i \in 1 .. 2 : (<<a>> \o <<b>>)[i] = IF i <= 1 THEN <<a>>[i] ELSE <<b>>[i - 1]
  BY <1>1, ConcatProperties
<1>3. \A i \in 1 .. 2 : (<<a>> \o <<b>>)[i] = <<a, b>>[i]
  BY <1>2
<1> QED BY <1>1, <1>2, <1>3, SeqEqual, Len(<<a, b>>) = 2

LEMMA TwoThenTwo ==
  ASSUME NEW a, NEW b, NEW c, NEW d
  PROVE  <<a, b>> \o <<c, d>> = <<a, b, c, d>>
<1> DEFINE S == {a, b, c, d}
<1>1. <<a, b>> \in Seq(S) /\ <<c, d>> \in Seq(S) /\ <<a, b, c, d>> \in Seq(S)
  OBVIOUS
<1> HIDE DEF S
<1>2. /\ <<a, b>> \o <<c, d>> \in Seq(S) /\ Len(<<a, b>> \o <<c, d>>) = 4
      /\ \A i \in 1 .. 4 :
           (<<a, b>> \o <<c, d>>)[i] = IF i <= 2 THEN <<a, b>>[i] ELSE <<c, d>>[i - 2]
  BY <1>1, ConcatProperties
<1>3. \A i \in 1 .. 4 : (<<a, b>> \o <<c, d>>)[i] = <<a, b, c, d>>[i]
  BY <1>2
<1> QED BY <1>1, <1>2, <1>3, SeqEqual, Len(<<a, b, c, d>>) = 4

LEMMA ThreeThenTwo ==
  ASSUME NEW a, NEW b, NEW c, NEW d, NEW e
  PROVE  <<a, b, c>> \o <<d, e>> = <<a, b, c, d, e>>
<1> DEFINE S == {a, b, c, d, e}
<1>1. <<a, b, c>> \in Seq(S) /\ <<d, e>> \in Seq(S) /\ <<a, b, c, d, e>> \in Seq(S)
  OBVIOUS
<1> HIDE DEF S
<1>2. /\ <<a, b, c>> \o <<d, e>> \in Seq(S) /\ Len(<<a, b, c>> \o <<d, e>>) = 5
      /\ \A i \in 1 .. 5 :
           (<<a, b, c>> \o <<d, e>>)[i] = IF i <= 3 THEN <<a, b, c>>[i] ELSE <<d, e>>[i - 3]
  BY <1>1, ConcatProperties
<1>3. \A i \in 1 .. 5 : (<<a, b, c>> \o <<d, e>>)[i] = <<a, b, c, d, e>>[i]
  BY <1>2
<1> QED BY <1>1, <1>2, <1>3, SeqEqual, Len(<<a, b, c, d, e>>) = 5

\* The plans of the runs, written out.
LEMMA PlansWrittenOut ==
  /\ Clear \o <<"close">> = <<"unlabel", "uncomment", "close">>
  /\ Clear \o <<>> = Clear /\ Clear = <<"unlabel", "uncomment">>
  /\ <<"close">> \o Clear = <<"close", "unlabel", "uncomment">>
  /\ <<"refetch", "edit", "relabel">> \o Clear
       = <<"refetch", "edit", "relabel", "unlabel", "uncomment">>
  /\ <<"create", "label">> \o Clear = <<"create", "label", "unlabel", "uncomment">>
  /\ <<"delete", "upload">> \o <<>> = <<"delete", "upload">>
  /\ <<"delete", "upload">> \o <<"cancel">> = <<"delete", "upload", "cancel">>
  /\ <<"delete", "upload">> \o <<"gates">> = <<"delete", "upload", "gates">>
  /\ <<>> \o <<"gates">> = <<"gates">> /\ <<>> \o <<"emptied">> = <<"emptied">>
  /\ <<"close">> \o <<"emptied">> = <<"close", "emptied">>
<1>1. /\ Clear \o <<>> = Clear
      /\ <<"delete", "upload">> \o <<>> = <<"delete", "upload">>
      /\ <<>> \o <<"gates">> = <<"gates">> /\ <<>> \o <<"emptied">> = <<"emptied">>
  <2> DEFINE S == {"unlabel", "uncomment", "delete", "upload", "gates", "emptied"}
  <2>1. /\ Clear \in Seq(S) /\ <<"delete", "upload">> \in Seq(S)
        /\ <<"gates">> \in Seq(S) /\ <<"emptied">> \in Seq(S)
    BY DEF Clear
  <2> HIDE DEF S
  <2>2. \A t \in Seq(S) : t \o <<>> = t /\ <<>> \o t = t
    BY ConcatEmptySeq
  <2> QED BY <2>1, <2>2, Zenon
<1>2. /\ Clear \o <<"close">> = <<"unlabel", "uncomment", "close">>
      /\ <<"delete", "upload">> \o <<"cancel">> = <<"delete", "upload", "cancel">>
      /\ <<"delete", "upload">> \o <<"gates">> = <<"delete", "upload", "gates">>
  BY TwoThenOne, Zenon DEF Clear
<1>3. /\ <<"close">> \o Clear = <<"close", "unlabel", "uncomment">>
      /\ <<"close">> \o <<"emptied">> = <<"close", "emptied">>
  BY OneThenTwo, OneThenOne, Zenon DEF Clear
<1>4. /\ <<"refetch", "edit", "relabel">> \o Clear
           = <<"refetch", "edit", "relabel", "unlabel", "uncomment">>
      /\ <<"create", "label">> \o Clear = <<"create", "label", "unlabel", "uncomment">>
  BY ThreeThenTwo, TwoThenTwo DEF Clear
<1>5. Clear = <<"unlabel", "uncomment">>
  BY DEF Clear
<1> QED BY <1>1, <1>2, <1>3, <1>4, <1>5, Zenon

GitHubPlans ==
  {<<"labels", "decide">>, <<"decide">>, <<"revalidate">>, <<"analyze">>, <<"push">>,
   <<"unlabel", "uncomment">>, <<"unlabel", "uncomment", "close">>,
   <<"close", "unlabel", "uncomment">>,
   <<"refetch", "edit", "relabel", "unlabel", "uncomment">>,
   <<"create", "label", "unlabel", "uncomment">>, <<"comment", "gaveup">>}

LinearPlans ==
  {<<"delete", "upload">>, <<"delete", "upload", "cancel">>, <<"delete", "upload", "gates">>,
   <<"gates">>, <<"session">>, <<"ended">>, <<"decide">>, <<"push">>, <<"final">>, <<"cancel">>,
   <<"emptied">>, <<"close", "emptied">>, <<"refetch", "edit", "relabel", "final">>,
   <<"create", "label", "final">>}

LEMMA PlansAreWellFormed ==
  /\ \A t \in GitHubPlans : t \in Seq(GitHubCalls) /\ WellFormed(t) /\ t # <<>>
  /\ \A t \in LinearPlans : t \in Seq(LinearCalls) /\ WellFormed(t) /\ t # <<>>
  /\ WellFormed(<<>>) /\ \A S : <<>> \in Seq(S)
<1> DEFINE Good(t, S) == t \in Seq(S) /\ WellFormed(t) /\ t # <<>>
<1>1. /\ Good(<<"labels", "decide">>, GitHubCalls)
      /\ Good(<<"decide">>, GitHubCalls)
      /\ Good(<<"revalidate">>, GitHubCalls)
      /\ Good(<<"analyze">>, GitHubCalls)
      /\ Good(<<"push">>, GitHubCalls)
      /\ Good(<<"unlabel", "uncomment">>, GitHubCalls)
      /\ Good(<<"unlabel", "uncomment", "close">>, GitHubCalls)
      /\ Good(<<"close", "unlabel", "uncomment">>, GitHubCalls)
      /\ Good(<<"refetch", "edit", "relabel", "unlabel", "uncomment">>, GitHubCalls)
      /\ Good(<<"create", "label", "unlabel", "uncomment">>, GitHubCalls)
      /\ Good(<<"comment", "gaveup">>, GitHubCalls)
  BY DEF WellFormed, Follows, LastCalls, GitHubCalls, LinearCalls, Steps, Written
<1>2. /\ Good(<<"delete", "upload">>, LinearCalls)
      /\ Good(<<"delete", "upload", "cancel">>, LinearCalls)
      /\ Good(<<"delete", "upload", "gates">>, LinearCalls)
      /\ Good(<<"gates">>, LinearCalls)
      /\ Good(<<"session">>, LinearCalls)
      /\ Good(<<"ended">>, LinearCalls)
      /\ Good(<<"decide">>, LinearCalls)
      /\ Good(<<"push">>, LinearCalls)
      /\ Good(<<"final">>, LinearCalls)
      /\ Good(<<"cancel">>, LinearCalls)
      /\ Good(<<"emptied">>, LinearCalls)
      /\ Good(<<"close", "emptied">>, LinearCalls)
      /\ Good(<<"refetch", "edit", "relabel", "final">>, LinearCalls)
      /\ Good(<<"create", "label", "final">>, LinearCalls)
  BY DEF WellFormed, Follows, LastCalls, LinearCalls
<1>3. WellFormed(<<>>) /\ \A S : <<>> \in Seq(S)
  BY DEF WellFormed
<1>4. \A t \in GitHubPlans : Good(t, GitHubCalls)
  <2> HIDE DEF Good
  <2> QED BY <1>1 DEF GitHubPlans
<1>5. \A t \in LinearPlans : Good(t, LinearCalls)
  <2> HIDE DEF Good
  <2> QED BY <1>2 DEF LinearPlans
<1> QED BY <1>3, <1>4, <1>5

LEMMA CallsAreSteps ==
  Seq(LinearCalls) \subseteq Seq(Steps) /\ Seq(GitHubCalls) \subseteq Seq(Steps)
<1>1. LinearCalls \subseteq Steps /\ GitHubCalls \subseteq Steps
  BY DEF LinearCalls, GitHubCalls, Steps, Written
<1> HIDE DEF LinearCalls, GitHubCalls, Steps
<1> QED BY <1>1, SeqMonotonic

LEMMA BodyDueIs ==
  /\ Call \in {"refetch", "edit"} => BodyDue
  /\ BodyDue => Call \in {"refetch", "edit", "close"}
  /\ Call' \in {"refetch", "edit"} => BodyDue'
  /\ BodyDue' => Call' \in {"refetch", "edit", "close"}
BY DEF BodyDue, Call, First, Idle

\* Going on to the next call of the plan.
LEMMA Continues ==
  ASSUME PlansKept, ~Idle, Continue, UNCHANGED resource
  PROVE  /\ PlansKept' /\ Call \in CallsOf
         /\ IF Call' = "none" THEN s' = NoSession /\ Call \in LastCalls /\ todo[Len(todo)] = Call
            ELSE /\ s' = s /\ Call' \in CallsOf /\ <<Call, Call'>> \in Follows
                 /\ todo'[Len(todo')] = todo[Len(todo)]
         /\ Call' = "none" <=> todo' = <<>>
<1>1. todo' = Tail(todo) /\ Call = Head(todo) /\ s' = IF todo' = <<>> THEN NoSession ELSE s
  BY DEF Continue, Then, Ends, Goes, Idle, Call, First
<1>2. todo \in Seq(CallsOf) /\ WellFormed(todo) /\ todo # <<>>
  BY DEF PlansKept, Idle
<1>3. todo' # <<>> => Call' = Head(todo') /\ Call' \in CallsOf
  BY <1>1, <1>2, TailFollows, HeadTailProperties DEF Call, First
<1>4. "none" \notin CallsOf
  BY DEF CallsOf, LinearCalls, GitHubCalls, Steps, Written
<1>5. CallsOf' = CallsOf
  BY DEF CallsOf
<1> HIDE DEF CallsOf
<1> QED BY <1>1, <1>2, <1>3, <1>4, <1>5, TailFollows DEF Call, First, PlansKept

-----------------------------------------------------------------------------
(* The calls of a session.                                                 *)

PRInv ==
  /\ PullRequestTypeOK /\ PlansKept /\ SessionKept
  /\ resource \in {"path", "issue", "linear"} /\ options \in PathOptions \cup {PlainOptions}

\* What is left of a plan, seen from its first call.
LEMMA CallIs ==
  ASSUME PRInv
  PROVE  /\ Call = "none" <=> Idle
         /\ \A step : ~Idle /\ Head(todo) = step <=> Call = step /\ ~Idle
         /\ resource = "linear" => Call \in LinearCalls \cup {"none"}
         /\ resource # "linear" => Call \in GitHubCalls \cup {"none"}
<1>1. ~Idle => Call = Head(todo) /\ Call \in CallsOf
  BY HeadTailProperties DEF PRInv, PlansKept, Idle, Call, First
<1>2. "none" \notin LinearCalls /\ "none" \notin GitHubCalls
  BY DEF LinearCalls, GitHubCalls, Steps, Written
<1>3. Idle => Call = "none"
  BY DEF Idle, Call, First
<1> QED BY <1>1, <1>2, <1>3 DEF CallsOf

LEMMA NoSessionType ==
  /\ NoSession \in Sessions
  /\ NoSession.pr.baseline <= NoSession.branch.commits
BY DEF NoSession, NoPR, NoBranch, Sessions, PullRequests, BranchStates, Changes

LEMMA LabelCallKeeps ==
  ASSUME PRInv, LabelCall, UNCHANGED resource
  PROVE  PRInv'
<1>1. /\ Call \in Written /\ ~Idle
      /\ pr' = IF ~pr.open \/ Call = "close" THEN NoPR
              ELSE [pr EXCEPT !.static = @ \/ Call \in {"labels", "label", "relabel"},
                              !.comment = IF Call = "comment" THEN "posted"
                                          ELSE IF Call = "uncomment" THEN "none" ELSE @,
                              !.gaveup = (@ \/ Call = "gaveup")
                                         /\ ~(Call = "unlabel" /\ s.pr.gaveup)]
      /\ UNCHANGED <<options, wanted, branch, spent, cut, events, faults, resource>>
  BY DEF LabelCall, Call, First, Idle, Written
<1>2. /\ PlansKept' /\ Call \in CallsOf
      /\ IF Call' = "none" THEN s' = NoSession /\ Call \in LastCalls
         ELSE /\ s' = IF Call = "labels" THEN [s EXCEPT !.pr.static = TRUE] ELSE s
              /\ <<Call, Call'>> \in Follows
  <2>1. CASE Head(todo) # "labels"
    BY <2>1, <1>1, Continues DEF LabelCall, Call, First, Idle, PRInv
  <2>2. CASE Head(todo) = "labels"
    <3>1. /\ todo' = Tail(todo) /\ s' = [s EXCEPT !.pr.static = TRUE] /\ Call = "labels"
          /\ todo \in Seq(CallsOf) /\ WellFormed(todo) /\ todo # <<>>
      BY <2>2 DEF LabelCall, Call, First, Idle, PRInv, PlansKept
    <3>2. CallsOf' = CallsOf /\ "none" \notin CallsOf
      BY DEF CallsOf, LinearCalls, GitHubCalls, Steps, Written
    <3>3. /\ Call \in CallsOf /\ todo' \in Seq(CallsOf) /\ WellFormed(todo') /\ todo' # <<>>
          /\ <<Call, Head(todo')>> \in Follows /\ Head(todo') \in CallsOf
      <4>1. "labels" \notin LastCalls
        BY DEF LastCalls
      <4> HIDE DEF CallsOf
      <4> QED BY <2>2, <3>1, <4>1, TailFollows
    <3>4. Call' = Head(todo')
      BY <3>3 DEF Call, First
    <3> HIDE DEF CallsOf
    <3> QED BY <3>1, <3>2, <3>3, <3>4 DEF PlansKept
  <2> QED BY <2>1, <2>2
<1>3. /\ pr \in PullRequests /\ s.pr \in PullRequests /\ branch \in BranchStates
      /\ s \in Sessions
  BY DEF PRInv, PullRequestTypeOK, Sessions
<1>4. /\ Call' \in {"none", "decide", "uncomment", "close", "unlabel", "emptied", "final", "gaveup"}
      /\ Call' = "decide" => Call = "labels"
      /\ Call' = "gaveup" => Call = "comment"
      /\ Call' = "uncomment" => Call = "unlabel"
      /\ Call = "labels" => Call' = "decide"
      /\ Call = "gaveup" => Call' = "none"
  BY <1>1, <1>2 DEF Follows, Written, LastCalls
<1>5. PullRequestTypeOK'
  <2>1. todo' \in Seq(Steps)
    BY <1>2, CallsAreSteps DEF PlansKept, CallsOf
  <2>2. pr' \in PullRequests
    BY <1>1, <1>3 DEF PullRequests, NoPR, Changes
  <2>3. /\ s' \in Sessions
        /\ s'.pr.baseline <= s'.branch.commits
    <3>1. CASE Call' = "none"
      BY <1>2, <3>1, NoSessionType
    <3>2. CASE Call' # "none"
      <4>1. s' = s \/ s' = [s EXCEPT !.pr.static = TRUE]
        BY <1>2, <3>2
      <4>2. [s.pr EXCEPT !.static = TRUE] \in PullRequests
        BY <1>3 DEF PullRequests, Sessions
      <4>3. s'.branch = s.branch /\ s'.pr.baseline = s.pr.baseline
        BY <1>3, <4>1 DEF PullRequests, Sessions
      <4> QED BY <1>3, <4>1, <4>2, <4>3 DEF PRInv, PullRequestTypeOK, Sessions
    <3> QED BY <3>1, <3>2
  <2> QED BY <1>1, <1>3, <2>1, <2>2, <2>3 DEF PRInv, PullRequestTypeOK
<1>6. /\ pr'.open => pr.open /\ pr'.data = pr.data /\ pr'.baseline = pr.baseline
      /\ Call' = "decide" => /\ s'.pr.open = s.pr.open /\ s'.pr.baseline = s.pr.baseline
                             /\ s'.pr.data = s.pr.data /\ s'.branch = s.branch
                             /\ s'.granted = s.granted
      /\ BodyDue => ~pr'.open
  BY <1>1, <1>2, <1>3, <1>4, BodyDueIs DEF PullRequests, Sessions, NoPR, Written
<1>7. DecisionsKept'
  BY <1>1, <1>2, <1>3
     DEF PRInv, SessionKept, DecisionsKept, commitBudgetUsed, Deciding, PullRequests, Sessions,
     NoPR, NoSession, Follows, Written, LastCalls
<1>8. LabelsKept'
  <2>1. Call' # "none" => s'.pr.gaveup = s.pr.gaveup
    BY <1>2, <1>3 DEF PullRequests, Sessions
  <2>2. resource = "linear" => Call \notin {"comment", "gaveup"}
    BY <1>2 DEF CallsOf, LinearCalls
  <2>3. CASE ~pr.open \/ Call = "close"
    BY <1>1, <2>3 DEF LabelsKept, GaveUpExplained, NoPR
  <2>4. CASE pr.open /\ Call # "close"
    <3>1. /\ pr'.open
          /\ pr'.comment = IF Call = "comment" THEN "posted"
                           ELSE IF Call = "uncomment" THEN "none" ELSE pr.comment
          /\ pr'.gaveup <=> (pr.gaveup \/ Call = "gaveup") /\ ~(Call = "unlabel" /\ s.pr.gaveup)
      BY <1>1, <1>3, <2>4 DEF PullRequests, Sessions
    <3>2. LabelsKept
      BY DEF PRInv, SessionKept
    <3> QED BY <1>1, <1>4, <2>1, <2>2, <2>4, <3>1, <3>2 DEF LabelsKept, GaveUpExplained, Written
  <2> QED BY <2>3, <2>4
<1>9. BodyKept'
  BY <1>1, <1>4, <1>6 DEF PRInv, SessionKept, BodyKept, Deciding
<1>10. CommitsKept'
  BY <1>1, <1>4, <1>6 DEF PRInv, SessionKept, CommitsKept, Deciding
<1>11. AllowanceKept'
  BY <1>1, <1>3, <1>4, <1>6
     DEF PRInv, PullRequestTypeOK, PullRequests, BranchStates, SessionKept, AllowanceKept,
     BudgetKept, Room, AtMost, Deciding
<1> QED BY <1>1, <1>2, <1>5, <1>7, <1>8, <1>9, <1>10, <1>11 DEF PRInv, SessionKept

\* A run that ends, or goes on to a call that decides nothing, and leaves the pull
\* request as it is.
LEMMA QuietlyKeeps ==
  ASSUME PRInv, PlansKept', s' \in Sessions, s'.pr.baseline <= s'.branch.commits,
         UNCHANGED <<options, wanted, pr, branch, spent, resource>>,
         cut' = IF BodyDue /\ Call' # "edit" THEN cut + 1 ELSE cut,
         events' \in 0 .. MaxEvents, faults' \in 0 .. MaxFaults,
         Call' \notin {"labels", "ended", "decide", "revalidate", "analyze", "push", "create",
                       "refetch", "gaveup", "uncomment"},
         Call' = "edit" => Call = "refetch" /\ s' = s,
         Call' = "none" => s' = NoSession,
         Call' # "none" => \/ /\ Call # "none" /\ s'.pr.gaveup = s.pr.gaveup
                              /\ s'.granted => s.granted /\ s'.iterate = s.iterate
                           \/ ~s'.granted /\ resource = "linear"
  PROVE  PRInv'
<1>1. /\ pr \in PullRequests /\ s \in Sessions /\ s.pr \in PullRequests /\ branch \in BranchStates
      /\ branch.commits \in Nat /\ pr.baseline \in Nat /\ spent \in Nat /\ cut \in Nat
      /\ s.pr.baseline \in Nat
  BY DEF PRInv, PullRequestTypeOK, Sessions, PullRequests, BranchStates
<1>2. PullRequestTypeOK'
  <2>1. todo' \in Seq(Steps)
    BY CallsAreSteps DEF PlansKept, CallsOf
  <2> QED BY <1>1, <2>1 DEF PRInv, PullRequestTypeOK
<1>3. DecisionsKept'
  BY NoSessionType DEF PRInv, SessionKept, DecisionsKept, Deciding, NoSession
<1>4. LabelsKept'
  BY DEF PRInv, SessionKept, LabelsKept, GaveUpExplained
<1>5. BodyKept'
  <2> SUFFICES ASSUME cut' = 0 PROVE BodyKept'
    BY DEF BodyKept
  <2>1. cut = 0 /\ (BodyDue => Call' = "edit")
    BY <1>1
  <2>2. BodyKept
    BY DEF PRInv, SessionKept
  <2>3. CASE Call' = "edit"
    BY <2>1, <2>2, <2>3, BodyDueIs DEF BodyKept, Deciding
  <2>4. CASE Call' # "edit"
    BY <2>1, <2>2, <2>4, BodyDueIs DEF BodyKept, Deciding
  <2> QED BY <2>3, <2>4
<1>6. CommitsKept'
  BY DEF PRInv, SessionKept, CommitsKept, Deciding
<1>7. AllowanceKept'
  <2>1. cut <= cut' /\ cut' \in Nat
    BY <1>1
  <2>2. CASE Call' = "edit"
    BY <2>2, <1>1, BodyDueIs
       DEF PRInv, SessionKept, AllowanceKept, BudgetKept, Room, AtMost, Deciding
  <2>3. CASE Call' # "edit"
    <3>1. BudgetKept'
      BY <2>1, <1>1, PullRequestAssumption DEF PRInv, SessionKept, AllowanceKept, BudgetKept
    <3>2. pr.open => spent <= Room(pr.baseline)'
      <4>1. cut' = cut + (IF BodyDue THEN 1 ELSE 0)
        BY <2>3, <1>1
      <4> QED BY <4>1, <1>1 DEF PRInv, SessionKept, AllowanceKept, Room, AtMost
    <3> QED BY <2>3, <3>1, <3>2, <1>1 DEF AllowanceKept, Deciding, Room, AtMost
  <2> QED BY <2>2, <2>3
<1> QED BY <1>2, <1>3, <1>4, <1>5, <1>6, <1>7 DEF PRInv, SessionKept

\* The end of a run, from wherever it is.
LEMMA EndsWell ==
  ASSUME Ends, UNCHANGED resource
  PROVE  PlansKept' /\ Call' = "none" /\ s' = NoSession /\ todo' = <<>>
BY PlansAreWellFormed DEF Ends, PlansKept, Call, First

LEMMA RunDiesKeeps ==
  ASSUME PRInv, RunDies, UNCHANGED resource
  PROVE  PRInv'
<1>1. PlansKept' /\ Call' = "none" /\ s' = NoSession
  BY EndsWell DEF RunDies
<1>2. /\ UNCHANGED <<options, wanted, pr, branch, spent, resource>>
      /\ cut' = IF BodyDue /\ Call' # "edit" THEN cut + 1 ELSE cut
      /\ events' \in 0 .. MaxEvents /\ faults' \in 0 .. MaxFaults
  BY <1>1, PullRequestAssumption DEF RunDies, PRInv, PullRequestTypeOK
<1> QED BY <1>1, <1>2, NoSessionType, QuietlyKeeps

LEMMA RefetchKeeps ==
  ASSUME PRInv, Refetch, UNCHANGED resource
  PROVE  PRInv'
<1>1. Call = "refetch" /\ ~Idle /\ BodyDue
  BY BodyDueIs DEF Refetch, At, Call, First, Idle
<1>2. /\ UNCHANGED <<options, wanted, pr, branch, spent, resource>>
      /\ events' \in 0 .. MaxEvents /\ faults' \in 0 .. MaxFaults
      /\ s \in Sessions /\ s.pr.baseline <= s.branch.commits
  BY DEF Refetch, PRInv, PullRequestTypeOK
<1>3. CASE pr.taken = "label"
  <2>1. PlansKept' /\ Call' = "none" /\ s' = NoSession /\ cut' = cut + 1
    BY <1>3, EndsWell DEF Refetch
  <2> QED BY <1>1, <1>2, <2>1, NoSessionType, QuietlyKeeps
<1>4. CASE pr.taken # "label"
  <2>1. PlansKept' /\ Call' = "edit" /\ s' = s /\ cut' = cut
    BY <1>1, <1>4, Continues DEF Refetch, PRInv, Follows, LastCalls
  <2> QED BY <1>1, <1>2, <2>1, QuietlyKeeps
<1> QED BY <1>3, <1>4

\* What is left of a plan after a label that could not be removed.
LEMMA SkipsTheComment ==
  ASSUME PRInv, Call = "unlabel"
  PROVE  LET rest == SubSeq(todo, 3, Len(todo)) IN
         rest \in Seq(CallsOf) /\ WellFormed(rest) /\ First(rest) \in {"none", "close"}
<1>1. todo \in Seq(CallsOf) /\ WellFormed(todo) /\ todo # <<>> /\ Head(todo) = "unlabel"
  BY DEF PRInv, PlansKept, Call, First
<1>2. /\ Tail(todo) \in Seq(CallsOf) /\ WellFormed(Tail(todo)) /\ Tail(todo) # <<>>
      /\ Head(Tail(todo)) = "uncomment"
  BY <1>1, TailFollows DEF Follows, LastCalls
<1>3. LET rest == Tail(Tail(todo)) IN
      /\ rest \in Seq(CallsOf) /\ WellFormed(rest)
      /\ rest # <<>> => Head(rest) = "close"
  BY <1>2, TailFollows DEF Follows
<1>4. Len(todo) \in Nat /\ Len(todo) >= 2
  BY <1>1, <1>2, HeadTailProperties, LenProperties, EmptySeq
<1>5. SubSeq(todo, 3, Len(todo)) = Tail(Tail(todo))
  <2>1. Tail(todo) = SubSeq(todo, 2, Len(todo))
    BY <1>1, TailIsSubSeq
  <2>2. Tail(SubSeq(todo, 2, Len(todo))) = SubSeq(todo, 2 + 1, Len(todo))
    BY <1>1, <1>4, HeadTailOfSubSeq
  <2> QED BY <2>1, <2>2
<1> QED BY <1>3, <1>5 DEF First

LEMMA ClearFailsKeeps ==
  ASSUME PRInv, ClearFails, UNCHANGED resource
  PROVE  PRInv'
<1>1. /\ UNCHANGED <<options, wanted, pr, branch, spent, cut, resource>>
      /\ events' \in 0 .. MaxEvents /\ faults' \in 0 .. MaxFaults
      /\ s \in Sessions /\ s.pr.baseline <= s.branch.commits
      /\ ~Idle
  BY PullRequestAssumption DEF ClearFails, PRInv, PullRequestTypeOK
<1>2. CASE At("unlabel") /\ Then(SubSeq(todo, 3, Len(todo)))
  <2>1. Call = "unlabel"
    BY <1>2 DEF At, Call, First, Idle
  <2>2. /\ PlansKept' /\ Call' \in {"none", "close"}
        /\ IF Call' = "none" THEN s' = NoSession ELSE s' = s
    <3> DEFINE rest == SubSeq(todo, 3, Len(todo))
    <3>1. rest \in Seq(CallsOf) /\ WellFormed(rest) /\ First(rest) \in {"none", "close"}
      BY <2>1, SkipsTheComment
    <3>2. todo' = rest /\ (IF rest = <<>> THEN s' = NoSession ELSE s' = s)
      BY <1>2 DEF Then, Ends, Goes
    <3>3. CallsOf' = CallsOf /\ Call' = First(rest)
      BY <1>1, <3>2 DEF CallsOf, Call
    <3>4. rest # <<>> => First(rest) = Head(rest) /\ Head(rest) \in CallsOf
      BY <3>1, HeadTailProperties DEF First
    <3> HIDE DEF rest
    <3> QED BY <3>1, <3>2, <3>3, <3>4
               DEF PlansKept, First, CallsOf, LinearCalls, GitHubCalls, Steps, Written
  <2> QED BY <1>1, <2>1, <2>2, BodyDueIs, NoSessionType, QuietlyKeeps
<1>3. CASE At("uncomment") /\ Continue
  <2>1. Call = "uncomment"
    BY <1>3 DEF At, Call, First, Idle
  <2>2. /\ PlansKept' /\ Call' \in {"none", "close"}
        /\ IF Call' = "none" THEN s' = NoSession ELSE s' = s
    BY <1>1, <1>3, <2>1, Continues DEF PRInv, Follows
  <2> QED BY <1>1, <2>1, <2>2, BodyDueIs, NoSessionType, QuietlyKeeps
<1> QED BY <1>2, <1>3 DEF ClearFails

LEMMA NoChangesKeeps ==
  ASSUME PRInv, NoChanges, resource # "linear", UNCHANGED resource
  PROVE  PRInv'
<1>1. /\ UNCHANGED <<options, wanted, pr, branch, spent, cut, resource>>
      /\ events' \in 0 .. MaxEvents /\ faults' \in 0 .. MaxFaults
      /\ s \in Sessions /\ s.pr.baseline <= s.branch.commits
      /\ Call = "push"
  BY DEF NoChanges, PRInv, PullRequestTypeOK, At, Call, First, Idle
<1>2. CASE Ends
  BY <1>1, <1>2, EndsWell, BodyDueIs, NoSessionType, QuietlyKeeps
<1>3. CASE Goes(Surface)
  <2>1. PlansKept' /\ Call' = "comment" /\ s' = s
    BY <1>1, <1>3, PlansAreWellFormed
       DEF Goes, Surface, GitHubPlans, PlansKept, CallsOf, Call, First
  <2> QED BY <1>1, <2>1, BodyDueIs, QuietlyKeeps
<1> QED BY <1>2, <1>3 DEF NoChanges

\* What the parts of the invariant need to know of the state's types.
LEMMA PRTypes ==
  ASSUME PRInv
  PROVE  /\ pr \in PullRequests /\ s \in Sessions /\ s.pr \in PullRequests
         /\ branch \in BranchStates /\ s.branch \in BranchStates
         /\ branch.commits \in Nat /\ pr.baseline \in Nat /\ spent \in Nat /\ cut \in Nat
         /\ s.pr.baseline \in Nat /\ s.branch.commits \in Nat /\ s.pr.baseline <= s.branch.commits
         /\ wanted \in Changes /\ branch.change \in Changes /\ s.asked \in Changes
         /\ s.expected \in Changes /\ pr.data \in Changes /\ s.pr.data \in Changes
         /\ pr.open \in BOOLEAN /\ s.pr.open \in BOOLEAN /\ s.iterate \in BOOLEAN
         /\ s.granted \in BOOLEAN
BY DEF PRInv, PullRequestTypeOK, Sessions, PullRequests, BranchStates

\* A run that takes its snapshot.
LEMMA SnapshotKeeps ==
  ASSUME PRInv, PlansKept', NEW asked \in Changes, s' = Snapshot(asked), ~BodyDue,
         UNCHANGED <<options, wanted, pr, branch, spent, cut, events, faults, resource>>,
         Call' \in {"labels", "decide", "ended"}
  PROVE  PRInv'
<1>1. /\ s'.asked = asked /\ s'.expected = asked /\ ~s'.iterate /\ ~s'.granted
      /\ s'.pr = IF pr.open THEN [pr EXCEPT !.baseline = Baseline] ELSE NoPR
      /\ s'.branch = IF pr.open THEN branch ELSE NoBranch
      /\ s' \in Sessions
  <2>1. Baseline \in Nat
    BY PRTypes DEF Baseline, AtMost
  <2>2. [pr EXCEPT !.baseline = Baseline] \in PullRequests
    BY <2>1, PRTypes DEF PullRequests
  <2>3. NoPR \in PullRequests /\ NoBranch \in BranchStates
    BY DEF NoPR, NoBranch, PullRequests, BranchStates, Changes
  <2> QED BY <2>2, <2>3, PRTypes DEF Snapshot, NoSession, Sessions
<1>2. /\ s'.pr.open <=> pr.open
      /\ pr.open => /\ s'.pr.data = pr.data /\ s'.pr.gaveup = pr.gaveup
                    /\ s'.pr.baseline = Baseline /\ s'.branch = branch
      /\ ~pr.open => s'.pr.baseline = 0 /\ s'.branch.commits = 0
  <2>1. CASE pr.open
    BY <1>1, <2>1, PRTypes DEF PullRequests
  <2>2. CASE ~pr.open
    <3>1. s'.pr = NoPR /\ s'.branch = NoBranch
      BY <1>1, <2>2
    <3>2. ~s'.pr.open /\ s'.pr.baseline = 0 /\ s'.branch.commits = 0
      BY <3>1 DEF NoPR, NoBranch
    <3> QED BY <2>2, <3>2
  <2> QED BY <2>1, <2>2
<1>3. PullRequestTypeOK'
  <2>1. todo' \in Seq(Steps)
    BY CallsAreSteps DEF PlansKept, CallsOf
  <2>2. s'.pr.baseline <= s'.branch.commits
    BY <1>2, PRTypes DEF Baseline, AtMost
  <2> QED BY <1>1, <2>1, <2>2 DEF PRInv, PullRequestTypeOK
<1>4. DecisionsKept'
  BY <1>1, <1>2 DEF PRInv, SessionKept, DecisionsKept, Deciding
<1>5. LabelsKept'
  BY <1>2 DEF PRInv, SessionKept, LabelsKept, GaveUpExplained
<1>6. BodyKept'
  BY <1>2 DEF PRInv, SessionKept, BodyKept, Deciding
<1>7. CommitsKept'
  BY <1>2 DEF PRInv, SessionKept, CommitsKept, Deciding
<1>8. AllowanceKept'
  <2>1. pr.open => spent <= Room(pr.baseline) /\ Room(pr.baseline) = Room(Baseline)
    BY PRTypes DEF PRInv, SessionKept, AllowanceKept, Room, Baseline, AtMost
  <2>2. Room(s.pr.baseline)' = Room(s'.pr.baseline) /\ Room(pr.baseline)' = Room(pr.baseline)
    BY DEF Room
  <2>3. pr.open => spent <= Room(pr.baseline) + 1
    BY <2>1, PRTypes DEF Room, AtMost
  <2> QED BY <1>1, <1>2, <2>1, <2>2, <2>3
          DEF PRInv, SessionKept, AllowanceKept, BudgetKept, Deciding
<1> QED BY <1>3, <1>4, <1>5, <1>6, <1>7, <1>8 DEF PRInv, SessionKept

\* A run that decides, on what it has read.
LEMMA DecisionKeeps ==
  ASSUME PRInv, PlansKept', DecisionsKept', s' \in Sessions,
         s'.pr.baseline <= s'.branch.commits,
         UNCHANGED <<options, wanted, pr, branch, spent, cut, events, faults, resource>>,
         \/ Call \in {"decide", "revalidate", "analyze"} /\ Call' \in {"revalidate", "analyze", "push"}
         \/ Call = "ended" /\ Call' = "decide",
         s'.pr.open = s.pr.open, s'.pr.data = s.pr.data, s'.pr.gaveup = s.pr.gaveup,
         s'.branch = s.branch,
         s.pr.open /\ (s'.iterate \/ Call' = "decide") =>
           IF s'.granted THEN s'.pr.baseline = branch.commits ELSE spent <= Room(s'.pr.baseline)
  PROVE  PRInv'
<1>1. ~BodyDue
  BY BodyDueIs
<1>2. PullRequestTypeOK'
  BY CallsAreSteps DEF PlansKept, CallsOf, PRInv, PullRequestTypeOK
<1>3. LabelsKept'
  BY DEF PRInv, SessionKept, LabelsKept, GaveUpExplained
<1>4. BodyKept'
  BY <1>1 DEF PRInv, SessionKept, BodyKept, Deciding
<1>5. CommitsKept'
  BY DEF PRInv, SessionKept, CommitsKept, Deciding
<1>6. AllowanceKept'
  <2>1. Room(s.pr.baseline)' = Room(s'.pr.baseline) /\ Room(pr.baseline)' = Room(pr.baseline)
    BY DEF Room
  <2>2. pr.open => spent <= Room(pr.baseline) /\ spent <= Room(pr.baseline) + 1
    BY <1>1, PRTypes DEF PRInv, SessionKept, AllowanceKept, Room, AtMost
  <2>3. s'.pr.open /\ (s'.iterate \/ Call' = "decide") =>
          IF s'.granted THEN s'.pr.baseline = branch'.commits ELSE spent' <= Room(s.pr.baseline)'
    BY <2>1
  <2>4. BudgetKept'
    BY DEF PRInv, SessionKept, AllowanceKept, BudgetKept
  <2>5. (pr.open => spent <= Room(pr.baseline) + (IF BodyDue THEN 1 ELSE 0))'
    <3>1. Room(pr.baseline) \in Int
      BY PRTypes DEF Room, AtMost
    <3> QED BY <2>1, <2>2, <3>1, PRTypes
  <2>6. Call' \notin {"labels", "ended", "refetch", "edit", "create"}
    OBVIOUS
  <2> QED BY <2>3, <2>4, <2>5, <2>6 DEF AllowanceKept
<1> QED BY <1>2, <1>3, <1>4, <1>5, <1>6 DEF PRInv, SessionKept

\* A label may follow a comment that was refused.
LEMMA CommentForbiddenKeeps ==
  ASSUME PRInv, CommentForbidden, UNCHANGED resource
  PROVE  PRInv'
<1>1. Call = "comment" /\ ~Idle /\ ~BodyDue
  BY BodyDueIs DEF CommentForbidden, At, Call, First, Idle
<1>2. /\ UNCHANGED <<options, wanted, branch, spent, cut, events, resource>>
      /\ pr.open /\ pr' = [pr EXCEPT !.comment = "refused"] /\ faults' \in 0 .. MaxFaults
  BY PullRequestAssumption DEF CommentForbidden, PRInv, PullRequestTypeOK
<1>3. PlansKept' /\ Call' = "gaveup" /\ s' = s
  BY <1>1, Continues DEF CommentForbidden, PRInv, Follows, LastCalls
<1>4. /\ pr' \in PullRequests /\ pr'.comment = "refused"
      /\ pr'.open = pr.open /\ pr'.data = pr.data /\ pr'.baseline = pr.baseline
      /\ pr'.gaveup = pr.gaveup
  BY <1>2, PRTypes DEF PullRequests
<1>5. PullRequestTypeOK'
  BY <1>2, <1>3, <1>4, CallsAreSteps DEF PRInv, PullRequestTypeOK, PlansKept, CallsOf
<1>6. DecisionsKept'
  BY <1>2, <1>3, <1>4 DEF PRInv, SessionKept, DecisionsKept, Deciding
<1>7. LabelsKept'
  BY <1>1, <1>2, <1>3, <1>4 DEF PRInv, SessionKept, LabelsKept, GaveUpExplained
<1>8. BodyKept'
  BY <1>1, <1>2, <1>3, <1>4 DEF PRInv, SessionKept, BodyKept, Deciding
<1>9. CommitsKept'
  BY <1>1, <1>2, <1>3, <1>4 DEF PRInv, SessionKept, CommitsKept, Deciding
<1>10. AllowanceKept'
  BY <1>1, <1>2, <1>3, <1>4, PRTypes
     DEF PRInv, SessionKept, AllowanceKept, BudgetKept, Room, AtMost, Deciding
<1> QED BY <1>3, <1>5, <1>6, <1>7, <1>8, <1>9, <1>10, <1>2 DEF PRInv, SessionKept

LEMMA CreateKeeps ==
  ASSUME PRInv, Create, UNCHANGED resource
  PROVE  PRInv'
<1>1. Call = "create" /\ ~Idle /\ ~BodyDue
  BY BodyDueIs DEF Create, At, Call, First, Idle
<1>2. /\ UNCHANGED <<options, wanted, branch, spent, cut, events, faults, resource>>
      /\ pr' = [NoPR EXCEPT !.open = TRUE, !.data = s.expected, !.baseline = s.pr.baseline]
  BY DEF Create
<1>3. PlansKept' /\ Call' = "label" /\ s' = s
  BY <1>1, Continues DEF Create, PRInv, Follows, LastCalls
<1>4. /\ pr'.open /\ pr'.data = s.expected /\ pr'.baseline = s.pr.baseline /\ ~pr'.gaveup
      /\ pr' \in PullRequests
  BY <1>2, PRTypes DEF NoPR, PullRequests
<1>5. PullRequestTypeOK'
  BY <1>2, <1>3, <1>4, CallsAreSteps DEF PRInv, PullRequestTypeOK, PlansKept, CallsOf
<1>6. DecisionsKept'
  BY <1>2, <1>3 DEF PRInv, SessionKept, DecisionsKept, Deciding
<1>7. LabelsKept'
  BY <1>3, <1>4 DEF LabelsKept, GaveUpExplained
<1>8. BodyKept'
  BY <1>1, <1>2, <1>3, <1>4 DEF PRInv, SessionKept, BodyKept, Deciding
<1>9. CommitsKept'
  BY <1>1, <1>2, <1>3, <1>4 DEF PRInv, SessionKept, CommitsKept, Deciding
<1>10. AllowanceKept'
  <2>1. spent <= Room(s.pr.baseline) /\ Room(s.pr.baseline) \in Int
    BY <1>1, PRTypes DEF PRInv, SessionKept, AllowanceKept, Room, AtMost
  <2>2. Room(pr.baseline)' = Room(s.pr.baseline)
    BY <1>2, <1>4 DEF Room
  <2>3. BudgetKept'
    BY <1>2 DEF PRInv, SessionKept, AllowanceKept, BudgetKept
  <2> QED BY <1>2, <1>3, <2>1, <2>2, <2>3, PRTypes DEF AllowanceKept, Deciding
<1> QED BY <1>2, <1>3, <1>5, <1>6, <1>7, <1>8, <1>9, <1>10 DEF PRInv, SessionKept

LEMMA EditKeeps ==
  ASSUME PRInv, Edit, UNCHANGED resource
  PROVE  PRInv'
<1>1. Call = "edit" /\ ~Idle
  BY DEF Edit, At, Call, First, Idle
<1>2. /\ UNCHANGED <<options, wanted, branch, spent, cut, events, faults, resource>>
      /\ pr' = [pr EXCEPT !.data = s.expected, !.baseline = s.pr.baseline]
  BY DEF Edit
<1>3. PlansKept' /\ Call' = "relabel" /\ s' = s
  BY <1>1, Continues DEF Edit, PRInv, Follows, LastCalls
<1>4. /\ pr'.open = pr.open /\ pr'.data = s.expected /\ pr'.baseline = s.pr.baseline
      /\ pr'.gaveup = pr.gaveup /\ pr'.comment = pr.comment /\ pr' \in PullRequests
  BY <1>2, PRTypes DEF PullRequests
<1>5. PullRequestTypeOK'
  BY <1>2, <1>3, <1>4, CallsAreSteps DEF PRInv, PullRequestTypeOK, PlansKept, CallsOf
<1>6. DecisionsKept'
  BY <1>2, <1>3 DEF PRInv, SessionKept, DecisionsKept, Deciding
<1>7. LabelsKept'
  BY <1>1, <1>2, <1>3, <1>4 DEF PRInv, SessionKept, LabelsKept, GaveUpExplained
<1>8. BodyKept'
  BY <1>1, <1>2, <1>3, <1>4 DEF PRInv, SessionKept, BodyKept, Deciding
<1>9. CommitsKept'
  BY <1>1, <1>2, <1>3, <1>4 DEF PRInv, SessionKept, CommitsKept, Deciding
<1>10. AllowanceKept'
  <2>1. spent <= Room(s.pr.baseline) /\ Room(s.pr.baseline) \in Int
    BY <1>1, PRTypes DEF PRInv, SessionKept, AllowanceKept, Room, AtMost
  <2>2. Room(pr.baseline)' = Room(s.pr.baseline)
    BY <1>2, <1>4 DEF Room
  <2>3. BudgetKept'
    BY <1>2 DEF PRInv, SessionKept, AllowanceKept, BudgetKept
  <2> QED BY <1>2, <1>3, <2>1, <2>2, <2>3, PRTypes DEF AllowanceKept, Deciding
<1> QED BY <1>2, <1>3, <1>5, <1>6, <1>7, <1>8, <1>9, <1>10 DEF PRInv, SessionKept

\* The force push of a change, and what the plan makes of it.
LEMMA PushKeeps ==
  ASSUME PRInv, UNCHANGED <<resource, options, wanted, pr, cut, faults>>, PlansKept',
         NEW change \in Changes, Call = "push", Pushed(change),
         spent' = IF ~s.iterate THEN 0 ELSE IF s.granted THEN 1 ELSE spent + 1,
         events' \in 0 .. MaxEvents,
         cut = 0 /\ change # 0 => s.expected = change,
         \/ Call' = "none" /\ s' = NoSession /\ ~s.pr.open
         \/ s' = s /\ \/ Call' = "emptied" /\ ~s.pr.open
                      \/ Call' = "close" /\ BodyDue' /\ s.pr.open
                      \/ Call' = "refetch" /\ change # 0 /\ s.pr.open
                      \/ Call' = "create" /\ change # 0 /\ ~s.pr.open
  PROVE  PRInv'
<1>1. /\ ~s.pr.open => ~pr.open
      /\ s.iterate => s.pr.open /\ (s.granted \/ commitBudgetUsed(s.pr.baseline) < maxCommits)
      /\ s.granted => options.dynamic /\ s.iterate
  BY DEF PRInv, SessionKept, DecisionsKept, Deciding
<1>2. /\ branch'.commits = (IF s.iterate THEN branch.commits + 1 ELSE 1) /\ branch'.change = change
      /\ branch' \in BranchStates
  BY PRTypes DEF Pushed, BranchStates
<1>3. spent' \in Nat
  BY PRTypes
<1>4. PullRequestTypeOK'
  BY <1>2, <1>3, NoSessionType, CallsAreSteps DEF PRInv, PullRequestTypeOK, PlansKept, CallsOf
<1>5. DecisionsKept'
  BY <1>1, NoSessionType DEF PRInv, SessionKept, DecisionsKept, Deciding, NoSession
<1>6. LabelsKept'
  BY DEF PRInv, SessionKept, LabelsKept, GaveUpExplained
<1>7. BodyKept'
  BY <1>1, <1>2, BodyDueIs DEF BodyKept, Deciding
<1>8. CommitsKept'
  BY <1>1, <1>2, PRTypes DEF PRInv, SessionKept, CommitsKept, Deciding
<1>9. AllowanceKept'
  <2>1. BudgetKept'
    <3>1. CASE ~s.iterate
      BY <3>1, PullRequestAssumption, PRTypes DEF BudgetKept
    <3>2. CASE s.iterate /\ s.granted
      BY <3>2, <1>1, PullRequestAssumption, PRTypes DEF BudgetKept
    <3>3. CASE s.iterate /\ ~s.granted
      BY <3>3, <1>1, PullRequestAssumption, PRTypes
         DEF PRInv, SessionKept, CommitsKept, AllowanceKept, BudgetKept, commitBudgetUsed, Deciding,
             Room, AtMost
    <3> QED BY <3>1, <3>2, <3>3
  <2>2. pr.open => BodyDue' /\ spent' <= Room(pr.baseline)' + 1
    <3>1. pr.open => BodyDue'
      BY <1>1, BodyDueIs
    <3>2. pr.open => spent <= Room(pr.baseline)
      BY BodyDueIs, PRTypes DEF PRInv, SessionKept, AllowanceKept, Room, AtMost
    <3> QED BY <1>2, <3>1, <3>2, PRTypes DEF Room, AtMost
  <2>3. spent' <= Room(s.pr.baseline)' \/ s' # s
    BY <1>1, <1>2, PRTypes
       DEF PRInv, SessionKept, CommitsKept, AllowanceKept, Deciding, Room, AtMost
  <2> QED BY <2>1, <2>2, <2>3 DEF AllowanceKept, Deciding
<1> QED BY <1>4, <1>5, <1>6, <1>7, <1>8, <1>9 DEF PRInv, SessionKept

\* What happens to the repository while a run goes on, or between runs.
LEMMA AroundKeeps ==
  ASSUME PRInv, UNCHANGED <<options, s, todo, spent, cut, faults, resource>>,
         wanted' \in Changes, events' \in 0 .. MaxEvents, branch' \in BranchStates,
         branch'.commits = branch.commits, branch'.change = branch.change,
         \/ pr' = NoPR
         \/ /\ pr' \in PullRequests /\ pr'.open = pr.open /\ pr'.data = pr.data
            /\ pr'.baseline = pr.baseline /\ pr'.gaveup = pr.gaveup /\ pr'.comment = pr.comment
  PROVE  PRInv'
<1>1. /\ Call' = Call /\ BodyDue' = BodyDue /\ PlansKept' = PlansKept /\ Deciding' = Deciding
      /\ \A b : Room(b)' = Room(b)
  BY DEF Call, First, BodyDue, Idle, PlansKept, CallsOf, Deciding, Room
<1>2. pr' \in PullRequests /\ (pr'.open => pr.open /\ pr' # NoPR)
  <2>1. NoPR \in PullRequests /\ ~NoPR.open
    BY DEF NoPR, PullRequests, Changes
  <2> QED BY <2>1
<1>3. PullRequestTypeOK'
  BY <1>2 DEF PRInv, PullRequestTypeOK
<1>4. DecisionsKept'
  BY <1>1, <1>2 DEF PRInv, SessionKept, DecisionsKept, commitBudgetUsed
<1>5. LabelsKept'
  BY <1>1, <1>2 DEF PRInv, SessionKept, LabelsKept, GaveUpExplained, NoPR
<1>6. BodyKept'
  BY <1>1, <1>2 DEF PRInv, SessionKept, BodyKept
<1>7. CommitsKept'
  BY <1>1, <1>2 DEF PRInv, SessionKept, CommitsKept
<1>8. AllowanceKept'
  BY <1>1, <1>2 DEF PRInv, SessionKept, AllowanceKept, BudgetKept
<1> QED BY <1>1, <1>3, <1>4, <1>5, <1>6, <1>7, <1>8 DEF PRInv, SessionKept

-----------------------------------------------------------------------------
(* The runs of a path and of an issue.                                     *)

\* The plans that a decision leaves: one call, the clearing of the give-up, the
\* closing of the pull request.
LEMMA Chosen ==
  ASSUME UNCHANGED resource
  PROVE  /\ resource # "linear" =>
              /\ \A c \in {"decide", "revalidate", "analyze", "push"} :
                   todo' = <<c>> => PlansKept' /\ Call' = c
              /\ todo' = <<"labels", "decide">> => PlansKept' /\ Call' = "labels"
              /\ todo' = Clear => PlansKept' /\ Call' = "unlabel"
              /\ todo' = Clear \o <<"close">> => PlansKept' /\ Call' = "unlabel"
         /\ resource = "linear" =>
              \A c \in {"gates", "session", "ended", "decide", "push", "final", "emptied", "cancel"} :
                   todo' = <<c>> => PlansKept' /\ Call' = c
<1>1. /\ \A c : First(<<c>>) = c
      /\ First(<<"labels", "decide">>) = "labels"
      /\ First(<<"unlabel", "uncomment">>) = "unlabel"
      /\ First(<<"unlabel", "uncomment", "close">>) = "unlabel"
  BY DEF First
<1>2. ASSUME resource # "linear", todo' \in GitHubPlans
      PROVE  PlansKept'
  BY <1>2, PlansAreWellFormed DEF PlansKept, CallsOf
<1>3. ASSUME resource = "linear", todo' \in LinearPlans
      PROVE  PlansKept'
  BY <1>3, PlansAreWellFormed DEF PlansKept, CallsOf
<1>4. /\ \A c \in {"decide", "revalidate", "analyze", "push"} : <<c>> \in GitHubPlans
      /\ <<"labels", "decide">> \in GitHubPlans /\ <<"unlabel", "uncomment">> \in GitHubPlans
      /\ <<"unlabel", "uncomment", "close">> \in GitHubPlans
      /\ \A c \in {"gates", "session", "ended", "decide", "push", "final", "emptied", "cancel"} :
           <<c>> \in LinearPlans
  BY DEF GitHubPlans, LinearPlans
<1>5. Clear = <<"unlabel", "uncomment">> /\ Clear \o <<"close">> = <<"unlabel", "uncomment", "close">>
  BY PlansWrittenOut
<1>6. Call' = First(todo')
  BY DEF Call, First
<1> QED BY <1>1, <1>2, <1>3, <1>4, <1>5, <1>6

\* A decision that ends the run, or that leaves calls which decide nothing.
LEMMA DecidedQuietly ==
  ASSUME PRInv, Call \in {"decide", "revalidate", "analyze"},
         UNCHANGED <<options, wanted, pr, branch, spent, cut, events, faults, resource>>,
         Ends \/ (resource # "linear" /\ Goes(Clear)) \/ (resource # "linear" /\ Goes(Clear \o <<"close">>))
  PROVE  PRInv'
<1>1. ~BodyDue /\ events' \in 0 .. MaxEvents /\ faults' \in 0 .. MaxFaults
      /\ s.pr.baseline <= s.branch.commits
  BY BodyDueIs DEF PRInv, PullRequestTypeOK
<1>2. CASE Ends
  BY <1>1, <1>2, EndsWell, NoSessionType, QuietlyKeeps
<1>3. CASE resource # "linear" /\ (Goes(Clear) \/ Goes(Clear \o <<"close">>))
  <2>1. PlansKept' /\ Call' = "unlabel" /\ s' = s
    BY <1>3, Chosen DEF Goes
  <2> QED BY <1>1, <2>1, PRTypes, QuietlyKeeps
<1> QED BY <1>2, <1>3

LEMMA StartsKeep ==
  ASSUME PRInv, UNCHANGED resource,
         \/ resource = "path" /\ StartPath
         \/ resource = "issue" /\ StartIssue
  PROVE  PRInv'
<1>1. ~BodyDue
  BY DEF StartPath, StartIssue, BodyDue
<1>2. CASE resource = "path" /\ StartPath
  <2>1. PlansKept' /\ Call' \in {"labels", "decide"}
    BY <1>2, Chosen DEF StartPath
  <2> QED BY <1>1, <1>2, <2>1, SnapshotKeeps DEF StartPath, Changes
<1>3. CASE resource = "issue" /\ StartIssue
  <2>1. PlansKept' /\ Call' = "decide"
    BY <1>3, Chosen DEF StartIssue
  <2> QED BY <1>1, <1>3, <2>1, PRTypes, SnapshotKeeps DEF StartIssue
<1> QED BY <1>2, <1>3

LEMMA IterateKeeps ==
  ASSUME PRInv, resource = "path", UNCHANGED resource, Call = "decide", NEW granted \in BOOLEAN,
         Iterate(granted), HasPR, granted => options.dynamic, granted \/ ~HitMaxCommits,
         UNCHANGED <<options, wanted, pr, branch, spent, cut, events, faults>>
  PROVE  PRInv'
<1>1. /\ s' \in Sessions /\ s'.iterate /\ s'.granted = granted /\ s'.expected = s.pr.data
      /\ s'.pr.open /\ s'.pr.data = s.pr.data /\ s'.pr.gaveup = s.pr.gaveup
      /\ s'.branch = s.branch /\ s'.asked = s.asked
      /\ s'.pr.baseline = IF granted THEN s.branch.commits ELSE s.pr.baseline
  <2>1. [s.pr EXCEPT !.baseline = IF granted THEN s.branch.commits ELSE @] \in PullRequests
    BY PRTypes DEF PullRequests
  <2>2. s' = [s EXCEPT !.iterate = TRUE, !.granted = granted, !.expected = s.pr.data,
                       !.pr = [s.pr EXCEPT !.baseline = IF granted THEN s.branch.commits ELSE @]]
    BY PRTypes DEF Iterate, Sessions
  <2> QED BY <2>1, <2>2, PRTypes DEF HasPR, Sessions, PullRequests
<1>2. PlansKept' /\ Call' \in {"revalidate", "push"}
  BY Chosen DEF Iterate
<1>3. DecisionsKept'
  <2>1. granted \/ commitBudgetUsed(s.pr.baseline)' < maxCommits
    BY <1>1, PRTypes, PullRequestAssumption DEF HitMaxCommits, HasPR, commitBudgetUsed
  <2> QED BY <1>1, <1>2, <2>1 DEF DecisionsKept, Deciding
<1>4. IF s'.granted THEN s'.pr.baseline = branch.commits ELSE spent <= Room(s'.pr.baseline)
  BY <1>1, PRTypes
     DEF HasPR, PRInv, SessionKept, DecisionsKept, CommitsKept, AllowanceKept, Deciding
<1>5. s'.pr.baseline <= s'.branch.commits
  BY <1>1, PRTypes
<1> QED BY <1>1, <1>2, <1>3, <1>4, <1>5, DecisionKeeps DEF HasPR

LEMMA DecidePathKeeps ==
  ASSUME PRInv, resource = "path", UNCHANGED resource, DecidePath
  PROVE  PRInv'
<1>1. Call = "decide" /\ UNCHANGED <<options, wanted, pr, branch, spent, cut, events, faults, resource>>
  BY DEF DecidePath, At, Call, First, Idle
<1>2. CASE Ends \/ Goes(Clear)
  BY <1>1, <1>2, DecidedQuietly
<1>3. CASE Goes(<<"analyze">>)
  <2>1. PlansKept' /\ Call' = "analyze" /\ s' = s
    BY <1>3, Chosen DEF Goes
  <2>2. DecisionsKept'
    BY <1>1, <2>1 DEF PRInv, SessionKept, DecisionsKept, Deciding
  <2>3. ~s.iterate
    BY <1>1 DEF PRInv, SessionKept, DecisionsKept
  <2> QED BY <1>1, <2>1, <2>2, <2>3, PRTypes, DecisionKeeps
<1>4. CASE Iterate(TRUE) /\ HitMaxCommits /\ options.dynamic
  BY <1>1, <1>4, IterateKeeps DEF HitMaxCommits
<1>5. CASE Iterate(FALSE) /\ ~HitMaxCommits /\ HasFindings
  BY <1>1, <1>5, IterateKeeps DEF HasFindings
<1> QED BY <1>2, <1>3, <1>4, <1>5 DEF DecidePath

LEMMA RevalidateKeeps ==
  ASSUME PRInv, resource = "path", UNCHANGED resource, Revalidate
  PROVE  PRInv'
<1>1. Call = "revalidate" /\ UNCHANGED <<options, wanted, pr, branch, spent, cut, events, faults, resource>>
  BY DEF Revalidate, At, Call, First, Idle
<1>2. HasPR /\ s.iterate
  BY <1>1 DEF PRInv, SessionKept, DecisionsKept, HasPR
<1>3. CASE Goes(Clear \o CloseAnyOutstanding)
  BY <1>1, <1>2, <1>3, DecidedQuietly DEF CloseAnyOutstanding
<1>4. CASE todo' = <<"analyze">> /\ s' = [s EXCEPT !.iterate = FALSE, !.granted = FALSE]
  <2>1. PlansKept' /\ Call' = "analyze"
    BY <1>4, Chosen
  <2>2. /\ s' \in Sessions /\ ~s'.iterate /\ ~s'.granted /\ s'.pr = s.pr /\ s'.branch = s.branch
        /\ s'.asked = s.asked
    BY <1>4, PRTypes DEF Sessions
  <2>3. DecisionsKept'
    BY <1>1, <1>2, <2>1, <2>2 DEF PRInv, SessionKept, DecisionsKept, Deciding, HasPR
  <2> QED BY <1>1, <2>1, <2>2, <2>3, PRTypes, DecisionKeeps
<1>5. CASE Goes(<<"push">>)
  <2>1. PlansKept' /\ Call' = "push" /\ s' = s
    BY <1>5, Chosen DEF Goes
  <2>2. DecisionsKept'
    BY <1>1, <1>2, <2>1 DEF PRInv, SessionKept, DecisionsKept, Deciding, HasPR, commitBudgetUsed
  <2>3. IF s.granted THEN s.pr.baseline = branch.commits ELSE spent <= Room(s.pr.baseline)
    BY <1>1, <1>2 DEF PRInv, SessionKept, AllowanceKept, Deciding, HasPR
  <2> QED BY <1>1, <2>1, <2>2, <2>3, PRTypes, DecisionKeeps
<1> QED BY <1>3, <1>4, <1>5 DEF Revalidate

LEMMA AnalyzeKeeps ==
  ASSUME PRInv, resource = "path", UNCHANGED resource, Analyze
  PROVE  PRInv'
<1>1. Call = "analyze" /\ UNCHANGED <<options, wanted, pr, branch, spent, cut, events, faults, resource>>
  BY DEF Analyze, At, Call, First, Idle
<1>2. ~s.iterate /\ ~s.granted /\ (~s.pr.open => ~pr.open)
  BY <1>1 DEF PRInv, SessionKept, DecisionsKept, Deciding
<1>3. CASE HasPR /\ Goes(Clear \o CloseAnyOutstanding)
  BY <1>1, <1>3, DecidedQuietly DEF CloseAnyOutstanding
<1>4. CASE Ends
  BY <1>1, <1>4, DecidedQuietly
<1>5. CASE /\ s' = [s EXCEPT !.asked = wanted, !.expected = wanted]
           /\ todo' \in {<<"push">>, Clear}
  <2>1. /\ s' \in Sessions /\ ~s'.iterate /\ ~s'.granted /\ s'.pr = s.pr /\ s'.branch = s.branch
        /\ s'.asked = wanted /\ s'.expected = wanted
    BY <1>2, <1>5, PRTypes DEF Sessions
  <2>2. CASE todo' = <<"push">>
    <3>1. PlansKept' /\ Call' = "push"
      BY <2>2, Chosen
    <3>2. DecisionsKept'
      BY <1>1, <1>2, <2>1, <3>1 DEF PRInv, SessionKept, DecisionsKept, Deciding
    <3> QED BY <1>1, <2>1, <3>1, <3>2, PRTypes, DecisionKeeps
  <2>3. CASE todo' = Clear
    <3>1. PlansKept' /\ Call' = "unlabel" /\ ~BodyDue
      BY <1>1, <2>3, Chosen, BodyDueIs
    <3>2. /\ events' \in 0 .. MaxEvents /\ faults' \in 0 .. MaxFaults
          /\ s'.pr.baseline <= s'.branch.commits
      BY <1>1, <2>1 DEF PRInv, PullRequestTypeOK
    <3> QED BY <1>1, <1>2, <2>1, <3>1, <3>2, QuietlyKeeps
  <2> QED BY <1>5, <2>2, <2>3
<1> QED BY <1>3, <1>4, <1>5 DEF Analyze, Expected, Upsert

\* What follows a push: the plan of AfterPush.
LEMMA AfterPushIs ==
  ASSUME PRInv, resource # "linear", UNCHANGED resource, Call = "push",
         NEW change, Then(AfterPush(change))
  PROVE  /\ PlansKept'
         /\ \/ Call' = "none" /\ s' = NoSession /\ ~s.pr.open
            \/ s' = s /\ \/ Call' = "close" /\ BodyDue' /\ s.pr.open
                         \/ Call' = "refetch" /\ change # 0 /\ s.pr.open
                         \/ Call' = "create" /\ change # 0 /\ ~s.pr.open
<1>1. CASE change = 0 /\ HasPR
  <2>1. AfterPush(change) = <<"close", "unlabel", "uncomment">>
    BY <1>1, PlansWrittenOut DEF AfterPush, CloseAnyOutstanding
  <2>2. todo' = <<"close", "unlabel", "uncomment">> /\ s' = s
    BY <2>1 DEF Then, Goes
  <2>3. PlansKept'
    BY <2>2, PlansAreWellFormed DEF PlansKept, CallsOf, GitHubPlans
  <2>4. Call' = "close" /\ BodyDue'
    BY <2>2 DEF Call, First, BodyDue, Idle
  <2> QED BY <1>1, <2>2, <2>3, <2>4 DEF HasPR
<1>2. CASE change = 0 /\ ~HasPR
  <2>1. Ends
    BY <1>2 DEF AfterPush, Then
  <2> QED BY <1>2, <2>1, EndsWell DEF HasPR
<1>3. CASE change # 0 /\ HasPR
  <2>1. AfterPush(change) = <<"refetch", "edit", "relabel", "unlabel", "uncomment">>
    BY <1>3, PlansWrittenOut DEF AfterPush
  <2>2. todo' = <<"refetch", "edit", "relabel", "unlabel", "uncomment">> /\ s' = s
    BY <2>1 DEF Then, Goes
  <2>3. PlansKept'
    BY <2>2, PlansAreWellFormed DEF PlansKept, CallsOf, GitHubPlans
  <2>4. Call' = "refetch"
    BY <2>2 DEF Call, First
  <2> QED BY <1>3, <2>2, <2>3, <2>4 DEF HasPR
<1>4. CASE change # 0 /\ ~HasPR
  <2>1. AfterPush(change) = <<"create", "label", "unlabel", "uncomment">>
    BY <1>4, PlansWrittenOut DEF AfterPush
  <2>2. todo' = <<"create", "label", "unlabel", "uncomment">> /\ s' = s
    BY <2>1 DEF Then, Goes
  <2>3. PlansKept'
    BY <2>2, PlansAreWellFormed DEF PlansKept, CallsOf, GitHubPlans
  <2>4. Call' = "create"
    BY <2>2 DEF Call, First
  <2> QED BY <1>4, <2>2, <2>3, <2>4 DEF HasPR
<1> QED BY <1>1, <1>2, <1>3, <1>4

LEMMA PushesKeep ==
  ASSUME PRInv, UNCHANGED resource,
         \/ resource = "path" /\ (PushPath \/ AgentReverts)
         \/ resource = "issue" /\ (PushIssue \/ AgentReverts)
  PROVE  PRInv'
<1>1. ASSUME NEW change \in Changes, Push(change, AfterPush(change)), events' \in 0 .. MaxEvents,
             cut = 0 /\ change # 0 => s.expected = change
      PROVE  PRInv'
  <2>1. Call = "push"
    BY <1>1 DEF Push, At, Call, First, Idle
  <2>2. resource # "linear"
    OBVIOUS
  <2> QED BY <1>1, <2>1, <2>2, AfterPushIs, PushKeeps DEF Push
<1>2. events \in 0 .. MaxEvents /\ 0 \in Changes
  BY DEF PRInv, PullRequestTypeOK, Changes
<1>3. CASE AgentReverts
  BY <1>1, <1>2, <1>3, PullRequestAssumption DEF AgentReverts, AnEvent
<1>4. CASE resource = "path" /\ PushPath
  <2> DEFINE change == IF s.iterate THEN branch.change ELSE s.asked
  <2>1. Call = "push"
    BY <1>4 DEF PushPath, Push, At, Call, First, Idle
  <2>2. cut = 0 => s.expected = change
    BY <1>4, <2>1 DEF PRInv, SessionKept, DecisionsKept, BodyKept, Deciding
  <2> QED BY <1>1, <1>2, <1>4, <2>2, PRTypes DEF PushPath
<1>5. CASE resource = "issue" /\ PushIssue
  <2>1. Call = "push"
    BY <1>5 DEF PushIssue, Push, At, Call, First, Idle
  <2>2. s.expected = s.asked
    BY <1>5, <2>1 DEF PRInv, SessionKept, DecisionsKept, Deciding
  <2> QED BY <1>1, <1>2, <1>5, <2>2, PRTypes DEF PushIssue
<1> QED BY <1>3, <1>4, <1>5

LEMMA DecideIssueKeeps ==
  ASSUME PRInv, resource = "issue", UNCHANGED resource, DecideIssue
  PROVE  PRInv'
<1>1. Call = "decide" /\ UNCHANGED <<options, wanted, pr, branch, spent, cut, events, faults, resource>>
  BY DEF DecideIssue, At, Call, First, Idle
<1>2. ~s.iterate /\ ~s.granted /\ s.expected = s.asked /\ (~s.pr.open => ~pr.open)
  BY <1>1 DEF PRInv, SessionKept, DecisionsKept, Deciding
<1>3. CASE Ends \/ Goes(Clear) \/ Goes(Clear \o <<"close">>)
  BY <1>1, <1>3, DecidedQuietly
<1>4. ASSUME NEW iterate \in BOOLEAN, iterate => HasPR /\ ~HitMaxCommits,
             s' = [s EXCEPT !.iterate = iterate], todo' \in {<<"push">>, Clear}
      PROVE  PRInv'
  <2>1. /\ s' \in Sessions /\ s'.iterate = iterate /\ ~s'.granted /\ s'.pr = s.pr
        /\ s'.branch = s.branch /\ s'.asked = s.asked /\ s'.expected = s.expected
    BY <1>2, <1>4, PRTypes DEF Sessions
  <2>2. CASE todo' = <<"push">>
    <3>1. PlansKept' /\ Call' = "push"
      BY <2>2, Chosen
    <3>2. DecisionsKept'
      <4>1. iterate => s.pr.open /\ commitBudgetUsed(s.pr.baseline)' < maxCommits
        BY <1>1, <1>4, <2>1, PRTypes, PullRequestAssumption
           DEF HitMaxCommits, HasPR, commitBudgetUsed
      <4> QED BY <1>1, <1>2, <2>1, <3>1, <4>1 DEF PRInv, SessionKept, DecisionsKept, Deciding
    <3>3. s.pr.open => spent <= Room(s'.pr.baseline)
      BY <1>1, <1>2, <2>1 DEF PRInv, SessionKept, AllowanceKept
    <3> QED BY <1>1, <2>1, <3>1, <3>2, <3>3, PRTypes, DecisionKeeps
  <2>3. CASE todo' = Clear
    <3>1. PlansKept' /\ Call' = "unlabel" /\ ~BodyDue
      BY <1>1, <2>3, Chosen, BodyDueIs
    <3>2. /\ events' \in 0 .. MaxEvents /\ faults' \in 0 .. MaxFaults
          /\ s'.pr.baseline <= s'.branch.commits
      BY <1>1, <2>1 DEF PRInv, PullRequestTypeOK
    <3> QED BY <1>1, <2>1, <3>1, <3>2, QuietlyKeeps
  <2> QED BY <1>4, <2>2, <2>3
<1>5. CASE \E iterate \in BOOLEAN : UpsertIssue(iterate) /\ (iterate => HasFindings /\ ~HitMaxCommits)
  <2>1. PICK iterate \in BOOLEAN : UpsertIssue(iterate) /\ (iterate => HasFindings /\ ~HitMaxCommits)
    BY <1>5
  <2>2. CASE Ends
    BY <1>3, <2>2
  <2>3. CASE /\ s' = [s EXCEPT !.iterate = iterate]
             /\ todo' \in {<<"push">>, Clear}
    BY <1>4, <2>1, <2>3 DEF HasFindings
  <2> QED BY <2>1, <2>2, <2>3 DEF UpsertIssue, Upsert
<1> QED BY <1>3, <1>5 DEF DecideIssue, Then, CloseAnyOutstanding

\* What is done around a run: to the base, the branch and the pull request.
LEMMA PeopleKeep ==
  ASSUME PRInv, UNCHANGED resource, BaseMoves \/ MergeOrClose \/ Around
  PROVE  PRInv'
<1> USE PRTypes
<1>1. events \in 0 .. MaxEvents /\ (AnEvent => events' \in 0 .. MaxEvents)
  BY PullRequestAssumption DEF PRInv, PullRequestTypeOK, AnEvent
<1>2. CASE BaseMoves
  BY <1>1, <1>2, AroundKeeps DEF BaseMoves
<1>3. CASE MergeOrClose
  BY <1>1, <1>3, AroundKeeps DEF MergeOrClose, Changes
<1>4. CASE ChecksFinish \/ MergeabilityKnown \/ Conflicts \/ Review
  <2>1. UNCHANGED <<options, wanted, pr, s, todo, spent, cut, faults>> /\ events' \in 0 .. MaxEvents
    BY <1>1, <1>4 DEF ChecksFinish, MergeabilityKnown, Conflicts, Review
  <2>2. branch' \in BranchStates /\ branch'.commits = branch.commits /\ branch'.change = branch.change
    BY <1>4 DEF ChecksFinish, MergeabilityKnown, Conflicts, Review, BranchStates
  <2> QED BY <2>1, <2>2, AroundKeeps
<1>5. CASE TakeOver
  <2>1. PICK t \in {"no", "label", "assigned"} : pr' = [pr EXCEPT !.taken = t]
    BY <1>5 DEF TakeOver
  <2>2. /\ pr' \in PullRequests /\ pr'.open = pr.open /\ pr'.data = pr.data
        /\ pr'.baseline = pr.baseline /\ pr'.gaveup = pr.gaveup /\ pr'.comment = pr.comment
    BY <2>1 DEF PullRequests
  <2> QED BY <1>1, <1>5, <2>2, AroundKeeps DEF TakeOver
<1> QED BY <1>2, <1>3, <1>4, <1>5 DEF Around

\* A path or an issue: every step of its run, and of the people.
LEMMA GitHubKeeps ==
  ASSUME PRInv, UNCHANGED resource,
         \/ resource = "path" /\ (PathRuns \/ SessionNext \/ People)
         \/ resource = "issue" /\ (IssueRuns \/ SessionNext \/ People)
         \/ resource # "linear" /\ Around
  PROVE  PRInv'
<1>1. CASE resource # "linear" /\ SessionNext
  BY <1>1, NoChangesKeeps, CreateKeeps, RefetchKeeps, EditKeeps, LabelCallKeeps, RunDiesKeeps,
     ClearFailsKeeps, CommentForbiddenKeeps DEF SessionNext
<1>2. CASE resource # "linear" /\ (BaseMoves \/ MergeOrClose \/ Around)
  BY <1>2, PeopleKeep
<1>3. CASE resource = "path" /\ (PathRuns \/ AgentReverts)
  BY <1>3, StartsKeep, DecidePathKeeps, RevalidateKeeps, AnalyzeKeeps, PushesKeep DEF PathRuns
<1>4. CASE resource = "issue" /\ (IssueRuns \/ AgentReverts)
  BY <1>4, StartsKeep, DecideIssueKeeps, PushesKeep DEF IssueRuns
<1> QED BY <1>1, <1>2, <1>3, <1>4 DEF People

-----------------------------------------------------------------------------
(* The runs of a Linear issue.                                             *)

\* A save ends the run, or leaves the calls that write.
LEMMA SavePlans ==
  ASSUME resource = "linear", UNCHANGED resource, NEW old, NEW new,
         NEW after \in {<<>>, <<"cancel">>}, SaveThen(old, new, after)
  PROVE  /\ PlansKept'
         /\ \/ Call' = "none" /\ s' = NoSession /\ todo' = <<>> /\ ~Dirty(old, Tidy(new))
            \/ Call' = "cancel" /\ s' = s /\ after # <<>> /\ ~Dirty(old, Tidy(new))
            \/ /\ Call' = "delete" /\ s' = s
               /\ todo' = IF after = <<>> THEN <<"delete", "upload">> ELSE <<"delete", "upload", "cancel">>
<1>1. <<"delete", "upload">> \o after
        = IF after = <<>> THEN <<"delete", "upload">> ELSE <<"delete", "upload", "cancel">>
  BY PlansWrittenOut
<1>2. CASE Dirty(old, Tidy(new))
  <2>1. /\ todo' = IF after = <<>> THEN <<"delete", "upload">> ELSE <<"delete", "upload", "cancel">>
        /\ s' = s
    <3>1. Then(<<"delete", "upload">> \o after)
      BY <1>2 DEF SaveThen
    <3>2. <<"delete", "upload">> \o after # <<>>
      BY <1>1
    <3> QED BY <1>1, <3>1, <3>2 DEF Then, Goes
  <2>2. PlansKept'
    BY <2>1, PlansAreWellFormed DEF PlansKept, CallsOf, LinearPlans
  <2>3. Call' = "delete"
    BY <2>1 DEF Call, First
  <2> QED BY <2>1, <2>2, <2>3
<1>3. CASE ~Dirty(old, Tidy(new)) /\ after = <<>>
  <2>1. Ends
    BY <1>3 DEF SaveThen, Then
  <2> QED BY <1>3, <2>1, EndsWell
<1>4. CASE ~Dirty(old, Tidy(new)) /\ after = <<"cancel">>
  <2>1. todo' = <<"cancel">> /\ s' = s
    BY <1>4 DEF SaveThen, Then, Goes
  <2> QED BY <1>4, <2>1, Chosen
<1> QED BY <1>2, <1>3, <1>4

\* Every step of a Linear issue names the call it makes.
LEMMA LinearCall ==
  ASSUME NEW step, At(step)
  PROVE  Call = step /\ ~Idle
BY DEF At, Call, First, Idle

LEMMA SaveKeeps ==
  ASSUME PRInv, resource = "linear", UNCHANGED resource, Quiet, ~BodyDue, Call # "none",
         NEW old, NEW new, NEW after \in {<<>>, <<"cancel">>}, SaveThen(old, new, after)
  PROVE  PRInv'
<1>1. /\ UNCHANGED <<options, wanted, pr, branch, spent, cut, events, faults>>
      /\ events \in 0 .. MaxEvents /\ faults \in 0 .. MaxFaults
      /\ s.pr.baseline <= s.branch.commits /\ s \in Sessions
  BY DEF Quiet, PRInv, PullRequestTypeOK
<1>2. /\ PlansKept' /\ Call' \in {"none", "cancel", "delete"}
      /\ IF Call' = "none" THEN s' = NoSession ELSE s' = s
  BY SavePlans
<1> QED BY <1>1, <1>2, NoSessionType, QuietlyKeeps

\* A run that starts, its gates, and the writing of a state.
LEMMA AsideKeeps ==
  ASSUME PRInv, resource = "linear", UNCHANGED resource,
         StartLinear \/ GateSaveFails \/ Gates \/ Delete \/ Upload \/ Cancel
  PROVE  PRInv'
<1> USE NoSessionType
<1>1. /\ events \in 0 .. MaxEvents /\ faults \in 0 .. MaxFaults
      /\ s.pr.baseline <= s.branch.commits /\ s \in Sessions
  BY DEF PRInv, PullRequestTypeOK
<1>2. CASE StartLinear
  <2>1. ~BodyDue /\ UNCHANGED <<options, wanted, pr, branch, spent, cut, events, faults>>
    BY <1>2 DEF StartLinear, BodyDue, Quiet
  <2>2. s' \in Sessions /\ s'.pr.baseline <= s'.branch.commits /\ ~s'.granted
    <3>1. s' = [NoSession EXCEPT !.asked = wanted]
      BY <1>2 DEF StartLinear
    <3> QED BY <3>1, PRTypes DEF Sessions, NoSession
  <2>3. todo' = <<"delete", "upload", "gates">> \/ todo' = <<"gates">>
    BY <1>2, PlansWrittenOut DEF StartLinear
  <2>4. PlansKept' /\ Call' \in {"delete", "gates"}
    <3>1. PlansKept'
      BY <2>3, PlansAreWellFormed DEF PlansKept, CallsOf, LinearPlans
    <3> QED BY <2>3, <3>1 DEF Call, First
  <2> QED BY <1>1, <2>1, <2>2, <2>4, QuietlyKeeps
<1>3. CASE GateSaveFails \/ Gates
  <2>1. Call \in {"delete", "upload", "gates"} /\ ~Idle
    BY <1>3 DEF GateSaveFails, Gates, At, Call, First, Idle
  <2>2. ~BodyDue /\ UNCHANGED <<options, wanted, pr, branch, spent, cut, events>>
    BY <1>3, <2>1, BodyDueIs DEF GateSaveFails, Gates, Quiet
  <2>3. faults' \in 0 .. MaxFaults
    BY <1>1, <1>3, PullRequestAssumption DEF GateSaveFails, Gates, Quiet
  <2>4. Ends \/ Goes(<<"gates">>) \/ Goes(<<"session">>)
    BY <1>3 DEF GateSaveFails, Gates, Then
  <2>5. CASE Ends
    BY <1>1, <2>1, <2>2, <2>3, <2>5, EndsWell, QuietlyKeeps
  <2>6. CASE Goes(<<"gates">>) \/ Goes(<<"session">>)
    <3>1. PlansKept' /\ Call' \in {"gates", "session"} /\ s' = s
      BY <2>6, Chosen DEF Goes
    <3> QED BY <1>1, <2>1, <2>2, <2>3, <3>1, QuietlyKeeps
  <2> QED BY <2>4, <2>5, <2>6
<1>4. CASE Delete \/ Upload \/ Cancel
  <2>1. Call \in {"delete", "upload", "cancel"} /\ ~Idle
    BY <1>4 DEF Delete, Upload, Cancel, At, Call, First, Idle
  <2>2. ~BodyDue /\ UNCHANGED <<options, wanted, pr, branch, spent, cut, events, faults>> /\ Continue
    BY <1>4, <2>1, BodyDueIs DEF Delete, Upload, Cancel, Quiet
  <2>3. PlansKept' /\ (Call' # "none" => s' = s /\ <<Call, Call'>> \in Follows)
        /\ (Call' = "none" => s' = NoSession)
    BY <2>1, <2>2, Continues DEF PRInv
  <2>4. Call' \in {"none", "upload", "gates", "cancel"}
    BY <2>1, <2>3 DEF Follows
  <2> QED BY <1>1, <2>1, <2>2, <2>3, <2>4, QuietlyKeeps
<1> QED BY <1>2, <1>3, <1>4

LEMMA OpenSessionKeeps ==
  ASSUME PRInv, resource = "linear", UNCHANGED resource, OpenSession \/ FromPRState
  PROVE  PRInv'
<1>1. CASE OpenSession
  <2>1. Call = "session" /\ ~BodyDue
    BY <1>1, LinearCall, BodyDueIs DEF OpenSession
  <2>2. PlansKept' /\ Call' \in {"ended", "decide"}
    BY <1>1, Chosen DEF OpenSession
  <2> QED BY <1>1, <2>1, <2>2, PRTypes, SnapshotKeeps DEF OpenSession, Quiet
<1>2. CASE FromPRState
  <2>1. Call = "ended" /\ ~BodyDue
    BY <1>2, LinearCall, BodyDueIs DEF FromPRState
  <2>2. \/ Goes(<<"decide">>)
        \/ \E old, new : \E after \in {<<>>, <<"cancel">>} : SaveThen(old, new, after)
    BY <1>2 DEF FromPRState
  <2>3. UNCHANGED <<options, wanted, pr, branch, spent, cut, events, faults>> /\ Quiet
    BY <1>2 DEF FromPRState, Quiet
  <2>4. CASE Goes(<<"decide">>)
    <3>1. PlansKept' /\ Call' = "decide" /\ s' = s
      BY <2>4, Chosen DEF Goes
    <3>2. DecisionsKept'
      BY <2>1, <2>3, <3>1 DEF PRInv, SessionKept, DecisionsKept, Deciding, commitBudgetUsed
    <3>3. s.pr.open => IF s.granted THEN s.pr.baseline = branch.commits ELSE spent <= Room(s.pr.baseline)
      BY <2>1 DEF PRInv, SessionKept, AllowanceKept
    <3> QED BY <2>1, <2>3, <3>1, <3>2, <3>3, PRTypes, DecisionKeeps
  <2> QED BY <2>1, <2>2, <2>3, <2>4, SaveKeeps
<1> QED BY <1>1, <1>2

LEMMA DecideLinearKeeps ==
  ASSUME PRInv, resource = "linear", UNCHANGED resource, DecideLinear
  PROVE  PRInv'
<1>1. /\ Call = "decide" /\ UNCHANGED <<options, wanted, pr, branch, spent, cut, events, faults>>
      /\ Quiet /\ ~BodyDue
  BY LinearCall, BodyDueIs DEF DecideLinear, Quiet
<1>2. ~s.iterate /\ ~s.granted /\ s.expected = s.asked /\ (~s.pr.open => ~pr.open)
  BY <1>1 DEF PRInv, SessionKept, DecisionsKept, Deciding
<1>3. CASE Ends
  BY <1>1, <1>3, DecidedQuietly
<1>4. CASE \E new : Save(new)
  <2>1. \E old, new : \E after \in {<<>>, <<"cancel">>} : SaveThen(old, new, after)
    BY <1>4 DEF Save
  <2> QED BY <1>1, <2>1, SaveKeeps
<1>5. ASSUME NEW iterate \in BOOLEAN, iterate => HasPR /\ ~HitMaxCommits, UpsertLinear(iterate)
      PROVE  PRInv'
  <2>1. /\ s' \in Sessions /\ s'.iterate = iterate /\ ~s'.granted /\ s'.pr = s.pr
        /\ s'.branch = s.branch /\ s'.asked = s.asked /\ s'.expected = s.expected
    BY <1>2, <1>5, PRTypes DEF UpsertLinear, Sessions
  <2>2. CASE todo' = <<"push">>
    <3>1. PlansKept' /\ Call' = "push"
      BY <2>2, Chosen
    <3>2. DecisionsKept'
      <4>1. iterate => s.pr.open /\ commitBudgetUsed(s.pr.baseline)' < maxCommits
        BY <1>1, <1>5, <2>1, PRTypes, PullRequestAssumption
           DEF HitMaxCommits, HasPR, commitBudgetUsed
      <4> QED BY <1>1, <1>2, <2>1, <3>1, <4>1 DEF PRInv, SessionKept, DecisionsKept, Deciding
    <3>3. s.pr.open => spent <= Room(s'.pr.baseline)
      BY <1>1, <1>2, <2>1 DEF PRInv, SessionKept, AllowanceKept
    <3> QED BY <1>1, <2>1, <3>1, <3>2, <3>3, PRTypes, DecisionKeeps
  <2>3. CASE todo' = <<"final">>
    <3>1. PlansKept' /\ Call' = "final"
      BY <2>3, Chosen
    <3>2. /\ events' \in 0 .. MaxEvents /\ faults' \in 0 .. MaxFaults
          /\ s'.pr.baseline <= s'.branch.commits
      BY <1>1, <2>1 DEF PRInv, PullRequestTypeOK
    <3> QED BY <1>1, <2>1, <3>1, <3>2, QuietlyKeeps
  <2> QED BY <1>5, <2>2, <2>3 DEF UpsertLinear
<1> QED BY <1>3, <1>4, <1>5 DEF DecideLinear, HasFindings, HasNoConflicts

\* What follows a push of a Linear issue: the plan of AfterPushLinear.
LEMMA AfterPushLinearIs ==
  ASSUME PRInv, resource = "linear", UNCHANGED resource, Call = "push",
         NEW change, Then(AfterPushLinear(change))
  PROVE  /\ PlansKept' /\ s' = s
         /\ \/ Call' = "emptied" /\ change = 0 /\ ~s.pr.open
            \/ Call' = "close" /\ BodyDue' /\ change = 0 /\ s.pr.open
            \/ Call' = "refetch" /\ change # 0 /\ s.pr.open
            \/ Call' = "create" /\ change # 0 /\ ~s.pr.open
<1> DEFINE plan == IF change = 0 THEN IF HasPR THEN <<"close", "emptied">> ELSE <<"emptied">>
                   ELSE IF HasPR THEN <<"refetch", "edit", "relabel", "final">>
                   ELSE <<"create", "label", "final">>
<1>1. AfterPushLinear(change) = plan
  BY PlansWrittenOut DEF AfterPushLinear, CloseAnyOutstanding
<1>2. plan \in LinearPlans
  BY DEF LinearPlans
<1>3. plan # <<>> /\ plan \in Seq(LinearCalls) /\ WellFormed(plan)
  BY <1>2, PlansAreWellFormed
<1>4. todo' = plan /\ s' = s
  <2> HIDE DEF plan
  <2> QED BY <1>1, <1>3 DEF Then, Goes
<1>5. PlansKept'
  <2> HIDE DEF plan
  <2> QED BY <1>3, <1>4 DEF PlansKept, CallsOf
<1>6. CASE change = 0 /\ HasPR
  BY <1>4, <1>5, <1>6 DEF Call, First, BodyDue, Idle, HasPR
<1>7. CASE change = 0 /\ ~HasPR
  BY <1>4, <1>5, <1>7 DEF Call, First, HasPR
<1>8. CASE change # 0 /\ HasPR
  BY <1>4, <1>5, <1>8 DEF Call, First, HasPR
<1>9. CASE change # 0 /\ ~HasPR
  BY <1>4, <1>5, <1>9 DEF Call, First, HasPR
<1> QED BY <1>6, <1>7, <1>8, <1>9

LEMMA PushLinearKeeps ==
  ASSUME PRInv, resource = "linear", UNCHANGED resource,
         (PushLinear(s.asked) /\ UNCHANGED events) \/ LinearReverts
  PROVE  PRInv'
<1>1. events \in 0 .. MaxEvents /\ 0 \in Changes
  BY DEF PRInv, PullRequestTypeOK, Changes
<1>2. ASSUME NEW change \in Changes, PushLinear(change), events' \in 0 .. MaxEvents,
             change = s.asked \/ change = 0
      PROVE  PRInv'
  <2>1. Call = "push" /\ Push(change, AfterPushLinear(change))
    BY <1>2, LinearCall DEF PushLinear, Push
  <2>2. s.expected = s.asked
    BY <2>1 DEF PRInv, SessionKept, DecisionsKept, Deciding
  <2>3. /\ UNCHANGED <<options, wanted, pr, cut, faults>> /\ Pushed(change)
        /\ Then(AfterPushLinear(change))
        /\ spent' = IF ~s.iterate THEN 0 ELSE IF s.granted THEN 1 ELSE spent + 1
    BY <2>1 DEF Push
  <2> QED BY <1>2, <2>1, <2>2, <2>3, AfterPushLinearIs, PushKeeps
<1> QED BY <1>1, <1>2, PRTypes, PullRequestAssumption DEF LinearReverts, AnEvent

\* Every step of a Linear issue, as far as its pull request goes.
LEMMA LinearKeeps ==
  ASSUME PRInv, resource = "linear", UNCHANGED resource,
         \/ LinearRuns \/ LinearDies \/ GateSaveFails \/ LinearReverts \/ LinearAround
         \/ Around
  PROVE  PRInv'
<1>1. CASE StartLinear \/ GateSaveFails \/ Gates \/ Delete \/ Upload \/ Cancel
  BY <1>1, AsideKeeps
<1>2. CASE OpenSession \/ FromPRState \/ DecideLinear \/ LinearReverts
           \/ (PushLinear(s.asked) /\ UNCHANGED events)
  BY <1>2, OpenSessionKeeps, DecideLinearKeeps, PushLinearKeeps
<1>3. CASE NoChangesLinear \/ Final
  <2>1. Call \in {"push", "final", "emptied"} /\ ~Idle /\ Quiet
    BY <1>3 DEF NoChangesLinear, Final, At, Call, First, Idle
  <2>2. \E old, new : \E after \in {<<>>, <<"cancel">>} : SaveThen(old, new, after)
    BY <1>3 DEF NoChangesLinear, Final, Save
  <2> QED BY <2>1, <2>2, BodyDueIs, SaveKeeps
<1>4. CASE CreateLinear \/ CallLinear
  BY <1>4, CreateKeeps, RefetchKeeps, EditKeeps, LabelCallKeeps DEF CreateLinear, CallLinear
<1>5. CASE LinearDies
  BY <1>5, RunDiesKeeps DEF LinearDies
<1>6. CASE LinearAround \/ Around
  <2>1. events \in 0 .. MaxEvents /\ (AnEvent => events' \in 0 .. MaxEvents)
    BY PullRequestAssumption DEF PRInv, PullRequestTypeOK, AnEvent
  <2>2. CASE DescriptionEdited
    BY <2>1, <2>2, PRTypes, AroundKeeps DEF DescriptionEdited, Changes
  <2>3. CASE LinearMergeOrClose \/ IssueMoves
    BY <2>1, <2>3, PRTypes, AroundKeeps DEF LinearMergeOrClose, IssueMoves
  <2> QED BY <1>6, <2>2, <2>3, PeopleKeep DEF LinearAround
<1> QED BY <1>1, <1>2, <1>3, <1>4, <1>5, <1>6 DEF LinearRuns

-----------------------------------------------------------------------------
(* The state of a Linear issue.                                            *)

LinearInv ==
  /\ LinearTypeOK /\ StatesKept /\ BarrenKept /\ FatesKept /\ ReopeningsKept

\* Nothing follows the gates, nor the bot's callback.
LEMMA LastOnes ==
  ASSUME NEW S, NEW t \in Seq(S), WellFormed(t), t # <<>>, Head(t) \in {"gates", "cancel"}
  PROVE  t[Len(t)] = Head(t)
BY TailFollows DEF Follows

\* What the parts of the invariant need to know of the state's types.
LEMMA LinearTypes ==
  ASSUME PRInv, LinearInv
  PROVE  /\ stored \in States /\ view.state \in States /\ view.draft \in States
         /\ \A st \in States : st.idle \in Nat /\ st.url \in Nat /\ CountOf(st) \in Nat
         /\ Len(fates) \in Nat /\ barren \in Nat /\ faults \in Nat
         /\ maxNoDiffIterations \in Nat /\ maxNoDiffIterations > 0 /\ Forgiven \in Nat
         /\ faults' = faults => Forgiven' = Forgiven
         /\ faults' = faults + 1 => Forgiven' = Forgiven + maxNoDiffIterations
<1>1. faults \in Nat /\ maxNoDiffIterations \in Nat /\ maxNoDiffIterations > 0
  BY LinearAssumption, PullRequestAssumption DEF PRInv, PullRequestTypeOK
<1>2. /\ Forgiven \in Nat
      /\ faults' = faults => Forgiven' = Forgiven
      /\ faults' = faults + 1 => Forgiven' = Forgiven + maxNoDiffIterations
  <2>1. \A m, f \in Nat : m * f \in Nat /\ m * (f + 1) = m * f + m
    OBVIOUS
  <2> QED BY <1>1, <2>1 DEF Forgiven
<1>3. \A st \in States : st.idle \in Nat /\ st.url \in Nat /\ CountOf(st) \in Nat
  BY DEF States, CountOf
<1>4. stored \in States /\ view.state \in States /\ view.draft \in States /\ barren \in Nat
      /\ Len(fates) \in Nat
  BY LenProperties DEF LinearInv, LinearTypeOK
<1> QED BY <1>1, <1>2, <1>3, <1>4

LEMMA CountOfIs ==
  ASSUME NEW st, st.idle \in Nat
  PROVE  /\ CountOf(st) \in Nat /\ CountOf(st) >= st.idle
         /\ st.mode = "NoDiff" => CountOf(st) = st.idle + 1
BY DEF CountOf

\* An empty state: none that was saved, and none that was loaded.
LEMMA EmptyStates ==
  ASSUME PRInv, LinearInv
  PROVE  /\ NoState \in States /\ Counted(NoState) /\ ~Reopenable(NoState)
         /\ NoView.state = NoState /\ NoView.draft = NoState /\ NoView.workflow = "open"
         /\ NoView \in [workflow : {"open", "terminal"}, state : States, draft : States]
<1>1. NoState \in States
  BY DEF NoState, States
<1>2. Counted(NoState)
  BY LinearTypes DEF Counted, NoState
<1>3. ~Reopenable(NoState)
  BY DEF Reopenable, NoState
<1> QED BY <1>1, <1>2, <1>3 DEF NoView

\* A run that stops, with nothing to save.
LEMMA StopsWell ==
  ASSUME PRInv, LinearInv, ~Saving, ~JustOpened, Call # "cancel",
         UNCHANGED <<workflow, stored, fates, reactivated, lost, faults, resource>>,
         pr'.open = pr.open, view' = NoView, todo' = <<>>,
         barren' \in Nat, barren' <= CountOf(stored) + Forgiven
  PROVE  LinearInv'
<1>1. Call' = "none" /\ ~Saving' /\ ~JustOpened' /\ ~Loaded' /\ ~Gated' /\ ~GateSave'
  BY DEF Call, First, Saving, JustOpened, Loaded, Gated, GateSave
<1>2. LinearTypeOK'
  BY EmptyStates DEF LinearInv, LinearTypeOK
<1>3. StatesKept'
  BY <1>1, EmptyStates DEF LinearInv, StatesKept, Counted
<1>4. BarrenKept'
  BY <1>1, LinearTypes DEF BarrenKept, Explains, CountOf
<1>5. FatesKept'
  BY <1>1 DEF LinearInv, FatesKept, Misses, Excused
<1>6. ReopeningsKept'
  BY <1>1 DEF LinearInv, ReopeningsKept, Reopenable, Excused
<1> QED BY <1>2, <1>3, <1>4, <1>5, <1>6 DEF LinearInv

\* A save: what it must know of the state it writes.
LEMMA SavesWell ==
  ASSUME PRInv, LinearInv, resource = "linear", UNCHANGED resource, ~Saving, Call # "cancel",
         NEW old \in States, NEW new, NEW after \in {<<>>, <<"cancel">>}, SaveThen(old, new, after),
         Tidy(new) \in States, Counted(Tidy(new)),
         Excused \/ ~Misses(Tidy(new)),
         Reopenable(Tidy(new)) /\ workflow = "open" => Excused \/ after = <<"cancel">>,
         UNCHANGED <<pr, workflow, stored, fates, reactivated, lost, faults>>,
         barren' \in Nat, barren' <= CountOf(Tidy(new)) + Forgiven,
         ~Dirty(old, Tidy(new)) =>
           ~JustOpened /\ barren' <= CountOf(stored) + Forgiven
  PROVE  LinearInv'
<1> DEFINE d == Tidy(new)
<1> HIDE DEF d
<1>1. view' = IF todo' = <<>> THEN NoView ELSE [view EXCEPT !.draft = d]
  BY DEF SaveThen, Seen, d
<1>2. CASE Call' = "none"
  <2>1. todo' = <<>> /\ ~Dirty(old, Tidy(new))
    BY <1>2, SavePlans
  <2> QED BY <1>1, <2>1, StopsWell
<1>3. CASE Call' = "cancel" \/ Call' = "delete"
  <2>1. todo' # <<>>
    BY <1>3 DEF Call, First
  <2>2. /\ view'.state = view.state /\ view'.draft = d /\ view'.workflow = view.workflow
        /\ view' \in [workflow : {"open", "terminal"}, state : States, draft : States]
    BY <1>1, <2>1 DEF LinearInv, LinearTypeOK, d
  <2>3. /\ s' = s /\ (Call' = "cancel" => ~Dirty(old, d))
        /\ Call' = "delete" /\ after = <<"cancel">> => todo'[Len(todo')] = "cancel"
        /\ Call' = "delete" => todo'[Len(todo')] # "gates"
    <3>1. s' = s /\ (Call' = "cancel" => ~Dirty(old, d))
      BY <1>3, SavePlans DEF d
    <3>2. CASE Call' = "delete" /\ after = <<>>
      <4>1. todo' = <<"delete", "upload">>
        BY <3>2, SavePlans
      <4> QED BY <3>1, <3>2, <4>1
    <3>3. CASE Call' = "delete" /\ after = <<"cancel">>
      <4>1. todo' = <<"delete", "upload", "cancel">>
        BY <3>3, SavePlans
      <4> QED BY <3>1, <3>3, <4>1
    <3> QED BY <3>1, <3>2, <3>3
  <2>4. /\ ~JustOpened' /\ ~Loaded' /\ ~Gated' /\ ~GateSave' /\ (Saving' <=> Call' = "delete")
    BY <1>3, <2>3 DEF Saving, JustOpened, Loaded, Gated, GateSave
  <2>5. LinearTypeOK'
    BY <2>2 DEF LinearInv, LinearTypeOK
  <2>6. StatesKept'
    BY <2>2, <2>4 DEF LinearInv, StatesKept, Counted, d
  <2>7. BarrenKept'
    <3>1. barren' <= CountOf(d) + Forgiven'
      BY LinearTypes DEF d
    <3>2. Call' = "cancel" => barren' <= CountOf(stored') + Forgiven'
      BY <2>3, LinearTypes DEF d
    <3>3. Explains(view.draft)' /\ (Call' = "cancel" => Explains(stored)')
      BY <2>2, <3>1, <3>2 DEF Explains, CountOf
    <3> QED BY <1>3, <2>4, <3>3 DEF BarrenKept
  <2>8. FatesKept'
    BY <1>3, <2>2, <2>3, <2>4 DEF LinearInv, FatesKept, Misses, Excused, d
  <2>9. ReopeningsKept'
    BY <1>3, <2>2, <2>3, <2>4
       DEF LinearInv, ReopeningsKept, Reopenable, Excused, JustOpened, Misses, d
  <2> QED BY <2>5, <2>6, <2>7, <2>8, <2>9 DEF LinearInv
<1> QED BY <1>2, <1>3, SavePlans

\* A run that starts: someone may have reopened the issue.
LEMMA StartLinearKeeps ==
  ASSUME PRInv, LinearInv, StartLinear, UNCHANGED resource, resource = "linear"
  PROVE  LinearInv'
<1> USE DEF LinearInv
<1>1. Call = "none" /\ ~Saving /\ ~JustOpened /\ ~Loaded
  BY DEF StartLinear, Idle, Call, First, Saving, JustOpened, Loaded, GateSave, Gated
<1>2. /\ UNCHANGED <<pr, workflow, stored, fates, reactivated, lost, faults>>
      /\ view'.workflow = workflow /\ view'.state = stored
  BY DEF StartLinear, Quiet
<1>3. ~JustOpened' /\ ~Gated' /\ Call' \in {"delete", "gates"}
  <2>1. todo' = <<"delete", "upload", "gates">> \/ todo' = <<"gates">>
    BY PlansWrittenOut DEF StartLinear
  <2> QED BY <2>1 DEF Call, First, JustOpened, Gated
<1>4. CASE Reactivated(stored, workflow)
  <2>1. todo' = <<"delete", "upload", "gates">> /\ barren' = 0 /\ view'.draft = Reset(stored)
    BY <1>4, PlansWrittenOut DEF StartLinear
  <2>2. Saving' /\ GateSave' /\ Loaded' /\ Call' = "delete"
    BY <2>1 DEF Saving, GateSave, Loaded, Call, First
  <2>3. Excused /\ Excused'
    BY <1>1, <1>2, <1>4 DEF ReopeningsKept, Reactivated, Reopenable, Excused
  <2>4. /\ Reset(stored) \in States /\ Reset(stored).idle = 0 /\ Reset(stored).url = 0
        /\ Reset(stored).mode = "none" /\ Reset(stored).status = "active"
    BY LinearTypes DEF Reset, States
  <2>5. LinearTypeOK'
    BY <1>2, <2>1, <2>4, LinearTypes DEF LinearTypeOK, StartLinear
  <2>6. StatesKept'
    BY <1>2, <1>3, <1>4, <2>1, <2>4, LinearTypes DEF StatesKept, Counted, Reactivated
  <2>7. BarrenKept'
    <3>1. Existing' = Reset(stored)
      BY <1>2, <1>4 DEF Existing, Reactivated, Reset
    <3>2. barren' <= CountOf(Reset(stored)) + Forgiven'
      BY <1>2, <2>1, <2>4, LinearTypes
    <3> QED BY <2>1, <2>2, <3>1, <3>2 DEF BarrenKept, Explains, CountOf
  <2>8. FatesKept'
    BY <1>2, <1>3, <2>2, <2>3 DEF FatesKept
  <2>9. ReopeningsKept'
    BY <2>3 DEF ReopeningsKept
  <2> QED BY <2>5, <2>6, <2>7, <2>8, <2>9
<1>5. CASE ~Reactivated(stored, workflow)
  <2>1. todo' = <<"gates">> /\ barren' = barren /\ view'.draft = NoState
    BY <1>5, PlansWrittenOut DEF StartLinear
  <2>2. ~Saving' /\ ~GateSave' /\ Loaded' /\ Call' = "gates"
    BY <2>1 DEF Saving, GateSave, Loaded, Call, First
  <2>3. LinearTypeOK'
    BY <1>2, <2>1, EmptyStates DEF LinearTypeOK, StartLinear
  <2>4. StatesKept'
    BY <1>2, <1>3, <2>1, <2>2, EmptyStates DEF StatesKept, Counted
  <2>5. BarrenKept'
    BY <1>1, <1>2, <1>5, <2>1, <2>2, LinearTypes
       DEF BarrenKept, Explains, CountOf, Existing, Reactivated
  <2>6. FatesKept'
    BY <1>1, <1>2, <1>3, <2>2 DEF FatesKept, Misses, Excused
  <2>7. ReopeningsKept'
    BY <1>1, <1>2, <1>5, <2>2 DEF ReopeningsKept, Reopenable, Reactivated, Excused
  <2> QED BY <2>3, <2>4, <2>5, <2>6, <2>7
<1> QED BY <1>4, <1>5

LEMMA GateSaveFailsKeeps ==
  ASSUME PRInv, LinearInv, GateSaveFails, UNCHANGED resource, resource = "linear"
  PROVE  LinearInv'
<1> USE DEF LinearInv
<1>1. Saving /\ GateSave /\ Loaded /\ Call \in {"delete", "upload"}
  BY DEF GateSaveFails, Saving, GateSave, Loaded, Call, First, Idle
<1>2. /\ UNCHANGED <<pr, workflow, stored, fates, reactivated, barren, s>> /\ faults' = faults + 1
      /\ todo' = <<"gates">> /\ (lost => lost') /\ lost' \in BOOLEAN
  BY DEF GateSaveFails, Goes, LinearTypeOK
<1>3. view' = view
  BY <1>2 DEF GateSaveFails, Seen
<1>4. Call' = "gates" /\ ~Saving' /\ ~GateSave' /\ ~Gated' /\ ~JustOpened' /\ Loaded'
  BY <1>2 DEF Call, First, Saving, GateSave, Gated, JustOpened, Loaded
<1>5. Reactivated(view.state, view.workflow) /\ Excused /\ Excused'
  BY <1>1, <1>2 DEF StatesKept, ReopeningsKept, Reactivated, Reopenable, Excused
<1>6. LinearTypeOK'
  BY <1>2, <1>3 DEF LinearTypeOK
<1>7. StatesKept'
  BY <1>2, <1>3, <1>4 DEF StatesKept, Counted
<1>8. BarrenKept'
  <2>1. CountOf(Existing) = 0 /\ Existing' = Existing
    BY <1>3, <1>5, LinearTypes DEF Existing, Reset, CountOf, Reactivated, States
  <2>2. barren <= Forgiven + maxNoDiffIterations
    BY <1>1, <2>1, LinearTypes DEF BarrenKept, Explains
  <2>3. CountOf(stored) \in Nat
    BY LinearTypes
  <2>4. barren' <= CountOf(stored) + Forgiven'
        /\ barren' <= CountOf(Existing) + Forgiven'
    BY <1>2, <2>1, <2>2, <2>3, LinearTypes
  <2> QED BY <1>2, <1>4, <2>1, <2>4 DEF BarrenKept, Explains, CountOf
<1>9. FatesKept'
  BY <1>2, <1>4, <1>5 DEF FatesKept
<1>10. ReopeningsKept'
  BY <1>5 DEF ReopeningsKept
<1> QED BY <1>6, <1>7, <1>8, <1>9, <1>10

LEMMA GatesKeep ==
  ASSUME PRInv, LinearInv, Gates, UNCHANGED resource, resource = "linear"
  PROVE  LinearInv'
<1> USE DEF LinearInv
<1>1. Call = "gates" /\ ~Saving /\ ~JustOpened /\ ~GateSave /\ Loaded
  BY LinearCall DEF Gates, Saving, JustOpened, GateSave, Loaded
<1>2. UNCHANGED <<pr, workflow, stored, fates, reactivated, lost, barren, faults>>
  BY DEF Gates, Quiet
<1>3. barren <= CountOf(stored) + Forgiven
  BY <1>1 DEF BarrenKept, Explains
<1>4. CASE view.workflow = "terminal" \/ GivenUp
  <2>1. todo' = <<>> /\ view' = NoView
    BY <1>4 DEF Gates, Then, Ends, Seen
  <2> QED BY <1>1, <1>2, <1>3, <2>1, StopsWell DEF LinearTypeOK
<1>5. CASE view.workflow # "terminal" /\ ~GivenUp
  <2>1. todo' = <<"session">> /\ s' = s /\ view' = view
    BY <1>5 DEF Gates, Then, Goes, Seen
  <2>2. Call' = "session" /\ ~Saving' /\ ~GateSave' /\ Gated' /\ ~JustOpened' /\ Loaded'
    BY <2>1 DEF Call, First, Saving, GateSave, Gated, JustOpened, Loaded
  <2>3. view.workflow = "open" /\ view.state.mode \notin {"NoDiff", "NoProgress"}
    BY <1>5 DEF LinearTypeOK, GivenUp, Existing, Reactivated, StatesKept, Counted
  <2>4. LinearTypeOK'
    BY <1>2, <2>1 DEF LinearTypeOK
  <2>5. StatesKept'
    BY <1>2, <2>1, <2>2, <2>3 DEF StatesKept, Counted
  <2>6. BarrenKept'
    BY <1>1, <1>2, <2>1, <2>2, LinearTypes
       DEF BarrenKept, Explains, CountOf, Existing, Reactivated
  <2>7. FatesKept'
    BY <1>1, <1>2, <2>1, <2>2 DEF FatesKept, Misses, Excused
  <2>8. ReopeningsKept'
    BY <1>1, <1>2, <2>1, <2>2 DEF ReopeningsKept, Reopenable, Excused
  <2> QED BY <2>4, <2>5, <2>6, <2>7, <2>8
<1> QED BY <1>4, <1>5

\* What a gated run knows: where its state names no pull request, or one that
\* cannot be open, there is none it must leave as it is.
LEMMA GatedFates ==
  ASSUME PRInv, LinearInv, Gated
  PROVE  /\ \/ Excused
            \/ /\ Existing = view.state
               /\ fates = <<>> \/ fates[Len(fates)] = "emptied" \/ Existing.url = Len(fates)
         /\ Existing \in States /\ Counted(Existing) /\ Existing.mode \notin {"NoDiff", "NoProgress"}
         /\ Existing.idle < maxNoDiffIterations /\ view.state.idle < maxNoDiffIterations
         /\ barren <= Existing.idle + Forgiven
         /\ barren <= view.state.idle + Forgiven
         /\ Excused \/ ~Misses(Existing)
         /\ Excused \/ ~Misses(view.state)
         /\ Reopenable(view.state) => Excused
<1>1. Loaded
  BY DEF Loaded
<1>2. CASE Reactivated(view.state, view.workflow)
  <2>1. /\ Existing \in States /\ Existing.idle = 0 /\ Existing.url = 0 /\ Existing.mode = "none"
        /\ Existing.status = "active"
    BY <1>2, LinearTypes DEF Existing, Reset, States
  <2>2. Excused
    BY <1>1, <1>2 DEF LinearInv, ReopeningsKept, Reactivated, Reopenable
  <2>3. Counted(Existing)
    BY <2>1, LinearTypes DEF Counted
  <2>4. view.state.idle < maxNoDiffIterations
    BY LinearTypes DEF LinearInv, StatesKept, Counted
  <2>5. barren <= Existing.idle + Forgiven
    BY <1>1, <2>1, LinearTypes DEF LinearInv, BarrenKept, Explains, CountOf
  <2> QED BY <2>1, <2>2, <2>3, <2>4, <2>5, LinearTypes
<1>3. CASE ~Reactivated(view.state, view.workflow)
  <2>1. Existing = view.state
    BY <1>3 DEF Existing
  <2>2. Counted(view.state) /\ view.state.mode \notin {"NoDiff", "NoProgress"}
        /\ view.workflow = "open"
    BY DEF LinearInv, StatesKept
  <2>3. view.state.idle < maxNoDiffIterations
    BY <2>2, LinearTypes DEF Counted
  <2>4. barren <= Existing.idle + Forgiven
    BY <1>1, <2>1, <2>2, LinearTypes DEF LinearInv, BarrenKept, Explains, CountOf
  <2>5. Excused \/ ~Misses(view.state)
    BY <1>1 DEF LinearInv, FatesKept
  <2> QED BY <1>1, <2>1, <2>2, <2>3, <2>4, <2>5, LinearTypes
          DEF Misses, LinearInv, ReopeningsKept
<1> QED BY <1>2, <1>3

\* What a gated run keeps when it goes on to its next call.
LEMMA GatedGoesOn ==
  ASSUME PRInv, LinearInv, Gated, Gated', view' = view, pr'.open = pr.open,
         UNCHANGED <<workflow, stored, fates, reactivated, lost, barren, faults, resource>>,
         Call' \in {"decide", "push"} /\ ~s'.pr.open =>
           Excused \/ fates = <<>> \/ fates[Len(fates)] = "emptied"
  PROVE  LinearInv'
<1> USE DEF LinearInv
<1>1. Call \in {"session", "ended", "decide", "push"} /\ ~Saving /\ ~JustOpened /\ ~GateSave /\ Loaded
  BY DEF Gated, Saving, JustOpened, GateSave, Loaded
<1>2. /\ Call' \in {"session", "ended", "decide", "push"}
      /\ ~Saving' /\ ~JustOpened' /\ ~GateSave' /\ Loaded'
  BY DEF Gated, Saving, JustOpened, GateSave, Loaded
<1>3. LinearTypeOK'
  BY DEF LinearTypeOK
<1>4. StatesKept'
  BY <1>2 DEF StatesKept, Counted
<1>5. BarrenKept'
  BY <1>1, <1>2, LinearTypes DEF BarrenKept, Explains, CountOf, Existing, Reactivated
<1>6. FatesKept'
  BY <1>1, <1>2 DEF FatesKept, Misses, Excused
<1>7. ReopeningsKept'
  BY <1>1, <1>2 DEF ReopeningsKept, Reopenable, Excused
<1> QED BY <1>3, <1>4, <1>5, <1>6, <1>7

LEMMA OpenSessionLeaves ==
  ASSUME PRInv, LinearInv, OpenSession, UNCHANGED resource, resource = "linear"
  PROVE  LinearInv'
<1>1. Call = "session" /\ Gated
  BY LinearCall DEF OpenSession, Gated
<1>2. UNCHANGED <<pr, workflow, stored, fates, reactivated, lost, barren, faults>>
  BY DEF OpenSession, Quiet
<1>3. /\ todo' = IF Ended THEN <<"ended">> ELSE <<"decide">>
      /\ Call' = (IF Ended THEN "ended" ELSE "decide") /\ Gated'
  BY DEF OpenSession, Call, First, Gated
<1>4. view' = view
  BY <1>3 DEF OpenSession, Seen
<1>5. Call' \in {"decide", "push"} /\ ~s'.pr.open =>
        Excused \/ fates = <<>> \/ fates[Len(fates)] = "emptied"
  <2> SUFFICES ASSUME ~Ended, ~s'.pr.open, ~Excused, fates # <<>>
               PROVE  fates[Len(fates)] = "emptied"
    BY <1>3
  <2>1. Existing.url = 0
    BY DEF Ended
  <2>2. Len(fates) # 0
    BY EmptySeq DEF LinearInv, LinearTypeOK
  <2> QED BY <1>1, <2>1, <2>2, GatedFates
<1> QED BY <1>1, <1>2, <1>3, <1>4, <1>5, GatedGoesOn

\* A saved state: tidied, it differs from what was loaded in what was set.
LEMMA TidyIs ==
  ASSUME NEW st \in States
  PROVE  /\ Tidy(st) \in States /\ Tidy(st).url = st.url /\ Tidy(st).idle = st.idle
         /\ Tidy(st).status = st.status
         /\ Tidy(st).mode = IF st.status = "failed" THEN st.mode ELSE "none"
BY DEF Tidy, States

LEMMA FromPRStateLeaves ==
  ASSUME PRInv, LinearInv, FromPRState, UNCHANGED resource, resource = "linear"
  PROVE  LinearInv'
<1>1. Call = "ended" /\ Gated /\ ~Saving /\ ~JustOpened
  BY LinearCall DEF FromPRState, Gated, Saving, JustOpened
<1>2. UNCHANGED <<pr, workflow, stored, fates, reactivated, lost, barren, faults>> /\ Quiet
  BY DEF FromPRState, Quiet
<1>3. barren <= CountOf(stored) + Forgiven
  BY <1>1 DEF LinearInv, BarrenKept, Explains
<1>4. ASSUME NEW st \in States, NEW after \in {<<>>, <<"cancel">>}, SaveThen(Existing, st, after),
             st.url = Existing.url, st.idle = Existing.idle,
             \/ st.status = "complete"
             \/ st.status = "failed" /\ st.mode = "PRClosed" /\ after = <<"cancel">>
      PROVE  LinearInv'
  <2>1. Tidy(st) \in States /\ Counted(Tidy(st))
    BY <1>1, <1>4, TidyIs, GatedFates, LinearTypes DEF Counted
  <2>2. barren <= CountOf(Tidy(st)) + Forgiven
    <3>1. /\ Tidy(st).idle = Existing.idle /\ Tidy(st).idle \in Nat
          /\ barren <= Existing.idle + Forgiven /\ barren \in Nat /\ Forgiven \in Nat
      BY <1>1, <1>4, TidyIs, GatedFates, LinearTypes
    <3> QED BY <3>1 DEF CountOf
  <2>3. Excused \/ ~Misses(Tidy(st))
    BY <1>1, <1>4, TidyIs, GatedFates DEF Misses
  <2>4. Reopenable(Tidy(st)) => after = <<"cancel">>
    BY <1>4, TidyIs DEF Reopenable
  <2>5. Existing \in States
    BY <1>1, GatedFates
  <2> QED BY <1>1, <1>2, <1>3, <1>4, <2>1, <2>2, <2>3, <2>4, <2>5, LinearTypes, SavesWell
<1> DEFINE fate == fates[Existing.url]
           complete == [Existing EXCEPT !.status = "complete"]
           closed == [Existing EXCEPT !.status = "failed", !.mode = "PRClosed"]
<1>5. /\ complete \in States /\ complete.url = Existing.url /\ complete.idle = Existing.idle
      /\ complete.status = "complete"
      /\ closed \in States /\ closed.url = Existing.url /\ closed.idle = Existing.idle
      /\ closed.status = "failed" /\ closed.mode = "PRClosed"
  BY <1>1, GatedFates DEF States
<1>6. CASE fate = "merged"
  <2>1. SaveThen(Existing, complete, <<>>)
    BY <1>6 DEF FromPRState
  <2> HIDE DEF complete
  <2> QED BY <1>4, <1>5, <2>1
<1>7. CASE fate \in {"closed", "emptied"}
  <2>1. SaveThen(Existing, closed, <<"cancel">>)
    BY <1>7 DEF FromPRState
  <2> HIDE DEF closed
  <2> QED BY <1>4, <1>5, <2>1
<1>8. CASE fate \notin {"merged", "closed", "emptied"}
  <2>1. todo' = <<"decide">> /\ s' = s /\ view' = view
    BY <1>8 DEF FromPRState, Goes, Seen
  <2>2. Call' = "decide" /\ Gated'
    BY <2>1 DEF Call, First, Gated
  <2>3. ~s.pr.open => Excused \/ fates = <<>> \/ fates[Len(fates)] = "emptied"
    <3> SUFFICES ASSUME ~s.pr.open, ~Excused, fates # <<>>, fates[Len(fates)] # "emptied" PROVE FALSE
      OBVIOUS
    <3>1. ~pr.open
      BY <1>1 DEF PRInv, SessionKept, DecisionsKept, Deciding
    <3>2. fates[Len(fates)] # "open"
      BY <3>1 DEF LinearInv, FatesKept
    <3>3. fates[Len(fates)] \in {"open", "merged", "closed", "emptied"}
      <4>1. fates \in Seq({"open", "merged", "closed", "emptied"}) /\ Len(fates) \in 1 .. Len(fates)
        BY EmptySeq, LinearTypes DEF LinearInv, LinearTypeOK
      <4> QED BY <4>1, ElementOfSeq
    <3>4. Existing.url = Len(fates)
      BY <1>1, GatedFates
    <3> QED BY <1>8, <3>2, <3>3, <3>4
  <2> QED BY <1>1, <1>2, <2>1, <2>2, <2>3, GatedGoesOn
<1> QED BY <1>6, <1>7, <1>8

\* One more pass that changed nothing.
LEMMA NoProgressIs ==
  ASSUME NEW st \in States
  PROVE  /\ NoProgress(st) \in States /\ NoProgress(st).idle = st.idle + 1
         /\ NoProgress(st).url = st.url
         /\ IF st.idle + 1 >= maxNoDiffIterations
            THEN NoProgress(st).status = "failed" /\ NoProgress(st).mode = "NoProgress"
            ELSE NoProgress(st).status = st.status /\ NoProgress(st).mode = st.mode
<1> DEFINE w == WithFindings(st)
<1>1. w \in States /\ w.idle = st.idle /\ w.url = st.url /\ w.status = st.status /\ w.mode = st.mode
  <2>1. snapshotFindings \in SUBSET {"red", "review", "earlier"}
    BY DEF snapshotFindings
  <2> QED BY <2>1 DEF WithFindings, States
<1> HIDE DEF w
<1> DEFINE over == st.idle + 1 >= maxNoDiffIterations
           status == IF over THEN "failed" ELSE st.status
           mode == IF over THEN "NoProgress" ELSE st.mode
<1>2. status \in {"none", "active", "failed", "complete"}
      /\ mode \in {"none", "NoDiff", "NoProgress", "PRClosed", "MaxTurns"} /\ st.idle + 1 \in Nat
  BY DEF States
<1>3. NoProgress(st) = [w EXCEPT !.idle = st.idle + 1, !.status = status, !.mode = mode]
  BY <1>1 DEF NoProgress, w, States
<1> HIDE DEF status, mode
<1>4. /\ NoProgress(st) \in States /\ NoProgress(st).idle = st.idle + 1
      /\ NoProgress(st).url = st.url /\ NoProgress(st).status = status /\ NoProgress(st).mode = mode
  BY <1>1, <1>2, <1>3 DEF States
<1> QED BY <1>4 DEF status, mode

LEMMA DecideLinearLeaves ==
  ASSUME PRInv, LinearInv, DecideLinear, UNCHANGED resource, resource = "linear"
  PROVE  LinearInv'
<1>1. Call = "decide" /\ Gated /\ ~Saving /\ ~JustOpened
  BY LinearCall DEF DecideLinear, Gated, Saving, JustOpened
<1>2. UNCHANGED <<pr, workflow, stored, fates, reactivated, lost, barren, faults>> /\ Quiet
  BY DEF DecideLinear, Quiet
<1>3. barren <= CountOf(stored) + Forgiven /\ barren \in Nat
  BY <1>1, LinearTypes DEF LinearInv, BarrenKept, Explains
<1>4. CASE Ends /\ Seen(view)
  <2>1. todo' = <<>> /\ view' = NoView
    BY <1>4 DEF Ends, Seen
  <2> QED BY <1>1, <1>2, <1>3, <2>1, StopsWell
<1>5. ASSUME NEW iterate \in BOOLEAN, UpsertLinear(iterate)
      PROVE  LinearInv'
  <2>1. s'.pr.open = s.pr.open
    <3>1. s' = [s EXCEPT !.iterate = iterate]
      BY <1>5 DEF UpsertLinear
    <3> QED BY <3>1, PRTypes DEF Sessions
  <2>2. CASE NeedsRefresh(s.asked)
    <3>1. todo' = <<"push">> /\ view' = view
      BY <1>5, <2>2 DEF UpsertLinear, Seen
    <3>2. Call' = "push" /\ Gated'
      BY <3>1 DEF Call, First, Gated
    <3>3. ~s.pr.open => Excused \/ fates = <<>> \/ fates[Len(fates)] = "emptied"
      BY <1>1 DEF LinearInv, FatesKept
    <3> QED BY <1>1, <1>2, <2>1, <3>1, <3>2, <3>3, GatedGoesOn
  <2>3. CASE ~NeedsRefresh(s.asked)
    <3>1. todo' = <<"final">> /\ view' = view /\ s.pr.open
      BY <1>5, <2>3 DEF UpsertLinear, Seen, NeedsRefresh, HasPR
    <3>2. Call' = "final" /\ ~Saving' /\ ~JustOpened' /\ ~Loaded' /\ ~Gated' /\ ~GateSave'
      BY <2>1, <3>1 DEF Call, First, Saving, JustOpened, Loaded, Gated, GateSave
    <3>3. LinearTypeOK'
      BY <1>2, <3>1 DEF LinearInv, LinearTypeOK
    <3>4. StatesKept'
      BY <1>2, <3>1, <3>2 DEF LinearInv, StatesKept, Counted
    <3>5. BarrenKept'
      BY <1>2, <1>3, <3>2, LinearTypes DEF BarrenKept, Explains, CountOf
    <3>6. FatesKept'
      BY <1>1, <1>2, <3>2 DEF LinearInv, FatesKept, Misses, Excused
    <3>7. ReopeningsKept'
      BY <1>1, <1>2, <3>2 DEF LinearInv, ReopeningsKept, Reopenable, Excused
    <3> QED BY <3>3, <3>4, <3>5, <3>6, <3>7 DEF LinearInv
  <2> QED BY <2>2, <2>3
<1>6. ASSUME NEW st \in States, Save(st),
             view.state.idle <= st.idle, st.idle <= maxNoDiffIterations,
             st.idle = maxNoDiffIterations => st.status = "failed" /\ st.mode = "NoProgress",
             st.status = "failed" /\ st.mode = "PRClosed" => Reopenable(view.state),
             st.url = view.state.url \/ st.url = Len(fates)
      PROVE  LinearInv'
  <2>1. /\ Tidy(st) \in States /\ Tidy(st).idle = st.idle /\ Tidy(st).url = st.url
        /\ st.idle \in Nat /\ st.url <= Len(fates)
    <3>1. view.state.url <= Len(fates) /\ Len(fates) <= Len(fates)
      BY LinearTypes DEF LinearInv, StatesKept, Counted
    <3> QED BY <1>6, <3>1, TidyIs, LinearTypes
  <2>2. Counted(Tidy(st))
    <3>1. /\ Tidy(st).idle <= maxNoDiffIterations /\ Tidy(st).url <= Len(fates)
          /\ Tidy(st).idle = maxNoDiffIterations => Tidy(st).mode = "NoProgress"
      BY <1>6, <2>1, TidyIs
    <3> QED BY <3>1, TidyIs DEF Counted
  <2>3. barren <= CountOf(Tidy(st)) + Forgiven
    <3>1. barren <= view.state.idle + Forgiven /\ view.state.idle \in Nat /\ Forgiven \in Nat
      BY <1>1, GatedFates, LinearTypes
    <3>2. barren <= Tidy(st).idle + Forgiven /\ Tidy(st).idle \in Nat
      BY <1>3, <1>6, <2>1, <3>1
    <3> QED BY <1>3, <3>1, <3>2 DEF CountOf
  <2>4. Excused \/ ~Misses(Tidy(st))
    BY <1>1, <1>6, <2>1, GatedFates DEF Misses
  <2>5. Reopenable(Tidy(st)) => Excused
    BY <1>1, <1>6, TidyIs, GatedFates DEF Reopenable
  <2> QED BY <1>1, <1>2, <1>3, <1>6, <2>1, <2>2, <2>3, <2>4, <2>5, LinearTypes, SavesWell
             DEF Save
<1>7. ASSUME Save([view.state EXCEPT !.status = "failed", !.mode = "MaxTurns",
                                     !.url = IF @ = 0 THEN Len(fates) ELSE @])
      PROVE  LinearInv'
  <2> DEFINE st == [view.state EXCEPT !.status = "failed", !.mode = "MaxTurns",
                                      !.url = IF @ = 0 THEN Len(fates) ELSE @]
  <2>1. /\ st \in States /\ st.idle = view.state.idle /\ st.mode = "MaxTurns"
        /\ st.url = view.state.url \/ st.url = Len(fates)
    BY LinearTypes DEF States
  <2>2. /\ view.state.idle \in Nat /\ maxNoDiffIterations \in Nat
        /\ view.state.idle < maxNoDiffIterations
    BY <1>1, GatedFates, LinearTypes
  <2>3. Save(st)
    BY <1>7
  <2> HIDE DEF st
  <2>4. /\ view.state.idle <= st.idle /\ st.idle <= maxNoDiffIterations
        /\ st.idle # maxNoDiffIterations
    BY <2>1, <2>2
  <2> QED BY <1>6, <2>1, <2>3, <2>4
<1>8. ASSUME Save(NoProgress(view.state))
      PROVE  LinearInv'
  <2> DEFINE st == NoProgress(view.state)
  <2>1. /\ view.state.idle \in Nat /\ maxNoDiffIterations \in Nat
        /\ view.state.idle < maxNoDiffIterations /\ view.state \in States
    BY <1>1, GatedFates, LinearTypes
  <2>2. /\ st \in States /\ st.idle = view.state.idle + 1 /\ st.url = view.state.url
        /\ IF view.state.idle + 1 >= maxNoDiffIterations
           THEN st.status = "failed" /\ st.mode = "NoProgress"
           ELSE st.status = view.state.status /\ st.mode = view.state.mode
    BY <2>1, NoProgressIs
  <2> HIDE DEF st
  <2>3. /\ view.state.idle <= st.idle /\ st.idle <= maxNoDiffIterations
        /\ st.idle = maxNoDiffIterations => st.status = "failed" /\ st.mode = "NoProgress"
    BY <2>1, <2>2
  <2>4. st.status = "failed" /\ st.mode = "PRClosed" => Reopenable(view.state)
    BY <2>2 DEF Reopenable
  <2> QED BY <1>6, <1>8, <2>2, <2>3, <2>4 DEF st
<1> QED BY <1>4, <1>5, <1>7, <1>8 DEF DecideLinear

\* An agent's run that changes nothing always has something to save.
LEMMA NoChangesLeaves ==
  ASSUME PRInv, LinearInv, NoChangesLinear, UNCHANGED resource, resource = "linear"
  PROVE  LinearInv'
<1>1. Call = "push" /\ Gated /\ ~Saving /\ ~JustOpened
  BY LinearCall DEF NoChangesLinear, Gated, Saving, JustOpened
<1>2. UNCHANGED <<pr, workflow, stored, fates, reactivated, lost, faults>> /\ Quiet
      /\ barren' = barren + 1
  BY DEF NoChangesLinear, Quiet
<1>3. /\ view.state.idle \in Nat /\ view.state.idle < maxNoDiffIterations
      /\ view.state.mode # "NoDiff" /\ view.state \in States
      /\ barren <= view.state.idle + Forgiven /\ barren \in Nat
  BY <1>1, GatedFates, LinearTypes DEF LinearInv, StatesKept
<1>4. ASSUME NEW st \in States, Save(st), st.url = view.state.url,
             \/ /\ st.idle = view.state.idle + 1
                /\ st.idle = maxNoDiffIterations => st.status = "failed" /\ st.mode = "NoProgress"
                /\ st.status = "failed" /\ st.mode = "PRClosed" => Reopenable(view.state)
             \/ st.idle = view.state.idle /\ st.status = "failed" /\ st.mode = "NoDiff"
      PROVE  LinearInv'
  <2>1. /\ Tidy(st) \in States /\ Tidy(st).idle = st.idle /\ Tidy(st).url = st.url
        /\ st.url <= Len(fates) /\ maxNoDiffIterations \in Nat /\ Forgiven \in Nat
    BY <1>4, TidyIs, LinearTypes DEF LinearInv, StatesKept, Counted
  <2>2. Counted(Tidy(st))
    <3>1. /\ Tidy(st).idle <= maxNoDiffIterations /\ Tidy(st).url <= Len(fates)
          /\ Tidy(st).idle = maxNoDiffIterations => Tidy(st).mode = "NoProgress"
      BY <1>3, <1>4, <2>1, TidyIs
    <3> QED BY <3>1, TidyIs DEF Counted
  <2>3. barren' <= CountOf(Tidy(st)) + Forgiven
    <3>1. CASE st.idle = view.state.idle + 1
      <4>1. Tidy(st).idle = view.state.idle + 1 /\ Tidy(st).idle \in Nat
        BY <1>3, <2>1, <3>1
      <4>2. CountOf(Tidy(st)) \in Nat /\ CountOf(Tidy(st)) >= view.state.idle + 1
        BY <4>1, CountOfIs
      <4> QED BY <1>2, <1>3, <2>1, <4>2
    <3>2. CASE st.idle = view.state.idle /\ st.status = "failed" /\ st.mode = "NoDiff"
      <4>1. Tidy(st).mode = "NoDiff" /\ Tidy(st).idle = view.state.idle
        BY <2>1, <3>2, TidyIs
      <4>2. CountOf(Tidy(st)) = view.state.idle + 1 /\ view.state.idle \in Nat
        BY <1>3, <4>1, CountOfIs
      <4> QED BY <1>2, <1>3, <2>1, <4>2
    <3> QED BY <1>4, <3>1, <3>2
  <2>4. Excused \/ ~Misses(Tidy(st))
    BY <1>1, <1>4, <2>1, GatedFates DEF Misses
  <2>5. Reopenable(Tidy(st)) => Excused
    BY <1>1, <1>4, TidyIs, GatedFates DEF Reopenable
  <2>6. Tidy(st) # view.state /\ Dirty(view.state, Tidy(st))
    BY <1>3, <1>4, <2>1, TidyIs DEF Dirty
  <2>7. barren' \in Nat
    BY <1>2, <1>3
  <2> QED BY <1>1, <1>2, <1>3, <1>4, <2>1, <2>2, <2>3, <2>4, <2>5, <2>6, <2>7, SavesWell
             DEF Save
<1>5. CASE s.iterate
  BY <1>3, <1>4, <1>5, NoProgressIs DEF NoChangesLinear, Reopenable
<1>6. CASE ~s.iterate
  <2>1. /\ NoDiff(view.state) \in States /\ NoDiff(view.state).idle = view.state.idle
        /\ NoDiff(view.state).status = "failed" /\ NoDiff(view.state).mode = "NoDiff"
        /\ NoDiff(view.state).url = view.state.url
    BY <1>3 DEF NoDiff, States
  <2> QED BY <1>4, <1>6, <2>1 DEF NoChangesLinear
<1> QED BY <1>5, <1>6

\* The reconcile that went well.
LEMMA FinalLeaves ==
  ASSUME PRInv, LinearInv, Final, UNCHANGED resource, resource = "linear"
  PROVE  LinearInv'
<1> DEFINE url == IF At("emptied") THEN 0 ELSE Len(fates)
           findings == IF snapshotFindings = {} THEN view.state.findings ELSE {"earlier"}
           st == [view.state EXCEPT !.status = "active", !.idle = 0, !.url = url,
                                    !.findings = findings]
<1>1. Call \in {"final", "emptied"} /\ ~Saving /\ (At("emptied") <=> Call = "emptied")
  BY DEF Final, Saving, At, Call, First, Idle
<1>2. UNCHANGED <<pr, workflow, stored, fates, reactivated, lost, faults>> /\ barren' = 0
  BY DEF Final, Quiet
<1>3. /\ st \in States /\ st.status = "active" /\ st.idle = 0
      /\ st.url = IF Call = "emptied" THEN 0 ELSE Len(fates)
  <2>1. Len(fates) \in Nat /\ view.state \in States
    BY LinearTypes
  <2>2. url \in Nat /\ findings \in SUBSET {"red", "review", "earlier"}
        /\ url = IF Call = "emptied" THEN 0 ELSE Len(fates)
    BY <1>1, <2>1 DEF States
  <2> HIDE DEF url, findings
  <2>3. st \in States /\ st.status = "active" /\ st.idle = 0 /\ st.url = url
    BY <2>1, <2>2 DEF States
  <2> QED BY <2>2, <2>3
<1>4. Save(st)
  BY DEF Final
<1> HIDE DEF st
<1>5. /\ Tidy(st) \in States /\ Tidy(st).idle = 0 /\ Tidy(st).url = st.url
      /\ Tidy(st).status = "active" /\ Tidy(st).mode = "none"
  BY <1>3, TidyIs
<1>6. Counted(Tidy(st))
  BY <1>3, <1>5, LinearTypes DEF Counted
<1>7. barren' <= CountOf(Tidy(st)) + Forgiven /\ barren' <= CountOf(stored) + Forgiven /\ barren' \in Nat
  <2>1. CountOf(stored) \in Nat /\ CountOf(Tidy(st)) \in Nat /\ Forgiven \in Nat
    BY <1>5, LinearTypes
  <2> QED BY <1>2, <2>1
<1>8. Excused \/ ~Misses(Tidy(st))
  BY <1>1, <1>3, <1>5 DEF LinearInv, FatesKept, Misses
<1>9. JustOpened => Tidy(st).url # view.state.url
  <2>1. JustOpened => Call = "final" /\ view.state.url < Len(fates)
    BY <1>1 DEF LinearInv, FatesKept, JustOpened
  <2>2. view.state.url \in Nat /\ Len(fates) \in Nat
    BY LinearTypes
  <2> QED BY <1>3, <1>5, <2>1, <2>2
<1>10. ~Dirty(view.state, Tidy(st)) => ~JustOpened
  BY <1>9 DEF Dirty
<1> QED BY <1>1, <1>2, <1>4, <1>5, <1>6, <1>7, <1>8, <1>10, LinearTypes, SavesWell
           DEF Save, Reopenable

\* The agent's push: nothing that is saved, but the findings.
LEMMA PushLinearLeaves ==
  ASSUME PRInv, LinearInv, resource = "linear", UNCHANGED resource, NEW change, PushLinear(change)
  PROVE  LinearInv'
<1>1. Call = "push" /\ Gated /\ ~Saving /\ ~JustOpened /\ Push(change, AfterPushLinear(change))
  BY LinearCall DEF PushLinear, Push, Gated, Saving, JustOpened
<1>2. UNCHANGED <<pr, workflow, fates, reactivated, lost, barren, faults>>
  BY <1>1 DEF PushLinear, Push
<1>3. /\ s' = s /\ Call' \in {"emptied", "close", "refetch", "create"}
      /\ Call' \in {"emptied", "create"} => ~s.pr.open
      /\ Call' = "refetch" => s.pr.open
  BY <1>1, AfterPushLinearIs DEF Push
<1>4. /\ stored' = [stored EXCEPT !.findings = Rerun(@)]
      /\ view' = [view EXCEPT !.state.findings = Rerun(@)]
  <2>1. todo' # <<>>
    BY <1>3 DEF Call, First
  <2> QED BY <2>1 DEF PushLinear, Seen
<1>5. /\ stored' \in States /\ stored'.url = stored.url /\ stored'.idle = stored.idle
      /\ stored'.status = stored.status /\ stored'.mode = stored.mode
  <2>1. Rerun(stored.findings) \in SUBSET {"red", "review", "earlier"}
    BY DEF Rerun
  <2> QED BY <1>4, <2>1, LinearTypes DEF States
<1>6. /\ view'.workflow = view.workflow /\ view'.draft = view.draft
      /\ view' \in [workflow : {"open", "terminal"}, state : States, draft : States]
      /\ view'.state.url = view.state.url /\ view'.state.idle = view.state.idle
      /\ view'.state.status = view.state.status /\ view'.state.mode = view.state.mode
  <2> DEFINE st == [view.state EXCEPT !.findings = Rerun(@)]
  <2>1. Rerun(view.state.findings) \in SUBSET {"red", "review", "earlier"}
    BY DEF Rerun
  <2>2. /\ st \in States /\ st.url = view.state.url /\ st.idle = view.state.idle
        /\ st.status = view.state.status /\ st.mode = view.state.mode
    BY <2>1, LinearTypes DEF States
  <2>3. view' = [view EXCEPT !.state = st]
    BY <1>4 DEF LinearInv, LinearTypeOK
  <2> HIDE DEF st
  <2> QED BY <2>2, <2>3 DEF LinearInv, LinearTypeOK
<1>7. ~Saving' /\ ~JustOpened' /\ ~Loaded' /\ ~Gated' /\ ~GateSave'
  BY <1>3 DEF Saving, JustOpened, Loaded, Gated, GateSave
<1>8. LinearTypeOK'
  BY <1>2, <1>5, <1>6 DEF LinearInv, LinearTypeOK
<1>9. StatesKept'
  BY <1>2, <1>5, <1>6, <1>7 DEF LinearInv, StatesKept, Counted
<1>10. BarrenKept'
  BY <1>1, <1>2, <1>5, <1>7, LinearTypes DEF LinearInv, BarrenKept, Explains, CountOf
<1>11. FatesKept'
  BY <1>1, <1>2, <1>3, <1>5, <1>7 DEF LinearInv, FatesKept, Misses, Excused
<1>12. ReopeningsKept'
  BY <1>1, <1>2, <1>3, <1>5, <1>7 DEF LinearInv, ReopeningsKept, Reopenable, Excused
<1> QED BY <1>8, <1>9, <1>10, <1>11, <1>12 DEF LinearInv

\* A pull request is opened only where none is left that a person ended.
LEMMA CreateLinearLeaves ==
  ASSUME PRInv, LinearInv, resource = "linear", UNCHANGED resource, CreateLinear
  PROVE  LinearInv' /\ EndsRespected
<1>1. Call = "create" /\ ~Idle /\ ~Saving /\ ~JustOpened /\ ~s.pr.open
  BY LinearCall DEF CreateLinear, Create, Saving, JustOpened, PRInv, SessionKept, DecisionsKept
<1>2. UNCHANGED <<workflow, stored, lost, barren, faults>> /\ fates' = Append(fates, "open")
      /\ reactivated' = FALSE /\ pr'.open
  <2>1. pr' = [NoPR EXCEPT !.open = TRUE, !.data = s.expected, !.baseline = s.pr.baseline]
    BY DEF CreateLinear, Create
  <2> QED BY <2>1 DEF CreateLinear, Create, NoPR
<1>3. s' = s /\ Call' = "label"
  BY <1>1, Continues DEF CreateLinear, Create, PRInv, Follows, LastCalls
<1>4. view' = view
  <2>1. todo' # <<>>
    BY <1>3 DEF Call, First
  <2> QED BY <2>1 DEF CreateLinear, Seen
<1>5. JustOpened' /\ ~Saving' /\ ~Loaded' /\ ~Gated' /\ ~GateSave'
  BY <1>1, <1>3 DEF JustOpened, Saving, Loaded, Gated, GateSave
<1>6. /\ fates' \in Seq({"open", "merged", "closed", "emptied"}) /\ Len(fates') = Len(fates) + 1
      /\ fates'[Len(fates')] = "open" /\ fates' # <<>>
  <2>1. fates \in Seq({"open", "merged", "closed", "emptied"})
    BY DEF LinearInv, LinearTypeOK
  <2> QED BY <1>2, <2>1, AppendProperties
<1>7. stored.url <= Len(fates) /\ view.state.url <= Len(fates) /\ view.draft.url <= Len(fates)
      /\ stored.url \in Nat /\ view.state.url \in Nat /\ view.draft.url \in Nat /\ Len(fates) \in Nat
  BY LinearTypes DEF LinearInv, StatesKept, Counted
<1>8. LinearTypeOK'
  <2>1. stored'.url <= Len(fates')
    BY <1>2, <1>6, <1>7
  <2> QED BY <1>2, <1>4, <1>6, <2>1 DEF LinearInv, LinearTypeOK
<1>9. StatesKept'
  BY <1>2, <1>4, <1>5, <1>6, <1>7 DEF LinearInv, StatesKept, Counted
<1>10. BarrenKept'
  BY <1>1, <1>2, <1>5, LinearTypes DEF LinearInv, BarrenKept, Explains, CountOf
<1>11. FatesKept'
  BY <1>2, <1>3, <1>4, <1>5, <1>6, <1>7 DEF FatesKept
<1>12. ReopeningsKept'
  BY <1>1, <1>2, <1>3, <1>5, <1>6, <1>7 DEF ReopeningsKept, Misses
<1>13. EndsRespected
  BY <1>1 DEF EndsRespected, LinearInv, FatesKept, Excused
<1> QED BY <1>8, <1>9, <1>10, <1>11, <1>12, <1>13 DEF LinearInv

\* The last pull request is marked: as ended by someone, or by the bot.
LEMMA MarkedFates ==
  ASSUME PRInv, LinearInv, pr.open, NEW fate \in {"merged", "closed", "emptied"},
         fates' = [fates EXCEPT ![Len(fates)] = fate]
  PROVE  /\ fates' \in Seq({"open", "merged", "closed", "emptied"}) /\ Len(fates') = Len(fates)
         /\ fates' # <<>> /\ fates'[Len(fates')] = fate
         /\ fates # <<>> /\ fates[Len(fates)] = "open"
<1>1. fates \in Seq({"open", "merged", "closed", "emptied"}) /\ fates # <<>> /\ fates[Len(fates)] = "open"
  BY DEF LinearInv, LinearTypeOK, FatesKept
<1>2. Len(fates) \in 1 .. Len(fates)
  BY <1>1, EmptySeq, LenProperties
<1> QED BY <1>1, <1>2, ExceptSeq

LEMMA CallLinearLeaves ==
  ASSUME PRInv, LinearInv, resource = "linear", UNCHANGED resource, CallLinear
  PROVE  LinearInv'
<1>1. /\ ~Idle /\ Call \in {"refetch", "edit", "label", "relabel", "close"}
      /\ (At("close") <=> Call = "close")
  <2>1. ~Idle /\ Call \in Written \cup {"refetch", "edit"} /\ (At("close") <=> Call = "close")
    BY DEF CallLinear, Refetch, Edit, LabelCall, At, Call, First, Idle
  <2> QED BY <2>1, CallIs DEF Written, LinearCalls
<1>2. /\ UNCHANGED <<workflow, stored, reactivated, barren, faults>> /\ (lost => lost')
      /\ lost' \in BOOLEAN
      /\ Call = "close" /\ ~pr.open => lost'
      /\ fates' = IF Call = "close" /\ pr.open THEN [fates EXCEPT ![Len(fates)] = "emptied"] ELSE fates
  BY <1>1 DEF CallLinear, Refetch, Edit, LabelCall, LinearInv, LinearTypeOK
<1>3. ~Saving /\ ~Loaded /\ ~Gated /\ ~GateSave
  BY <1>1 DEF Saving, Loaded, Gated, GateSave
<1>4. /\ Call' \in {"none", "edit", "relabel", "final", "emptied"} /\ (Call' = "none" <=> todo' = <<>>)
      /\ Call' # "none" => s' = s
      /\ Call' = "none" => Call # "label"
      /\ Call' \in {"edit", "relabel"} => Call \in {"refetch", "edit"}
      /\ Call' = "final" => Call \in {"label", "relabel"}
      /\ Call' = "emptied" => Call = "close"
      /\ Call = "label" => Call' = "final"
  <2>1. CASE Ends /\ Call = "refetch"
    BY <2>1, EndsWell
  <2>2. CASE Continue
    BY <1>1, <2>2, Continues DEF PRInv, CallsOf, LinearCalls, Follows, LastCalls
  <2>3. Continue \/ (Ends /\ Call = "refetch")
    <3>1. Head(todo) = Call
      BY <1>1 DEF Call, First, Idle
    <3>2. CASE Refetch
      BY <3>1, <3>2 DEF Refetch, At
    <3>3. CASE Edit
      BY <3>3 DEF Edit
    <3>4. CASE LabelCall
      BY <1>1, <3>1, <3>4 DEF LabelCall
    <3> QED BY <3>2, <3>3, <3>4 DEF CallLinear
  <2> QED BY <2>1, <2>2, <2>3
<1>5. view' = IF Call' = "none" THEN NoView ELSE view
  BY <1>4 DEF CallLinear, Seen
<1>6. ~Saving' /\ ~Loaded' /\ ~Gated' /\ ~GateSave' /\ (JustOpened' => Call' = "final")
  BY <1>4 DEF Saving, Loaded, Gated, GateSave, JustOpened
<1>7. /\ fates' \in Seq({"open", "merged", "closed", "emptied"}) /\ Len(fates') = Len(fates)
      /\ IF Call = "close" /\ pr.open THEN fates' # <<>> /\ fates'[Len(fates')] = "emptied"
         ELSE fates' = fates
  BY <1>2, MarkedFates DEF LinearInv, LinearTypeOK
<1>8. pr'.open <=> pr.open /\ Call # "close"
  <2>1. Head(todo) = Call /\ ~NoPR.open
    BY <1>1 DEF Call, First, Idle, NoPR
  <2>2. CASE Refetch
    BY <2>1, <2>2 DEF Refetch, At
  <2>3. CASE Edit
    <3>1. pr' = [pr EXCEPT !.data = s.expected, !.baseline = s.pr.baseline] /\ Call = "edit"
      BY <2>1, <2>3 DEF Edit, At
    <3> QED BY <3>1, PRTypes DEF PullRequests
  <2>4. CASE LabelCall
    <3> DEFINE static == pr.static \/ Call \in {"labels", "label", "relabel"}
               comment == IF Call = "comment" THEN "posted"
                          ELSE IF Call = "uncomment" THEN "none" ELSE pr.comment
               gaveup == (pr.gaveup \/ Call = "gaveup") /\ ~(Call = "unlabel" /\ s.pr.gaveup)
    <3>1. pr' = IF ~pr.open \/ Call = "close" THEN NoPR
                ELSE [pr EXCEPT !.static = static, !.comment = comment, !.gaveup = gaveup]
      BY <2>1, <2>4, PRTypes DEF LabelCall, PullRequests
    <3> HIDE DEF static, comment, gaveup
    <3> QED BY <2>1, <3>1, PRTypes DEF PullRequests
  <2> QED BY <2>2, <2>3, <2>4 DEF CallLinear
<1>9. LinearTypeOK'
  BY <1>2, <1>5, <1>7, EmptyStates DEF LinearInv, LinearTypeOK
<1>10. StatesKept'
  BY <1>2, <1>5, <1>6, <1>7, EmptyStates DEF LinearInv, StatesKept, Counted
<1>11. BarrenKept'
  BY <1>2, <1>3, <1>6, LinearTypes DEF LinearInv, BarrenKept, Explains, CountOf
<1>12. FatesKept'
  <2>1. (pr.open <=> fates # <<>> /\ fates[Len(fates)] = "open")'
    BY <1>7, <1>8 DEF LinearInv, FatesKept
  <2>2. Call' = "final" => s'.pr.open = s.pr.open /\ (Call = "relabel" => s.pr.open)
    BY <1>4 DEF LinearInv, FatesKept
  <2>3. JustOpened' => JustOpened /\ fates' = fates /\ view' = view
    BY <1>4, <1>5, <1>6, <1>7, <2>2 DEF JustOpened
  <2>4. (Saving \/ JustOpened \/ Excused \/ ~Misses(stored))'
    <3>1. CASE Call = "close"
      BY <1>2, <1>7, <3>1 DEF Excused, Misses, LinearInv, FatesKept
    <3>2. CASE Call # "close"
      <4>1. JustOpened \/ Excused \/ ~Misses(stored)
        BY <1>3 DEF LinearInv, FatesKept
      <4>2. JustOpened => JustOpened'
        BY <1>1, <1>4 DEF JustOpened
      <4> QED BY <1>2, <1>7, <3>2, <4>1, <4>2 DEF Excused, Misses
    <3> QED BY <3>1, <3>2
  <2>5. Call' = "emptied" => Excused' \/ fates' = <<>> \/ fates'[Len(fates')] = "emptied"
    BY <1>2, <1>4, <1>7 DEF Excused
  <2> QED BY <1>4, <1>6, <2>1, <2>3, <2>4, <2>5 DEF LinearInv, FatesKept
<1>13. ReopeningsKept'
  <2> SUFFICES ASSUME Reopenable(stored), workflow = "open", ~Excused'
               PROVE  Misses(stored)' /\ ~s'.pr.open /\ JustOpened'
    BY <1>2, <1>6 DEF ReopeningsKept, Reopenable, Excused
  <2>1. Misses(stored) /\ ~s.pr.open /\ JustOpened
    BY <1>1, <1>2, <1>3 DEF LinearInv, ReopeningsKept, Excused, GateSave
  <2>2. Call = "label"
    BY <1>1, <2>1 DEF JustOpened
  <2> QED BY <1>2, <1>4, <2>1, <2>2 DEF JustOpened, Misses
<1> QED BY <1>9, <1>10, <1>11, <1>12, <1>13 DEF LinearInv

\* The writing of a state: the attachment deleted, uploaded anew, the callback.
LEMMA WritesLeave ==
  ASSUME PRInv, LinearInv, resource = "linear", UNCHANGED resource, Delete \/ Upload \/ Cancel
  PROVE  LinearInv'
<1> DEFINE last == todo[Len(todo)]
<1>1. /\ UNCHANGED <<pr, fates, reactivated, lost, barren, faults>> /\ Continue /\ ~Idle
      /\ view' = IF todo' = <<>> THEN NoView ELSE view
      /\ Call \in {"delete", "upload", "cancel"}
      /\ Call = "delete" => stored' = NoState /\ workflow' = workflow
      /\ Call = "upload" => stored' = view.draft /\ workflow' = workflow
      /\ Call = "cancel" => stored' = stored /\ workflow' = "terminal"
  BY DEF Delete, Upload, Cancel, Seen, Quiet, At, Call, First, Idle
<1>2. /\ IF Call' = "none" THEN s' = NoSession /\ last = Call
         ELSE s' = s /\ todo'[Len(todo')] = last
      /\ Call' = "none" <=> todo' = <<>>
      /\ PlansKept'
      /\ <<Call, Call'>> \in {<<"delete", "upload">>, <<"upload", "gates">>, <<"upload", "cancel">>,
                              <<"upload", "none">>, <<"cancel", "none">>}
  BY <1>1, Continues DEF PRInv, Follows, LastCalls
<1>3. Call' \in {"gates", "cancel"} => last = Call'
  <2> SUFFICES ASSUME Call' \in {"gates", "cancel"} PROVE todo'[Len(todo')] = Call'
    BY <1>2
  <2> QED BY <1>2, LastOnes DEF PlansKept, Call, First
<1> HIDE DEF last
<1>4. /\ ~Gated /\ ~JustOpened /\ ~Gated' /\ ~JustOpened'
      /\ (Saving <=> Call \in {"delete", "upload"}) /\ (Saving' <=> Call' = "upload")
      /\ (GateSave <=> Saving /\ last = "gates") /\ (GateSave' <=> Saving' /\ last = "gates")
      /\ (Loaded <=> GateSave) /\ (Loaded' => GateSave /\ view' = view)
  BY <1>1, <1>2, <1>3 DEF Gated, JustOpened, Saving, GateSave, Loaded, last
<1>5. LinearTypeOK'
  <2>1. view.draft.mode # "none" => view.draft.status = "failed"
    BY DEF LinearInv, StatesKept, Counted
  <2>2. view.draft.url <= Len(fates)
    BY DEF LinearInv, StatesKept, Counted
  <2>3. NoState.mode = "none" /\ NoState.url <= Len(fates)
    BY LinearTypes DEF NoState
  <2>4. stored' \in States /\ workflow' \in {"open", "terminal"}
    BY <1>1, EmptyStates, LinearTypes DEF LinearInv, LinearTypeOK
  <2> QED BY <1>1, <2>1, <2>2, <2>3, <2>4, EmptyStates DEF LinearInv, LinearTypeOK
<1>6. StatesKept'
  <2>1. Counted(stored') /\ Counted(view'.state) /\ Counted(view'.draft)
    BY <1>1, EmptyStates DEF LinearInv, StatesKept
  <2>2. \A st : Counted(st)' <=> Counted(st)
    BY <1>1 DEF Counted
  <2>3. GateSave' => Reactivated(view'.state, view'.workflow)
    BY <1>4 DEF Loaded, LinearInv, StatesKept
  <2> QED BY <1>1, <1>4, <2>1, <2>2, <2>3 DEF StatesKept, Counted, Reactivated
<1>7. BarrenKept'
  <2>1. /\ \A st : Explains(st)' <=> Explains(st)
        /\ Saving => Explains(view.draft)
        /\ ~Saving => Explains(stored)
        /\ Loaded => Explains(Existing)
    BY <1>1, LinearTypes DEF LinearInv, BarrenKept, Explains, CountOf
  <2>2. Loaded' => Loaded /\ Existing' = Existing
    BY <1>4 DEF Existing, Reactivated
  <2>3. IF Saving' THEN Explains(view.draft)' ELSE Explains(stored)'
    BY <1>1, <1>2, <1>4, <2>1 DEF Explains, CountOf
  <2> QED BY <1>4, <2>1, <2>2, <2>3 DEF BarrenKept, Explains, CountOf
<1>8. FatesKept'
  BY <1>1, <1>2, <1>4 DEF LinearInv, FatesKept, Misses, Excused, Loaded
<1>9. ReopeningsKept'
  BY <1>1, <1>2, <1>3, <1>4, EmptyStates
     DEF LinearInv, ReopeningsKept, Reopenable, Excused, last
<1> QED BY <1>5, <1>6, <1>7, <1>8, <1>9 DEF LinearInv

\* A run that dies: what it had not saved is lost.
LEMMA LinearDiesLeaves ==
  ASSUME PRInv, LinearInv, resource = "linear", UNCHANGED resource, LinearDies
  PROVE  LinearInv'
<1>1. ~Idle /\ Call = Head(todo) /\ todo' = <<>> /\ view' = NoView /\ faults' = faults + 1
      /\ UNCHANGED <<pr, workflow, stored, fates, reactivated, barren>>
  BY DEF LinearDies, RunDies, Ends, Seen, Idle, Call, First
<1>2. /\ lost' \in BOOLEAN /\ (lost => lost') /\ (Call \in {"upload", "cancel"} => lost')
      /\ Misses(stored) => lost'
  BY <1>1 DEF LinearDies, Unsaved, Misses, LinearInv, LinearTypeOK
<1>3. Call' = "none" /\ ~Saving' /\ ~JustOpened' /\ ~Loaded' /\ ~Gated' /\ ~GateSave'
  BY <1>1 DEF Call, First, Saving, JustOpened, Loaded, Gated, GateSave
<1>4. LinearTypeOK'
  BY <1>1, <1>2, EmptyStates DEF LinearInv, LinearTypeOK
<1>5. StatesKept'
  BY <1>1, <1>3, EmptyStates DEF LinearInv, StatesKept, Counted
<1>6. BarrenKept'
  <2>1. Forgiven' = Forgiven + maxNoDiffIterations
    BY <1>1, LinearTypes
  <2>2. barren <= CountOf(stored) + (Forgiven + maxNoDiffIterations)
    <3>1. CASE Saving
      <4>1. barren <= CountOf(view.draft) + Forgiven
        BY <3>1 DEF LinearInv, BarrenKept, Explains
      <4>2. CountOf(view.draft) <= maxNoDiffIterations
        <5>1. view.draft.idle \in Nat /\ maxNoDiffIterations \in Nat
          BY LinearTypes
        <5> QED BY <5>1 DEF LinearInv, StatesKept, Counted, CountOf
      <4>3. /\ CountOf(view.draft) \in Nat /\ CountOf(stored) \in Nat /\ Forgiven \in Nat
            /\ barren \in Nat /\ maxNoDiffIterations \in Nat
        BY LinearTypes
      <4> QED BY <4>1, <4>2, <4>3
    <3>2. CASE ~Saving
      <4>1. barren <= CountOf(stored) + Forgiven
        BY <3>2 DEF LinearInv, BarrenKept, Explains
      <4> QED BY <4>1, LinearTypes
    <3> QED BY <3>1, <3>2
  <2>3. Explains(stored)'
    BY <1>1, <2>1, <2>2 DEF Explains, CountOf
  <2> QED BY <1>3, <2>3 DEF BarrenKept
<1>7. FatesKept'
  BY <1>1, <1>2, <1>3 DEF LinearInv, FatesKept, Misses, Excused
<1>8. ReopeningsKept'
  BY <1>1, <1>2, <1>3 DEF LinearInv, ReopeningsKept, Reopenable, Excused
<1> QED BY <1>4, <1>5, <1>6, <1>7, <1>8 DEF LinearInv

\* What is done around the run.
LEMMA LinearAroundLeaves ==
  ASSUME PRInv, LinearInv, resource = "linear", UNCHANGED resource,
         DescriptionEdited \/ LinearMergeOrClose \/ IssueMoves
           \/ (Around /\ UNCHANGED linearVars) \/ UNCHANGED reconcilerVars
  PROVE  LinearInv'
<1>1. UNCHANGED <<s, todo, stored, view, lost, barren, faults>>
  BY DEF DescriptionEdited, LinearMergeOrClose, IssueMoves, Around, ChecksFinish,
     MergeabilityKnown,
         Conflicts, Review, TakeOver, linearVars, reconcilerVars, prVars
<1>2. /\ Call' = Call /\ Saving' = Saving /\ JustOpened' = JustOpened /\ Loaded' = Loaded
      /\ Gated' = Gated /\ GateSave' = GateSave
  BY <1>1 DEF Call, First, Saving, JustOpened, Loaded, Gated, GateSave
<1>3. /\ Len(fates') = Len(fates) /\ fates' \in Seq({"open", "merged", "closed", "emptied"})
      /\ \/ fates' = fates /\ pr'.open = pr.open
         \/ /\ fates # <<>> /\ fates[Len(fates)] = "open"
            /\ fates' # <<>> /\ fates'[Len(fates)] \in {"merged", "closed"} /\ ~pr'.open
  <2>1. fates \in Seq({"open", "merged", "closed", "emptied"})
    BY DEF LinearInv, LinearTypeOK
  <2>2. CASE LinearMergeOrClose
    <3>1. PICK fate \in {"merged", "closed"} : fates' = [fates EXCEPT ![Len(fates)] = fate]
      BY <2>2 DEF LinearMergeOrClose
    <3>2. pr.open /\ ~pr'.open
      BY <2>2 DEF LinearMergeOrClose, NoPR
    <3> QED BY <3>1, <3>2, MarkedFates
  <2>3. CASE TakeOver /\ UNCHANGED linearVars
    BY <2>1, <2>3, PRTypes DEF TakeOver, PullRequests, linearVars
  <2>4. CASE DescriptionEdited \/ IssueMoves
             \/ ((ChecksFinish \/ MergeabilityKnown \/ Conflicts \/ Review) /\ UNCHANGED linearVars)
             \/ UNCHANGED reconcilerVars
    BY <2>1, <2>4 DEF DescriptionEdited, IssueMoves, ChecksFinish, MergeabilityKnown, Conflicts,
                      Review, linearVars, reconcilerVars, prVars
  <2> QED BY <2>2, <2>3, <2>4 DEF Around
<1>4. /\ workflow' \in {"open", "terminal"} /\ reactivated' \in BOOLEAN
      /\ reactivated => reactivated'
      /\ workflow' = "open" => workflow = "open" \/ reactivated'
  BY DEF DescriptionEdited, LinearMergeOrClose, IssueMoves, linearVars, reconcilerVars,
     LinearInv,
         LinearTypeOK
<1>5. \A st : Misses(st)' <=> Misses(st)
  BY <1>3 DEF Misses
<1>6. LinearTypeOK'
  BY <1>1, <1>3, <1>4 DEF LinearInv, LinearTypeOK
<1>7. StatesKept'
  BY <1>1, <1>2, <1>3 DEF LinearInv, StatesKept, Counted, Reactivated
<1>8. BarrenKept'
  BY <1>1, <1>2, LinearTypes DEF LinearInv, BarrenKept, Explains, CountOf, Existing, Reactivated
<1>9. FatesKept'
  BY <1>1, <1>2, <1>3, <1>4 DEF LinearInv, FatesKept, Misses, Excused
<1>10. ReopeningsKept'
  BY <1>1, <1>2, <1>4, <1>5 DEF LinearInv, ReopeningsKept, Reopenable, Excused, Misses
<1> QED BY <1>6, <1>7, <1>8, <1>9, <1>10 DEF LinearInv

\* Every step of a Linear issue keeps what its saved state says; and only the
\* creation of a pull request follows an ended one by another.
LEMMA LinearLeaves ==
  ASSUME PRInv, LinearInv, resource = "linear", UNCHANGED resource,
         \/ LinearRuns \/ LinearDies \/ GateSaveFails \/ LinearReverts \/ LinearAround
         \/ (Around /\ UNCHANGED linearVars)
  PROVE  LinearInv' /\ EndsRespected
<1>1. CASE StartLinear \/ Gates \/ OpenSession \/ FromPRState \/ DecideLinear \/ NoChangesLinear
           \/ Final \/ GateSaveFails \/ Delete \/ Upload \/ Cancel
  <2>1. LinearInv'
    BY <1>1, StartLinearKeeps, GatesKeep, OpenSessionLeaves, FromPRStateLeaves,
       DecideLinearLeaves,
       NoChangesLeaves, FinalLeaves, GateSaveFailsKeeps, WritesLeave
  <2>2. fates' = fates
    BY <1>1 DEF StartLinear, Gates, OpenSession, FromPRState, DecideLinear, NoChangesLinear,
       Final,
                GateSaveFails, Delete, Upload, Cancel
  <2> QED BY <2>1, <2>2, LinearTypes DEF EndsRespected
<1>2. CASE (PushLinear(s.asked) /\ UNCHANGED events) \/ LinearReverts
  <2>1. LinearInv'
    BY <1>2, PushLinearLeaves DEF LinearReverts
  <2>2. fates' = fates
    BY <1>2 DEF PushLinear, LinearReverts
  <2> QED BY <2>1, <2>2, LinearTypes DEF EndsRespected
<1>3. CASE CreateLinear
  BY <1>3, CreateLinearLeaves
<1>4. CASE CallLinear
  <2>1. LinearInv'
    BY <1>4, CallLinearLeaves
  <2>2. Len(fates') = Len(fates)
    BY <1>4, MarkedFates DEF CallLinear
  <2> QED BY <2>1, <2>2, LinearTypes DEF EndsRespected
<1>5. CASE LinearDies
  <2>1. LinearInv'
    BY <1>5, LinearDiesLeaves
  <2>2. fates' = fates
    BY <1>5 DEF LinearDies
  <2> QED BY <2>1, <2>2, LinearTypes DEF EndsRespected
<1>6. CASE LinearAround \/ (Around /\ UNCHANGED linearVars)
  <2>1. LinearInv'
    BY <1>6, LinearAroundLeaves DEF LinearAround
  <2>2. Len(fates') = Len(fates)
    BY <1>6, MarkedFates
       DEF LinearAround, DescriptionEdited, LinearMergeOrClose, IssueMoves, linearVars
  <2> QED BY <2>1, <2>2, LinearTypes DEF EndsRespected
<1> QED BY <1>1, <1>2, <1>3, <1>4, <1>5, <1>6 DEF LinearRuns

-----------------------------------------------------------------------------
(* The whole.                                                              *)

LEMMA IInvIs ==
  /\ IInv <=> /\ PRInv
              /\ resource = "linear" => LinearInv
              /\ resource # "linear" => LinearInit /\ LinearTypeOK
  /\ IInv' <=> /\ PRInv'
               /\ resource' = "linear" => LinearInv'
               /\ resource' # "linear" => LinearInit' /\ LinearTypeOK'
BY DEF IInv, TypeOK, PRInv, LinearInv

LEMMA InitHolds ==
  ASSUME ReconcilersInit
  PROVE  IInv
<1>1. Call = "none" /\ ~BodyDue /\ ~Saving /\ ~Loaded /\ ~Gated /\ ~GateSave /\ ~JustOpened /\ ~Deciding
  BY DEF ReconcilersInit, PullRequestInit, Call, First, BodyDue, Idle, Saving, Loaded, Gated,
     GateSave,
         JustOpened, Deciding
<1>2. NoPR \in PullRequests /\ ~NoPR.open /\ NoBranch \in BranchStates /\ NoBranch.commits = 0
  BY DEF NoPR, NoBranch, PullRequests, BranchStates, Changes
<1>3. (CHOOSE v \in Versions : TRUE) \in Changes
  BY PullRequestAssumption DEF Changes
<1>4. PullRequestTypeOK
  BY <1>2, <1>3, NoSessionType, PullRequestAssumption
     DEF ReconcilersInit, PullRequestInit, PullRequestTypeOK
<1>5. PlansKept
  BY PlansAreWellFormed DEF ReconcilersInit, PullRequestInit, PlansKept
<1>6. SessionKept
  <2>1. DecisionsKept /\ LabelsKept /\ BodyKept
    BY <1>1, <1>2, NoSessionType
       DEF ReconcilersInit, PullRequestInit, DecisionsKept, LabelsKept, BodyKept,
       GaveUpExplained, NoSession, NoPR
  <2>2. CommitsKept
    BY <1>1, <1>2 DEF ReconcilersInit, PullRequestInit, CommitsKept
  <2>3. AllowanceKept
    BY <1>1, <1>2, PullRequestAssumption
       DEF ReconcilersInit, PullRequestInit, AllowanceKept, BudgetKept
  <2> QED BY <2>1, <2>2, <2>3 DEF SessionKept
<1>7. NoState \in States /\ NoState.mode = "none" /\ NoState.url = 0 /\ NoState.idle = 0
      /\ NoState.status = "none" /\ NoView.state = NoState /\ NoView.draft = NoState
      /\ NoView \in [workflow : {"open", "terminal"}, state : States, draft : States]
  BY DEF NoState, NoView, States
<1>8. fates = <<>> /\ Len(fates) = 0 /\ fates \in Seq({"open", "merged", "closed", "emptied"})
  BY EmptySeq DEF ReconcilersInit, LinearInit
<1>9. LinearTypeOK
  <2>1. stored = NoState /\ view = NoView /\ stored.url <= Len(fates)
    BY <1>7, <1>8 DEF ReconcilersInit, LinearInit
  <2> QED BY <1>7, <1>8, <2>1 DEF ReconcilersInit, LinearInit, LinearTypeOK
<1>10. StatesKept
  BY <1>1, <1>7, <1>8, LinearAssumption DEF ReconcilersInit, LinearInit, StatesKept, Counted
<1>11. Forgiven \in Nat
  BY LinearAssumption, PullRequestAssumption DEF Forgiven, ReconcilersInit, PullRequestInit
<1>12. BarrenKept
  BY <1>1, <1>7, <1>11 DEF ReconcilersInit, LinearInit, BarrenKept, Explains, CountOf
<1>13. FatesKept /\ ReopeningsKept
  BY <1>1, <1>2, <1>7, <1>8
     DEF ReconcilersInit, LinearInit, PullRequestInit, FatesKept, ReopeningsKept,
     Misses, Reopenable
<1> QED BY <1>4, <1>5, <1>6, <1>9, <1>10, <1>12, <1>13, IInvIs
        DEF PRInv, LinearInv, ReconcilersInit

LEMMA NextKeeps ==
  ASSUME IInv, [ReconcilersNext]_reconcilerVars
  PROVE  IInv' /\ [EndsRespected]_reconcilerVars
<1>1. CASE resource = "linear" /\ ReconcilersNext
  <2>1. /\ UNCHANGED resource
        /\ \/ LinearRuns \/ LinearDies \/ GateSaveFails \/ LinearReverts \/ LinearAround
           \/ (Around /\ UNCHANGED linearVars)
    BY <1>1 DEF ReconcilersNext, PathDoes, IssueDoes, LinearDoes, AnyDoes
  <2> QED BY <1>1, <2>1, IInvIs, LinearKeeps, LinearLeaves
<1>2. CASE resource # "linear" /\ ReconcilersNext
  <2>1. /\ UNCHANGED <<resource, linearVars>>
        /\ \/ resource = "path" /\ (PathRuns \/ SessionNext \/ People)
           \/ resource = "issue" /\ (IssueRuns \/ SessionNext \/ People)
           \/ resource # "linear" /\ Around
    BY <1>2 DEF ReconcilersNext, PathDoes, IssueDoes, LinearDoes, AnyDoes
  <2>2. PRInv'
    BY <1>2, <2>1, IInvIs, GitHubKeeps
  <2>3. (LinearInit /\ LinearTypeOK)' /\ EndsRespected
    BY <1>2, <2>1, IInvIs DEF LinearInit, LinearTypeOK, linearVars, EndsRespected
  <2> QED BY <1>2, <2>1, <2>2, <2>3, IInvIs
<1>3. CASE UNCHANGED reconcilerVars
  <2>1. UNCHANGED <<resource, prVars, linearVars>>
    BY <1>3 DEF reconcilerVars
  <2>2. PRInv'
    <3>1. events \in 0 .. MaxEvents
      BY IInvIs DEF PRInv, PullRequestTypeOK
    <3> QED BY <2>1, <3>1, IInvIs, PRTypes, AroundKeeps DEF prVars
  <2>3. CASE resource = "linear"
    BY <1>3, <2>1, <2>2, <2>3, IInvIs, LinearAroundLeaves
  <2>4. CASE resource # "linear"
    <3>1. (LinearInit /\ LinearTypeOK)'
      BY <2>1, <2>4, IInvIs DEF LinearInit, LinearTypeOK, linearVars
    <3> QED BY <1>3, <2>1, <2>2, <2>4, <3>1, IInvIs
  <2> QED BY <1>3, <2>3, <2>4
<1> QED BY <1>1, <1>2, <1>3

-----------------------------------------------------------------------------
(* What the pull requests promise.                                         *)

\* Everything the parts of the invariant say of a run, of the pull request it
\* writes and of a Linear issue's saved state holds of every behaviour.
THEOREM InvariantHolds == ReconcilersSpec => []IInv
<1>1. ReconcilersInit => IInv
  BY InitHolds
<1>2. IInv /\ [ReconcilersNext]_reconcilerVars => IInv'
  BY NextKeeps
<1> QED BY <1>1, <1>2, PTL DEF ReconcilersSpec

\* The types, which the invariant needs in every step.
THEOREM TypeCorrect == ReconcilersSpec => []TypeOK
<1>1. IInv => TypeOK
  BY DEF IInv
<1> QED BY <1>1, InvariantHolds, PTL

\* What a reader of the pull request is told is true (giveup.go, session.go):
\* whatever call failed, a give-up label has its comment, or GitHub forbade to post
\* it; and between runs the body describes the change on the branch, unless a run
\* died before its edit.
THEOREM ReadersAreToldTheTruth == ReconcilersSpec => []TellsTheTruth
<1>1. IInv => TellsTheTruth
  BY DEF IInv, SessionKept, LabelsKept, BodyKept, TellsTheTruth, BodyDescribesBranch, BodyDue
<1> QED BY <1>1, InvariantHolds, PTL

\* Budgets end what does not help: the agent iterates at most as often as its
\* commits allow, and at most as often to change nothing as the counter of the
\* saved state allows, whichever runs die between the agent and the save.
THEOREM RunsAreBounded == ReconcilersSpec => []RunsBounded
<1>1. ASSUME IInv PROVE RunsBounded
  <2>1. BudgetKept
    BY <1>1 DEF IInv, SessionKept, AllowanceKept
  <2>2. BarrenBounded
    <3>1. faults \in Nat /\ maxNoDiffIterations \in Nat
      BY <1>1, IInvIs, LinearAssumption, PullRequestAssumption DEF PRInv, PullRequestTypeOK
    <3>2. /\ maxNoDiffIterations * faults \in Nat
          /\ maxNoDiffIterations * (faults + 1) = Forgiven + maxNoDiffIterations
      BY <3>1 DEF Forgiven
    <3>3. CASE resource = "linear"
      <4>1. LinearInv /\ PRInv
        BY <1>1, <3>3, IInvIs
      <4>2. PICK st \in {stored, view.draft} : Explains(st)
        BY <4>1 DEF LinearInv, BarrenKept
      <4>3. st.idle \in Nat /\ CountOf(st) \in Nat /\ Forgiven \in Nat /\ barren \in Nat
        BY <4>1, LinearTypes
      <4>4. CountOf(st) <= maxNoDiffIterations
        BY <3>1, <4>1, <4>3 DEF LinearInv, StatesKept, Counted, CountOf
      <4> HIDE DEF CountOf
      <4>5. barren <= Forgiven + maxNoDiffIterations
        BY <3>1, <4>2, <4>3, <4>4 DEF Explains
      <4> QED BY <3>2, <4>5 DEF BarrenBounded
    <3>4. CASE resource # "linear"
      <4>1. barren = 0
        BY <1>1, <3>4, IInvIs DEF LinearInit
      <4> QED BY <3>1, <3>2, <4>1 DEF BarrenBounded, Forgiven
    <3> QED BY <3>3, <3>4
  <2> QED BY <2>1, <2>2 DEF RunsBounded
<1> QED BY <1>1, InvariantHolds, PTL

\* A pull request of a Linear issue that someone merged or closed is followed by
\* another only when someone reopens the issue, or where the end was lost.
THEOREM EndsAreRespected == ReconcilersSpec => EndsStay
<1>1. IInv /\ [ReconcilersNext]_reconcilerVars => [EndsRespected]_reconcilerVars
  BY NextKeeps
<1> QED BY <1>1, InvariantHolds, PTL DEF ReconcilersSpec, EndsStay

=============================================================================
