----------------------------- MODULE SuspendWake -----------------------------
(***************************************************************************)
(* The halt/wake lifecycle of one reconciler key (src/agents/suspend):     *)
(* reconciles begin with Coordinator.Wake, and a run that asks a friend    *)
(* ends with Coordinator.Suspend.  The envelope is parked in a checkpoint  *)
(* store whose Delete is a compare-and-swap on the generation; the question*)
(* is a comment of the key's GitHub conversation, which is listed and      *)
(* edited in separate calls (suspend/githubquestions).                     *)
(*                                                                         *)
(* A pause is numbered by the generation its Save made; its nonce is fresh *)
(* too, so the number stands for both.                                     *)
(***************************************************************************)
EXTENDS Integers, FiniteSets, SequencesExt

CONSTANTS
  Workers,       \* reconciles of the key that may overlap
  None,
  ParkDeadline,  \* how long a pause may wait for its answer
  LateAnswers,   \* whether a friend may answer a question that was replaced
  MaxPauses, MaxClock, MaxFaults, MaxDeploys, MaxLate   \* bounds of the model

Pauses == 1 .. MaxPauses

Envelope == [pause : Pauses, deadline : Nat, config : Nat]

\* A question comment, its marker still readable or retired, or an /answer
\* comment; about is the question its author meant.
Comment == [kind : {"question"}, pause : Pauses, marked : BOOLEAN]
             \cup [kind : {"answer"}, about : Pauses]

ASSUME SuspendAssumption ==
  /\ None \notin Envelope /\ ParkDeadline \in Nat /\ LateAnswers \in BOOLEAN
  /\ {MaxPauses, MaxClock, MaxFaults, MaxDeploys, MaxLate} \subseteq Nat

VARIABLES
  store,     \* the parked envelope, or None
  lastSaved, \* the generation of the last Save
  comments,  \* the conversation, oldest first
  clock,
  config,    \* the configuration the deployed executor has
  at,        \* where each reconcile is
  env,       \* the envelope it loaded
  nonce,     \* the question it will consume, retire or post; 0 is none
  reply,     \* the comment it took as the answer
  resumed,   \* history: <<pause, pause the answer was about>> of each resume
  ended,     \* history: how often each pause was claimed or swept
  budget     \* crashes and failed calls, and late answers

local == <<at, env, nonce, reply>>
vars == <<store, lastSaved, comments, clock, config, local, resumed, ended, budget>>

Places == {"idle", "answer", "claim", "consume", "retire", "read", "sweep",
           "sweepConsume", "sweepRetire", "run", "ask", "supersede", "post"}

TypeOK ==
  /\ store \in Envelope \cup {None}
  /\ lastSaved \in 0 .. MaxPauses
  /\ comments \in Seq(Comment)
  /\ clock \in Nat /\ config \in Nat
  /\ at \in [Workers -> Places]
  /\ env \in [Workers -> Envelope \cup {None}]
  /\ nonce \in [Workers -> 0 .. MaxPauses]
  /\ reply \in [Workers -> 0 .. MaxPauses]
  /\ resumed \in Seq(Pauses \X Pauses)
  /\ ended \in [Pauses -> Nat]
  /\ budget \in [faults : Nat, late : Nat]

Init ==
  /\ store = None /\ lastSaved = 0 /\ comments = <<>>
  /\ clock = 0 /\ config = 0
  /\ at = [w \in Workers |-> "idle"] /\ env = [w \in Workers |-> None]
  /\ nonce = [w \in Workers |-> 0] /\ reply = [w \in Workers |-> 0]
  /\ resumed = <<>> /\ ended = [n \in Pauses |-> 0]
  /\ budget = [faults |-> 0, late |-> 0]

-----------------------------------------------------------------------------
(* The conversation.                                                       *)

Marked == {i \in DOMAIN comments :
             comments[i].kind = "question" /\ comments[i].marked}

\* The newest comment with a readable marker, 0 if there is none.
PendingAt == IF Marked = {} THEN 0 ELSE CHOOSE i \in Marked : \A j \in Marked : j <= i

Pending == IF PendingAt = 0 THEN 0 ELSE comments[PendingAt].pause

\* The /answer comments that came after it; the first one counts.
Replies == {i \in DOMAIN comments :
              PendingAt # 0 /\ i > PendingAt /\ comments[i].kind = "answer"}

FirstReply == CHOOSE i \in Replies : \A j \in Replies : i <= j

\* The comments after the question of pause n lost its marker.
Retired(n) ==
  [i \in DOMAIN comments |->
     IF comments[i].kind = "question" /\ comments[i].pause = n
       THEN [comments[i] EXCEPT !.marked = FALSE] ELSE comments[i]]

\* A friend answers a question; with LateAnswers perhaps one read earlier.
FriendAnswers ==
  \E i \in DOMAIN comments :
    /\ comments[i].kind = "question"
    /\ \A j \in DOMAIN comments :
         comments[j].kind = "answer" => comments[j].about # comments[i].pause
    /\ \/ i = PendingAt /\ UNCHANGED budget
       \/ /\ LateAnswers /\ budget.late < MaxLate
          /\ budget' = [budget EXCEPT !.late = @ + 1]
    /\ comments' = Append(comments, [kind |-> "answer", about |-> comments[i].pause])
    /\ UNCHANGED <<store, lastSaved, clock, config, local, resumed, ended>>

-----------------------------------------------------------------------------
(* Wake.                                                                   *)

Goto(w, place) == at' = [at EXCEPT ![w] = place]

\* The reconcile returns; what the workqueue does with the key is not shown,
\* it brings the key back.
Return(w) ==
  /\ Goto(w, "idle")
  /\ env' = [env EXCEPT ![w] = None]
  /\ nonce' = [nonce EXCEPT ![w] = 0] /\ reply' = [reply EXCEPT ![w] = 0]

\* Mutated form of envelopeDead: the deadline is not looked at.
envelopeDeadByDrift(e) == config # e.config

envelopeDead(e) == clock > e.deadline \/ config # e.config

\* A reconcile begins: Load.
Load(w) ==
  /\ at[w] = "idle"
  /\ env' = [env EXCEPT ![w] = store]
  /\ Goto(w, IF store = None THEN "run"
             ELSE IF envelopeDead(store) THEN "read" ELSE "answer")
  /\ UNCHANGED <<store, lastSaved, comments, clock, config, nonce, reply,
                 resumed, ended, budget>>

\* Mutated form of Deletes: the token is not compared.
DeletesAnything(w) == store # None

\* Store.Delete with the token of the loaded envelope.
Deletes(w) == store # None /\ store.pause = env[w].pause

\* The envelope that w loaded is gone, by w's hand.
Ends(w) ==
  /\ store' = None
  /\ ended' = [ended EXCEPT ![env[w].pause] = @ + 1]

\* The dead envelope's question is read before the sweep; a failed read leaves
\* the question be.
ReadPending(w) ==
  /\ at[w] = "read"
  /\ \/ nonce' = [nonce EXCEPT ![w] = Pending] /\ UNCHANGED budget
     \/ /\ budget.faults < MaxFaults
        /\ budget' = [budget EXCEPT !.faults = @ + 1]
        /\ UNCHANGED nonce
  /\ Goto(w, "sweep")
  /\ UNCHANGED <<store, lastSaved, comments, clock, config, env, reply,
                 resumed, ended>>

Sweep(w) ==
  /\ at[w] = "sweep"
  /\ \/ /\ Deletes(w) /\ Ends(w)
        /\ Goto(w, IF nonce[w] = 0 THEN "run" ELSE "sweepConsume")
     \/ /\ ~Deletes(w) /\ Goto(w, "run") /\ UNCHANGED <<store, ended>>
  /\ UNCHANGED <<lastSaved, comments, clock, config, env, nonce, reply,
                 resumed, budget>>

\* Answer: no reply yet means to come back later.
ReadAnswer(w) ==
  /\ at[w] = "answer"
  /\ IF Replies = {} THEN Return(w)
     ELSE /\ nonce' = [nonce EXCEPT ![w] = Pending]
          /\ reply' = [reply EXCEPT ![w] = comments[FirstReply].about]
          /\ Goto(w, "claim") /\ UNCHANGED env
  /\ UNCHANGED <<store, lastSaved, comments, clock, config, resumed, ended, budget>>

\* The claim decides who resumes; the loser comes back later.
Claim(w) ==
  /\ at[w] = "claim"
  /\ \/ /\ Deletes(w) /\ Ends(w)
        /\ Goto(w, "consume") /\ UNCHANGED <<env, nonce, reply>>
     \/ ~Deletes(w) /\ Return(w) /\ UNCHANGED <<store, ended>>
  /\ UNCHANGED <<lastSaved, comments, clock, config, resumed, budget>>

\* The claimed run goes on with the answer.
Resumes(w) ==
  /\ resumed' = Append(resumed, <<env[w].pause, reply[w]>>)
  /\ Goto(w, "run")

\* Mutated form of Consume: the question that was answered stays pending.
ConsumeNothing(w) ==
  /\ at[w] \in {"consume", "sweepConsume"}
  /\ IF at[w] = "consume" THEN Resumes(w) ELSE Goto(w, "run") /\ UNCHANGED resumed
  /\ UNCHANGED <<store, lastSaved, comments, clock, config, env, nonce, reply,
                 ended, budget>>

\* Consume lists the conversation and retires the question if it is still the
\* pending one; a failed call is logged.
Consume(w) ==
  /\ at[w] \in {"consume", "sweepConsume"}
  /\ IF Pending = nonce[w] THEN
          /\ Goto(w, IF at[w] = "consume" THEN "retire" ELSE "sweepRetire")
          /\ UNCHANGED resumed
     ELSE IF at[w] = "consume" THEN Resumes(w)
     ELSE Goto(w, "run") /\ UNCHANGED resumed
  /\ UNCHANGED <<store, lastSaved, comments, clock, config, env, nonce, reply,
                 ended, budget>>

Retire(w) ==
  /\ at[w] \in {"retire", "sweepRetire"}
  /\ comments' = Retired(nonce[w])
  /\ IF at[w] = "retire" THEN Resumes(w) ELSE Goto(w, "run") /\ UNCHANGED resumed
  /\ UNCHANGED <<store, lastSaved, clock, config, env, nonce, reply, ended, budget>>

ConsumeFails(w) ==
  /\ at[w] \in {"consume", "retire", "sweepConsume", "sweepRetire"}
  /\ budget.faults < MaxFaults
  /\ budget' = [budget EXCEPT !.faults = @ + 1]
  /\ IF at[w] \in {"consume", "retire"} THEN Resumes(w)
     ELSE Goto(w, "run") /\ UNCHANGED resumed
  /\ UNCHANGED <<store, lastSaved, comments, clock, config, env, nonce, reply, ended>>

-----------------------------------------------------------------------------
(* The run, and Suspend.                                                   *)

Finish(w) ==
  /\ at[w] = "run" /\ Return(w)
  /\ UNCHANGED <<store, lastSaved, comments, clock, config, resumed, ended, budget>>

\* The run asks a friend: the envelope is parked, over whatever is parked.
Save(w) ==
  /\ at[w] = "run"
  /\ lastSaved < MaxPauses /\ clock + ParkDeadline < MaxClock
  /\ lastSaved' = lastSaved + 1
  /\ store' = [pause |-> lastSaved', deadline |-> clock + ParkDeadline,
               config |-> config]
  /\ env' = [env EXCEPT ![w] = store']
  /\ Goto(w, "ask")
  /\ UNCHANGED <<comments, clock, config, nonce, reply, resumed, ended, budget>>

\* Ask lists the conversation, retires the question it finds, and posts its own.
Ask(w) ==
  /\ at[w] = "ask"
  /\ nonce' = [nonce EXCEPT ![w] = Pending]
  /\ Goto(w, IF Pending = 0 THEN "post" ELSE "supersede")
  /\ UNCHANGED <<store, lastSaved, comments, clock, config, env, reply,
                 resumed, ended, budget>>

Supersede(w) ==
  /\ at[w] = "supersede"
  /\ comments' = Retired(nonce[w])
  /\ Goto(w, "post")
  /\ UNCHANGED <<store, lastSaved, clock, config, env, nonce, reply,
                 resumed, ended, budget>>

Post(w) ==
  /\ at[w] = "post"
  /\ comments' = Append(comments, [kind |-> "question", pause |-> env[w].pause,
                                   marked |-> TRUE])
  /\ Return(w)
  /\ UNCHANGED <<store, lastSaved, clock, config, resumed, ended, budget>>

-----------------------------------------------------------------------------

\* The process dies, or a call fails where the code gives up; the workqueue
\* brings the key back.
Crash(w) ==
  /\ at[w] # "idle"
  /\ budget.faults < MaxFaults
  /\ budget' = [budget EXCEPT !.faults = @ + 1]
  /\ Return(w)
  /\ UNCHANGED <<store, lastSaved, comments, clock, config, resumed, ended>>

Tick ==
  /\ clock < MaxClock /\ clock' = clock + 1
  /\ UNCHANGED <<store, lastSaved, comments, config, local, resumed, ended, budget>>

Deploy ==
  /\ config < MaxDeploys /\ config' = config + 1
  /\ UNCHANGED <<store, lastSaved, comments, clock, local, resumed, ended, budget>>

WorkerNext(w) ==
  \/ Load(w) \/ ReadPending(w) \/ Sweep(w) \/ ReadAnswer(w) \/ Claim(w)
  \/ Consume(w) \/ Retire(w) \/ ConsumeFails(w)
  \/ Finish(w) \/ Save(w) \/ Ask(w) \/ Supersede(w) \/ Post(w)

Next ==
  \/ \E w \in Workers : WorkerNext(w) \/ Crash(w)
  \/ FriendAnswers \/ Tick \/ Deploy

Spec == Init /\ [][Next]_vars

-----------------------------------------------------------------------------

\* A parked run is resumed or swept by one reconcile at most, however many
\* wake, suspend and crash together (coordinator.go: "Exactly one waker wins").
EndedOnce ==
  /\ \A n \in Pauses : ended[n] <= 1
  /\ \A i, j \in DOMAIN resumed : resumed[i][1] = resumed[j][1] => i = j

\* A run is resumed with the answer to the question it asked
\* (types.go: "can never be mistaken for the current one").
AnswerMatchesPause == \A i \in DOMAIN resumed : resumed[i][1] = resumed[i][2]

\* When no run is parked and none is under way, no friend is asked anything
\* (coordinator.go: "so a friend is not left answering a dead run").
NobodyAskedInVain ==
  budget.faults = 0 /\ store = None /\ (\A w \in Workers : at[w] = "idle")
    => Marked = {}

\* Questions and pauses match.
FriendsAskedRightly == AnswerMatchesPause /\ NobodyAskedInVain

\* Reconciles keep coming while a run is parked, every call returns and time
\* passes.
Fairness ==
  /\ WF_vars(Tick)
  /\ \A w \in Workers : WF_vars(WorkerNext(w))

FairSpec == Spec /\ Fairness

\* A suspension does not wait forever: it is resumed, swept at its deadline, or
\* replaced by a newer one.
WaitBounded ==
  \A n \in Pauses : (store # None /\ store.pause = n) ~> ~(store # None /\ store.pause = n)

-----------------------------------------------------------------------------
(***************************************************************************)
(* Why a pause ends once: the inductive invariant behind EndedOnce, checked*)
(* by TLC and proved in SuspendWake_proofs.                                *)
(***************************************************************************)

\* Past its Load, a reconcile that found or parked an envelope still has it;
\* past ReadAnswer it has an answer too.
Loaded ==
  \A w \in Workers :
    /\ at[w] \notin {"idle", "run"} => env[w] \in Envelope
    /\ at[w] \in {"claim", "consume", "retire"} => reply[w] # 0

\* Generations are not reused: what is parked, and what is still to come, was
\* never claimed or swept.
FreshGenerations ==
  /\ store # None => store.pause <= lastSaved /\ ended[store.pause] = 0
  /\ \A n \in Pauses : n > lastSaved => ended[n] = 0

\* w won the claim and has not resumed yet.
Claimed(w) == at[w] \in {"consume", "retire"}

\* A pause that is claimed or resumed has ended, and by one reconcile.
OneClaimer ==
  /\ \A w \in Workers :
       Claimed(w) => /\ ended[env[w].pause] = 1
                     /\ \A i \in DOMAIN resumed : resumed[i][1] # env[w].pause
  /\ \A v, w \in Workers :
       Claimed(v) /\ Claimed(w) /\ env[v].pause = env[w].pause => v = w
  /\ \A i \in DOMAIN resumed : ended[resumed[i][1]] = 1

IInv == TypeOK /\ Loaded /\ FreshGenerations /\ OneClaimer /\ EndedOnce

=============================================================================
