------------------------- MODULE SuspendWake_proofs --------------------------
(***************************************************************************)
(* Proofs about SuspendWake, for any number of overlapping reconciles and  *)
(* any bounds, and about a reconcile that is alone.                        *)
(***************************************************************************)
EXTENDS MCSuspendWake, FiniteSetTheorems, TLAPS

-----------------------------------------------------------------------------
(* The comments that count.                                                *)

\* A set of naturals with a bound has a least element: else the upper closure
\* of the set, without its greatest element, would map onto all of it.
LEMMA HasLeast ==
  ASSUME NEW n \in Nat, NEW S \in SUBSET (0 .. n), S # {}
  PROVE  \E m \in S : \A k \in S : m <= k
<1> SUFFICES ASSUME \A m \in S : \E k \in S : k < m PROVE FALSE
  OBVIOUS
<1> DEFINE U == {x \in 0 .. n : \E k \in S : k <= x}
           D == U \ {n}
           f == [d \in D |-> d + 1]
<1>1. n \in U
  <2>1. PICK s \in S : TRUE
    BY Zenon
  <2>2. s \in 0 .. n
    BY Zenon
  <2> QED BY <2>2
<1>2. \A d \in D : d + 1 \in U
  OBVIOUS
<1>3. \A x \in U : x - 1 \in D /\ x = (x - 1) + 1
  <2> TAKE x \in U
  <2>1. PICK k \in S : k <= x
    OBVIOUS
  <2>2. PICK j \in S : j < k
    OBVIOUS
  <2> QED BY <2>1, <2>2
<1>4. f \in [D -> U]
  BY <1>2
<1>5. \A x \in U : \E d \in D : f[d] = x
  BY <1>3
<1>6. f \in Surjection(D, U)
  BY <1>4, <1>5 DEF Surjection
<1>7. IsFiniteSet(U)
  <2>1. IsFiniteSet(0 .. n)
    BY FS_Interval
  <2>2. U \subseteq 0 .. n
    OBVIOUS
  <2> HIDE DEF U
  <2> QED BY <2>1, <2>2, FS_Subset
<1> HIDE DEF U, f
<1>8. IsFiniteSet(D) /\ Cardinality(D) = Cardinality(U) - 1
  BY <1>1, <1>7, FS_RemoveElement
<1>9. Cardinality(U) <= Cardinality(D)
  BY <1>6, <1>8, FS_Surjection
<1> QED BY <1>7, <1>8, <1>9, FS_CardinalityType

LEMMA HasGreatest ==
  ASSUME NEW n \in Nat, NEW S \in SUBSET (0 .. n), S # {}
  PROVE  \E m \in S : \A k \in S : k <= m
<1> DEFINE T == {n - s : s \in S}
<1>1. T \in SUBSET (0 .. n) /\ T # {}
  <2>1. PICK s \in S : TRUE
    OBVIOUS
  <2>2. n - s \in T
    BY <2>1
  <2>3. \A x \in S : n - x \in 0 .. n
    OBVIOUS
  <2> QED BY <2>2, <2>3
<1>2. PICK m \in T : \A k \in T : m <= k
  BY <1>1, HasLeast
<1>3. n - m \in S /\ \A k \in S : k <= n - m
  BY <1>2
<1> QED BY <1>3
\* The newest question is one of the comments that carry a marker.
LEMMA PendingIsPause ==
  ASSUME comments \in Seq(Comment), MaxPauses \in Nat
  PROVE  /\ PendingAt \in Nat
         /\ Pending \in 0 .. MaxPauses
<1>1. CASE Marked = {}
  BY <1>1 DEF Pending, PendingAt
<1>2. CASE Marked # {}
  <2>1. Marked \in SUBSET (0 .. Len(comments)) /\ Len(comments) \in Nat
    BY DEF Marked
  <2>2. PendingAt \in Marked
    BY <1>2, <2>1, HasGreatest DEF PendingAt
  <2>3. comments[PendingAt] \in Comment /\ comments[PendingAt].kind = "question"
    BY <2>2 DEF Marked
  <2>4. comments[PendingAt].pause \in Pauses
    BY <2>3 DEF Comment
  <2>5. PendingAt # 0
    BY <2>2 DEF Marked
  <2> QED BY <2>2, <2>4, <2>5 DEF Pending, Pauses, Marked
<1> QED BY <1>1, <1>2

\* The reply that counts is an /answer comment.
LEMMA ReplyIsAbout ==
  ASSUME comments \in Seq(Comment), MaxPauses \in Nat, Replies # {}
  PROVE  comments[FirstReply].about \in Pauses
<1>1. Replies \in SUBSET (0 .. Len(comments)) /\ Len(comments) \in Nat
  BY DEF Replies
<1>2. FirstReply \in Replies
  BY <1>1, HasLeast DEF FirstReply
<1>3. comments[FirstReply] \in Comment /\ comments[FirstReply].kind = "answer"
  BY <1>2 DEF Replies
<1> QED BY <1>3 DEF Comment

\* Retiring a question keeps the conversation well formed.
LEMMA RetiredType ==
  ASSUME comments \in Seq(Comment), NEW n PROVE Retired(n) \in Seq(Comment)
<1>1. \A c \in Comment :
        c.kind = "question" => [c EXCEPT !.marked = FALSE] \in Comment
  BY DEF Comment
<1>2. \A i \in DOMAIN comments : Retired(n)[i] \in Comment
  BY <1>1 DEF Retired
<1>3. DOMAIN Retired(n) = 1 .. Len(comments) /\ Len(comments) \in Nat
  BY DEF Retired
<1>4. Retired(n) \in [1 .. Len(comments) -> Comment]
  BY <1>2, <1>3 DEF Retired
<1> QED BY <1>3, <1>4

-----------------------------------------------------------------------------
(* Type correctness.                                                       *)

Shape == TypeOK /\ Loaded

LEMMA ShapeInit == Init => Shape
BY SuspendAssumption DEF Init, Shape, TypeOK, Loaded, Places

\* A reconcile that returns keeps its local state well formed.
LEMMA ReturnShape ==
  ASSUME Shape, NEW w \in Workers, Return(w)
  PROVE  /\ at' \in [Workers -> Places]
         /\ env' \in [Workers -> Envelope \cup {None}]
         /\ nonce' \in [Workers -> 0 .. MaxPauses]
         /\ reply' \in [Workers -> 0 .. MaxPauses]
         /\ Loaded'
BY SuspendAssumption DEF Shape, TypeOK, Loaded, Return, Goto, Places

\* So does one that goes on with an envelope at hand.
LEMMA GotoShape ==
  ASSUME Shape, NEW w \in Workers, NEW place \in Places, Goto(w, place),
         env[w] \in Envelope \/ place = "run", UNCHANGED env,
         reply[w] # 0 \/ place \notin {"claim", "consume", "retire"}, UNCHANGED reply
  PROVE  at' \in [Workers -> Places] /\ Loaded'
BY DEF Shape, TypeOK, Loaded, Goto

LEMMA ResumesShape ==
  ASSUME Shape, NEW w \in Workers, Resumes(w), env[w] \in Envelope,
         UNCHANGED <<env, reply>>, reply[w] # 0
  PROVE  at' \in [Workers -> Places] /\ Loaded' /\ resumed' \in Seq(Pauses \X Pauses)
<1>1. env[w].pause \in Pauses /\ reply[w] \in Pauses
  BY SuspendAssumption DEF Envelope, Shape, TypeOK, Pauses
<1>2. Goto(w, "run") /\ "run" \in Places
  BY DEF Resumes, Places
<1> QED BY <1>1, <1>2, GotoShape DEF Resumes, Shape, TypeOK

LEMMA FaultShape ==
  ASSUME TypeOK, budget' = [budget EXCEPT !.faults = @ + 1]
  PROVE  budget' \in [faults : Nat, late : Nat]
<1>1. budget \in [faults : Nat, late : Nat] /\ budget.faults \in Nat
  BY DEF TypeOK
<1> QED BY <1>1

LEMMA EndsShape ==
  ASSUME Shape, NEW w \in Workers, Ends(w), env[w] \in Envelope
  PROVE  /\ store' \in Envelope \cup {None}
         /\ ended' \in [Pauses -> Nat]
<1>1. env[w].pause \in Pauses
  BY DEF Envelope
<1>2. ended[env[w].pause] + 1 \in Nat
  BY <1>1 DEF Shape, TypeOK
<1> QED BY <1>1, <1>2 DEF Ends, Shape, TypeOK

LEMMA ShapeNext == Shape /\ [Next]_vars => Shape'
<1> SUFFICES ASSUME Shape, [Next]_vars PROVE Shape'
  OBVIOUS
<1> USE SuspendAssumption
<1>1. ASSUME NEW w \in Workers, Load(w) PROVE Shape'
  BY <1>1 DEF Load, Shape, TypeOK, Loaded, Goto, Places
<1>2. ASSUME NEW w \in Workers, ReadPending(w) PROVE Shape'
  <2>1. at[w] = "read" /\ Goto(w, "sweep") /\ "sweep" \in Places
    BY <1>2 DEF ReadPending, Places
  <2>2. env[w] \in Envelope
    BY <2>1 DEF Shape, Loaded
  <2>3. at' \in [Workers -> Places] /\ Loaded'
    BY <1>2, <2>1, <2>2, GotoShape DEF ReadPending
  <2>4. Pending \in 0 .. MaxPauses
    BY PendingIsPause DEF Shape, TypeOK
  <2>5. nonce' \in [Workers -> 0 .. MaxPauses]
    BY <1>2, <2>4 DEF ReadPending, Shape, TypeOK
  <2>6. budget' \in [faults : Nat, late : Nat]
    BY <1>2, FaultShape DEF ReadPending, Shape, TypeOK
  <2> QED BY <1>2, <2>3, <2>5, <2>6 DEF ReadPending, Shape, TypeOK
<1>3. ASSUME NEW w \in Workers, Sweep(w) PROVE Shape'
  <2>1. PICK place \in {"run", "sweepConsume"} : Goto(w, place)
    BY <1>3 DEF Sweep
  <2>2. env[w] \in Envelope
    BY <1>3 DEF Sweep, Shape, Loaded
  <2>3. at' \in [Workers -> Places] /\ Loaded'
    BY <1>3, <2>1, <2>2, GotoShape DEF Sweep, Places
  <2>4. store' \in Envelope \cup {None} /\ ended' \in [Pauses -> Nat]
    BY <1>3, <2>2, EndsShape DEF Sweep, Shape, TypeOK
  <2> QED BY <1>3, <2>3, <2>4 DEF Sweep, Shape, TypeOK
<1>4. ASSUME NEW w \in Workers, ReadAnswer(w) PROVE Shape'
  <2>1. CASE Replies = {}
    BY <1>4, <2>1, ReturnShape DEF ReadAnswer, Shape, TypeOK
  <2>2. CASE Replies # {}
    <3>1. Pending \in 0 .. MaxPauses /\ comments[FirstReply].about \in 1 .. MaxPauses
      BY <2>2, PendingIsPause, ReplyIsAbout DEF Shape, TypeOK, Pauses
    <3>2. /\ nonce' = [nonce EXCEPT ![w] = Pending]
          /\ reply' = [reply EXCEPT ![w] = comments[FirstReply].about]
          /\ Goto(w, "claim") /\ at[w] = "answer"
          /\ UNCHANGED <<env, store, lastSaved, comments, clock, config, resumed,
                         ended, budget>>
      BY <1>4, <2>2 DEF ReadAnswer
    <3>3. env[w] \in Envelope
      BY <3>2 DEF Shape, Loaded
    <3>4. /\ nonce' \in [Workers -> 0 .. MaxPauses]
          /\ reply' \in [Workers -> 0 .. MaxPauses]
          /\ at' \in [Workers -> Places]
      <4>1. nonce \in [Workers -> 0 .. MaxPauses] /\ reply \in [Workers -> 0 .. MaxPauses]
        BY DEF Shape, TypeOK
      <4>2. comments[FirstReply].about \in 0 .. MaxPauses
        BY <3>1
      <4>3. at' \in [Workers -> Places]
        BY <3>2 DEF Shape, TypeOK, Goto, Places
      <4> QED BY <3>1, <3>2, <4>1, <4>2, <4>3
    <3>5. reply'[w] # 0 /\ \A v \in Workers : v # w => reply'[v] = reply[v]
      BY <3>1, <3>2 DEF Shape, TypeOK
    <3>6. Loaded'
      BY <3>2, <3>3, <3>5 DEF Shape, TypeOK, Loaded, Goto
    <3> QED BY <3>2, <3>4, <3>6 DEF Shape, TypeOK
  <2> QED BY <2>1, <2>2
<1>5. ASSUME NEW w \in Workers, Claim(w) PROVE Shape'
  <2>1. env[w] \in Envelope /\ reply[w] # 0
    BY <1>5 DEF Claim, Shape, Loaded
  <2>2. CASE Deletes(w)
    <3>1. Ends(w) /\ Goto(w, "consume") /\ "consume" \in Places
          /\ UNCHANGED <<env, nonce, reply, lastSaved, comments, clock, config,
                         resumed, budget>>
      BY <1>5, <2>2 DEF Claim, Places
    <3>2. at' \in [Workers -> Places] /\ Loaded'
      BY <2>1, <3>1, GotoShape
    <3>3. store' \in Envelope \cup {None} /\ ended' \in [Pauses -> Nat]
      BY <2>1, <3>1, EndsShape
    <3> QED BY <3>1, <3>2, <3>3 DEF Shape, TypeOK
  <2>3. CASE ~Deletes(w)
    BY <1>5, <2>3, ReturnShape DEF Claim, Shape, TypeOK
  <2> QED BY <2>2, <2>3
<1>6. ASSUME NEW w \in Workers, Consume(w) PROVE Shape'
  <2>1. env[w] \in Envelope /\ (at[w] = "consume" => reply[w] # 0)
    BY <1>6 DEF Consume, Shape, Loaded
  <2>2. /\ UNCHANGED <<store, lastSaved, comments, clock, config, env, nonce, reply,
                       ended, budget>>
        /\ \/ Goto(w, "retire") /\ at[w] = "consume" /\ UNCHANGED resumed
           \/ Goto(w, "sweepRetire") /\ UNCHANGED resumed
           \/ Resumes(w) /\ at[w] = "consume"
           \/ Goto(w, "run") /\ UNCHANGED resumed
    BY <1>6 DEF Consume
  <2>3. at' \in [Workers -> Places] /\ Loaded' /\ resumed' \in Seq(Pauses \X Pauses)
    <3> USE DEF Places
    <3>1. CASE Goto(w, "retire") /\ at[w] = "consume" /\ UNCHANGED resumed
      BY <2>1, <2>2, <3>1, GotoShape DEF Shape, TypeOK
    <3>2. CASE Goto(w, "sweepRetire") /\ UNCHANGED resumed
      BY <2>1, <2>2, <3>2, GotoShape DEF Shape, TypeOK
    <3>3. CASE Resumes(w) /\ at[w] = "consume"
      BY <2>1, <2>2, <3>3, ResumesShape
    <3>4. CASE Goto(w, "run") /\ UNCHANGED resumed
      BY <2>1, <2>2, <3>4, GotoShape DEF Shape, TypeOK
    <3> QED BY <2>2, <3>1, <3>2, <3>3, <3>4
  <2> QED BY <2>2, <2>3 DEF Shape, TypeOK
<1>7. ASSUME NEW w \in Workers, Retire(w) \/ ConsumeFails(w) PROVE Shape'
  <2>1. /\ env[w] \in Envelope
        /\ at[w] \in {"consume", "retire"} => reply[w] # 0
    BY <1>7 DEF Retire, ConsumeFails, Shape, Loaded
  <2>2. /\ UNCHANGED <<store, lastSaved, clock, config, env, nonce, reply, ended>>
        /\ \/ Resumes(w) /\ at[w] \in {"consume", "retire"}
           \/ Goto(w, "run") /\ UNCHANGED resumed
    BY <1>7 DEF Retire, ConsumeFails
  <2>3. at' \in [Workers -> Places] /\ Loaded' /\ resumed' \in Seq(Pauses \X Pauses)
    <3>1. CASE Resumes(w) /\ at[w] \in {"consume", "retire"}
      BY <2>1, <2>2, <3>1, ResumesShape
    <3>2. CASE Goto(w, "run") /\ UNCHANGED resumed
      BY <2>1, <2>2, <3>2, GotoShape DEF Shape, TypeOK, Places
    <3> QED BY <2>2, <3>1, <3>2
  <2>4. comments' \in Seq(Comment) /\ budget' \in [faults : Nat, late : Nat]
    BY <1>7, RetiredType, FaultShape DEF Retire, ConsumeFails, Shape, TypeOK
  <2> QED BY <2>2, <2>3, <2>4 DEF Shape, TypeOK
<1>8. ASSUME NEW w \in Workers, Finish(w) PROVE Shape'
  BY <1>8, ReturnShape DEF Finish, Shape, TypeOK
<1>9. ASSUME NEW w \in Workers, Save(w) PROVE Shape'
  <2>1. lastSaved' \in 1 .. MaxPauses /\ lastSaved' = lastSaved + 1
    BY <1>9 DEF Save, Shape, TypeOK
  <2>2. store' \in Envelope
    <3>1. clock + ParkDeadline \in Nat /\ config \in Nat
      BY SuspendAssumption DEF Shape, TypeOK
    <3>2. store' = [pause |-> lastSaved', deadline |-> clock + ParkDeadline, config |-> config]
      BY <1>9 DEF Save
    <3> QED BY <2>1, <3>1, <3>2 DEF Envelope, Pauses
  <2>3. env' = [env EXCEPT ![w] = store'] /\ Goto(w, "ask")
    BY <1>9 DEF Save
  <2>4. env' \in [Workers -> Envelope \cup {None}] /\ at' \in [Workers -> Places]
    BY <2>2, <2>3 DEF Shape, TypeOK, Goto, Places
  <2>5. Loaded'
    BY <1>9, <2>2, <2>3 DEF Save, Shape, TypeOK, Loaded, Goto
  <2> QED BY <1>9, <2>1, <2>2, <2>4, <2>5 DEF Save, Shape, TypeOK
<1>10. ASSUME NEW w \in Workers, Ask(w) PROVE Shape'
  <2>1. PICK place \in {"post", "supersede"} : Goto(w, place)
    BY <1>10 DEF Ask
  <2>2. env[w] \in Envelope
    BY <1>10 DEF Ask, Shape, Loaded
  <2>3. at' \in [Workers -> Places] /\ Loaded'
    BY <1>10, <2>1, <2>2, GotoShape DEF Ask, Places
  <2>4. Pending \in 0 .. MaxPauses
    BY PendingIsPause DEF Shape, TypeOK
  <2> QED BY <1>10, <2>3, <2>4 DEF Ask, Shape, TypeOK
<1>11. ASSUME NEW w \in Workers, Supersede(w) PROVE Shape'
  <2>1. env[w] \in Envelope /\ Goto(w, "post") /\ "post" \in Places
    BY <1>11 DEF Supersede, Shape, Loaded, Places
  <2>2. at' \in [Workers -> Places] /\ Loaded'
    BY <1>11, <2>1, GotoShape DEF Supersede
  <2>3. comments' \in Seq(Comment)
    BY <1>11, RetiredType DEF Supersede, Shape, TypeOK
  <2> QED BY <1>11, <2>2, <2>3 DEF Supersede, Shape, TypeOK
<1>12. ASSUME NEW w \in Workers, Post(w) PROVE Shape'
  <2>1. env[w].pause \in Pauses
    BY <1>12 DEF Post, Shape, Loaded, Envelope
  <2>2. [kind |-> "question", pause |-> env[w].pause, marked |-> TRUE] \in Comment
    BY <2>1 DEF Comment
  <2>3. comments' \in Seq(Comment)
    BY <1>12, <2>2 DEF Post, Shape, TypeOK
  <2> QED BY <1>12, <2>3, ReturnShape DEF Post, Shape, TypeOK
<1>13. ASSUME NEW w \in Workers, Crash(w) PROVE Shape'
  BY <1>13, ReturnShape, FaultShape DEF Crash, Shape, TypeOK
<1>14. CASE FriendAnswers
  <2>1. PICK i \in DOMAIN comments :
          /\ comments[i].kind = "question"
          /\ comments' = Append(comments, [kind |-> "answer", about |-> comments[i].pause])
          /\ UNCHANGED budget \/ budget' = [budget EXCEPT !.late = @ + 1]
          /\ UNCHANGED <<store, lastSaved, clock, config, local, resumed, ended>>
    BY <1>14 DEF FriendAnswers
  <2>2. [kind |-> "answer", about |-> comments[i].pause] \in Comment
    BY <2>1 DEF Comment, Shape, TypeOK
  <2>3. comments' \in Seq(Comment)
    BY <2>1, <2>2 DEF Shape, TypeOK
  <2>4. budget' \in [faults : Nat, late : Nat]
    BY <2>1 DEF Shape, TypeOK
  <2> QED BY <2>1, <2>3, <2>4 DEF Shape, TypeOK, Loaded, local
<1>15. CASE Tick
  BY <1>15 DEF Tick, Shape, TypeOK, Loaded, local
<1>16. CASE Deploy
  BY <1>16 DEF Deploy, Shape, TypeOK, Loaded, local
<1>17. CASE UNCHANGED vars
  BY <1>17 DEF vars, local, Shape, TypeOK, Loaded
<1> QED
  BY <1>1, <1>2, <1>3, <1>4, <1>5, <1>6, <1>7, <1>8, <1>9, <1>10, <1>11, <1>12,
     <1>13, <1>14, <1>15, <1>16, <1>17 DEF Next, WorkerNext

\* Every reconcile's local state, the parked envelope and the conversation keep
\* their types (coordinator.go, githubquestions.go), for any number of
\* overlapping reconciles.
THEOREM TypeCorrect == Spec => []TypeOK
<1>1. Spec => []Shape
  BY ShapeInit, ShapeNext, PTL DEF Spec
<1> QED BY <1>1, PTL DEF Shape

-----------------------------------------------------------------------------
(* A pause ends once.                                                      *)

Rest == FreshGenerations /\ OneClaimer /\ EndedOnce

LEMMA IInvInit == Init => IInv
<1> SUFFICES ASSUME Init PROVE IInv
  OBVIOUS
<1>1. TypeOK /\ Loaded
  BY ShapeInit DEF Shape
<1>2. FreshGenerations
  BY DEF Init, FreshGenerations
<1>3. OneClaimer
  BY DEF Init, OneClaimer, Claimed
<1>4. EndedOnce
  BY DEF Init, EndedOnce
<1> QED BY <1>1, <1>2, <1>3, <1>4 DEF IInv

\* A step that ends nothing, resumes nothing and lets nobody claim keeps it.
LEMMA QuietStep ==
  ASSUME IInv, NEW w \in Workers, UNCHANGED <<ended, resumed>>,
         store' \in {store, None}, UNCHANGED lastSaved, UNCHANGED env,
         NEW place \in Places, Goto(w, place), Claimed(w) \/ place \notin {"consume", "retire"}
  PROVE  Rest'
<1>1. \A v \in Workers : Claimed(v)' => Claimed(v)
  BY DEF IInv, TypeOK, Goto, Claimed
<1>2. FreshGenerations'
  BY DEF IInv, FreshGenerations
<1>3. OneClaimer'
  BY <1>1 DEF IInv, OneClaimer
<1>4. EndedOnce'
  BY DEF IInv, EndedOnce
<1> QED BY <1>2, <1>3, <1>4 DEF Rest

\* The same of a reconcile that returns.
LEMMA ReturnStep ==
  ASSUME IInv, NEW w \in Workers, UNCHANGED <<ended, resumed, store, lastSaved>>,
         Return(w)
  PROVE  Rest'
<1>1. \A v \in Workers : Claimed(v)' => Claimed(v) /\ env'[v] = env[v]
  BY DEF IInv, TypeOK, Return, Goto, Claimed
<1>2. FreshGenerations'
  BY DEF IInv, FreshGenerations
<1>3. OneClaimer'
  BY <1>1 DEF IInv, OneClaimer
<1>4. EndedOnce'
  BY DEF IInv, EndedOnce
<1> QED BY <1>2, <1>3, <1>4 DEF Rest

\* A compare-and-swap delete ends the pause that w loaded, for the first time.
LEMMA EndsStep ==
  ASSUME IInv, NEW w \in Workers, Deletes(w), Ends(w),
         UNCHANGED <<resumed, lastSaved, env>>,
         NEW place \in Places, Goto(w, place)
  PROVE  Rest'
<1> DEFINE n == env[w].pause
<1>1. /\ n \in Pauses /\ store # None /\ store.pause = n
      /\ n <= lastSaved /\ ended[n] = 0
  BY DEF Deletes, IInv, FreshGenerations, TypeOK, Envelope
<1>2. ended' = [ended EXCEPT ![n] = 1] /\ store' = None
  BY <1>1 DEF Ends
<1>3. ended'[n] = 1 /\ \A k \in Pauses : k # n => ended'[k] = ended[k]
  BY <1>1, <1>2 DEF IInv, TypeOK
<1>4. FreshGenerations'
  BY <1>1, <1>2, <1>3, SuspendAssumption DEF IInv, FreshGenerations, TypeOK, Pauses
<1>5. \A i \in DOMAIN resumed : resumed[i][1] \in Pauses /\ resumed[i][1] # n
  BY <1>1 DEF IInv, OneClaimer, TypeOK
<1>6. \A v \in Workers : Claimed(v) =>
        env[v].pause \in Pauses /\ env[v].pause # n
  BY <1>1 DEF IInv, OneClaimer, Claimed, Loaded, Envelope
<1>7. \A v \in Workers : v # w => (Claimed(v)' <=> Claimed(v))
  BY DEF IInv, TypeOK, Goto, Claimed
<1>8. OneClaimer'
  <2>1. \A v \in Workers :
          Claimed(v)' => /\ ended'[env[v].pause] = 1
                         /\ \A i \in DOMAIN resumed : resumed[i][1] # env[v].pause
    BY <1>3, <1>5, <1>6, <1>7 DEF IInv, OneClaimer
  <2>2. \A u, v \in Workers :
          Claimed(u)' /\ Claimed(v)' /\ env[u].pause = env[v].pause => u = v
    BY <1>6, <1>7 DEF IInv, OneClaimer
  <2>3. \A i \in DOMAIN resumed : ended'[resumed[i][1]] = 1
    BY <1>3, <1>5 DEF IInv, OneClaimer
  <2> QED BY <2>1, <2>2, <2>3 DEF OneClaimer
<1>9. EndedOnce'
  BY <1>3 DEF IInv, EndedOnce
<1> QED BY <1>4, <1>8, <1>9 DEF Rest

\* The one reconcile that claimed a pause resumes it.
LEMMA ResumesStep ==
  ASSUME IInv, NEW w \in Workers, Claimed(w), Resumes(w),
         UNCHANGED <<ended, store, lastSaved, env>>
  PROVE  Rest'
<1> DEFINE n == env[w].pause
           e == <<n, reply[w]>>
<1>1. n \in Pauses /\ ended[n] = 1 /\ \A i \in DOMAIN resumed : resumed[i][1] # n
  BY DEF Claimed, IInv, Loaded, OneClaimer, Envelope
<1>2. resumed' = Append(resumed, e) /\ Goto(w, "run")
  BY DEF Resumes
<1>3. resumed \in Seq(Pauses \X Pauses) /\ Len(resumed) \in Nat
  BY DEF IInv, TypeOK
<1>4. /\ DOMAIN resumed' = 1 .. Len(resumed) + 1
      /\ \A i \in DOMAIN resumed : resumed'[i] = resumed[i]
      /\ resumed'[Len(resumed) + 1] = e
  BY <1>2, <1>3
<1>5. \A i \in DOMAIN resumed' :
        \/ i \in DOMAIN resumed /\ resumed'[i] = resumed[i]
        \/ i = Len(resumed) + 1 /\ resumed'[i][1] = n
  BY <1>3, <1>4
<1>6. ~Claimed(w)' /\ \A v \in Workers : v # w => (Claimed(v)' <=> Claimed(v))
  BY <1>2 DEF IInv, TypeOK, Goto, Claimed
<1>7. FreshGenerations'
  BY DEF IInv, FreshGenerations
<1>8. OneClaimer'
  <2>1. \A v \in Workers :
          Claimed(v)' => /\ ended'[env'[v].pause] = 1
                         /\ \A i \in DOMAIN resumed' : resumed'[i][1] # env'[v].pause
    BY <1>5, <1>6 DEF IInv, OneClaimer
  <2>2. \A u, v \in Workers :
          Claimed(u)' /\ Claimed(v)' /\ env'[u].pause = env'[v].pause => u = v
    BY <1>6 DEF IInv, OneClaimer
  <2>3. \A i \in DOMAIN resumed' : ended'[resumed'[i][1]] = 1
    BY <1>1, <1>5 DEF IInv, OneClaimer
  <2> QED BY <2>1, <2>2, <2>3 DEF OneClaimer
<1>9. EndedOnce'
  BY <1>1, <1>3, <1>5 DEF IInv, EndedOnce
<1> QED BY <1>7, <1>8, <1>9 DEF Rest

LEMMA IInvNext == IInv /\ [Next]_vars => IInv'
<1> SUFFICES ASSUME IInv, [Next]_vars PROVE Rest'
  BY ShapeNext DEF IInv, Shape, Rest
<1> USE DEF Places
<1>1. ASSUME NEW w \in Workers, Load(w) PROVE Rest'
  <2>1. \A v \in Workers : Claimed(v)' => Claimed(v) /\ env'[v] = env[v]
    BY <1>1 DEF Load, Goto, Claimed, IInv, TypeOK
  <2>2. UNCHANGED <<store, lastSaved, resumed, ended>>
    BY <1>1 DEF Load
  <2> QED BY <2>1, <2>2 DEF IInv, Rest, FreshGenerations, OneClaimer, EndedOnce
<1>2. ASSUME NEW w \in Workers, ReadPending(w) PROVE Rest'
  BY <1>2, QuietStep DEF ReadPending
<1>3. ASSUME NEW w \in Workers, Sweep(w) PROVE Rest'
  <2>1. PICK place \in {"run", "sweepConsume"} : Goto(w, place)
    BY <1>3 DEF Sweep
  <2>2. CASE Deletes(w) /\ Ends(w)
    BY <1>3, <2>1, <2>2, EndsStep DEF Sweep
  <2>3. CASE UNCHANGED <<store, ended>>
    BY <1>3, <2>1, <2>3, QuietStep DEF Sweep
  <2> QED BY <1>3, <2>2, <2>3 DEF Sweep
<1>4. ASSUME NEW w \in Workers, ReadAnswer(w) PROVE Rest'
  <2>1. UNCHANGED <<store, lastSaved, resumed, ended>>
    BY <1>4 DEF ReadAnswer
  <2>2. CASE Return(w)
    BY <2>1, <2>2, ReturnStep
  <2>3. CASE Goto(w, "claim") /\ UNCHANGED env
    BY <2>1, <2>3, QuietStep
  <2> QED BY <1>4, <2>2, <2>3 DEF ReadAnswer
<1>5. ASSUME NEW w \in Workers, Claim(w) PROVE Rest'
  <2>1. CASE Deletes(w) /\ Ends(w) /\ Goto(w, "consume") /\ UNCHANGED env
    BY <1>5, <2>1, EndsStep DEF Claim
  <2>2. CASE Return(w) /\ UNCHANGED <<store, ended>>
    BY <1>5, <2>2, ReturnStep DEF Claim
  <2> QED BY <1>5, <2>1, <2>2 DEF Claim
<1>6. ASSUME NEW w \in Workers, Consume(w) \/ Retire(w) \/ ConsumeFails(w) PROVE Rest'
  <2>1. UNCHANGED <<store, lastSaved, env, ended>>
    BY <1>6 DEF Consume, Retire, ConsumeFails
  <2>2. \/ Claimed(w) /\ Resumes(w)
        \/ UNCHANGED resumed /\ Claimed(w) /\ Goto(w, "retire")
        \/ UNCHANGED resumed /\ Goto(w, "sweepRetire")
        \/ UNCHANGED resumed /\ Goto(w, "run")
    BY <1>6 DEF Consume, Retire, ConsumeFails, Claimed
  <2>3. CASE Claimed(w) /\ Resumes(w)
    BY <2>1, <2>3, ResumesStep
  <2>4. CASE UNCHANGED resumed /\ Claimed(w) /\ Goto(w, "retire")
    BY <2>1, <2>4, QuietStep
  <2>5. CASE UNCHANGED resumed /\ Goto(w, "sweepRetire")
    BY <2>1, <2>5, QuietStep
  <2>6. CASE UNCHANGED resumed /\ Goto(w, "run")
    BY <2>1, <2>6, QuietStep
  <2> QED BY <2>2, <2>3, <2>4, <2>5, <2>6
<1>7. ASSUME NEW w \in Workers, Finish(w) \/ Post(w) \/ Crash(w) PROVE Rest'
  BY <1>7, ReturnStep DEF Finish, Post, Crash
<1>8. ASSUME NEW w \in Workers, Save(w) PROVE Rest'
  <2>1. /\ lastSaved' = lastSaved + 1 /\ lastSaved' \in Pauses
        /\ store'.pause = lastSaved' /\ UNCHANGED <<resumed, ended>>
    BY <1>8, SuspendAssumption DEF Save, IInv, TypeOK, Pauses
  <2>2. FreshGenerations'
    BY <2>1, SuspendAssumption DEF IInv, FreshGenerations, TypeOK, Pauses
  <2>3. \A v \in Workers : Claimed(v)' => Claimed(v) /\ env'[v] = env[v]
    BY <1>8 DEF Save, Goto, Claimed, IInv, TypeOK
  <2> QED BY <2>1, <2>2, <2>3 DEF IInv, Rest, OneClaimer, EndedOnce
<1>9. ASSUME NEW w \in Workers, Ask(w) \/ Supersede(w) PROVE Rest'
  <2>1. PICK place \in {"post", "supersede"} : Goto(w, place)
    BY <1>9 DEF Ask, Supersede
  <2> QED BY <1>9, <2>1, QuietStep DEF Ask, Supersede
<1>10. CASE FriendAnswers \/ Tick \/ Deploy \/ UNCHANGED vars
  <2>1. UNCHANGED <<store, lastSaved, at, env, resumed, ended>>
    BY <1>10 DEF FriendAnswers, Tick, Deploy, vars, local
  <2> QED BY <2>1 DEF IInv, Rest, FreshGenerations, OneClaimer, EndedOnce, Claimed
<1> QED
  BY <1>1, <1>2, <1>3, <1>4, <1>5, <1>6, <1>7, <1>8, <1>9, <1>10 DEF Next, WorkerNext

\* The invariant behind PauseEndsOnce holds always: generations are not reused
\* and a claimed pause has one claimer (coordinator.go, gcsstore.go).
THEOREM InvariantHolds == Spec => []IInv
<1> QED BY IInvInit, IInvNext, PTL DEF Spec

\* However many reconciles of a key wake, suspend and crash together, each pause
\* is claimed or swept by one of them at most, and resumed once at most
\* (coordinator.go: "Exactly one waker wins").
THEOREM PauseEndsOnce == Spec => []EndedOnce
<1>1. IInv => EndedOnce
  BY DEF IInv
<1> QED BY <1>1, InvariantHolds, PTL

-----------------------------------------------------------------------------
(* Questions and answers of a reconcile that is alone.                     *)

\* At most one question can still be answered, and what came after it answers it.
Conversation ==
  /\ \A i, j \in Marked : i = j
  /\ \A i \in Marked : \A j \in DOMAIN comments :
       j > i /\ comments[j].kind = "answer" => comments[j].about = comments[i].pause

OnlyAsked(n) == \A i \in Marked : comments[i].pause = n

\* Where a lone reconcile is, while at most one call has failed.
ParkedKept(w) ==
  /\ at[w] = "idle" /\ store # None => OnlyAsked(store.pause)
  /\ at[w] \in {"answer", "claim", "read", "sweep"} =>
       store # None /\ env[w] = store /\ OnlyAsked(store.pause)
  /\ at[w] \in {"idle", "answer", "read"} => nonce[w] = 0
  /\ at[w] = "sweep" =>
       /\ nonce[w] \in {0, env[w].pause}
       /\ nonce[w] = 0 /\ budget.faults = 0 => Marked = {}

EndedKept(w) ==
  /\ at[w] \in {"claim", "consume", "retire"} =>
       nonce[w] = env[w].pause /\ reply[w] = env[w].pause
  /\ at[w] \in {"consume", "retire", "sweepConsume", "sweepRetire"} =>
       store = None /\ nonce[w] = env[w].pause /\ OnlyAsked(env[w].pause)
  /\ at[w] = "run" => store = None
  /\ at[w] \in {"idle", "run"} /\ store = None /\ budget.faults = 0 => Marked = {}

AskingKept(w) ==
  /\ at[w] \in {"ask", "supersede", "post"} => store # None /\ env[w] = store
  /\ at[w] = "ask" /\ budget.faults = 0 => Marked = {}
  /\ at[w] = "supersede" => budget.faults # 0 /\ OnlyAsked(nonce[w])
  /\ at[w] = "post" => Marked = {}

AloneKept ==
  /\ Conversation /\ AnswerMatchesPause
  /\ ParkedKept(w1) /\ EndedKept(w1) /\ AskingKept(w1)

AloneIInv ==
  alone =>
    /\ \A w \in Workers \ {w1} : at[w] = "idle"
    /\ budget.late = 0
    /\ budget.faults <= 1 => AloneKept

LEMMA AloneInit == SuspendInit => AloneIInv
<1> SUFFICES ASSUME SuspendInit PROVE AloneIInv
  OBVIOUS
<1>1. /\ Marked = {} /\ store = None /\ resumed = <<>> /\ budget.late = 0
      /\ \A w \in Workers : at[w] = "idle" /\ nonce[w] = 0
  BY DEF SuspendInit, Init, Marked
<1>2. Conversation /\ AnswerMatchesPause
  BY <1>1 DEF Conversation, AnswerMatchesPause
<1>3. ParkedKept(w1) /\ EndedKept(w1) /\ AskingKept(w1)
  BY <1>1, AloneAssumption DEF ParkedKept, EndedKept, AskingKept
<1> QED BY <1>1, <1>2, <1>3 DEF AloneIInv, AloneKept

\* The pending question is the one that is marked.
LEMMA PendingIs ==
  ASSUME comments \in Seq(Comment), Conversation
  PROVE  /\ Marked = {} => PendingAt = 0 /\ Pending = 0
         /\ Marked # {} => PendingAt \in Marked /\ Marked = {PendingAt}
         /\ \A n : Marked # {} /\ OnlyAsked(n) => Pending = n
         /\ \A i \in Marked : Pending = comments[i].pause /\ Pending # 0
<1>1. \A i \in Marked : i # 0 /\ comments[i].pause # 0
  BY DEF Marked, Comment, Pauses
<1>2. ASSUME Marked # {} PROVE PendingAt \in Marked
  <2>1. PICK i \in Marked : TRUE
    BY <1>2
  <2>2. i \in DOMAIN comments
    BY DEF Marked
  <2>3. \A j \in Marked : j <= i
    BY <2>2 DEF Conversation
  <2> QED BY <1>2, <2>1, <2>3 DEF PendingAt
<1>3. Marked = {} => PendingAt = 0 /\ Pending = 0
  BY DEF PendingAt, Pending
<1>4. Marked # {} => Marked = {PendingAt}
  BY <1>2 DEF Conversation
<1>5. Marked # {} => Pending = comments[PendingAt].pause
  BY <1>1, <1>2 DEF Pending
<1> QED BY <1>1, <1>2, <1>3, <1>4, <1>5 DEF OnlyAsked

\* What the conversation keeps when no marker is set.
LEMMA FewerMarked ==
  ASSUME Conversation, Marked' \subseteq Marked,
         DOMAIN comments' = DOMAIN comments,
         \A i \in DOMAIN comments :
           /\ comments'[i].kind = comments[i].kind
           /\ comments[i].kind = "question" => comments'[i].pause = comments[i].pause
           /\ comments[i].kind = "answer" => comments'[i].about = comments[i].about
  PROVE  Conversation' /\ \A n : OnlyAsked(n) => (\A i \in Marked' : comments'[i].pause = n)
<1>1. \A i \in Marked' : i \in Marked /\ i \in DOMAIN comments /\ comments'[i].pause = comments[i].pause
  BY DEF Marked
<1> QED BY <1>1 DEF Conversation, OnlyAsked

\* A question that is retired is the only one that was marked.
LEMMA RetiredIs ==
  ASSUME comments \in Seq(Comment), Conversation, NEW n, OnlyAsked(n), comments' = Retired(n)
  PROVE  Conversation' /\ Marked' = {}
<1>1. DOMAIN comments' = DOMAIN comments
  BY DEF Retired
<1>2. ASSUME NEW i \in DOMAIN comments
      PROVE  /\ comments'[i].kind = comments[i].kind
             /\ comments[i].kind = "question" => comments'[i].pause = comments[i].pause
             /\ comments[i].kind = "answer" => comments'[i].about = comments[i].about
             /\ comments[i].kind = "question" /\ comments[i].pause = n => ~comments'[i].marked
             /\ comments[i].kind # "question" \/ comments[i].pause # n =>
                  comments'[i] = comments[i]
  <2>1. comments[i] \in Comment
    OBVIOUS
  <2>2. CASE comments[i].kind = "question" /\ comments[i].pause = n
    <3>1. comments'[i] = [comments[i] EXCEPT !.marked = FALSE]
      BY <2>2 DEF Retired
    <3> QED BY <2>1, <2>2, <3>1 DEF Comment
  <2>3. CASE ~(comments[i].kind = "question" /\ comments[i].pause = n)
    <3>1. comments'[i] = comments[i]
      BY <2>3 DEF Retired
    <3> QED BY <2>3, <3>1
  <2> QED BY <2>2, <2>3
<1>3. Marked' = {}
  <2> SUFFICES ASSUME NEW i \in DOMAIN comments, comments'[i].kind = "question", comments'[i].marked
               PROVE  FALSE
    BY <1>1 DEF Marked
  <2>1. comments[i].kind = "question"
    BY <1>2
  <2>2. comments[i].pause # n
    BY <1>2, <2>1
  <2>3. i \in Marked
    BY <1>2, <2>1, <2>2 DEF Marked
  <2> QED BY <2>2, <2>3 DEF OnlyAsked
<1> QED BY <1>1, <1>2, <1>3, FewerMarked

\* What a step may rest on, and what it has to keep.
AloneNow ==
  /\ TypeOK /\ Loaded /\ AloneKept
  /\ budget.faults \in {0, 1} /\ (budget'.faults = budget.faults \/ budget'.faults = 1)

\* Calls that leave the conversation and the resumed runs alone.
LEMMA TalkKept ==
  ASSUME AloneNow, UNCHANGED <<comments, resumed>>
  PROVE  Conversation' /\ AnswerMatchesPause' /\ Marked' = Marked
BY DEF AloneNow, AloneKept, Conversation, AnswerMatchesPause, Marked

LEMMA LoadAlone == ASSUME AloneNow, Load(w1) PROVE AloneKept'
<1>1. Conversation' /\ AnswerMatchesPause' /\ Marked' = Marked
  BY TalkKept DEF Load
<1>2. /\ at[w1] = "idle" /\ env'[w1] = store /\ UNCHANGED <<store, nonce, reply, comments, budget>>
      /\ at'[w1] = IF store = None THEN "run"
                    ELSE IF envelopeDead(store) THEN "read" ELSE "answer"
  BY AloneAssumption DEF Load, Goto, AloneNow, TypeOK
<1>3. ParkedKept(w1)' /\ EndedKept(w1)' /\ AskingKept(w1)'
  BY <1>1, <1>2 DEF AloneNow, AloneKept, ParkedKept, EndedKept, AskingKept, OnlyAsked
<1> QED BY <1>1, <1>3 DEF AloneKept

\* A return: what is parked was asked for, and without a fault nothing is marked
\* when nothing is parked.
LEMMA ReturnAlone ==
  ASSUME AloneNow, Return(w1), UNCHANGED <<comments, resumed, store>>,
         store # None => OnlyAsked(store.pause),
         store = None /\ budget'.faults = 0 => Marked = {}
  PROVE  AloneKept'
<1>1. Conversation' /\ AnswerMatchesPause' /\ Marked' = Marked
  BY TalkKept
<1>2. at'[w1] = "idle" /\ nonce'[w1] = 0
  BY AloneAssumption DEF Return, Goto, AloneNow, TypeOK
<1>3. ParkedKept(w1)' /\ EndedKept(w1)' /\ AskingKept(w1)'
  BY <1>1, <1>2 DEF ParkedKept, EndedKept, AskingKept, OnlyAsked
<1> QED BY <1>1, <1>3 DEF AloneKept

LEMMA ReadAlone == ASSUME AloneNow, ReadPending(w1) \/ ReadAnswer(w1) PROVE AloneKept'
<1>1. Conversation' /\ AnswerMatchesPause' /\ Marked' = Marked
  BY TalkKept DEF ReadPending, ReadAnswer
<1>2. /\ comments \in Seq(Comment) /\ Conversation
      /\ at[w1] \in {"read", "answer"} /\ store # None /\ env[w1] = store /\ nonce[w1] = 0
      /\ OnlyAsked(store.pause) /\ UNCHANGED <<store, comments, resumed>>
  BY DEF AloneNow, TypeOK, AloneKept, ParkedKept, ReadPending, ReadAnswer
<1>3. CASE ReadPending(w1)
  <2>1. /\ at'[w1] = "sweep" /\ UNCHANGED env
        /\ \/ nonce'[w1] = Pending /\ UNCHANGED budget
           \/ nonce'[w1] = 0 /\ budget'.faults = budget.faults + 1
    BY <1>2, <1>3, AloneAssumption DEF ReadPending, Goto, AloneNow, TypeOK
  <2>2. Pending \in {0, store.pause} /\ (Pending = 0 => Marked = {})
    BY <1>2, PendingIs
  <2>3. budget'.faults = 0 => nonce'[w1] = Pending
    BY <2>1 DEF AloneNow
  <2>4. ParkedKept(w1)' /\ EndedKept(w1)' /\ AskingKept(w1)'
    BY <1>1, <1>2, <2>1, <2>2, <2>3 DEF ParkedKept, EndedKept, AskingKept, OnlyAsked
  <2> QED BY <1>1, <2>4 DEF AloneKept
<1>4. CASE ReadAnswer(w1) /\ Replies = {}
  BY <1>2, <1>4, ReturnAlone DEF ReadAnswer
<1>5. CASE ReadAnswer(w1) /\ Replies # {}
  <2>1. /\ at'[w1] = "claim" /\ UNCHANGED env /\ nonce'[w1] = Pending
        /\ reply'[w1] = comments[FirstReply].about /\ UNCHANGED budget
    BY <1>2, <1>5, AloneAssumption DEF ReadAnswer, Goto, AloneNow, TypeOK
  <2>2. Replies \in SUBSET (0 .. Len(comments)) /\ Len(comments) \in Nat
    BY <1>2 DEF Replies
  <2>3. FirstReply \in Replies
    BY <1>5, <2>2, HasLeast DEF FirstReply
  <2>4. PendingAt \in Marked /\ Pending = store.pause
    <3>1. PendingAt # 0
      BY <2>3 DEF Replies
    <3> QED BY <1>2, <3>1, PendingIs
  <2>5. comments[FirstReply].about = store.pause
    BY <1>2, <2>3, <2>4 DEF Conversation, Replies, OnlyAsked
  <2>6. ParkedKept(w1)' /\ EndedKept(w1)' /\ AskingKept(w1)'
    BY <1>1, <1>2, <2>1, <2>4, <2>5 DEF ParkedKept, EndedKept, AskingKept, OnlyAsked
  <2> QED BY <1>1, <2>6 DEF AloneKept
<1> QED BY <1>3, <1>4, <1>5

LEMMA EndAlone == ASSUME AloneNow, Sweep(w1) \/ Claim(w1) PROVE AloneKept'
<1>1. Conversation' /\ AnswerMatchesPause' /\ Marked' = Marked
  BY TalkKept DEF Sweep, Claim
<1>2. /\ at[w1] \in {"sweep", "claim"} /\ store # None /\ env[w1] = store
      /\ OnlyAsked(store.pause) /\ UNCHANGED <<comments, budget>>
  BY DEF AloneNow, AloneKept, ParkedKept, Sweep, Claim
<1>3. Deletes(w1)
  BY <1>2 DEF Deletes
<1>4. store' = None /\ UNCHANGED <<env, nonce, reply>>
  BY <1>3 DEF Sweep, Claim, Ends
<1>5. \/ at[w1] = "claim" /\ at'[w1] = "consume"
      \/ at[w1] = "sweep" /\ at'[w1] = IF nonce[w1] = 0 THEN "run" ELSE "sweepConsume"
  BY <1>3, AloneAssumption DEF Sweep, Claim, Goto, AloneNow, TypeOK
<1>6. ParkedKept(w1)' /\ EndedKept(w1)' /\ AskingKept(w1)'
  BY <1>1, <1>2, <1>4, <1>5
  DEF AloneNow, AloneKept, ParkedKept, EndedKept, AskingKept, OnlyAsked
<1> QED BY <1>1, <1>6 DEF AloneKept

\* A run that goes on with the answer to what it asked.
LEMMA ResumesAlone ==
  ASSUME AloneNow, at[w1] \in {"consume", "retire"}, Resumes(w1)
  PROVE  AnswerMatchesPause' /\ at'[w1] = "run"
<1>1. reply[w1] = env[w1].pause
  BY DEF AloneNow, AloneKept, EndedKept
<1>2. resumed' = Append(resumed, <<env[w1].pause, reply[w1]>>) /\ resumed \in Seq(Pauses \X Pauses)
  BY DEF Resumes, AloneNow, TypeOK
<1>3. \A i \in DOMAIN resumed' :
        \/ i \in DOMAIN resumed /\ resumed'[i] = resumed[i]
        \/ resumed'[i] = <<env[w1].pause, reply[w1]>>
  BY <1>2
<1>4. at'[w1] = "run"
  BY AloneAssumption DEF Resumes, Goto, AloneNow, TypeOK
<1> QED BY <1>1, <1>3, <1>4 DEF AnswerMatchesPause, AloneNow, AloneKept

LEMMA ConsumeAlone ==
  ASSUME AloneNow, Consume(w1) \/ Retire(w1) \/ ConsumeFails(w1) PROVE AloneKept'
<1>1. /\ at[w1] \in {"consume", "retire", "sweepConsume", "sweepRetire"}
      /\ store = None /\ nonce[w1] = env[w1].pause /\ OnlyAsked(env[w1].pause)
      /\ comments \in Seq(Comment) /\ Conversation
      /\ UNCHANGED <<store, env, nonce, reply>>
  BY DEF Consume, Retire, ConsumeFails, AloneNow, TypeOK, AloneKept, EndedKept
<1>2. \/ /\ Resumes(w1) /\ at[w1] \in {"consume", "retire"}
      \/ /\ \E place \in {"run", "retire", "sweepRetire"} :
              Goto(w1, place) /\ (place = "retire" => at[w1] = "consume")
         /\ UNCHANGED resumed
  BY DEF Consume, Retire, ConsumeFails
<1>3. /\ AnswerMatchesPause' /\ at'[w1] \in {"run", "retire", "sweepRetire"}
      /\ at'[w1] = "retire" => at[w1] = "consume"
  <2>1. CASE Resumes(w1) /\ at[w1] \in {"consume", "retire"}
    BY <2>1, ResumesAlone
  <2>2. CASE UNCHANGED resumed
    BY <1>2, <2>2, AloneAssumption, ResumesAlone
    DEF AnswerMatchesPause, AloneNow, AloneKept, TypeOK, Goto
  <2> QED BY <1>2, <2>1, <2>2
<1>4. Conversation' /\ OnlyAsked(env[w1].pause)' /\ (budget'.faults = 0 /\ at'[w1] = "run" => Marked' = {})
  <2>1. CASE Consume(w1)
    <3>1. Marked' = Marked /\ UNCHANGED comments
      BY <2>1 DEF Consume, Marked
    <3>2. at'[w1] = "run" => Pending # nonce[w1]
      BY <2>1, AloneAssumption DEF Consume, Goto, AloneNow, TypeOK
    <3>3. Pending # nonce[w1] => Marked = {}
      BY <1>1, PendingIs
    <3> QED BY <1>1, <3>1, <3>2, <3>3 DEF Conversation, OnlyAsked
  <2>2. CASE Retire(w1)
    <3>1. Conversation' /\ Marked' = {}
      BY <1>1, <2>2, RetiredIs DEF Retire
    <3> QED BY <3>1 DEF OnlyAsked
  <2>3. CASE ConsumeFails(w1)
    <3>1. Marked' = Marked /\ UNCHANGED comments
      BY <2>3 DEF ConsumeFails, Marked
    <3>2. budget'.faults = budget.faults + 1 /\ budget.faults \in {0, 1}
      BY <2>3 DEF ConsumeFails, AloneNow, TypeOK
    <3>3. budget'.faults # 0
      BY <3>2
    <3> QED BY <1>1, <3>1, <3>3 DEF Conversation, OnlyAsked
  <2> QED BY <2>1, <2>2, <2>3
<1>5. at'[w1] = "retire" => reply[w1] = env[w1].pause
  BY <1>3 DEF AloneNow, AloneKept, EndedKept
<1>6. ParkedKept(w1)' /\ EndedKept(w1)' /\ AskingKept(w1)'
  BY <1>1, <1>3, <1>4, <1>5 DEF ParkedKept, EndedKept, AskingKept, OnlyAsked
<1> QED BY <1>3, <1>4, <1>6 DEF AloneKept

LEMMA RunAlone == ASSUME AloneNow, Finish(w1) \/ Save(w1) \/ Ask(w1) PROVE AloneKept'
<1>1. Conversation' /\ AnswerMatchesPause' /\ Marked' = Marked /\ UNCHANGED <<comments, budget>>
  BY TalkKept DEF Finish, Save, Ask
<1>2. CASE Finish(w1)
  <2>1. store = None /\ (budget'.faults = 0 => Marked = {})
    BY <1>1, <1>2 DEF AloneNow, AloneKept, EndedKept, Finish
  <2> QED BY <1>2, <2>1, ReturnAlone DEF Finish
<1>3. CASE Save(w1)
  <2>1. budget.faults = 0 => Marked = {}
    BY <1>3 DEF AloneNow, AloneKept, EndedKept, Save
  <2>2. at'[w1] = "ask" /\ env'[w1] = store'
    BY <1>3, AloneAssumption DEF Save, Goto, AloneNow, TypeOK
  <2>3. store' # None
    <3>1. lastSaved' \in 1 .. MaxPauses /\ clock + ParkDeadline \in Nat /\ config \in Nat
      BY <1>3, SuspendAssumption DEF Save, AloneNow, TypeOK
    <3>2. store' = [pause |-> lastSaved', deadline |-> clock + ParkDeadline, config |-> config]
      BY <1>3 DEF Save
    <3>3. store' \in Envelope
      BY <3>1, <3>2 DEF Envelope, Pauses
    <3> QED BY <3>3, SuspendAssumption
  <2>4. ParkedKept(w1)' /\ EndedKept(w1)' /\ AskingKept(w1)'
    BY <1>1, <2>1, <2>2, <2>3 DEF ParkedKept, EndedKept, AskingKept, OnlyAsked
  <2> QED BY <1>1, <2>4 DEF AloneKept
<1>4. CASE Ask(w1)
  <2>1. /\ store # None /\ env[w1] = store /\ UNCHANGED <<store, env>>
        /\ budget.faults = 0 => Marked = {}
    BY <1>4 DEF AloneNow, AloneKept, AskingKept, Ask
  <2>2. nonce'[w1] = Pending /\ at'[w1] = IF Pending = 0 THEN "post" ELSE "supersede"
    BY <1>4, AloneAssumption DEF Ask, Goto, AloneNow, TypeOK
  <2>3. /\ Pending = 0 <=> Marked = {}
        /\ \A i \in Marked : Pending = comments[i].pause
    BY PendingIs DEF AloneNow, TypeOK, AloneKept
  <2>4. ParkedKept(w1)' /\ EndedKept(w1)' /\ AskingKept(w1)'
    BY <1>1, <2>1, <2>2, <2>3 DEF ParkedKept, EndedKept, AskingKept, OnlyAsked
  <2> QED BY <1>1, <2>4 DEF AloneKept
<1> QED BY <1>2, <1>3, <1>4

LEMMA PostAlone == ASSUME AloneNow, Supersede(w1) \/ Post(w1) PROVE AloneKept'
<1>1. /\ store # None /\ env[w1] = store /\ UNCHANGED <<store, resumed, budget>>
      /\ comments \in Seq(Comment) /\ Conversation
      /\ AnswerMatchesPause'
  BY DEF AloneNow, TypeOK, AloneKept, AskingKept, AnswerMatchesPause, Supersede, Post
<1>2. CASE Supersede(w1)
  <2>1. OnlyAsked(nonce[w1])
    BY <1>2 DEF Supersede, AloneNow, AloneKept, AskingKept
  <2>2. Conversation' /\ Marked' = {}
    BY <1>1, <1>2, <2>1, RetiredIs DEF Supersede
  <2>3. at'[w1] = "post" /\ UNCHANGED env
    BY <1>2, AloneAssumption DEF Supersede, Goto, AloneNow, TypeOK
  <2>4. ParkedKept(w1)' /\ EndedKept(w1)' /\ AskingKept(w1)'
    BY <1>1, <2>2, <2>3 DEF ParkedKept, EndedKept, AskingKept, OnlyAsked
  <2> QED BY <1>1, <2>2, <2>4 DEF AloneKept
<1>3. CASE Post(w1)
  <2> DEFINE q == [kind |-> "question", pause |-> env[w1].pause, marked |-> TRUE]
  <2>1. Marked = {}
    BY <1>3 DEF Post, AloneNow, AloneKept, AskingKept
  <2>2. comments' = Append(comments, q) /\ Return(w1)
    BY <1>3 DEF Post
  <2>3. /\ DOMAIN comments' = 1 .. Len(comments) + 1 /\ Len(comments) \in Nat
        /\ \A i \in DOMAIN comments : comments'[i] = comments[i]
        /\ comments'[Len(comments) + 1] = q
    BY <1>1, <2>2
  <2>4. \A i \in Marked' : i = Len(comments) + 1
    <3> SUFFICES ASSUME NEW i \in DOMAIN comments, i \in Marked' PROVE FALSE
      BY <1>1, <2>3 DEF Marked
    <3>1. i \in Marked
      BY <2>3 DEF Marked
    <3> QED BY <2>1, <3>1
  <2>5. Conversation' /\ \A i \in Marked' : comments'[i].pause = store.pause
    BY <1>1, <2>3, <2>4 DEF Conversation
  <2>6. at'[w1] = "idle" /\ nonce'[w1] = 0
    BY <2>2, AloneAssumption DEF Return, Goto, AloneNow, TypeOK
  <2>7. ParkedKept(w1)' /\ EndedKept(w1)' /\ AskingKept(w1)'
    BY <1>1, <2>5, <2>6 DEF ParkedKept, EndedKept, AskingKept, OnlyAsked
  <2> QED BY <1>1, <2>5, <2>7 DEF AloneKept
<1> QED BY <1>2, <1>3

LEMMA CrashAlone == ASSUME AloneNow, Crash(w1) PROVE AloneKept'
<1>1. budget'.faults = budget.faults + 1 /\ UNCHANGED <<comments, resumed, store>> /\ Return(w1)
  BY DEF Crash, AloneNow, TypeOK
<1>2. budget.faults = 0 /\ budget'.faults # 0
  BY <1>1 DEF AloneNow
<1>3. at[w1] \in Places /\ at[w1] # "idle"
  BY AloneAssumption DEF Crash, AloneNow, TypeOK
<1>4. store # None => OnlyAsked(store.pause)
  BY <1>2, <1>3
  DEF Places, AloneNow, AloneKept, ParkedKept, EndedKept, AskingKept, OnlyAsked
<1> QED BY <1>1, <1>2, <1>4, ReturnAlone

LEMMA OthersAlone ==
  ASSUME AloneNow, UNCHANGED <<store, lastSaved, at, env, nonce, reply, resumed>>,
         budget'.faults = budget.faults, Conversation', Marked' = Marked,
         \A i \in Marked : comments'[i].pause = comments[i].pause
  PROVE  AloneKept'
<1>1. ParkedKept(w1)' /\ EndedKept(w1)' /\ AskingKept(w1)'
  BY DEF AloneNow, AloneKept, ParkedKept, EndedKept, AskingKept, OnlyAsked
<1> QED BY <1>1 DEF AloneNow, AloneKept, AnswerMatchesPause

\* A friend answers the question that is pending.
LEMMA FriendAlone ==
  ASSUME AloneNow, FriendAnswers, budget.late = 0, budget'.late = 0 PROVE AloneKept'
<1>1. budget \in [faults : Nat, late : Nat] /\ comments \in Seq(Comment) /\ Conversation
  BY DEF AloneNow, TypeOK, AloneKept
<1>2. PICK i \in DOMAIN comments :
        /\ comments[i].kind = "question"
        /\ \/ i = PendingAt /\ UNCHANGED budget
           \/ budget' = [budget EXCEPT !.late = @ + 1]
        /\ comments' = Append(comments, [kind |-> "answer", about |-> comments[i].pause])
        /\ UNCHANGED <<store, lastSaved, clock, config, local, resumed, ended>>
  BY DEF FriendAnswers
<1>3. i = PendingAt /\ UNCHANGED budget
  <2>1. budget' = [budget EXCEPT !.late = @ + 1] => budget'.late = 1
    BY <1>1
  <2> QED BY <1>2, <2>1
<1>4. i \in Marked
  <2>1. i # 0
    BY <1>1
  <2> QED BY <1>1, <1>3, <2>1, PendingIs
<1> DEFINE a == [kind |-> "answer", about |-> comments[i].pause]
<1>5. /\ DOMAIN comments' = 1 .. Len(comments) + 1 /\ Len(comments) \in Nat
      /\ \A j \in DOMAIN comments : comments'[j] = comments[j]
      /\ comments'[Len(comments) + 1] = a
  BY <1>1, <1>2
<1>6. Marked' = Marked
  <2>1. ASSUME NEW j \in Marked' PROVE j \in Marked
    BY <1>1, <1>5 DEF Marked
  <2>2. ASSUME NEW j \in Marked PROVE j \in Marked'
    BY <1>1, <1>5 DEF Marked
  <2> QED BY <2>1, <2>2
<1>7. \A j \in Marked : j = i /\ comments'[j] = comments[j]
  BY <1>1, <1>4, <1>5 DEF Conversation, Marked
<1>8. Conversation'
  <2> SUFFICES ASSUME NEW j \in DOMAIN comments', j > i, comments'[j].kind = "answer"
               PROVE  comments'[j].about = comments[i].pause
    BY <1>4, <1>6, <1>7 DEF Conversation
  <2>1. CASE j \in DOMAIN comments
    BY <1>1, <1>4, <1>5, <2>1 DEF Conversation
  <2>2. CASE j = Len(comments) + 1
    BY <1>5, <2>2
  <2> QED BY <1>1, <1>5, <2>1, <2>2
<1> QED BY <1>2, <1>3, <1>6, <1>7, <1>8, OthersAlone DEF local

LEMMA AloneNext == IInv /\ AloneIInv /\ [Kept(Next)]_allVars => AloneIInv'
<1> SUFFICES ASSUME IInv, AloneIInv, [Kept(Next)]_allVars, alone' PROVE AloneIInv'
  BY DEF AloneIInv
<1>1. CASE UNCHANGED allVars
  BY <1>1
  DEF AloneIInv, allVars, vars, local, AloneKept, Conversation, AnswerMatchesPause, Marked,
      ParkedKept, EndedKept, AskingKept, OnlyAsked
<1>2. CASE Kept(Next)
  <2>1. /\ alone /\ Next
        /\ \A w \in Workers \ {w1} : at[w] = "idle" /\ at'[w] = "idle"
        /\ budget.late = 0 /\ budget'.late = 0
        /\ budget.faults <= 1 => AloneKept
    BY <1>2 DEF Kept, AloneIInv
  <2>2. SUFFICES ASSUME budget'.faults <= 1 PROVE AloneKept'
    BY <2>1 DEF AloneIInv
  <2>3. TypeOK /\ Loaded /\ budget.faults \in Nat
    BY DEF IInv, TypeOK
  <2>4. budget'.faults = budget.faults \/ budget'.faults = budget.faults + 1
    BY <2>1, <2>3
    DEF Next, WorkerNext, Load, ReadPending, Sweep, ReadAnswer, Claim, Consume, Retire,
        ConsumeFails, Finish, Save, Ask, Supersede, Post, Crash, FriendAnswers, Tick, Deploy,
        TypeOK
  <2>5. AloneNow
    BY <2>1, <2>2, <2>3, <2>4 DEF AloneNow
  <2>6. ASSUME NEW w \in Workers, WorkerNext(w) \/ Crash(w) PROVE w = w1
    <3>1. at[w] # "idle" \/ at'[w] # "idle"
      BY <2>3, <2>6
      DEF WorkerNext, Load, ReadPending, Sweep, ReadAnswer, Claim, Consume, Retire,
          ConsumeFails, Finish, Save, Ask, Supersede, Post, Crash, Goto, TypeOK
    <3> QED BY <2>1, <3>1
  <2>7. CASE WorkerNext(w1) \/ Crash(w1)
    BY <2>5, <2>7, LoadAlone, ReadAlone, EndAlone, ConsumeAlone, RunAlone, PostAlone, CrashAlone
    DEF WorkerNext
  <2>8. CASE FriendAnswers
    BY <2>1, <2>5, <2>8, FriendAlone
  <2>9. CASE Tick \/ Deploy
    <3>1. /\ UNCHANGED <<store, lastSaved, at, env, nonce, reply, resumed, comments, budget>>
          /\ Marked' = Marked
      BY <2>9 DEF Tick, Deploy, local, Marked
    <3>2. Conversation'
      BY <2>5, <3>1 DEF AloneNow, AloneKept, Conversation
    <3> QED BY <2>5, <3>1, <3>2, OthersAlone
  <2> QED BY <2>1, <2>6, <2>7, <2>8, <2>9 DEF Next
<1> QED BY <1>1, <1>2

LEMMA AloneInvariant == SuspendSpec => [](IInv /\ AloneIInv)
<1>1. SuspendInit => IInv /\ AloneIInv
  BY IInvInit, AloneInit DEF SuspendInit
<1>2. [Kept(Next)]_allVars => [Next]_vars
  BY DEF Kept, allVars
<1>3. IInv /\ AloneIInv /\ [Kept(Next)]_allVars => (IInv /\ AloneIInv)'
  BY <1>2, IInvNext, AloneNext
<1> QED BY <1>1, <1>3, PTL DEF SuspendSpec

\* A run of a reconcile that is alone is resumed with the answer to the question it
\* asked, and nobody is asked for a run that is gone, whatever is deployed, however
\* long the friends take and wherever one call fails (coordinator.go,
\* githubquestions.go); with two failures the code breaks it.
THEOREM AloneAskedRightly == SuspendSpec => []AskedRightlyAlone
<1>1. IInv /\ AloneIInv => AskedRightlyAlone
  <2> SUFFICES ASSUME IInv, AloneIInv, alone, budget.faults <= 1 PROVE FriendsAskedRightly
    BY DEF AskedRightlyAlone
  <2>1. AloneKept
    BY DEF AloneIInv
  <2>2. NobodyAskedInVain
    BY <2>1, AloneAssumption DEF NobodyAskedInVain, AloneKept, EndedKept
  <2> QED BY <2>1, <2>2 DEF FriendsAskedRightly, AloneKept
<1> QED BY <1>1, AloneInvariant, PTL

=============================================================================
