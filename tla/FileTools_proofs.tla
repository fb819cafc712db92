-------------------------- MODULE FileTools_proofs --------------------------
(***************************************************************************)
(* Proofs about the file tools of an agent, for any paths, texts and turns *)
(* of one or two calls: a turn leaves no temporary file, and its state     *)
(* keeps its types.  Texts are found by recursive functions, which are     *)
(* shown to be defined, each by a rank that falls.                         *)
(***************************************************************************)
EXTENDS FileTools, FiniteSetTheorems, SequenceTheorems, WellFoundedInduction, TLAPS

\* A set of numbers has a smallest one.
LEMMA SmallestExists ==
  ASSUME NEW T \in SUBSET Nat, T # {} PROVE \E x \in T : \A y \in T : x <= y
<1>1. PICK R : IsWellFoundedOn(R, Nat) /\ R = {ss \in Nat \X Nat : ss[1] < ss[2]}
  BY NatLessThanWellFounded DEF OpToRel
<1>2. \A x, y \in Nat : <<x, y>> \in R <=> x < y
  BY <1>1
<1>3. PICK x \in T : \A y \in T : ~(<<y, x>> \in R)
  BY <1>1, WFMin
<1>4. \A y \in T : ~(y < x)
  BY <1>2, <1>3
<1> QED BY <1>4

LEMMA MinOfTwo ==
  ASSUME NEW a \in Int, NEW b \in Int PROVE Min({a, b}) = (IF a <= b THEN a ELSE b)
<1>1. PICK c \in Int : c = (IF a <= b THEN a ELSE b)
  OBVIOUS
<1>2. c \in {a, b} /\ \A y \in {a, b} : c <= y
  BY <1>1
<1>3. \A x \in {a, b} : (\A y \in {a, b} : x <= y) => x = c
  BY <1>1, <1>2
<1> QED BY <1>1, <1>2, <1>3 DEF Min

-----------------------------------------------------------------------------
(* Temporary files.                                                        *)

\* A temporary file belongs to an edit that is underway.
TemporaryKept(i) ==
  Opened(Temporary(i)) => calls[i].tool = "edit" /\ doing[i].at \in {"opened", "copied"}

FilesIInv ==
  /\ DOMAIN calls \subseteq {1, 2} /\ (\A i \in DOMAIN calls : calls[i] \in ToolCalls)
  /\ names = [x \in Names |-> names[x]] /\ doing = [i \in DOMAIN calls |-> doing[i]]
  /\ \A i \in DOMAIN calls : doing[i] = [x \in DOMAIN NotBegun |-> doing[i][x]]
  /\ \A i \in DOMAIN calls : TemporaryKept(i)

LEMMA CallPaths ==
  ASSUME NEW c \in ToolCalls
  PROVE  c.path \in Paths /\ (c.tool \in {"move", "copy"} => c.to \in Paths)
BY DEF ToolCalls, readFileTool, deleteFileTool, listDirectoryTool, chmodTool,
   searchCodebaseTool,
       writeFileTool, editFileTool, moveFileTool, copyFileTool, OfPath, Across, Call

LEMMA TemporaryNames ==
  /\ \A i \in {1, 2} : Temporary(i) \in Names /\ Temporary(i) \notin Paths
  /\ Temporary(1) # Temporary(2) /\ Paths \subseteq Names
BY FilesAssumption DEF Names, Temporary

\* The first of the paths is one of them.
LEMMA FirstPath == PathOrder[1] \in Paths
<1>1. PICK n \in Nat : n = Cardinality(Paths) /\ ExistsBijection(1 .. n, Paths)
  BY FilesAssumption, FS_NatBijection, FS_CountingElements
<1>2. PICK f : f \in Bijection(1 .. n, Paths)
  BY <1>1 DEF ExistsBijection
<1>3. f \in [1 .. Cardinality(Paths) -> Paths] /\ IsInjective(f)
  BY <1>1, <1>2 DEF Bijection, Injection
<1>4. PathOrder \in [1 .. Cardinality(Paths) -> Paths]
  BY <1>3 DEF PathOrder, SetToSeq
<1>5. n # 0
  BY <1>1, FilesAssumption, FS_EmptySet
<1> QED BY <1>1, <1>4, <1>5

LEMMA FilesInitInv == FilesInit => FilesIInv
<1> SUFFICES ASSUME FilesInit PROVE FilesIInv
  OBVIOUS
<1>1. DOMAIN calls \subseteq {1, 2} /\ \A i \in DOMAIN calls : calls[i] \in ToolCalls
  <2>1. \/ calls \in ToolCalls \X ToolCalls
        \/ \E c \in ToolCalls : calls = <<c>>
    BY DEF FilesInit
  <2> QED BY <2>1
<1>2. names = [x \in Names |-> names[x]] /\ doing = [i \in DOMAIN calls |-> NotBegun]
  BY DEF FilesInit
<1>3. \A i \in {1, 2} : ~Opened(Temporary(i))
  BY FirstPath, TemporaryNames DEF FilesInit, Opened
<1>4. NotBegun = [x \in DOMAIN NotBegun |-> NotBegun[x]]
  BY DEF NotBegun
<1> QED BY <1>1, <1>2, <1>3, <1>4 DEF FilesIInv, TemporaryKept

Progress == DOMAIN NotBegun
OfProgress(d) == d = [x \in Progress |-> d[x]]

LEMMA ProgressFields ==
  {"at", "file", "text", "mode", "plan", "result"} = Progress
BY DEF Progress, NotBegun

\* What a step may change: its own call, names of the directory and a temporary file
\* of its own.
LEMMA HandlerKeeps ==
  ASSUME FilesIInv, NEW i \in DOMAIN calls, NEW d, OfProgress(d),
         doing' = [doing EXCEPT ![i] = d], UNCHANGED calls,
         names' = [x \in Names |-> names'[x]],
         \A j \in DOMAIN calls \ {i} : names'[Temporary(j)] = names[Temporary(j)],
         names'[Temporary(i)] # 0 => calls[i].tool = "edit" /\ d.at \in {"opened", "copied"}
  PROVE  FilesIInv'
<1>1. doing' = [k \in DOMAIN calls |-> IF k = i THEN d ELSE doing[k]]
  BY DEF FilesIInv
<1>2. \A j \in DOMAIN calls : OfProgress(doing'[j])
  BY <1>1 DEF FilesIInv, OfProgress, Progress
<1>3. \A j \in DOMAIN calls : TemporaryKept(j)'
  BY <1>1 DEF FilesIInv, TemporaryKept, Opened
<1> QED BY <1>1, <1>2, <1>3 DEF FilesIInv, OfProgress, Progress

\* A step that leaves the names alone.
LEMMA ElsewhereKeeps ==
  ASSUME FilesIInv, NEW i \in DOMAIN calls, NEW d, OfProgress(d),
         doing' = [doing EXCEPT ![i] = d], UNCHANGED <<calls, names>>,
         calls[i].tool # "edit" \/ d.at \in {"opened", "copied"}
           \/ doing[i].at \notin {"opened", "copied"}
  PROVE  FilesIInv'
<1>1. names'[Temporary(i)] # 0 => calls[i].tool = "edit" /\ d.at \in {"opened", "copied"}
  BY DEF FilesIInv, TemporaryKept, Opened
<1>2. names' = [x \in Names |-> names'[x]]
  BY DEF FilesIInv
<1> QED BY <1>1, <1>2, HandlerKeeps

LEMMA ReturnsIs ==
  ASSUME FilesIInv, NEW i \in DOMAIN calls, NEW r, Returns(i, r)
  PROVE  \E d : OfProgress(d) /\ doing' = [doing EXCEPT ![i] = d] /\ d.at = "over"
<1> DEFINE d == [doing[i] EXCEPT !.at = "over", !.result = r]
<1>1. OfProgress(doing[i])
  BY DEF FilesIInv, OfProgress, Progress
<1>2. OfProgress(d) /\ d.at = "over"
  BY <1>1, ProgressFields DEF OfProgress
<1>3. doing' = [doing EXCEPT ![i] = d]
  BY DEF Returns, FilesIInv
<1> QED BY <1>2, <1>3

LEMMA ReadFileKeeps ==
  ASSUME FilesIInv, NEW i \in DOMAIN calls, ReadFile(i) PROVE FilesIInv'
<1>1. OfProgress(doing[i])
  BY DEF FilesIInv, OfProgress, Progress
<1>2. CASE doing' = [doing EXCEPT ![i].at = "opened", ![i].file = names[calls[i].path]]
  <2> DEFINE d == [doing[i] EXCEPT !.at = "opened", !.file = names[calls[i].path]]
  <2>1. OfProgress(d)
    BY <1>1, ProgressFields DEF OfProgress
  <2>2. doing' = [doing EXCEPT ![i] = d]
    BY <1>2 DEF FilesIInv
  <2> QED BY <2>1, <2>2, ElsewhereKeeps DEF ReadFile, Quiet
<1>3. CASE Returns(i, Done(disk[doing[i].file].text))
  BY <1>3, ReturnsIs, ElsewhereKeeps DEF ReadFile, Quiet
<1> QED BY <1>2, <1>3 DEF ReadFile

\* A call's names are those of the paths, and an edit's temporary one.
LEMMA PathNames ==
  ASSUME FilesIInv, NEW i \in DOMAIN calls
  PROVE  /\ calls[i].path \in Names
         /\ \A j \in DOMAIN calls : Temporary(j) \in Names /\ Temporary(j) # calls[i].path
         /\ calls[i].tool \in {"move", "copy"} =>
              \A j \in DOMAIN calls : Temporary(j) # calls[i].to
         /\ \A j \in DOMAIN calls : j # i => Temporary(j) # Temporary(i)
BY CallPaths, TemporaryNames DEF FilesIInv

LEMMA OneCallKeeps ==
  ASSUME FilesIInv, NEW i \in DOMAIN calls, OneCall(i) PROVE FilesIInv'
<1>1. PICK d : OfProgress(d) /\ doing' = [doing EXCEPT ![i] = d] /\ d.at = "over"
  BY ReturnsIs DEF OneCall
<1>2. doing[i].at = "begin" /\ UNCHANGED calls
  BY DEF OneCall
<1>3. /\ names' = [x \in Names |-> names'[x]]
      /\ \A j \in DOMAIN calls : names'[Temporary(j)] = names[Temporary(j)]
  BY PathNames DEF OneCall, FilesIInv
<1>4. names'[Temporary(i)] = 0
  BY <1>2, <1>3 DEF FilesIInv, TemporaryKept, Opened
<1> QED BY <1>1, <1>2, <1>3, <1>4, HandlerKeeps

LEMMA TruncateKeeps ==
  ASSUME FilesIInv, NEW i \in DOMAIN calls, NEW p, NEW text, NEW mode, Truncate(i, p, text, mode),
         \A j \in DOMAIN calls : Temporary(j) # p,
         doing[i].at \notin {"opened", "copied"}
  PROVE  FilesIInv'
<1> DEFINE file == IF Opened(p) THEN names[p] ELSE Len(disk) + 1
           d == [doing[i] EXCEPT !.at = "writing", !.file = file, !.text = text]
<1>1. OfProgress(doing[i])
  BY DEF FilesIInv, OfProgress, Progress
<1>2. OfProgress(d) /\ d.at = "writing"
  BY <1>1, ProgressFields DEF OfProgress
<1>3. doing' = [doing EXCEPT ![i] = d]
  BY DEF Truncate, FilesIInv
<1>4. names' = [names EXCEPT ![p] = file] /\ UNCHANGED calls
  BY DEF Truncate
<1> HIDE DEF file, d
<1>5. /\ names' = [x \in Names |-> names'[x]]
      /\ \A j \in DOMAIN calls : names'[Temporary(j)] = names[Temporary(j)]
  BY <1>4, PathNames DEF FilesIInv
<1>6. names'[Temporary(i)] = 0
  BY <1>5 DEF FilesIInv, TemporaryKept, Opened
<1> QED BY <1>2, <1>3, <1>4, <1>5, <1>6, HandlerKeeps

LEMMA WriteKeeps ==
  ASSUME FilesIInv, NEW i \in DOMAIN calls, WriteFile(i) \/ WriteBack(i) \/ WriteOut(i)
  PROVE  FilesIInv'
<1>1. CASE WriteFile(i)
  BY <1>1, PathNames, TruncateKeeps DEF WriteFile, Is
<1>2. CASE WriteBack(i)
  <2>1. PICK p : /\ p = (IF calls[i].tool = "copy" THEN calls[i].to ELSE calls[i].path)
                 /\ Truncate(i, p, doing[i].text, doing[i].mode)
    BY <1>2 DEF WriteBack
  <2>2. \A j \in DOMAIN calls : Temporary(j) # p
    BY <2>1, PathNames
  <2> QED BY <1>2, <2>1, <2>2, TruncateKeeps DEF WriteBack
<1>3. CASE WriteOut(i)
  <2>1. PICK d : OfProgress(d) /\ doing' = [doing EXCEPT ![i] = d] /\ d.at = "over"
    BY <1>3, ReturnsIs DEF WriteOut
  <2> QED BY <1>3, <2>1, ElsewhereKeeps DEF WriteOut
<1> QED BY <1>1, <1>2, <1>3

\* The steps that only look.
LEMMA LookingKeeps ==
  ASSUME FilesIInv, NEW i \in DOMAIN calls,
         Missing(i) \/ CopyFile(i) \/ LocalEditFile(i) \/ Stat(i) \/ Plan(i) \/ LookAround(i)
  PROVE  FilesIInv'
<1>1. OfProgress(doing[i])
  BY DEF FilesIInv, OfProgress, Progress
<1>2. UNCHANGED <<calls, names>>
  BY DEF Missing, CopyFile, LocalEditFile, Stat, Plan, LookAround, Quiet
<1>3. calls[i].tool # "edit" \/ doing[i].at \notin {"opened", "copied"}
  BY DEF Missing, CopyFile, LocalEditFile, Stat, Plan, LookAround, Is
<1>4. \E d : OfProgress(d) /\ doing' = [doing EXCEPT ![i] = d]
  <2>1. CASE \E r : Returns(i, r)
    BY <2>1, ReturnsIs
  <2>2. CASE CopyFile(i)
    <3> DEFINE d == [doing[i] EXCEPT !.at = "taken", !.text = At(calls[i].path).text]
    <3>1. OfProgress(d)
      BY <1>1, ProgressFields DEF OfProgress
    <3>2. doing' = [doing EXCEPT ![i] = d]
      BY <2>2 DEF FilesIInv, CopyFile
    <3> QED BY <3>1, <3>2
  <2>3. CASE LocalEditFile(i)
    <3>1. PICK alone : alone = AloneEdit(calls[i], Tree)
      OBVIOUS
    <3> DEFINE d == [doing[i] EXCEPT !.at = "taken", !.text = alone.tree[calls[i].path].text,
                                     !.result = alone.result]
    <3>2. OfProgress(d)
      BY <1>1, ProgressFields DEF OfProgress
    <3>3. (\E r : Returns(i, r)) \/ doing' = [doing EXCEPT ![i] = d]
      BY <2>3, <3>1 DEF FilesIInv, LocalEditFile
    <3> QED BY <2>1, <3>2, <3>3
  <2>4. CASE Stat(i)
    <3> DEFINE d == [doing[i] EXCEPT !.at = "statted", !.mode = At(calls[i].path).mode]
    <3>1. OfProgress(d)
      BY <1>1, ProgressFields DEF OfProgress
    <3>2. (\E r : Returns(i, r)) \/ doing' = [doing EXCEPT ![i] = d]
      BY <2>4 DEF FilesIInv, Stat
    <3> QED BY <2>1, <3>1, <3>2
  <2>5. CASE Plan(i)
    <3>1. PICK offsets : offsets = planReplacements(At(calls[i].path).text, calls[i].text)
      OBVIOUS
    <3> DEFINE d == [doing[i] EXCEPT !.at = "planned", !.plan = offsets]
    <3>2. OfProgress(d)
      BY <1>1, ProgressFields DEF OfProgress
    <3>3. (\E r : Returns(i, r)) \/ doing' = [doing EXCEPT ![i] = d]
      BY <2>5, <3>1 DEF FilesIInv, Plan
    <3> QED BY <2>1, <3>2, <3>3
  <2>6. CASE doing' = [doing EXCEPT ![i].at = "opened", ![i].plan = Listed]
    <3> DEFINE d == [doing[i] EXCEPT !.at = "opened", !.plan = Listed]
    <3>1. OfProgress(d)
      BY <1>1, ProgressFields DEF OfProgress
    <3>2. doing' = [doing EXCEPT ![i] = d]
      BY <2>6 DEF FilesIInv
    <3> QED BY <3>1, <3>2
  <2>7. ASSUME NEW more1, NEW rest,
               doing' = [doing EXCEPT ![i].plan = rest, ![i].text = more1]
        PROVE  \E d : OfProgress(d) /\ doing' = [doing EXCEPT ![i] = d]
    <3> DEFINE d == [doing[i] EXCEPT !.plan = rest, !.text = more1]
    <3>1. OfProgress(d)
      BY <1>1, ProgressFields DEF OfProgress
    <3>2. doing' = [doing EXCEPT ![i] = d]
      BY <2>7 DEF FilesIInv
    <3> QED BY <3>1, <3>2
  <2>8. CASE LookAround(i)
    <3>1. \/ \E r : Returns(i, r)
          \/ doing' = [doing EXCEPT ![i].at = "opened", ![i].plan = Listed]
          \/ \E more1, rest : doing' = [doing EXCEPT ![i].plan = rest, ![i].text = more1]
      BY <2>8 DEF LookAround
    <3> QED BY <2>1, <2>6, <2>7, <3>1
  <2>9. CASE Missing(i)
    BY <2>1, <2>9 DEF Missing
  <2> QED BY <2>2, <2>3, <2>4, <2>5, <2>8, <2>9
<1> QED BY <1>2, <1>3, <1>4, ElsewhereKeeps

\* An edit of a git worktree makes its temporary file, and takes it away.
LEMMA EditKeeps ==
  ASSUME FilesIInv, NEW i \in DOMAIN calls, OpenAgain(i) \/ Execute(i) \/ Replace(i)
  PROVE  FilesIInv'
<1>1. OfProgress(doing[i]) /\ calls[i].tool = "edit" /\ UNCHANGED calls
  BY DEF FilesIInv, OfProgress, Progress, OpenAgain, Execute, Replace, Is
<1>2. CASE OpenAgain(i)
  <2>1. CASE Returns(i, Failed) /\ UNCHANGED names
    BY <1>2, <2>1, ReturnsIs, ElsewhereKeeps DEF OpenAgain, Is
  <2>2. CASE Opened(calls[i].path)
    <3> DEFINE d == [doing[i] EXCEPT !.at = "opened", !.file = names[calls[i].path],
                                     !.mode = At(calls[i].path).mode]
    <3>1. OfProgress(d) /\ d.at = "opened"
      BY <1>1, ProgressFields DEF OfProgress
    <3>2. doing' = [doing EXCEPT ![i] = d]
      BY <1>2, <2>2 DEF FilesIInv, OpenAgain
    <3>3. names' = [names EXCEPT ![Temporary(i)] = Len(disk) + 1]
      BY <1>2, <2>2 DEF OpenAgain
    <3> HIDE DEF d
    <3>4. /\ names' = [x \in Names |-> names'[x]]
          /\ \A j \in DOMAIN calls \ {i} : names'[Temporary(j)] = names[Temporary(j)]
      BY <3>3, PathNames DEF FilesIInv
    <3> QED BY <1>1, <3>1, <3>2, <3>4, HandlerKeeps
  <2> QED BY <1>2, <2>1, <2>2 DEF OpenAgain
<1>3. CASE Execute(i)
  <2>1. CASE Now(i, "copied") /\ UNCHANGED names
    <3> DEFINE d == [doing[i] EXCEPT !.at = "copied"]
    <3>1. OfProgress(d) /\ d.at = "copied"
      BY <1>1, ProgressFields DEF OfProgress
    <3>2. doing' = [doing EXCEPT ![i] = d]
      BY <2>1 DEF FilesIInv, Now
    <3> QED BY <1>1, <2>1, <3>1, <3>2, ElsewhereKeeps
  <2>2. CASE CleanUp(i) /\ Returns(i, Failed)
    <3>1. PICK d : OfProgress(d) /\ doing' = [doing EXCEPT ![i] = d] /\ d.at = "over"
      BY <2>2, ReturnsIs
    <3>2. /\ names' = [x \in Names |-> names'[x]] /\ names'[Temporary(i)] = 0
          /\ \A j \in DOMAIN calls \ {i} : names'[Temporary(j)] = names[Temporary(j)]
      BY <2>2, PathNames DEF FilesIInv, CleanUp
    <3> QED BY <1>1, <3>1, <3>2, HandlerKeeps
  <2> QED BY <1>3, <2>1, <2>2 DEF Execute
<1>4. CASE Replace(i)
  <2>1. PICK d : OfProgress(d) /\ doing' = [doing EXCEPT ![i] = d] /\ d.at = "over"
    BY <1>4, ReturnsIs DEF Replace
  <2>2. names' = [names EXCEPT ![calls[i].path] = names[Temporary(i)], ![Temporary(i)] = 0]
    BY <1>4 DEF Replace
  <2>3. /\ names' = [x \in Names |-> names'[x]] /\ names'[Temporary(i)] = 0
        /\ \A j \in DOMAIN calls \ {i} : names'[Temporary(j)] = names[Temporary(j)]
    BY <2>2, PathNames DEF FilesIInv
  <2> QED BY <1>1, <2>1, <2>3, HandlerKeeps
<1> QED BY <1>2, <1>3, <1>4

LEMMA FilesStepInv == FilesIInv /\ [FilesNext]_filesVars => FilesIInv'
<1> SUFFICES ASSUME FilesIInv, [FilesNext]_filesVars PROVE FilesIInv'
  OBVIOUS
<1>1. CASE UNCHANGED filesVars
  BY <1>1 DEF filesVars, FilesIInv, TemporaryKept, Opened
<1> QED
  BY <1>1, LookingKeeps, ReadFileKeeps, OneCallKeeps, WriteKeeps, EditKeeps
  DEF FilesNext, Handler

LEMMA NothingIsLeft == FilesIInv => NothingLeft
BY DEF FilesIInv, TemporaryKept, NothingLeft, AllOver

-----------------------------------------------------------------------------
(* Recursive functions.                                                    *)

\* A function on finitely many arguments, each of which rests on one of a lower rank
\* or on none.
Falls(D, r, dep) == \A x \in D : dep[x] # x => r[dep[x]] < r[x]

Recursion(D, V, dep, first, next, f) ==
  f \in [D -> V] /\ f = [x \in D |-> IF dep[x] = x THEN first[x] ELSE next[x][f[dep[x]]]]

LEMMA RecursionIsDefined ==
  ASSUME NEW D, NEW V, NEW M \in Nat, NEW r \in [D -> 0 .. M], NEW dep \in [D -> D],
         NEW first \in [D -> V], NEW next \in [D -> [V -> V]], Falls(D, r, dep)
  PROVE  \E f : Recursion(D, V, dep, first, next, f)
<1> DEFINE Value(g, x) == IF dep[x] = x THEN first[x] ELSE next[x][g[dep[x]]]
           Fits(n, g) == g \in [D -> V] /\ \A x \in D : r[x] < n => g[x] = Value(g, x)
<1>1. ASSUME NEW g \in [D -> V], NEW x \in D PROVE Value(g, x) \in V
  <2>1. g[dep[x]] \in V /\ next[x] \in [V -> V]
    OBVIOUS
  <2> QED BY <2>1
<1>2. \E g : Fits(0, g)
  <2>1. Fits(0, first)
    OBVIOUS
  <2> QED BY <2>1
<1>3. ASSUME NEW m \in Nat, NEW g, Fits(m, g) PROVE \E h : Fits(m + 1, h)
  <2>1. PICK h : h = [x \in D |-> Value(g, x)]
    OBVIOUS
  <2>2. h \in [D -> V]
    BY <1>1, <1>3, <2>1
  <2>3. ASSUME NEW x \in D, r[x] < m + 1 PROVE h[x] = Value(h, x)
    <3>1. h[x] = Value(g, x)
      BY <2>1
    <3>2. CASE dep[x] = x
      BY <3>1, <3>2
    <3>3. CASE dep[x] # x
      <4>1. dep[x] \in D /\ r[dep[x]] < m
        <5>1. r[dep[x]] < r[x] /\ r[x] \in Nat /\ dep[x] \in D
          BY <3>3 DEF Falls
        <5>2. r[dep[x]] \in Nat
          BY <5>1
        <5> QED BY <2>3, <5>1, <5>2
      <4>2. g[dep[x]] = Value(g, dep[x])
        BY <1>3, <4>1
      <4>3. h[dep[x]] = g[dep[x]]
        BY <2>1, <4>1, <4>2
      <4> QED BY <3>1, <3>3, <4>3
    <3> QED BY <3>2, <3>3
  <2> QED BY <2>2, <2>3
<1> HIDE DEF Fits
<1>4. \A n \in Nat : \E g : Fits(n, g)
  <2>1. PICK T : T = {n \in Nat : ~\E g : Fits(n, g)}
    OBVIOUS
  <2>2. SUFFICES ASSUME T # {} PROVE FALSE
    BY <2>1
  <2>3. PICK n \in T : \A y \in T : n <= y
    BY <2>1, <2>2, SmallestExists
  <2>4. n # 0 /\ n \in Nat /\ ~\E g : Fits(n, g)
    BY <1>2, <2>1
  <2>5. PICK m \in Nat : n = m + 1
    <3>1. n - 1 \in Nat /\ n = n - 1 + 1
      BY <2>4
    <3> QED BY <3>1
  <2>6. m \notin T
    <3>1. ~(n <= m)
      BY <2>5
    <3> QED BY <2>3, <3>1
  <2>7. PICK g : Fits(m, g)
    BY <2>1, <2>6
  <2> QED BY <1>3, <2>4, <2>5, <2>7
<1>5. PICK g : Fits(M + 1, g)
  <2>1. M + 1 \in Nat
    OBVIOUS
  <2> QED BY <1>4, <2>1
<1>6. g \in [D -> V] /\ \A x \in D : g[x] = Value(g, x)
  <2>1. \A x \in D : r[x] < M + 1
    OBVIOUS
  <2> QED BY <1>5, <2>1 DEF Fits
<1>7. g = [x \in D |-> Value(g, x)]
  BY <1>6
<1> QED BY <1>6, <1>7 DEF Recursion

\* What is of V when what it rests on is.
Inherits(D, V, dep, f) == \A x \in D : (dep[x] # x => f[dep[x]] \in V) => f[x] \in V

LEMMA RecursionIsTyped ==
  ASSUME NEW D, NEW V, NEW M \in Nat, NEW r \in [D -> 0 .. M], NEW dep \in [D -> D],
         Falls(D, r, dep), NEW f, Inherits(D, V, dep, f)
  PROVE  \A x \in D : f[x] \in V
<1> DEFINE T == {n \in Nat : \E x \in D : r[x] = n /\ f[x] \notin V}
<1>1. T \in SUBSET Nat /\ \A x \in D : f[x] \notin V => r[x] \in T
  OBVIOUS
<1>2. CASE T # {}
  <2>1. PICK n \in T : \A y \in T : n <= y
    <3> HIDE DEF T
    <3> QED BY <1>1, <1>2, SmallestExists
  <2>2. PICK x \in D : r[x] = n /\ f[x] \notin V
    BY <2>1
  <2>3. dep[x] # x => r[dep[x]] < n /\ dep[x] \in D
    BY <2>2 DEF Falls
  <2>4. dep[x] # x => f[dep[x]] \in V
    <3> SUFFICES ASSUME dep[x] # x, f[dep[x]] \notin V PROVE FALSE
      OBVIOUS
    <3>1. r[dep[x]] \in T
      BY <1>1, <2>3
    <3>2. n <= r[dep[x]] /\ n \in Nat /\ r[dep[x]] \in Nat
      BY <1>1, <2>1, <3>1
    <3> QED BY <2>3, <3>2
  <2> QED BY <2>2, <2>4 DEF Inherits
<1> QED BY <1>1, <1>2

-----------------------------------------------------------------------------
(* Texts: where a pattern occurs, and what replacing it gives.             *)

LEMMA SubSeqTyped ==
  ASSUME NEW S, NEW s \in Seq(S), NEW m \in Nat, m # 0, NEW n \in Int, n <= Len(s)
  PROVE  SubSeq(s, m, n) \in Seq(S)
<1>1. Len(s) \in Nat /\ DOMAIN s = 1 .. Len(s) /\ \A i \in m .. n : s[i] \in S
  BY LenProperties
<1> QED BY <1>1, SubSeqProperties

\* The numbers of the places of a text.
Offsets == Nat \ {0}

LEMMA FirstThenRest ==
  ASSUME NEW i \in Offsets, NEW v \in Seq(Offsets) PROVE <<i>> \o v \in Seq(Offsets)
<1>1. <<i>> \in Seq(Offsets)
  OBVIOUS
<1> QED BY <1>1, ConcatProperties, Zenon

LEMMA OccurrencesAre ==
  ASSUME NEW L, NEW t \in Seq(L), NEW p \in Seq(L), p # <<>>
  PROVE  Occurrences(t, p) \in Seq(Offsets)
<1>1. PICK a \in Nat, b \in Nat : a = Len(t) /\ b = Len(p) /\ b # 0
  BY LenProperties, EmptySeq
<1>2. PICK From : From = CHOOSE f :
        f = [i \in 1 .. a + b |->
                  IF i + b - 1 > a THEN <<>>
                  ELSE IF Holds(t, i, p) THEN <<i>> \o f[i + b] ELSE f[i + 1]]
  OBVIOUS
<1>3. Occurrences(t, p) = From[1]
  BY <1>1, <1>2, Zenon DEF Occurrences
<1> DEFINE D == 1 .. a + b
           V == Seq(Offsets)
           r == [i \in D |-> a + b - i]
           dep == [i \in D |-> IF i + b - 1 > a THEN i ELSE IF Holds(t, i, p) THEN i + b ELSE i + 1]
           first == [i \in D |-> <<>>]
           next == [i \in D |-> [v \in V |-> IF Holds(t, i, p) THEN <<i>> \o v ELSE v]]
<1>4. r \in [D -> 0 .. a + b] /\ dep \in [D -> D] /\ a + b \in Nat /\ 1 \in D
  BY <1>1
<1>5. Falls(D, r, dep)
  <2> SUFFICES ASSUME NEW i \in D, dep[i] # i PROVE r[dep[i]] < r[i]
    BY DEF Falls
  <2>1. PICK j \in D : j = dep[i] /\ j > i
    BY <1>1
  <2>2. r[j] = a + b - j /\ r[i] = a + b - i
    OBVIOUS
  <2> HIDE DEF r, dep
  <2> QED BY <1>1, <2>1, <2>2
<1>6. first \in [D -> V] /\ next \in [D -> [V -> V]]
  <2>1. \A i \in D, v \in V : <<i>> \o v \in V
    BY FirstThenRest DEF Offsets
  <2>2. <<>> \in V
    OBVIOUS
  <2>3. PICK W : W = V
    OBVIOUS
  <2>4. <<>> \in W /\ \A i \in D, v \in W : <<i>> \o v \in W
    BY <2>1, <2>2, <2>3
  <2>5. first \in [D -> W]
    BY <2>4
  <2>6. next \in [D -> [W -> W]]
    <3>1. next = [i \in D |-> [v \in W |-> IF Holds(t, i, p) THEN <<i>> \o v ELSE v]]
      BY <2>3
    <3> HIDE DEF next
    <3> QED BY <2>4, <3>1
  <2> QED BY <2>3, <2>5, <2>6
<1>7. PICK g \in [D -> V] : g = [i \in D |-> IF dep[i] = i THEN first[i] ELSE next[i][g[dep[i]]]]
  <2> HIDE DEF D, V, r, dep, first, next
  <2>1. \E g : Recursion(D, V, dep, first, next, g)
    BY <1>4, <1>5, <1>6, RecursionIsDefined, Zenon
  <2> QED BY <2>1 DEF Recursion
<1>8. g = [i \in 1 .. a + b |->
             IF i + b - 1 > a THEN <<>>
             ELSE IF Holds(t, i, p) THEN <<i>> \o g[i + b] ELSE g[i + 1]]
  <2>1. ASSUME NEW i \in D
        PROVE  g[i] = IF i + b - 1 > a THEN <<>>
                      ELSE IF Holds(t, i, p) THEN <<i>> \o g[i + b] ELSE g[i + 1]
    <3>1. dep[i] \in D /\ g[dep[i]] \in V
      BY <1>4, <1>7
    <3>2. g[i] = IF dep[i] = i THEN first[i] ELSE next[i][g[dep[i]]]
      BY <1>7
    <3>3. CASE i + b - 1 > a
      BY <3>2, <3>3
    <3>4. CASE ~(i + b - 1 > a) /\ Holds(t, i, p)
      <4>1. dep[i] = i + b /\ dep[i] # i
        BY <1>1, <3>4
      <4> QED BY <3>1, <3>2, <3>4, <4>1
    <3>5. CASE ~(i + b - 1 > a) /\ ~Holds(t, i, p)
      <4>1. dep[i] = i + 1 /\ dep[i] # i
        BY <3>5
      <4> QED BY <3>1, <3>2, <3>5, <4>1
    <3> QED BY <3>3, <3>4, <3>5
  <2> QED BY <1>7, <2>1
<1>9. From = [i \in 1 .. a + b |->
                IF i + b - 1 > a THEN <<>>
                ELSE IF Holds(t, i, p) THEN <<i>> \o From[i + b] ELSE From[i + 1]]
  BY <1>2, <1>8, Zenon
<1>10. Inherits(D, V, dep, From)
  <2> SUFFICES ASSUME NEW i \in D, dep[i] # i => From[dep[i]] \in V PROVE From[i] \in V
    BY DEF Inherits
  <2>1. From[i] = IF i + b - 1 > a THEN <<>>
                  ELSE IF Holds(t, i, p) THEN <<i>> \o From[i + b] ELSE From[i + 1]
    BY <1>9
  <2>2. CASE i + b - 1 > a
    BY <2>1, <2>2
  <2>3. CASE ~(i + b - 1 > a) /\ Holds(t, i, p)
    <3>1. dep[i] = i + b /\ dep[i] # i
      BY <1>1, <2>3
    <3>2. <<i>> \o From[i + b] \in V
      BY <3>1, FirstThenRest DEF Offsets
    <3> QED BY <2>1, <2>3, <3>2
  <2>4. CASE ~(i + b - 1 > a) /\ ~Holds(t, i, p)
    <3>1. dep[i] = i + 1 /\ dep[i] # i
      BY <2>4
    <3> QED BY <2>1, <2>4, <3>1
  <2> QED BY <2>2, <2>3, <2>4
<1>11. \A i \in D : From[i] \in V
  <2> HIDE DEF D, V, r, dep
  <2> QED BY <1>4, <1>5, <1>10, RecursionIsTyped, Zenon
<1> QED BY <1>3, <1>4, <1>11

LEMMA BytesAre ==
  ASSUME NEW L, NEW t \in Seq(L), NEW m \in Nat, NEW n \in Nat
  PROVE  Bytes(t, m + 1, n) \in Seq(L)
<1>1. PICK l \in Nat : l = Len(t)
  BY LenProperties
<1>2. PICK k \in Nat : k = Min({n, l}) /\ k <= l
  BY MinOfTwo
<1>3. PICK j \in Nat : j = m + 1 /\ j # 0
  OBVIOUS
<1>4. SubSeq(t, j, k) \in Seq(L)
  <2>1. k \in Int /\ k <= Len(t)
    BY <1>1, <1>2
  <2> QED BY <1>3, <2>1, SubSeqTyped
<1> QED BY <1>1, <1>2, <1>3, <1>4, Zenon DEF Bytes

\* What has been copied of a text.
Copies(L) == [pos : Nat, out : Seq(L)]

LEMMA CopiesGoOn ==
  ASSUME NEW L, NEW t \in Seq(L), NEW u \in Seq(L), NEW was \in Copies(L), NEW k \in Offsets,
         NEW l \in Nat
  PROVE  [pos |-> k - 1 + l, out |-> was.out \o Bytes(t, was.pos + 1, k - 1) \o u] \in Copies(L)
<1>1. was.pos \in Nat /\ was.out \in Seq(L) /\ k - 1 \in Nat /\ k - 1 + l \in Nat
  BY DEF Copies, Offsets
<1>2. PICK x \in Seq(L) : x = Bytes(t, was.pos + 1, k - 1)
  BY <1>1, BytesAre
<1>3. was.out \o x \o u \in Seq(L)
  BY <1>1, <1>2, ConcatProperties, Zenon
<1> QED BY <1>1, <1>2, <1>3 DEF Copies

LEMMA ReplacedIsText ==
  ASSUME NEW L, NEW t \in Seq(L), NEW o \in Seq(Offsets), NEW l \in Nat, NEW u \in Seq(L)
  PROVE  executeReplacements(t, o, l, u).text \in Seq(L)
<1>1. PICK N \in Nat : N = Len(o)
  BY LenProperties
<1> DEFINE NextCopy(n, was) == [pos |-> o[n] - 1 + l,
                             out |-> was.out \o Bytes(t, was.pos + 1, o[n] - 1) \o u]
           NoCopy == [pos |-> 0, out |-> <<>>]
<1>2. PICK Upto : Upto = CHOOSE f :
        f = [n \in 0 .. N |-> IF n = 0 THEN NoCopy ELSE NextCopy(n, f[n - 1])]
  OBVIOUS
<1>3. executeReplacements(t, o, l, u).text
        = Upto[N].out \o SubSeq(t, Upto[N].pos + 1, Len(t))
  <2>1. PICK x : x = executeReplacements(t, o, l, u)
    OBVIOUS
  <2>2. PICK fits, y : fits = (Upto[N].pos <= Len(t))
                      /\ y = Upto[N].out \o SubSeq(t, Upto[N].pos + 1, Len(t))
    BY Zenon
  <2>3. x = [ok |-> fits, text |-> y]
    BY <1>1, <1>2, <2>1, <2>2, Zenon DEF executeReplacements
  <2>4. x.text = y
    BY <2>3
  <2> QED BY <2>1, <2>2, <2>4, Zenon
<1> DEFINE D == 0 .. N
           V == Copies(L)
           r == [n \in D |-> n]
           dep == [n \in D |-> IF n = 0 THEN 0 ELSE n - 1]
           first == [n \in D |-> NoCopy]
           next == [n \in D |-> [v \in V |-> IF n = 0 THEN v ELSE NextCopy(n, v)]]
<1>4. \A n \in D, v \in V : n # 0 => NextCopy(n, v) \in V
  <2> SUFFICES ASSUME NEW n \in D, NEW v \in V, n # 0 PROVE NextCopy(n, v) \in V
    OBVIOUS
  <2>1. o[n] \in Offsets
    BY <1>1, LenProperties
  <2> QED BY <2>1, CopiesGoOn
<1>5. NoCopy \in V
  BY DEF Copies
<1>6. r \in [D -> 0 .. N] /\ dep \in [D -> D] /\ N \in D
  OBVIOUS
<1>7. Falls(D, r, dep)
  BY DEF Falls
<1> HIDE DEF NextCopy, NoCopy, V
<1>8. first \in [D -> V] /\ next \in [D -> [V -> V]]
  BY <1>4, <1>5
<1>9. PICK g \in [D -> V] : g = [n \in D |-> IF dep[n] = n THEN first[n] ELSE next[n][g[dep[n]]]]
  <2> HIDE DEF D, r, dep, first, next
  <2>1. \E g : Recursion(D, V, dep, first, next, g)
    BY <1>6, <1>7, <1>8, RecursionIsDefined, Zenon
  <2> QED BY <2>1 DEF Recursion
<1>10. g = [n \in 0 .. N |-> IF n = 0 THEN NoCopy ELSE NextCopy(n, g[n - 1])]
  <2>1. ASSUME NEW n \in D PROVE g[n] = IF n = 0 THEN NoCopy ELSE NextCopy(n, g[n - 1])
    <3>1. g[n] = IF dep[n] = n THEN first[n] ELSE next[n][g[dep[n]]]
      BY <1>9
    <3>2. CASE n = 0
      BY <3>1, <3>2
    <3>3. CASE n # 0
      <4>1. dep[n] = n - 1 /\ dep[n] # n /\ n - 1 \in D
        BY <3>3
      <4>2. g[n - 1] \in V
        BY <1>9, <4>1
      <4> QED BY <3>1, <3>3, <4>1, <4>2
    <3> QED BY <3>2, <3>3
  <2> QED BY <1>9, <2>1
<1>11. Upto = [n \in 0 .. N |-> IF n = 0 THEN NoCopy ELSE NextCopy(n, Upto[n - 1])]
  BY <1>2, <1>10, Zenon
<1>12. Inherits(D, V, dep, Upto)
  <2> SUFFICES ASSUME NEW n \in D, dep[n] # n => Upto[dep[n]] \in V PROVE Upto[n] \in V
    BY DEF Inherits
  <2>1. Upto[n] = IF n = 0 THEN NoCopy ELSE NextCopy(n, Upto[n - 1])
    BY <1>11
  <2>2. CASE n = 0
    BY <1>5, <2>1, <2>2
  <2>3. CASE n # 0
    <3>1. dep[n] = n - 1 /\ dep[n] # n
      BY <2>3
    <3> QED BY <1>4, <2>1, <2>3, <3>1
  <2> QED BY <2>2, <2>3
<1>13. Upto[N] \in Copies(L)
  <2>1. \A n \in D : Upto[n] \in V
    <3> HIDE DEF D, r, dep
    <3> QED BY <1>6, <1>7, <1>12, RecursionIsTyped, Zenon
  <2> QED BY <1>6, <2>1 DEF V
<1>14. PICK p \in Nat, x \in Seq(L) : p = Upto[N].pos /\ x = Upto[N].out
  BY <1>13 DEF Copies
<1>15. PICK z \in Nat : z = Len(t)
  BY LenProperties
<1>16. SubSeq(t, p + 1, z) \in Seq(L)
  BY <1>15, SubSeqTyped
<1>17. x \o SubSeq(t, p + 1, z) \in Seq(L)
  BY <1>14, <1>16, ConcatProperties, Zenon
<1> QED BY <1>3, <1>14, <1>15, <1>17

\* What is put together of texts is a text.
LEMMA FlatIsText ==
  ASSUME NEW L, NEW s \in Seq(Seq(L)) PROVE FlattenSeq(s) \in Seq(L)
<1>1. PICK N \in Nat : N = Len(s) /\ \A n \in 1 .. N : s[n] \in Seq(L)
  BY LenProperties
<1>2. CASE N = 0
  <2>1. s = <<>>
    BY <1>1, <1>2, EmptySeq
  <2>2. Len(s) = 0
    BY <1>1, <1>2
  <2>3. FlattenSeq(s) = s
    BY <2>2 DEF FlattenSeq
  <2>4. <<>> \in Seq(L)
    BY EmptySeq
  <2> QED BY <2>1, <2>3, <2>4, Zenon
<1>3. CASE N # 0
  <2>1. PICK flatten : flatten = CHOOSE f :
          f = [i \in 1 .. N |-> IF i = 1 THEN s[i] ELSE f[i - 1] \o s[i]]
    OBVIOUS
  <2>2. FlattenSeq(s) = flatten[N]
    BY <1>1, <1>3, <2>1, Zenon DEF FlattenSeq
  <2> DEFINE D == 1 .. N
             V == Seq(L)
             r == [i \in D |-> i]
             dep == [i \in D |-> IF i = 1 THEN 1 ELSE i - 1]
             first == [i \in D |-> s[i]]
             next == [i \in D |-> [v \in V |-> v \o s[i]]]
  <2>3. r \in [D -> 0 .. N] /\ dep \in [D -> D] /\ N \in D
    BY <1>3
  <2>4. Falls(D, r, dep)
    BY DEF Falls
  <2>5. \A i \in D : s[i] \in V /\ \A v \in V : v \o s[i] \in V
    BY <1>1, ConcatProperties, Zenon
  <2> HIDE DEF V
  <2>6. first \in [D -> V] /\ next \in [D -> [V -> V]]
    BY <2>5
  <2>7. PICK g \in [D -> V] :
          g = [i \in D |-> IF dep[i] = i THEN first[i] ELSE next[i][g[dep[i]]]]
    <3> HIDE DEF D, r, dep, first, next
    <3>1. \E g : Recursion(D, V, dep, first, next, g)
      BY <2>3, <2>4, <2>6, RecursionIsDefined, Zenon
    <3> QED BY <3>1 DEF Recursion
  <2>8. g = [i \in 1 .. N |-> IF i = 1 THEN s[i] ELSE g[i - 1] \o s[i]]
    <3>1. ASSUME NEW i \in D PROVE g[i] = IF i = 1 THEN s[i] ELSE g[i - 1] \o s[i]
      <4>1. g[i] = IF dep[i] = i THEN first[i] ELSE next[i][g[dep[i]]]
        BY <2>7
      <4>2. CASE i = 1
        BY <4>1, <4>2
      <4>3. CASE i # 1
        <5>1. dep[i] = i - 1 /\ dep[i] # i /\ i - 1 \in D
          BY <4>3
        <5>2. g[i - 1] \in V
          BY <2>7, <5>1
        <5> QED BY <4>1, <4>3, <5>1, <5>2
      <4> QED BY <4>2, <4>3
    <3> QED BY <2>7, <3>1
  <2>9. flatten = [i \in 1 .. N |-> IF i = 1 THEN s[i] ELSE flatten[i - 1] \o s[i]]
    BY <2>1, <2>8, Zenon
  <2>10. Inherits(D, V, dep, flatten)
    <3> SUFFICES ASSUME NEW i \in D, dep[i] # i => flatten[dep[i]] \in V PROVE flatten[i] \in V
      BY DEF Inherits
    <3>1. flatten[i] = IF i = 1 THEN s[i] ELSE flatten[i - 1] \o s[i]
      BY <2>9
    <3>2. CASE i = 1
      BY <2>5, <3>1, <3>2
    <3>3. CASE i # 1
      <4>1. dep[i] = i - 1 /\ dep[i] # i
        BY <3>3
      <4> QED BY <2>5, <3>1, <3>3, <4>1
    <3> QED BY <3>2, <3>3
  <2>11. \A i \in D : flatten[i] \in V
    <3> HIDE DEF D, r, dep
    <3> QED BY <2>3, <2>4, <2>10, RecursionIsTyped, Zenon
  <2> QED BY <2>2, <2>3, <2>11 DEF V
<1> QED BY <1>2, <1>3

LEMMA PlanIsOffsets ==
  ASSUME NEW L, NEW t \in Seq(L), NEW p \in Seq(L), p # <<>>
  PROVE  planReplacements(t, p) \in Seq(Offsets)
<1>1. PICK a \in Nat, b \in Nat : a = Len(t) /\ b = Len(p) /\ b # 0
  BY LenProperties, EmptySeq
<1>2. bufSize \in Nat /\ bufSize # 0
  BY FilesAssumption
<1> DEFINE read(k) == (k - 1) * bufSize
           slid(k) == read(k) - Min({b - 1, read(k)})
           at(k) == Occurrences(Bytes(t, slid(k) + 1, k * bufSize), p)
           Found(k) == [n \in DOMAIN at(k) |-> slid(k) + at(k)[n]]
           N == (a + bufSize - 1) \div bufSize
           all == [k \in 1 .. N |-> Found(k)]
<1>3. planReplacements(t, p) = FlattenSeq(all)
  BY <1>1, Zenon DEF planReplacements
<1>4. ASSUME NEW k \in Nat, k # 0 PROVE Found(k) \in Seq(Offsets)
  <2>1. PICK w \in Nat : w = read(k)
    <3>1. PICK j \in Nat : j = k - 1
      BY <1>4
    <3>2. j * bufSize \in Nat
      BY <1>2
    <3> QED BY <3>1, <3>2
  <2>2. PICK s \in Nat : s = slid(k)
    <3>1. PICK m \in Int : m = Min({b - 1, w}) /\ m <= w
      BY <1>1, <2>1, MinOfTwo
    <3>2. w - m \in Nat
      BY <2>1, <3>1
    <3> QED BY <2>1, <3>1, <3>2
  <2>3. PICK e \in Nat : e = k * bufSize
    BY <1>2
  <2>4. Bytes(t, s + 1, e) \in Seq(L)
    BY BytesAre
  <2>5. PICK o : o = at(k)
    OBVIOUS
  <2>6. o \in Seq(Offsets)
    BY <2>2, <2>3, <2>4, <2>5, OccurrencesAre, Zenon
  <2>7. Found(k) = [n \in DOMAIN o |-> s + o[n]]
    BY <2>2, <2>5, Zenon
  <2> HIDE DEF Found
  <2>8. \A n \in DOMAIN o : s + o[n] \in Offsets
    BY <2>6 DEF Offsets
  <2>9. DOMAIN o = 1 .. Len(o) /\ Len(o) \in Nat
    BY <2>6, LenProperties
  <2> QED BY <2>7, <2>8, <2>9
<1>5. N \in Nat
  <2>1. PICK x \in Nat : x = a + bufSize - 1
    BY <1>2
  <2>2. x \div bufSize \in Nat
    BY <1>2, <2>1
  <2> QED BY <2>1, <2>2
<1>6. all \in Seq(Seq(Offsets))
  <2> HIDE DEF Found, N
  <2>1. \A k \in 1 .. N : Found(k) \in Seq(Offsets)
    BY <1>4, <1>5
  <2> QED BY <1>5, <2>1
<1> HIDE DEF all
<1> QED BY <1>3, <1>6, FlatIsText

-----------------------------------------------------------------------------
(* The types of a turn.                                                    *)

-----------------------------------------------------------------------------
(* The types of the file tools.                                            *)

FileType == [text : Seq(Alphabet), mode : FileModes]
Stages == {"begin", "opened", "planned", "copied", "taken", "statted", "writing", "over"}

\* How far a call of tool c may be, with the number of its temporary file and how
\* many files there are.
Typed(c, d, temporary, files) ==
  /\ d.at \in Stages /\ d.file \in 0 .. files /\ d.mode \in FileModes
  /\ c.tool \notin {"list", "search"} => d.text \in Seq(Alphabet)
  /\ d.at \in {"taken", "statted", "writing"} => c.tool \notin {"list", "search"}
  /\ d.at = "writing" \/ (d.at = "opened" /\ c.tool \in {"read", "edit"}) => d.file # 0
  /\ c.tool = "edit" /\ d.at \in {"planned", "opened"} => d.plan \in Seq(Offsets)
  /\ c.tool = "edit" /\ d.at \in {"opened", "copied"} => temporary # 0

FilesTyped ==
  /\ disk \in Seq(FileType) /\ names \in [Names -> 0 .. Len(disk)]
  /\ \A i \in DOMAIN calls : Typed(calls[i], doing[i], names[Temporary(i)], Len(disk))

LEMMA CallTexts ==
  ASSUME NEW c \in ToolCalls
  PROVE  /\ c.tool = "write" => c.text \in Seq(Alphabet)
         /\ c.tool = "edit" => /\ c.text \in Seq(Alphabet) /\ c.text # <<>>
                              /\ c.new \in Seq(Alphabet)
<1>1. /\ c.tool = "write" => c.text \in Written
      /\ c.tool = "edit" => c.text \in Patterns /\ c.new \in Written
  BY DEF ToolCalls, readFileTool, deleteFileTool, listDirectoryTool, chmodTool,
         searchCodebaseTool, writeFileTool, editFileTool, moveFileTool, copyFileTool,
         OfPath, Across, Call
<1> QED BY <1>1, FilesAssumption

LEMMA TypedInit == FilesInit => FilesTyped
<1> SUFFICES ASSUME FilesInit PROVE FilesTyped
  OBVIOUS
<1>1. PICK t \in Texts \cup AllTexts, u \in Written \cup {<<>>} :
        /\ disk = <<File(t, "exec")>> \o (IF u = <<>> THEN <<>> ELSE <<File(u, "plain")>>)
        /\ names = [x \in Names |-> IF x = PathOrder[1] THEN 1
                                ELSE IF x \in Paths /\ u # <<>> THEN 2 ELSE 0]
  BY DEF FilesInit
<1>2. t \in Seq(Alphabet) /\ u \in Seq(Alphabet)
  <2>1. t \in Seq(Alphabet) /\ (u \in Written => u \in Seq(Alphabet))
    BY FilesAssumption, Zenon
  <2> QED BY <2>1, EmptySeq
<1>3. File(t, "exec") \in FileType /\ File(u, "plain") \in FileType
  BY <1>2 DEF File, FileType, FileModes
<1>4. disk \in Seq(FileType) /\ Len(disk) = IF u = <<>> THEN 1 ELSE 2
  <2>1. PICK a \in FileType, b \in FileType : a = File(t, "exec") /\ b = File(u, "plain")
    BY <1>3
  <2>2. CASE u = <<>>
    <3>1. PICK rest : rest = (IF u = <<>> THEN <<>> ELSE <<File(u, "plain")>>)
      OBVIOUS
    <3>2. rest = <<>>
      BY <2>2, <3>1
    <3>4. disk = <<a>> \o rest
      BY <1>1, <2>1, <3>1, Zenon
    <3>3. <<a>> \in Seq(FileType)
      BY <2>1
    <3>5. disk = <<a>>
      BY <3>2, <3>3, <3>4, ConcatEmptySeq
    <3> QED BY <2>2, <3>5
  <2>3. CASE u # <<>>
    <3>1. PICK rest : rest = (IF u = <<>> THEN <<>> ELSE <<File(u, "plain")>>)
      OBVIOUS
    <3>2. rest = <<b>>
      BY <2>1, <2>3, <3>1
    <3>3. disk = <<a>> \o rest
      BY <1>1, <2>1, <3>1, Zenon
    <3>4. /\ <<a>> \in Seq(FileType) /\ Len(<<a>>) = 1
          /\ <<b>> \in Seq(FileType) /\ Len(<<b>>) = 1
      BY <2>1
    <3>5. disk \in Seq(FileType) /\ Len(disk) = 1 + 1
      BY <3>2, <3>3, <3>4, ConcatProperties, Zenon
    <3> QED BY <2>3, <3>5
  <2> QED BY <2>2, <2>3
<1>5. names \in [Names -> 0 .. Len(disk)]
  BY <1>1, <1>4
<1>6. \A i \in DOMAIN calls : doing[i] = NotBegun
  BY DEF FilesInit
<1>7. \A c, n : Typed(c, NotBegun, n, Len(disk))
  BY <1>4 DEF Typed, NotBegun, Stages, FileModes
<1> QED BY <1>4, <1>5, <1>6, <1>7 DEF FilesTyped

\* What is named is a file.
LEMMA NamedFile ==
  ASSUME FilesTyped, NEW n \in 1 .. Len(disk)
  PROVE  disk[n] \in FileType /\ disk[n].text \in Seq(Alphabet) /\ disk[n].mode \in FileModes
<1>1. disk[n] \in FileType
  BY LenProperties DEF FilesTyped
<1> QED BY <1>1 DEF FileType

LEMMA OpenedIs ==
  ASSUME FilesTyped, NEW p \in Names, Opened(p)
  PROVE  /\ names[p] \in 1 .. Len(disk)
         /\ At(p).text \in Seq(Alphabet) /\ At(p).mode \in FileModes
<1>1. names[p] \in 1 .. Len(disk)
  BY LenProperties DEF FilesTyped, Opened
<1> QED BY <1>1, NamedFile DEF At

\* More files do no harm.
LEMMA TypedGrows ==
  ASSUME NEW c, NEW d, NEW n, NEW l \in Nat, NEW m \in Nat, l <= m, Typed(c, d, n, l)
  PROVE  Typed(c, d, n, m)
BY DEF Typed

\* A step of a call.
LEMMA TypedStep ==
  ASSUME FilesIInv, FilesTyped, NEW i \in DOMAIN calls, NEW d,
         doing' = [doing EXCEPT ![i] = d], UNCHANGED calls,
         disk' \in Seq(FileType), Len(disk) <= Len(disk'), names' \in [Names -> 0 .. Len(disk')],
         \A j \in DOMAIN calls \ {i} : names'[Temporary(j)] = names[Temporary(j)],
         Typed(calls[i], d, names'[Temporary(i)], Len(disk'))
  PROVE  FilesTyped'
<1>1. doing' = [k \in DOMAIN calls |-> IF k = i THEN d ELSE doing[k]]
  BY DEF FilesIInv
<1>2. Len(disk) \in Nat /\ Len(disk') \in Nat
  BY LenProperties DEF FilesTyped
<1>3. ASSUME NEW j \in DOMAIN calls
      PROVE  Typed(calls'[j], doing'[j], names'[Temporary(j)], Len(disk'))
  <2>1. CASE j = i
    BY <1>1, <2>1
  <2>2. CASE j # i
    <3>1. Typed(calls[j], doing[j], names[Temporary(j)], Len(disk))
      BY DEF FilesTyped
    <3>2. Typed(calls[j], doing[j], names[Temporary(j)], Len(disk'))
      BY <1>2, <3>1, TypedGrows, Zenon
    <3> QED BY <1>1, <2>2, <3>2
  <2> QED BY <2>1, <2>2
<1> QED BY <1>3 DEF FilesTyped

LEMMA TypedLook ==
  ASSUME FilesIInv, FilesTyped, NEW i \in DOMAIN calls, NEW d,
         doing' = [doing EXCEPT ![i] = d], UNCHANGED <<calls, names, disk>>,
         Typed(calls[i], d, names[Temporary(i)], Len(disk))
  PROVE  FilesTyped'
<1>1. Len(disk) \in Nat
  BY LenProperties DEF FilesTyped
<1>2. /\ disk' \in Seq(FileType) /\ Len(disk) <= Len(disk')
      /\ names' \in [Names -> 0 .. Len(disk')]
      /\ Typed(calls[i], d, names'[Temporary(i)], Len(disk'))
  BY <1>1 DEF FilesTyped
<1> QED BY <1>2, TypedStep

LEMMA TypedReturn ==
  ASSUME FilesIInv, FilesTyped, NEW i \in DOMAIN calls, NEW r, Returns(i, r)
  PROVE  \E d : /\ doing' = [doing EXCEPT ![i] = d] /\ d.at = "over"
                /\ \A n : Typed(calls[i], d, n, Len(disk))
<1> DEFINE d == [doing[i] EXCEPT !.at = "over", !.result = r]
<1>1. OfProgress(doing[i]) /\ Typed(calls[i], doing[i], names[Temporary(i)], Len(disk))
  BY DEF FilesIInv, OfProgress, Progress, FilesTyped
<1>2. /\ d.at = "over" /\ d.file = doing[i].file /\ d.mode = doing[i].mode
      /\ d.text = doing[i].text
  BY <1>1, ProgressFields DEF OfProgress
<1>3. doing' = [doing EXCEPT ![i] = d]
  BY DEF Returns, FilesIInv
<1> HIDE DEF d
<1>4. \A n : Typed(calls[i], d, n, Len(disk))
  BY <1>1, <1>2 DEF Typed, Stages
<1> QED BY <1>2, <1>3, <1>4

LEMMA TypedReads ==
  ASSUME FilesIInv, FilesTyped, NEW i \in DOMAIN calls,
         Missing(i) \/ ReadFile(i) \/ LookAround(i)
  PROVE  FilesTyped'
<1>1. /\ OfProgress(doing[i]) /\ Typed(calls[i], doing[i], names[Temporary(i)], Len(disk))
      /\ UNCHANGED <<calls, names, disk>> /\ calls[i] \in ToolCalls
  BY DEF FilesIInv, OfProgress, Progress, FilesTyped, Missing, ReadFile, LookAround, Quiet
<1>2. CASE \E r : Returns(i, r)
  BY <1>1, <1>2, TypedReturn, TypedLook
<1>3. CASE calls[i].tool = "read" /\ doing[i].at = "begin" /\ Opened(calls[i].path)
           /\ doing' = [doing EXCEPT ![i].at = "opened", ![i].file = names[calls[i].path]]
  <2> DEFINE d == [doing[i] EXCEPT !.at = "opened", !.file = names[calls[i].path]]
  <2>1. /\ d.at = "opened" /\ d.file = names[calls[i].path] /\ d.mode = doing[i].mode
        /\ d.text = doing[i].text
    BY <1>1, ProgressFields DEF OfProgress
  <2>2. doing' = [doing EXCEPT ![i] = d]
    BY <1>3 DEF FilesIInv
  <2>3. names[calls[i].path] \in 1 .. Len(disk)
    BY <1>3, PathNames, OpenedIs
  <2>4. names[calls[i].path] \in 0 .. Len(disk) /\ names[calls[i].path] # 0
    BY <2>3
  <2> HIDE DEF d
  <2>5. Typed(calls[i], d, names[Temporary(i)], Len(disk))
    BY <1>1, <1>3, <2>1, <2>4 DEF Typed, Stages
  <2> QED BY <1>1, <2>2, <2>5, TypedLook
<1>4. ASSUME calls[i].tool \in {"list", "search"}, NEW at1 \in {"opened"}, NEW plan1, NEW text1,
             doing' = [doing EXCEPT ![i] =
                         [doing[i] EXCEPT !.at = at1, !.plan = plan1, !.text = text1]]
      PROVE  FilesTyped'
  <2> DEFINE d == [doing[i] EXCEPT !.at = at1, !.plan = plan1, !.text = text1]
  <2>1. d.at = "opened" /\ d.file = doing[i].file /\ d.mode = doing[i].mode
    BY <1>1, ProgressFields DEF OfProgress
  <2> HIDE DEF d
  <2>2. Typed(calls[i], d, names[Temporary(i)], Len(disk))
    BY <1>1, <1>4, <2>1 DEF Typed, Stages
  <2> QED BY <1>1, <1>4, <2>2, TypedLook DEF d
<1>5. ASSUME LookAround(i), ~\E r : Returns(i, r)
      PROVE  /\ calls[i].tool \in {"list", "search"}
             /\ \E plan1, text1 :
                  doing' = [doing EXCEPT ![i] =
                              [doing[i] EXCEPT !.at = "opened", !.plan = plan1, !.text = text1]]
  <2>1. calls[i].tool \in {"list", "search"}
    BY <1>5 DEF LookAround
  <2>2. CASE doing' = [doing EXCEPT ![i].at = "opened", ![i].plan = Listed]
    <3>1. [doing[i] EXCEPT !.at = "opened", !.plan = Listed]
            = [doing[i] EXCEPT !.at = "opened", !.plan = Listed, !.text = doing[i].text]
      BY <1>1, ProgressFields DEF OfProgress
    <3>2. doing' = [doing EXCEPT ![i] = [doing[i] EXCEPT !.at = "opened", !.plan = Listed]]
      BY <2>2 DEF FilesIInv
    <3> QED BY <2>1, <3>1, <3>2
  <2>3. ASSUME doing[i].at = "opened", NEW plan1, NEW text1,
               doing' = [doing EXCEPT ![i].plan = plan1, ![i].text = text1]
        PROVE  doing' = [doing EXCEPT ![i] =
                           [doing[i] EXCEPT !.at = "opened", !.plan = plan1, !.text = text1]]
    <3>1. [doing[i] EXCEPT !.plan = plan1, !.text = text1]
            = [doing[i] EXCEPT !.at = "opened", !.plan = plan1, !.text = text1]
      BY <1>1, <2>3, ProgressFields DEF OfProgress
    <3>2. doing' = [doing EXCEPT ![i] = [doing[i] EXCEPT !.plan = plan1, !.text = text1]]
      BY <2>3 DEF FilesIInv
    <3> QED BY <3>1, <3>2
  <2>4. \/ doing' = [doing EXCEPT ![i].at = "opened", ![i].plan = Listed]
        \/ doing[i].at = "opened" /\ \E more1, rest :
             doing' = [doing EXCEPT ![i].plan = rest, ![i].text = more1]
    BY <1>5 DEF LookAround
  <2> QED BY <2>1, <2>2, <2>3, <2>4
<1> QED BY <1>2, <1>3, <1>4, <1>5 DEF Missing, ReadFile

\* An edit that is planned, and the steps of a copy.
LEMMA TypedPlans ==
  ASSUME FilesIInv, FilesTyped, NEW i \in DOMAIN calls,
         CopyFile(i) \/ LocalEditFile(i) \/ Stat(i) \/ Plan(i)
  PROVE  FilesTyped'
<1>1. /\ OfProgress(doing[i]) /\ Typed(calls[i], doing[i], names[Temporary(i)], Len(disk))
      /\ UNCHANGED <<calls, names, disk>> /\ calls[i] \in ToolCalls
  BY DEF FilesIInv, OfProgress, Progress, FilesTyped, CopyFile, LocalEditFile, Stat, Plan, Quiet
<1>2. CASE \E r : Returns(i, r)
  BY <1>1, <1>2, TypedReturn, TypedLook
<1>3. ASSUME Opened(calls[i].path)
      PROVE  /\ At(calls[i].path).text \in Seq(Alphabet)
             /\ At(calls[i].path).mode \in FileModes
  BY <1>3, PathNames, OpenedIs
<1>4. ASSUME calls[i].tool \notin {"list", "search"}, NEW t \in Seq(Alphabet), NEW r,
             doing' = [doing EXCEPT ![i] =
                         [doing[i] EXCEPT !.at = "taken", !.text = t, !.result = r]]
      PROVE  FilesTyped'
  <2> DEFINE d == [doing[i] EXCEPT !.at = "taken", !.text = t, !.result = r]
  <2>1. d.at = "taken" /\ d.file = doing[i].file /\ d.mode = doing[i].mode /\ d.text = t
    BY <1>1, ProgressFields DEF OfProgress
  <2> HIDE DEF d
  <2>2. Typed(calls[i], d, names[Temporary(i)], Len(disk))
    BY <1>1, <1>4, <2>1 DEF Typed, Stages
  <2> QED BY <1>1, <1>4, <2>2, TypedLook DEF d
<1>5. CASE CopyFile(i)
  <2>1. PICK t \in Seq(Alphabet) : t = At(calls[i].path).text
    BY <1>3, <1>5 DEF CopyFile
  <2>2. doing' = [doing EXCEPT ![i] = [doing[i] EXCEPT !.at = "taken", !.text = t]]
    BY <1>5, <2>1 DEF CopyFile, FilesIInv
  <2>3. [doing[i] EXCEPT !.at = "taken", !.text = t]
          = [doing[i] EXCEPT !.at = "taken", !.text = t, !.result = doing[i].result]
    BY <1>1, ProgressFields DEF OfProgress
  <2>4. calls[i].tool \notin {"list", "search"}
    BY <1>5 DEF CopyFile, Is
  <2> QED BY <1>4, <2>2, <2>3, <2>4
<1>6. CASE LocalEditFile(i)
  <2>1. PICK alone : alone = AloneEdit(calls[i], Tree)
    OBVIOUS
  <2>2. \/ \E r : Returns(i, r)
        \/ /\ alone.result # Failed
           /\ doing' = [doing EXCEPT ![i].at = "taken",
                                     ![i].text = alone.tree[calls[i].path].text,
                                     ![i].result = alone.result]
    BY <1>6, <2>1 DEF LocalEditFile
  <2>3. PICK p \in Paths : p = calls[i].path /\ Opened(p)
    BY <1>1, <1>6, CallPaths DEF LocalEditFile
  <2>4. Tree[p] = At(p)
    BY <2>3 DEF Tree
  <2>5. calls[i].tool = "edit"
    BY <1>6 DEF LocalEditFile, Is
  <2>6. alone.result # Failed => alone.tree[p].text \in Seq(Alphabet)
    <3>1. PICK o : o = Occurrences(Tree[p].text, calls[i].text)
      OBVIOUS
    <3>2. o \in Seq(Offsets)
      BY <1>1, <1>3, <2>3, <2>4, <2>5, <3>1, CallTexts, OccurrencesAre
    <3>3. PICK t : t = executeReplacements(Tree[p].text, o, Len(calls[i].text), calls[i].new).text
      OBVIOUS
    <3>4. Len(calls[i].text) \in Nat
      BY <1>1, <2>5, CallTexts, LenProperties
    <3>5. t \in Seq(Alphabet)
      BY <1>1, <1>3, <2>3, <2>4, <2>5, <3>2, <3>3, <3>4, CallTexts, ReplacedIsText
    <3>6. \/ alone = [tree |-> Tree, result |-> Failed]
          \/ alone = [tree |-> [Tree EXCEPT ![p].text = t], result |-> Done(<<Len(o)>>)]
      BY <2>1, <2>3, <3>1, <3>3, Zenon DEF AloneEdit
    <3>7. PICK tree1 : tree1 = [Tree EXCEPT ![p].text = t]
      OBVIOUS
    <3>8. tree1[p].text = t
      <4>1. names[p] \in 1 .. Len(disk)
        BY <2>3, PathNames, OpenedIs
      <4>2. PICK f \in FileType : f = Tree[p]
        BY <2>4, <4>1, NamedFile DEF At
      <4>3. PICK T : T = Tree /\ T = [q \in Paths |-> T[q]]
        BY DEF Tree
      <4>4. tree1[p] = [f EXCEPT !.text = t]
        BY <3>7, <4>2, <4>3
      <4>5. [f EXCEPT !.text = t].text = t
        BY DEF FileType
      <4> QED BY <4>4, <4>5
    <3>9. CASE alone = [tree |-> Tree, result |-> Failed]
      <4>1. alone.result = Failed
        BY <3>9
      <4> QED BY <4>1
    <3>10. CASE alone = [tree |-> [Tree EXCEPT ![p].text = t], result |-> Done(<<Len(o)>>)]
      <4>1. PICK r : r = Done(<<Len(o)>>)
        OBVIOUS
      <4>2. alone = [tree |-> tree1, result |-> r]
        BY <3>7, <3>10, <4>1, Zenon
      <4>3. alone.tree = tree1
        BY <4>2
      <4> QED BY <3>5, <3>8, <4>3
    <3> QED BY <3>6, <3>9, <3>10
  <2>7. CASE alone.result # Failed
             /\ doing' = [doing EXCEPT ![i].at = "taken",
                                       ![i].text = alone.tree[calls[i].path].text,
                                       ![i].result = alone.result]
    <3>1. PICK t \in Seq(Alphabet) : t = alone.tree[calls[i].path].text
      BY <2>3, <2>6, <2>7
    <3>2. doing' = [doing EXCEPT ![i] =
                      [doing[i] EXCEPT !.at = "taken", !.text = t, !.result = alone.result]]
      BY <2>7, <3>1 DEF FilesIInv
    <3> QED BY <1>4, <2>5, <3>2
  <2> QED BY <1>2, <2>2, <2>7
<1>7. CASE Stat(i)
  <2>1. CASE Opened(calls[i].path)
    <3> DEFINE d == [doing[i] EXCEPT !.at = "statted", !.mode = At(calls[i].path).mode]
    <3>1. /\ d.at = "statted" /\ d.file = doing[i].file /\ d.text = doing[i].text
          /\ d.mode \in FileModes
      BY <1>1, <1>3, <2>1, ProgressFields DEF OfProgress
    <3>2. doing' = [doing EXCEPT ![i] = d] /\ doing[i].at = "taken"
      BY <1>7, <2>1 DEF Stat, FilesIInv
    <3> HIDE DEF d
    <3>3. Typed(calls[i], d, names[Temporary(i)], Len(disk))
      BY <1>1, <3>1, <3>2 DEF Typed, Stages
    <3> QED BY <1>1, <3>2, <3>3, TypedLook
  <2> QED BY <1>2, <1>7, <2>1 DEF Stat
<1>8. CASE Plan(i)
  <2>1. PICK o : o = planReplacements(At(calls[i].path).text, calls[i].text)
    OBVIOUS
  <2>2. /\ calls[i].tool = "edit" /\ Opened(calls[i].path)
        /\ \/ \E r : Returns(i, r)
           \/ doing' = [doing EXCEPT ![i].at = "planned", ![i].plan = o]
    BY <1>8, <2>1 DEF Plan, Is
  <2>3. o \in Seq(Offsets)
    BY <1>1, <1>3, <2>1, <2>2, CallTexts, PlanIsOffsets
  <2>4. CASE doing' = [doing EXCEPT ![i].at = "planned", ![i].plan = o]
    <3> DEFINE d == [doing[i] EXCEPT !.at = "planned", !.plan = o]
    <3>1. /\ d.at = "planned" /\ d.file = doing[i].file /\ d.text = doing[i].text
          /\ d.mode = doing[i].mode /\ d.plan = o
      BY <1>1, ProgressFields DEF OfProgress
    <3>2. doing' = [doing EXCEPT ![i] = d]
      BY <2>4 DEF FilesIInv
    <3> HIDE DEF d
    <3>3. Typed(calls[i], d, names[Temporary(i)], Len(disk))
      BY <1>1, <2>2, <2>3, <3>1 DEF Typed, Stages
    <3> QED BY <1>1, <3>2, <3>3, TypedLook
  <2> QED BY <1>2, <2>2, <2>4
<1> QED BY <1>5, <1>6, <1>7, <1>8

\* A file whose contents change, and one more file.
LEMMA FileChanged ==
  ASSUME FilesTyped, NEW n \in 1 .. Len(disk), NEW f \in FileType, disk' = [disk EXCEPT ![n] = f]
  PROVE  disk' \in Seq(FileType) /\ Len(disk') = Len(disk)
BY ExceptSeq DEF FilesTyped

LEMMA FileMade ==
  ASSUME FilesTyped, NEW f \in FileType, disk' = Append(disk, f)
  PROVE  disk' \in Seq(FileType) /\ Len(disk') = Len(disk) + 1
BY AppendProperties DEF FilesTyped

LEMMA TextChanged ==
  ASSUME FilesTyped, NEW n \in 1 .. Len(disk), NEW t \in Seq(Alphabet),
         disk' = [disk EXCEPT ![n].text = t]
  PROVE  disk' \in Seq(FileType) /\ Len(disk') = Len(disk)
<1>1. PICK f \in FileType : f = disk[n]
  BY NamedFile
<1>2. PICK g : g = [f EXCEPT !.text = t]
  OBVIOUS
<1>3. g \in FileType
  BY <1>2 DEF FileType
<1>4. disk' = [disk EXCEPT ![n] = g]
  BY <1>1, <1>2
<1> QED BY <1>3, <1>4, FileChanged

LEMMA TypedTruncate ==
  ASSUME FilesIInv, FilesTyped, NEW i \in DOMAIN calls, NEW p \in Names,
         NEW text \in Seq(Alphabet), NEW mode \in FileModes, Truncate(i, p, text, mode),
         calls[i].tool \notin {"list", "search"}, \A j \in DOMAIN calls : Temporary(j) # p
  PROVE  FilesTyped'
<1>1. OfProgress(doing[i]) /\ Typed(calls[i], doing[i], names[Temporary(i)], Len(disk))
  BY DEF FilesIInv, OfProgress, Progress, FilesTyped
<1>2. PICK l \in Nat : l = Len(disk)
  BY LenProperties DEF FilesTyped
<1>3. PICK file : file = (IF Opened(p) THEN names[p] ELSE l + 1)
  OBVIOUS
<1>4. /\ UNCHANGED calls
      /\ disk' = IF Opened(p) THEN [disk EXCEPT ![file].text = <<>>]
                 ELSE Append(disk, File(<<>>, mode))
      /\ names' = [names EXCEPT ![p] = file]
      /\ doing' = [doing EXCEPT ![i].at = "writing", ![i].file = file, ![i].text = text]
  BY <1>2, <1>3, Zenon DEF Truncate
<1>5. disk' \in Seq(FileType) /\ Len(disk) <= Len(disk') /\ file \in 1 .. Len(disk')
  <2>1. CASE Opened(p)
    <3>1. file \in 1 .. l
      BY <1>2, <1>3, <2>1, OpenedIs
    <3>2. disk' \in Seq(FileType) /\ Len(disk') = l
      BY <1>2, <1>4, <2>1, <3>1, EmptySeq, TextChanged
    <3> QED BY <1>2, <3>1, <3>2
  <2>2. CASE ~Opened(p)
    <3>1. File(<<>>, mode) \in FileType
      BY EmptySeq DEF File, FileType
    <3>2. disk' \in Seq(FileType) /\ Len(disk') = l + 1
      BY <1>2, <1>4, <2>2, <3>1, FileMade
    <3> QED BY <1>2, <1>3, <2>2, <3>2
  <2> QED BY <2>1, <2>2
<1>6. PICK m \in Nat : m = Len(disk') /\ l <= m /\ file \in 1 .. m
  BY <1>2, <1>5, LenProperties
<1>7. names' \in [Names -> 0 .. Len(disk')]
  BY <1>2, <1>4, <1>6 DEF FilesTyped
<1>8. \A j \in DOMAIN calls : names'[Temporary(j)] = names[Temporary(j)]
  BY <1>4 DEF FilesTyped
<1> DEFINE d == [doing[i] EXCEPT !.at = "writing", !.file = file, !.text = text]
<1>9. d.at = "writing" /\ d.file = file /\ d.text = text /\ d.mode = doing[i].mode
  BY <1>1, ProgressFields DEF OfProgress
<1>10. doing' = [doing EXCEPT ![i] = d]
  BY <1>4 DEF FilesIInv
<1> HIDE DEF d
<1>11. Typed(calls[i], d, names'[Temporary(i)], Len(disk'))
  BY <1>1, <1>6, <1>9 DEF Typed, Stages
<1> QED BY <1>4, <1>5, <1>7, <1>8, <1>10, <1>11, TypedStep

LEMMA TypedWrites ==
  ASSUME FilesIInv, FilesTyped, NEW i \in DOMAIN calls, WriteFile(i) \/ WriteBack(i) \/ WriteOut(i)
  PROVE  FilesTyped'
<1>1. /\ Typed(calls[i], doing[i], names[Temporary(i)], Len(disk)) /\ calls[i] \in ToolCalls
      /\ calls[i].path \in Names /\ \A j \in DOMAIN calls : Temporary(j) # calls[i].path
  BY PathNames DEF FilesIInv, FilesTyped
<1>2. CASE WriteFile(i)
  <2>1. /\ calls[i].tool = "write"
        /\ Truncate(i, calls[i].path, calls[i].text, Mode(calls[i].all))
    BY <1>2 DEF WriteFile, Is
  <2>2. calls[i].text \in Seq(Alphabet) /\ Mode(calls[i].all) \in FileModes
    BY <1>1, <2>1, CallTexts DEF Mode, FileModes
  <2> QED BY <1>1, <2>1, <2>2, TypedTruncate
<1>3. CASE WriteBack(i)
  <2>1. PICK p : /\ p = (IF calls[i].tool = "copy" THEN calls[i].to ELSE calls[i].path)
                 /\ Truncate(i, p, doing[i].text, doing[i].mode)
    BY <1>3 DEF WriteBack
  <2>2. p \in Names /\ \A j \in DOMAIN calls : Temporary(j) # p
    BY <1>1, <2>1, PathNames, CallPaths, TemporaryNames
  <2>3. /\ calls[i].tool \notin {"list", "search"} /\ doing[i].text \in Seq(Alphabet)
        /\ doing[i].mode \in FileModes
    BY <1>1, <1>3 DEF WriteBack, Typed
  <2> QED BY <2>1, <2>2, <2>3, TypedTruncate
<1>4. CASE WriteOut(i)
  <2>1. /\ doing[i].at = "writing" /\ UNCHANGED <<calls, names>>
        /\ disk' = [disk EXCEPT ![doing[i].file].text =
                      doing[i].text \o SubSeq(@, Len(doing[i].text) + 1, Len(@))]
        /\ \E r : Returns(i, r)
    BY <1>4 DEF WriteOut
  <2>2. doing[i].text \in Seq(Alphabet) /\ doing[i].file \in 1 .. Len(disk)
    BY <1>1, <2>1 DEF Typed
  <2>3. PICK u \in Seq(Alphabet) : u = disk[doing[i].file].text
    BY <2>2, NamedFile
  <2>4. PICK t : t = doing[i].text \o SubSeq(u, Len(doing[i].text) + 1, Len(u))
    OBVIOUS
  <2>5. t \in Seq(Alphabet)
    <3>1. Len(doing[i].text) + 1 \in Nat /\ Len(doing[i].text) + 1 # 0
          /\ Len(u) \in Int /\ Len(u) <= Len(u)
      BY <2>2, LenProperties
    <3>2. SubSeq(u, Len(doing[i].text) + 1, Len(u)) \in Seq(Alphabet)
      BY <3>1, SubSeqTyped, Zenon
    <3> QED BY <2>2, <2>4, <3>2, ConcatProperties, Zenon
  <2>6. disk' = [disk EXCEPT ![doing[i].file].text = t]
    BY <2>1, <2>3, <2>4, Zenon
  <2>7. disk' \in Seq(FileType) /\ Len(disk') = Len(disk) /\ Len(disk) \in Nat
    BY <2>2, <2>5, <2>6, TextChanged, LenProperties DEF FilesTyped
  <2>8. PICK d : /\ doing' = [doing EXCEPT ![i] = d]
                 /\ \A n : Typed(calls[i], d, n, Len(disk))
    BY <2>1, TypedReturn
  <2>9. /\ Len(disk) <= Len(disk') /\ names' \in [Names -> 0 .. Len(disk')]
        /\ Typed(calls[i], d, names'[Temporary(i)], Len(disk'))
    BY <2>1, <2>7, <2>8 DEF FilesTyped
  <2> QED BY <2>1, <2>7, <2>8, <2>9, TypedStep
<1> QED BY <1>2, <1>3, <1>4

\* Remove, rename and chmod.
LEMMA TypedOneCall ==
  ASSUME FilesIInv, FilesTyped, NEW i \in DOMAIN calls, OneCall(i)
  PROVE  FilesTyped'
<1>1. /\ calls[i] \in ToolCalls /\ Opened(calls[i].path) /\ UNCHANGED calls
      /\ Returns(i, Done(<<>>)) /\ calls[i].path \in Names
  BY PathNames DEF FilesIInv, OneCall
<1>2. PICK p \in Names : p = calls[i].path /\ names[p] \in 1 .. Len(disk)
  BY <1>1, OpenedIs
<1>3. Len(disk) \in Nat
  BY LenProperties DEF FilesTyped
<1>4. PICK d : doing' = [doing EXCEPT ![i] = d] /\ \A n : Typed(calls[i], d, n, Len(disk))
  BY <1>1, TypedReturn
<1>5. /\ disk' \in Seq(FileType) /\ Len(disk') = Len(disk)
      /\ names' \in [Names -> 0 .. Len(disk)]
      /\ \A j \in DOMAIN calls : names'[Temporary(j)] = names[Temporary(j)]
  <2>1. CASE calls[i].tool = "delete"
    <3>1. names' = [names EXCEPT ![p] = 0] /\ UNCHANGED disk
      BY <1>2, <2>1 DEF OneCall
    <3>2. \A j \in DOMAIN calls : Temporary(j) # p
      BY <1>2, PathNames
    <3> QED BY <1>3, <3>1, <3>2 DEF FilesTyped
  <2>2. CASE calls[i].tool = "move"
    <3>1. names' = [names EXCEPT ![calls[i].to] = names[p], ![p] = 0] /\ UNCHANGED disk
      BY <1>2, <2>2 DEF OneCall
    <3>2. \A j \in DOMAIN calls : Temporary(j) # p /\ Temporary(j) # calls[i].to
      BY <1>2, <2>2, PathNames
    <3>3. names \in [Names -> 0 .. Len(disk)] /\ names[p] \in 0 .. Len(disk)
      BY DEF FilesTyped
    <3>4. PICK m : m = [names EXCEPT ![calls[i].to] = names[p]]
      OBVIOUS
    <3>5. /\ m \in [Names -> 0 .. Len(disk)]
          /\ \A j \in DOMAIN calls : m[Temporary(j)] = names[Temporary(j)]
      <4>1. m \in [Names -> 0 .. Len(disk)]
        BY <3>3, <3>4
      <4> QED BY <3>2, <3>4, <4>1
    <3>6. names' = [m EXCEPT ![p] = 0]
      BY <3>1, <3>4
    <3>7. names' \in [Names -> 0 .. Len(disk)]
      BY <1>3, <3>5, <3>6
    <3>8. \A j \in DOMAIN calls : names'[Temporary(j)] = names[Temporary(j)]
      <4> TAKE j \in DOMAIN calls
      <4>1. Temporary(j) # p /\ m[Temporary(j)] = names[Temporary(j)]
        BY <3>2, <3>5
      <4> QED BY <3>5, <3>6, <4>1
    <3> QED BY <3>1, <3>7, <3>8 DEF FilesTyped
  <2>3. CASE calls[i].tool = "chmod"
    <3>1. disk' = [disk EXCEPT ![names[p]].mode = Mode(calls[i].all)] /\ UNCHANGED names
      BY <1>2, <2>3 DEF OneCall
    <3>2. PICK f \in FileType : f = disk[names[p]]
      BY <1>2, NamedFile
    <3>3. PICK g : g = [f EXCEPT !.mode = Mode(calls[i].all)]
      OBVIOUS
    <3>4. g \in FileType
      BY <3>3 DEF FileType, Mode, FileModes
    <3>5. disk' = [disk EXCEPT ![names[p]] = g]
      BY <3>1, <3>2, <3>3
    <3>6. disk' \in Seq(FileType) /\ Len(disk') = Len(disk)
      BY <1>2, <3>4, <3>5, FileChanged
    <3> QED BY <3>1, <3>6 DEF FilesTyped
  <2> QED BY <2>1, <2>2, <2>3 DEF OneCall
<1>6. /\ Len(disk) <= Len(disk') /\ names' \in [Names -> 0 .. Len(disk')]
      /\ Typed(calls[i], d, names'[Temporary(i)], Len(disk'))
  BY <1>3, <1>4, <1>5
<1> QED BY <1>1, <1>4, <1>5, <1>6, TypedStep

\* An edit makes its temporary file, writes it and puts it in the place of the other.
LEMMA TypedEdits ==
  ASSUME FilesIInv, FilesTyped, NEW i \in DOMAIN calls, OpenAgain(i) \/ Execute(i) \/ Replace(i)
  PROVE  FilesTyped'
<1>1. /\ OfProgress(doing[i]) /\ Typed(calls[i], doing[i], names[Temporary(i)], Len(disk))
      /\ calls[i] \in ToolCalls /\ calls[i].tool = "edit" /\ UNCHANGED calls
  BY DEF FilesIInv, OfProgress, Progress, FilesTyped, OpenAgain, Execute, Replace, Is
<1>2. /\ calls[i].path \in Names /\ Temporary(i) \in Names
      /\ \A j \in DOMAIN calls : Temporary(j) # calls[i].path
      /\ \A j \in DOMAIN calls \ {i} : Temporary(j) # Temporary(i)
  BY PathNames
<1>3. PICK l \in Nat : l = Len(disk)
  BY LenProperties DEF FilesTyped
<1>4. ASSUME UNCHANGED <<disk, names>>, \E r : Returns(i, r) PROVE FilesTyped'
  BY <1>1, <1>4, TypedReturn, TypedLook
<1>5. ASSUME NEW q \in Names, NEW n \in 0 .. l, UNCHANGED disk, \E r : Returns(i, r),
             q = Temporary(i) \/ q = calls[i].path,
             names' = [names EXCEPT ![q] = n, ![Temporary(i)] = 0]
      PROVE  FilesTyped'
  <2>1. PICK d : doing' = [doing EXCEPT ![i] = d] /\ \A k : Typed(calls[i], d, k, Len(disk))
    BY <1>5, TypedReturn
  <2>2. /\ names' \in [Names -> 0 .. l]
        /\ \A j \in DOMAIN calls \ {i} : names'[Temporary(j)] = names[Temporary(j)]
    <3>1. names \in [Names -> 0 .. l] /\ \A j \in DOMAIN calls \ {i} : Temporary(j) # q
      BY <1>2, <1>3, <1>5 DEF FilesTyped
    <3>2. PICK m : m = [names EXCEPT ![q] = n]
      OBVIOUS
    <3>3. /\ m \in [Names -> 0 .. l]
          /\ \A j \in DOMAIN calls \ {i} : m[Temporary(j)] = names[Temporary(j)]
      BY <1>5, <3>1, <3>2
    <3>4. names' = [m EXCEPT ![Temporary(i)] = 0]
      BY <1>5, <3>2
    <3> QED BY <1>2, <1>3, <3>3, <3>4
  <2>3. /\ disk' \in Seq(FileType) /\ Len(disk) <= Len(disk') /\ Len(disk') = l
        /\ Typed(calls[i], d, names'[Temporary(i)], Len(disk'))
    BY <1>3, <1>5, <2>1 DEF FilesTyped
  <2> QED BY <1>1, <2>1, <2>2, <2>3, TypedStep
<1>6. CASE OpenAgain(i)
  <2>1. doing[i].at = "planned"
    BY <1>6 DEF OpenAgain, Is
  <2>2. CASE Opened(calls[i].path)
    <3>1. /\ disk' = Append(disk, File(<<>>, "plain"))
          /\ names' = [names EXCEPT ![Temporary(i)] = l + 1]
          /\ doing' = [doing EXCEPT ![i].at = "opened", ![i].file = names[calls[i].path],
                                   ![i].mode = At(calls[i].path).mode]
      BY <1>3, <1>6, <2>2, Zenon DEF OpenAgain
    <3>2. File(<<>>, "plain") \in FileType
      BY EmptySeq DEF File, FileType, FileModes
    <3>3. disk' \in Seq(FileType) /\ Len(disk') = l + 1
      BY <1>3, <3>1, <3>2, FileMade
    <3>4. /\ names[calls[i].path] \in 1 .. l
          /\ At(calls[i].path).mode \in FileModes
      BY <1>2, <1>3, <2>2, OpenedIs
    <3> DEFINE d == [doing[i] EXCEPT !.at = "opened", !.file = names[calls[i].path],
                                     !.mode = At(calls[i].path).mode]
    <3>5. /\ d.at = "opened" /\ d.file = names[calls[i].path] /\ d.text = doing[i].text
          /\ d.mode \in FileModes /\ d.plan = doing[i].plan
      BY <1>1, <3>4, ProgressFields DEF OfProgress
    <3>6. doing' = [doing EXCEPT ![i] = d]
      BY <3>1 DEF FilesIInv
    <3>7. /\ names' \in [Names -> 0 .. l + 1] /\ names'[Temporary(i)] = l + 1
          /\ \A j \in DOMAIN calls \ {i} : names'[Temporary(j)] = names[Temporary(j)]
      BY <1>2, <1>3, <3>1 DEF FilesTyped
    <3>8. d.file \in 0 .. l + 1 /\ d.file # 0 /\ names'[Temporary(i)] # 0
      BY <3>4, <3>5, <3>7
    <3> HIDE DEF d
    <3>9. Typed(calls[i], d, names'[Temporary(i)], Len(disk'))
      BY <1>1, <2>1, <3>3, <3>5, <3>8 DEF Typed, Stages
    <3>10. Len(disk) <= Len(disk')
      BY <1>3, <3>3
    <3> QED BY <1>1, <3>3, <3>6, <3>7, <3>9, <3>10, TypedStep
  <2> QED BY <1>4, <1>6, <2>2 DEF OpenAgain
<1>7. CASE Execute(i)
  <2>1. PICK new : new = executeReplacements(disk[doing[i].file].text, doing[i].plan,
                                             Len(calls[i].text), calls[i].new)
    OBVIOUS
  <2>2. /\ doing[i].at = "opened"
        /\ \/ /\ Now(i, "copied") /\ UNCHANGED names
              /\ disk' = [disk EXCEPT ![names[Temporary(i)]] = File(new.text, doing[i].mode)]
           \/ CleanUp(i) /\ Returns(i, Failed) /\ UNCHANGED disk
    BY <1>7, <2>1, Zenon DEF Execute, Is
  <2>3. CASE /\ Now(i, "copied") /\ UNCHANGED names
             /\ disk' = [disk EXCEPT ![names[Temporary(i)]] = File(new.text, doing[i].mode)]
    <3>1. /\ doing[i].plan \in Seq(Offsets) /\ doing[i].file \in 1 .. l
          /\ names[Temporary(i)] # 0 /\ doing[i].mode \in FileModes
      BY <1>1, <1>3, <2>2 DEF Typed
    <3>2. names[Temporary(i)] \in 1 .. l
      BY <1>2, <1>3, <3>1 DEF FilesTyped
    <3>3. /\ disk[doing[i].file].text \in Seq(Alphabet) /\ calls[i].new \in Seq(Alphabet)
          /\ Len(calls[i].text) \in Nat
      BY <1>1, <1>3, <3>1, NamedFile, CallTexts, LenProperties
    <3>4. new.text \in Seq(Alphabet)
      BY <2>1, <3>1, <3>3, ReplacedIsText, Zenon
    <3>5. File(new.text, doing[i].mode) \in FileType
      BY <3>1, <3>4 DEF File, FileType
    <3>6. disk' \in Seq(FileType) /\ Len(disk') = l
      BY <1>3, <2>3, <3>2, <3>5, FileChanged
    <3> DEFINE d == [doing[i] EXCEPT !.at = "copied"]
    <3>7. /\ d.at = "copied" /\ d.file = doing[i].file /\ d.text = doing[i].text
          /\ d.mode = doing[i].mode
      BY <1>1, ProgressFields DEF OfProgress
    <3>8. doing' = [doing EXCEPT ![i] = d]
      BY <2>3 DEF FilesIInv, Now
    <3> HIDE DEF d
    <3>9. Typed(calls[i], d, names'[Temporary(i)], Len(disk'))
      BY <1>1, <1>3, <2>3, <3>1, <3>6, <3>7 DEF Typed, Stages
    <3>10. Len(disk) <= Len(disk') /\ names' \in [Names -> 0 .. Len(disk')]
      BY <1>3, <2>3, <3>6 DEF FilesTyped
    <3> QED BY <1>1, <2>3, <3>6, <3>8, <3>9, <3>10, TypedStep
  <2>4. CASE CleanUp(i) /\ Returns(i, Failed) /\ UNCHANGED disk
    <3>1. names' = [names EXCEPT ![Temporary(i)] = 0, ![Temporary(i)] = 0]
      BY <2>4 DEF CleanUp
    <3>2. PICK q \in Names, n \in 0 .. l : q = Temporary(i) /\ n = 0
      BY <1>2, <1>3
    <3>3. names' = [names EXCEPT ![q] = n, ![Temporary(i)] = 0]
      BY <3>1, <3>2
    <3>4. UNCHANGED disk /\ \E r : Returns(i, r)
      BY <2>4
    <3> QED BY <1>5, <3>2, <3>3, <3>4
  <2> QED BY <2>2, <2>3, <2>4
<1>8. CASE Replace(i)
  <2>1. /\ names' = [names EXCEPT ![calls[i].path] = names[Temporary(i)], ![Temporary(i)] = 0]
        /\ UNCHANGED disk /\ \E r : Returns(i, r)
    BY <1>8 DEF Replace
  <2>2. names[Temporary(i)] \in 0 .. l
    BY <1>2, <1>3 DEF FilesTyped
  <2> QED BY <1>2, <1>5, <2>1, <2>2
<1> QED BY <1>6, <1>7, <1>8

LEMMA TypedNext == FilesIInv /\ FilesTyped /\ [FilesNext]_filesVars => FilesTyped'
<1> SUFFICES ASSUME FilesIInv, FilesTyped, [FilesNext]_filesVars PROVE FilesTyped'
  OBVIOUS
<1>1. CASE UNCHANGED filesVars
  BY <1>1 DEF filesVars, FilesTyped
<1>2. ASSUME NEW i \in DOMAIN calls, Handler(i) PROVE FilesTyped'
  BY <1>2, TypedReads, TypedPlans, TypedWrites, TypedOneCall, TypedEdits DEF Handler
<1> QED BY <1>1, <1>2 DEF FilesNext

LEMMA FilesAreTyped == FilesIInv /\ FilesTyped => FilesTypeOK
<1> SUFFICES ASSUME FilesIInv, FilesTyped PROVE FilesTypeOK
  OBVIOUS
<1>1. \A i \in DOMAIN calls : calls[i] \in ToolCalls
  BY DEF FilesIInv
<1>2. \A i \in DOMAIN calls : doing[i].at \in Stages /\ doing[i].file \in 0 .. Len(disk)
  BY DEF FilesTyped, Typed
<1> QED BY <1>1, <1>2 DEF FilesTyped, FilesTypeOK, FileType, Stages

=============================================================================
