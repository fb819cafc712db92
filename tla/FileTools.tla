------------------------------ MODULE FileTools ------------------------------
(***************************************************************************)
(* The worktree tools that an agent's turn calls in parallel (toolcall's   *)
(* worktree tools on clonemanager.WorktreeCallbacks), system call by       *)
(* system call: a path names a file, a call that holds a file open keeps   *)
(* it whatever becomes of the path, and a write truncates before it        *)
(* writes.  LocalWorktree, the same callbacks on a plain directory, is     *)
(* the reference of what each call does when it runs alone.                *)
(*                                                                         *)
(* A text is a sequence of bytes of a small alphabet; a mode is whether    *)
(* the file is executable.                                                 *)
(***************************************************************************)
EXTENDS Integers, SequencesExt

CONSTANTS
  Paths,      \* the paths the calls name, all of one directory
  Texts,      \* what a file may hold when a turn of two calls begins
  AllTexts,   \* what a file may hold when a turn of one call begins
  Patterns,   \* what an edit may look for
  Written,    \* what a call may write
  bufSize     \* how much planReplacements reads at once

\* A file that an edit writes until it takes the place of the edited one.
Temporary(i) == <<"edit", i>>

\* The bytes there are.
Alphabet == UNION {ToSet(t) : t \in Texts \cup AllTexts \cup Patterns \cup Written}

ASSUME FilesAssumption ==
  /\ Paths # {} /\ IsFiniteSet(Paths) /\ \A i \in {1, 2} : Temporary(i) \notin Paths
  /\ bufSize \in Nat \ {0} /\ <<>> \notin Patterns
  /\ \A t \in Texts \cup AllTexts \cup Patterns \cup Written : t \in Seq(Alphabet)
  \* A pattern that is a prefix and a suffix of itself may overlap itself.
  /\ \A p \in Patterns : \A n \in 1 .. Len(p) - 1 :
       SubSeq(p, 1, n) # SubSeq(p, Len(p) - n + 1, Len(p))

VARIABLES
  backing, \* whether the tools are clonemanager's ("git") or LocalWorktree ("local")
  before,  \* history: the tree when the turn began
  names,   \* the file each name of the directory is of, 0 for none
  disk,    \* the files there ever were, by number
  calls,   \* the tool calls of the turn
  doing    \* how far each call is

filesVars == <<backing, before, names, disk, calls, doing>>

Names == Paths \cup {Temporary(1), Temporary(2)}

FileModes == {"plain", "exec"}
Mode(executable) == IF executable THEN "exec" ELSE "plain"
File(text, mode) == [text |-> text, mode |-> mode]

\* The calls.  A field that a tool does not have is empty.
Call(tool, path, to, text, new, all) ==
  [tool |-> tool, path |-> path, to |-> to, text |-> text, new |-> new, all |-> all]
Nowhere == "nowhere"

OfPath(tool, executables) ==
  {Call(tool, p, Nowhere, <<>>, <<>>, b) : p \in Paths, b \in executables}

readFileTool       == OfPath("read", {FALSE})
deleteFileTool     == OfPath("delete", {FALSE})
listDirectoryTool  == OfPath("list", {FALSE})
chmodTool          == OfPath("chmod", BOOLEAN)
searchCodebaseTool == {Call("search", p, Nowhere, t, <<>>, FALSE) : p \in Paths, t \in Patterns}
writeFileTool ==
  {Call("write", p, Nowhere, t, <<>>, b) : p \in Paths, t \in Written, b \in BOOLEAN}
editFileTool ==
  {Call("edit", p, Nowhere, t, n, b) : p \in Paths, t \in Patterns, n \in Written, b \in BOOLEAN}

Across(tool) ==
  UNION {{Call(tool, p, q, <<>>, <<>>, FALSE) : q \in Paths \ {p}} : p \in Paths}
moveFileTool == Across("move")
copyFileTool == Across("copy")

ToolCalls ==
  readFileTool \cup deleteFileTool \cup listDirectoryTool \cup chmodTool
    \cup searchCodebaseTool \cup writeFileTool \cup editFileTool \cup moveFileTool
    \cup copyFileTool

-----------------------------------------------------------------------------
(* Finding and replacing.                                                  *)

\* The bytes from the m-th to the n-th, as far as there are any.
Bytes(text, m, n) == SubSeq(text, m, Min({n, Len(text)}))

Holds(text, i, pattern) == SubSeq(text, i, i + Len(pattern) - 1) = pattern

\* Where a pattern is in a text, from the left and without overlaps, as
\* strings.ReplaceAll and the search inside one buffer take them.
Occurrences(text, pattern) ==
  LET From[i \in 1 .. Len(text) + Len(pattern)] ==
        IF i + Len(pattern) - 1 > Len(text) THEN <<>>
        ELSE IF Holds(text, i, pattern) THEN <<i>> \o From[i + Len(pattern)]
        ELSE From[i + 1]
  IN  From[1]

\* The offsets found in one buffer after the other, each of them begun with the
\* end of what was read before, which may begin another.
planReplacements(text, pattern) ==
  LET Found(k) ==
        LET read == (k - 1) * bufSize
            slid == read - Min({Len(pattern) - 1, read})
            at   == Occurrences(Bytes(text, slid + 1, k * bufSize), pattern)
        IN  [n \in DOMAIN at |-> slid + at[n]]
  IN  FlattenSeq([k \in 1 .. (Len(text) + bufSize - 1) \div bufSize |-> Found(k)])

\* executeReplacements copies what is before each offset and skips the length
\* of the pattern; it fails when the text ends before.
executeReplacements(text, offsets, oldLen, new) ==
  LET Upto[n \in 0 .. Len(offsets)] ==
        IF n = 0 THEN [pos |-> 0, out |-> <<>>]
        ELSE LET was == Upto[n - 1]
             IN  [pos |-> offsets[n] - 1 + oldLen,
                  out |-> was.out \o Bytes(text, was.pos + 1, offsets[n] - 1) \o new]
      all == Upto[Len(offsets)]
  IN  [ok |-> all.pos <= Len(text), text |-> all.out \o SubSeq(text, all.pos + 1, Len(text))]

-----------------------------------------------------------------------------
(* What a call does when it runs alone.                                    *)

Done(value) == [ok |-> TRUE, value |-> value]
Failed      == [ok |-> FALSE, value |-> <<>>]

\* A tree is the file of each path, or no file.
NoFile == File(<<>>, "none")
Has(tree, p) == tree[p] # NoFile

PathOrder == SetToSeq(Paths)

\* What a directory listing and a search say of a file.
Entry(p, f) == <<<<p, Len(f.text), f.mode>>>>
Matches(p, f, pattern) ==
  LET at == Occurrences(f.text, pattern) IN [n \in DOMAIN at |-> <<p, at[n], Len(pattern)>>]

\* The file with the occurrences replaced; more than one only when all of them are
\* asked for.
AloneEdit(c, tree) ==
  LET text == tree[c.path].text
      at   == Occurrences(text, c.text)
  IN  IF at = <<>> \/ (~c.all /\ Len(at) > 1) THEN [tree |-> tree, result |-> Failed]
      ELSE [tree   |-> [tree EXCEPT ![c.path].text =
                          executeReplacements(text, at, Len(c.text), c.new).text],
            result |-> Done(<<Len(at)>>)]

Alone(c, tree) ==
  LET Fails     == [tree |-> tree, result |-> Failed]
      To(t, v)  == [tree |-> t, result |-> Done(v)]
      Is(p, f)  == [tree EXCEPT ![p] = f]
      present   == SelectSeq(PathOrder, LAMBDA p : Has(tree, p))
      Each(Says(_)) == FlattenSeq([n \in DOMAIN present |-> Says(present[n])])
  IN  CASE c.tool = "list"   -> To(tree, Each(LAMBDA p : Entry(p, tree[p])))
        [] c.tool = "search" -> To(tree, Each(LAMBDA p : Matches(p, tree[p], c.text)))
        [] c.tool = "write"  ->
             To(Is(c.path, File(c.text, IF Has(tree, c.path) THEN tree[c.path].mode
                                        ELSE Mode(c.all))), <<>>)
        [] c.tool \notin {"list", "search", "write"} /\ ~Has(tree, c.path) -> Fails
        [] c.tool = "read"   /\ Has(tree, c.path) -> To(tree, tree[c.path].text)
        [] c.tool = "delete" /\ Has(tree, c.path) -> To(Is(c.path, NoFile), <<>>)
        [] c.tool = "chmod"  /\ Has(tree, c.path) ->
             To([tree EXCEPT ![c.path].mode = Mode(c.all)], <<>>)
        [] c.tool = "move"   /\ Has(tree, c.path) ->
             To([Is(c.path, NoFile) EXCEPT ![c.to] = tree[c.path]], <<>>)
        [] c.tool = "copy"   /\ Has(tree, c.path) ->
             LET mode == tree[IF Has(tree, c.to) THEN c.to ELSE c.path].mode
             IN  To(Is(c.to, File(tree[c.path].text, mode)), <<>>)
        [] c.tool = "edit"   /\ Has(tree, c.path) -> AloneEdit(c, tree)

-----------------------------------------------------------------------------
(* What the calls do, side by side.                                        *)

\* How far a call is: the file it holds open, what it has read, the offsets it
\* planned or the names it has yet to look at, and its result.
NotBegun == [at |-> "begin", file |-> 0, text |-> <<>>, mode |-> "plain", plan |-> <<>>,
             result |-> Failed]

FilesTypeOK ==
  /\ disk \in Seq([text : Seq(Alphabet), mode : FileModes])
  /\ names \in [Names -> 0 .. Len(disk)]
  /\ \A i \in DOMAIN calls :
       /\ calls[i] \in ToolCalls
       /\ doing[i].at \in {"begin", "opened", "planned", "copied", "taken", "statted",
                           "writing", "over"}
       /\ doing[i].file \in 0 .. Len(disk)

Opened(p) == names[p] # 0
At(p) == disk[names[p]]
Tree  == [p \in Paths |-> IF Opened(p) THEN At(p) ELSE NoFile]

\* One of the paths names a file and the other one too, or none.
FilesInit ==
  /\ \E t \in Texts \cup AllTexts, u \in Written \cup {<<>>} :
       /\ calls \in (IF t \in Texts THEN ToolCalls \X ToolCalls ELSE {})
                    \cup {<<c>> : c \in {x \in ToolCalls : x.tool \in {"edit", "search"}}}
       /\ disk = <<File(t, "exec")>> \o (IF u = <<>> THEN <<>> ELSE <<File(u, "plain")>>)
       /\ names = [x \in Names |-> IF x = PathOrder[1] THEN 1
                               ELSE IF x \in Paths /\ u # <<>> THEN 2 ELSE 0]
  /\ backing \in {"git", "local"} /\ before = Tree
  /\ doing = [i \in DOMAIN calls |-> NotBegun]

Is(i, tool, at) == calls[i].tool = tool /\ doing[i].at = at

Now(i, at) == doing' = [doing EXCEPT ![i].at = at]
Returns(i, result) == doing' = [doing EXCEPT ![i].at = "over", ![i].result = result]
Quiet == UNCHANGED <<backing, before, names, disk, calls>>

\* A call that names a file that is not there fails at once.
Missing(i) ==
  /\ doing[i].at = "begin" /\ calls[i].tool \notin {"list", "search", "write"}
  /\ ~Opened(calls[i].path)
  /\ Returns(i, Failed) /\ Quiet

\* ReadFile opens the file and reads it.
ReadFile(i) ==
  LET c == calls[i] IN
  /\ calls[i].tool = "read" /\ Quiet
  /\ \/ /\ doing[i].at = "begin" /\ Opened(c.path)
        /\ doing' = [doing EXCEPT ![i].at = "opened", ![i].file = names[c.path]]
     \/ /\ doing[i].at = "opened"
        /\ Returns(i, Done(disk[doing[i].file].text))

\* Remove, rename and chmod are one system call each.
OneCall(i) ==
  LET c == calls[i] IN
  /\ doing[i].at = "begin" /\ Opened(c.path)
  /\ \/ /\ c.tool = "delete"
        /\ names' = [names EXCEPT ![c.path] = 0] /\ UNCHANGED disk
     \/ /\ c.tool = "move"
        /\ names' = [names EXCEPT ![c.to] = names[c.path], ![c.path] = 0] /\ UNCHANGED disk
     \/ /\ c.tool = "chmod"
        /\ disk' = [disk EXCEPT ![names[c.path]].mode = Mode(c.all)] /\ UNCHANGED names
  /\ Returns(i, Done(<<>>)) /\ UNCHANGED <<backing, before, calls>>

\* os.WriteFile empties the file or creates it, and then writes into whatever it
\* has open, over what somebody else has written there meanwhile.  The mode is
\* for a new file.
Truncate(i, p, text, mode) ==
  LET file == IF Opened(p) THEN names[p] ELSE Len(disk) + 1 IN
  /\ disk'  = IF Opened(p) THEN [disk EXCEPT ![file].text = <<>>]
                           ELSE Append(disk, File(<<>>, mode))
  /\ names' = [names EXCEPT ![p] = file]
  /\ doing' = [doing EXCEPT ![i].at = "writing", ![i].file = file, ![i].text = text]
  /\ UNCHANGED <<backing, before, calls>>

WriteOut(i) ==
  LET d == doing[i] IN
  /\ d.at = "writing"
  /\ disk' = [disk EXCEPT ![d.file].text = d.text \o SubSeq(@, Len(d.text) + 1, Len(@))]
  /\ Returns(i, IF calls[i].tool = "edit" THEN d.result ELSE Done(<<>>))
  /\ UNCHANGED <<backing, before, names, calls>>

WriteFile(i) ==
  Is(i, "write", "begin") /\ Truncate(i, calls[i].path, calls[i].text, Mode(calls[i].all))

\* CopyFile reads the source, looks at its mode and writes the destination.
CopyFile(i) ==
  LET c == calls[i] IN
  /\ Is(i, "copy", "begin") /\ Opened(c.path) /\ Quiet
  /\ doing' = [doing EXCEPT ![i].at = "taken", ![i].text = At(c.path).text]

\* EditFile of LocalWorktree writes the replaced text over the file.
LocalEditFile(i) ==
  LET c == calls[i]
      alone == AloneEdit(c, Tree) IN
  /\ Is(i, "edit", "begin") /\ backing = "local" /\ Opened(c.path) /\ Quiet
  /\ IF alone.result = Failed
     THEN Returns(i, Failed)
     ELSE doing' = [doing EXCEPT ![i].at = "taken", ![i].text = alone.tree[c.path].text,
                                 ![i].result = alone.result]

Stat(i) ==
  /\ doing[i].at = "taken" /\ Quiet
  /\ IF Opened(calls[i].path)
     THEN doing' = [doing EXCEPT ![i].at = "statted", ![i].mode = At(calls[i].path).mode]
     ELSE Returns(i, Failed)

WriteBack(i) ==
  LET c == calls[i] IN
  /\ doing[i].at = "statted"
  /\ Truncate(i, IF c.tool = "copy" THEN c.to ELSE c.path, doing[i].text, doing[i].mode)

\* EditFile of the git worktree plans on what it reads, opens the file again for
\* the replacement and puts the finished text in its place.
Plan(i) ==
  LET c == calls[i]
      found == planReplacements(At(c.path).text, c.text) IN
  /\ Is(i, "edit", "begin") /\ backing = "git" /\ Opened(c.path) /\ Quiet
  /\ IF found = <<>> \/ (~c.all /\ Len(found) > 1)
     THEN Returns(i, Failed)
     ELSE doing' = [doing EXCEPT ![i].at = "planned", ![i].plan = found]

OpenAgain(i) ==
  LET p == calls[i].path IN
  /\ Is(i, "edit", "planned") /\ UNCHANGED <<backing, before, calls>>
  /\ IF Opened(p)
     THEN /\ disk' = Append(disk, File(<<>>, "plain"))
          /\ names' = [names EXCEPT ![Temporary(i)] = Len(disk) + 1]
          /\ doing' = [doing EXCEPT ![i].at = "opened", ![i].file = names[p],
                                   ![i].mode = At(p).mode]
     ELSE Returns(i, Failed) /\ UNCHANGED <<names, disk>>

CleanUp(i) == names' = [names EXCEPT ![Temporary(i)] = 0]

\* The copy may fail at any byte.
Execute(i) ==
  LET c == calls[i]
      new == executeReplacements(disk[doing[i].file].text, doing[i].plan, Len(c.text), c.new) IN
  /\ Is(i, "edit", "opened") /\ UNCHANGED <<backing, before, calls>>
  /\ \/ /\ new.ok /\ Now(i, "copied") /\ UNCHANGED names
        /\ disk' = [disk EXCEPT ![names[Temporary(i)]] = File(new.text, doing[i].mode)]
     \/ CleanUp(i) /\ Returns(i, Failed) /\ UNCHANGED disk

Replace(i) ==
  /\ Is(i, "edit", "copied")
  /\ names' = [names EXCEPT ![calls[i].path] = names[Temporary(i)], ![Temporary(i)] = 0]
  /\ Returns(i, Done(<<Len(doing[i].plan)>>)) /\ UNCHANGED <<backing, before, disk, calls>>

\* ListDirectory and SearchCodebase read the directory and then look at one entry
\* after the other; what is gone by then is left out.
Listed == SelectSeq(<<Temporary(1), Temporary(2)>> \o PathOrder, LAMBDA x : Opened(x))

LookAround(i) ==
  LET c == calls[i]
      d == doing[i]
      x == Head(d.plan) IN
  /\ c.tool \in {"list", "search"} /\ Quiet
  /\ \/ d.at = "begin" /\ doing' = [doing EXCEPT ![i].at = "opened", ![i].plan = Listed]
     \/ /\ d.at = "opened" /\ d.plan # <<>>
        /\ doing' = [doing EXCEPT
             ![i].plan = Tail(@),
             ![i].text = @ \o IF ~Opened(x) THEN <<>>
                              ELSE IF c.tool = "list" THEN Entry(x, At(x))
                              ELSE Matches(x, At(x), c.text)]
     \/ d.at = "opened" /\ d.plan = <<>> /\ Returns(i, Done(d.text))

Handler(i) ==
  \/ Missing(i) \/ ReadFile(i) \/ OneCall(i) \/ WriteFile(i) \/ WriteOut(i) \/ CopyFile(i)
  \/ LocalEditFile(i) \/ Stat(i) \/ WriteBack(i)
  \/ Plan(i) \/ OpenAgain(i) \/ Execute(i) \/ Replace(i) \/ LookAround(i)

FilesNext == \E i \in DOMAIN calls : Handler(i)

-----------------------------------------------------------------------------

AllOver == \A i \in DOMAIN calls : doing[i].at = "over"

Changes(c) ==
  CASE c.tool \in {"write", "edit", "chmod", "delete"} -> {c.path}
    [] c.tool = "move" -> {c.path, c.to}
    [] c.tool = "copy" -> {c.to}
    [] OTHER -> {}
Truncates(c) ==
  IF c.tool \in {"write", "copy"} \/ (c.tool = "edit" /\ backing = "local") THEN Changes(c) ELSE {}
Reads(c) ==
  CASE c.tool \in {"read", "edit", "copy"} -> {c.path}
    [] c.tool \in {"list", "search"} -> Paths
    [] OTHER -> {}

\* Two calls that the tools do not keep apart: an edit and another change of its
\* file, two that write a file, one that writes what the other reads, a look at a
\* directory while names in it come and go, and a copy and a move across.
Disturbs(c, d) ==
  \/ c.tool = "edit" /\ c.path \in Changes(d)
  \/ Truncates(c) \cap (Truncates(d) \cup Reads(d)) # {}
  \/ c.tool \in {"list", "search"} /\ d.tool \in {"edit", "move"}
  \/ c.tool = "copy" /\ d.tool = "move" /\ d.path = c.to /\ d.to = c.path

\* What a call may come to on a tree, an edit whose copy failed among it.
Outcomes(i, tree) ==
  {Alone(calls[i], tree)}
    \cup {o \in {[tree |-> tree, result |-> Failed]} : calls[i].tool = "edit"}

AsInOrder(order) ==
  LET After[n \in 0 .. Len(order)] ==
        IF n = 0 THEN {before}
        ELSE {o.tree : o \in {x \in UNION {Outcomes(order[n], t) : t \in After[n - 1]} :
                               x.result = doing[order[n]].result}}
  IN  Tree \in After[Len(order)]

\* What worktree.go says of its callbacks: whichever calls of a turn run at once, the
\* tree and the results are those of one order or the other, each running alone.
\* The code does not keep it: README, section 7.
SafeWithinTurn ==
  AllOver => \/ AsInOrder([n \in DOMAIN calls |-> n])
             \/ AsInOrder(Reverse([n \in DOMAIN calls |-> n]))

\* It is so unless the calls are of the pairs that disturb each other: one that reads
\* a file another one edits, moves or deletes sees it as before or as after, and no
\* two texts are mixed.
TurnAsInOrder ==
  SafeWithinTurn \/ \E i, j \in DOMAIN calls : i # j /\ Disturbs(calls[i], calls[j])

\* Whatever became of its edits, a turn leaves none of their temporary files,
\* which the next commit would take along.
NothingLeft == AllOver => \A i \in DOMAIN calls : ~Opened(Temporary(i))

FilesSpec == FilesInit /\ [][FilesNext]_filesVars

=============================================================================
