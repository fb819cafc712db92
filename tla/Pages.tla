-------------------------------- MODULE Pages --------------------------------
(***************************************************************************)
(* How an agent reads in pages: read_file, list_directory and              *)
(* search_codebase on a git worktree or a plain directory, list_commits    *)
(* and get_file_diff on the history, the logs of a finding, and            *)
(* worktreefs, which reads directories in batches.  Each page names the    *)
(* offset of the next one, and the reader goes on from there until there   *)
(* is none.                                                                *)
(***************************************************************************)
EXTENDS Integers, FiniteSets, SequencesExt

CONSTANTS
  Items,    \* what there is to read, as sequences of items
  Limits,   \* the limits that a reader asks for
  maxChar,  \* bytes of the longest character of a file
  maxFindingSearchMatches  \* matches that a search of logs looks for at most

\* A limit of zero brings a reader nowhere, nor does one that is smaller than a
\* character.
ASSUME PagesAssumption ==
  /\ {maxChar, maxFindingSearchMatches} \subseteq Nat \ {0}
  /\ Limits \subseteq Nat \ (0 .. maxChar - 1)

\* An item is a byte, which begins a character or not, an entry or match, which
\* passes the filter of the request or not, or a commit between head and base,
\* which is on the line of first parents or not.
ASSUME ItemsAssumption == Items \subseteq Seq(BOOLEAN)

Readers == {"git read", "local read", "git list", "local list", "git search",
            "local search", "commits", "diff", "log read", "log search", "worktreefs"}

\* Those that a limit of zero or less means no limit to.
Unlimited == {"local list", "local search"}

VARIABLES
  reader,  \* who reads
  source,  \* the items there are
  limit,   \* the limit of each request
  offset,  \* where the next request begins
  got,     \* what the pages had so far, as places in the source
  more,    \* how much is left by what the last page says
  finished    \* whether the last page named no further one

pagesVars == <<reader, source, limit, offset, got, more, finished>>

\* Places in order: the k-th is the one with k places up to it.
InOrderOf(S) ==
  [k \in 1 .. Cardinality(S) |-> CHOOSE n \in S : Cardinality({m \in S : m <= n}) = k]

\* Bytes are all of a file; the entries are those that pass the filter.
OfBytes == reader \in {"git read", "local read", "diff", "log read"}
Wanted == InOrderOf({n \in DOMAIN source : OfBytes \/ source[n]})

PagesTypeOK ==
  /\ reader \in Readers /\ source \in Items /\ limit \in Limits \cup {-1}
  /\ offset \in 0 .. Len(source) /\ more \in 0 .. Len(source) /\ finished \in BOOLEAN
  /\ Range(got) \subseteq DOMAIN source

\* Bytes that begin a character often enough.
Characters(s) ==
  \A n \in DOMAIN s : IF n = 1 THEN s[1] ELSE \E k \in n .. n + maxChar - 1 : k > Len(s) \/ s[k]

\* A negative limit reads a file to its end.
PagesInit ==
  /\ reader \in Readers
  /\ source \in IF OfBytes THEN {s \in Items : Characters(s)} ELSE Items
  /\ limit \in Limits \cup
       (IF reader \in {"git read", "local read"} \cup Unlimited THEN {-1} ELSE {})
  /\ offset = 0 /\ got = <<>> /\ more = Len(Wanted) /\ finished = FALSE

\* What a request is answered: the items of the page, where the next one begins
\* and how much it leaves.
Page(items, next, left) == [items |-> items, next |-> next, left |-> left]
Past(total) == Page(<<>>, total, 0)

\* The places from the offset on, at most so many.
Slice(s, most) == SubSeq(s, offset + 1, Min({offset + most, Len(s)}))

\* A page that would end inside a character ends before it.
adjustUTF8Boundary(buf) ==
  LET next == offset + Len(buf) + 1 IN
  IF next > Len(source) \/ source[next] THEN buf
  ELSE SubSeq(buf, 1, Max({n \in DOMAIN buf : source[buf[n]]}) - 1)

ReadPage ==
  LET size == Len(source)
      buf  == adjustUTF8Boundary(Slice(Wanted, IF limit < 0 THEN size ELSE limit)) IN
  IF offset >= size THEN Past(offset)
  ELSE Page(buf, offset + Len(buf), size - offset - Len(buf))

LocalReadPage ==
  LET data == SubSeq(Wanted, offset + 1, Len(Wanted)) IN
  IF offset > Len(Wanted) THEN Past(offset)
  ELSE IF limit < 0 \/ limit >= Len(data) THEN Page(data, offset, 0)
  ELSE Page(SubSeq(data, 1, limit), offset + limit, Len(data) - limit)

ListDirectory ==
  LET total == Len(Wanted) IN
  IF offset >= total THEN Past(offset)
  ELSE Page(Slice(Wanted, limit), offset + limit, Max({0, total - offset - limit}))

\* A listing of a plain directory looks at every entry before it cuts the page.
LocalListDirectory ==
  LET filtered == SubSeq(Wanted, offset + 1, Len(Wanted)) IN
  IF offset >= Len(Wanted) THEN Past(offset)
  ELSE IF limit > 0 /\ limit < Len(filtered)
       THEN Page(SubSeq(filtered, 1, limit), offset + limit, Len(filtered) - limit)
       ELSE Page(filtered, offset, 0)

\* Mutated form of Need: a search stops when it has what it gives.
NeedNoMore == offset + limit

\* The search of a git worktree stops at one match more than it gives.
Need == offset + limit + 1

SearchCodebase ==
  LET matches == SubSeq(Wanted, 1, Min({Need, Len(Wanted)})) IN
  IF offset >= Len(matches) THEN Past(offset)
  ELSE Page(Slice(matches, limit), offset + limit, Max({0, Len(matches) - offset - limit}))

\* A search of a plain directory collects every match first.
LocalSearchCodebase == LocalListDirectory

\* The commits from the head to the base or to the first commit, by first parents.
collectCommits == InOrderOf({n \in DOMAIN source : source[n]})

ListCommits ==
  LET total == Len(collectCommits)
      page  == Slice(collectCommits, limit) IN
  IF offset >= total THEN Past(offset)
  ELSE Page(page, offset + Len(page), total - offset - Len(page))

paginateDiff ==
  LET total == Len(source)
      end   == Min({offset + limit, total}) IN
  IF offset >= total THEN Past(offset) ELSE Page(Slice(Wanted, limit), end, total - end)

\* The logs of a finding, in bytes.
findingReadContent ==
  LET total == Len(source)
      end   == Min({offset + limit, total}) IN
  Page(Slice(Wanted, limit), end, total - end)

\* The matches in them, of which only so many are looked for.
findingSearchContent ==
  LET found   == SubSeq(Wanted, 1, Min({Need, maxFindingSearchMatches, Len(Wanted)}))
      matches == Slice(found, limit) IN
  Page(matches, offset + Len(matches), Len(found) - Min({offset + Len(matches), Len(found)}))

Answer ==
  CASE reader = "git read"     -> ReadPage
    [] reader = "local read"   -> LocalReadPage
    [] reader \in {"git list", "worktreefs"} -> ListDirectory
    [] reader = "local list"   -> LocalListDirectory
    [] reader = "git search"   -> SearchCodebase
    [] reader = "local search" -> LocalSearchCodebase
    [] reader = "commits"      -> ListCommits
    [] reader = "diff"         -> paginateDiff
    [] reader = "log read"     -> findingReadContent
    [] reader = "log search"   -> findingSearchContent

\* What a page says is added to what was read.
Takes(p) == got' = got \o p.items /\ more' = p.left /\ UNCHANGED <<reader, source, limit>>

\* A page without a next one ends the reading.
TurnPage ==
  LET p == Answer IN
  /\ ~finished /\ reader # "worktreefs" /\ Takes(p)
  /\ offset' = (IF p.left > 0 THEN p.next ELSE offset) /\ finished' = (p.left = 0)

\* worktreefs goes on from behind what it got until it gets nothing.
readN ==
  LET p == Answer IN
  /\ ~finished /\ reader = "worktreefs" /\ Takes(p)
  /\ offset' = IF p.left > 0 THEN p.next ELSE offset + Len(p.items)
  /\ finished' = (p.items = <<>>)

NextPage == TurnPage \/ readN

-----------------------------------------------------------------------------

\* A search of logs gives no more than the matches it looks for.
Given ==
  IF reader = "log search" THEN SubSeq(Wanted, 1, Min({maxFindingSearchMatches, Len(Wanted)}))
  ELSE Wanted

\* The pages give every item that is asked for once and in order, none of them
\* says that it is the last while items are left, and a reader gets to the end.
PagesTile ==
  /\ got = SubSeq(Given, 1, Len(got))
  /\ finished => got = Given
  /\ got # <<>> => ((more = 0) = (got = Given))

\* A file of a git worktree is read in whole characters.
WholeCharacters ==
  reader = "git read" /\ Len(got) < Len(source) => source[Len(got) + 1]

ReadToTheEnd == <>finished

PagesSpec == PagesInit /\ [][NextPage]_pagesVars /\ WF_pagesVars(NextPage)

=============================================================================
