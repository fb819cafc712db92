-------------------------------- MODULE Stores --------------------------------
(***************************************************************************)
(* The stores with generations: the blob store (src/store/blob), and the   *)
(* checkpoint stores that keep parked envelopes in memory or in a JSONL    *)
(* file (src/agents/checkpoint).  Every call runs under the store's lock,  *)
(* so each is one step.  The file's process may die at any time, and an    *)
(* append may fail before, within or after its write.                      *)
(*                                                                         *)
(* A behaviour is of clients that race, or one of the conformance tests    *)
(* that the repository runs on each store.  What is stored is told by the  *)
(* number of the call that wrote it; 0 is nothing.                         *)
(***************************************************************************)
EXTENDS Integers, Sequences, FiniteSets

CONSTANTS
  Clients,
  ObjectNames,     \* names, in the order of lists
  ClientNames,     \* those that clients use
  listLimit,
  MaxPuts,         \* bound: what clients write
  MaxStoreFaults   \* bound: appends that fail, and deaths of the process

ASSUME StoresAssumption ==
  /\ 1 .. 5 \subseteq ObjectNames /\ ObjectNames \subseteq Nat \ {0} /\ IsFiniteSet(ObjectNames)
  /\ ClientNames \subseteq ObjectNames /\ listLimit \in Nat \ {0}
  /\ MaxPuts \in Nat /\ MaxStoreFaults \in Nat

VARIABLES
  backend,      \* "blob", "memory" or "file"
  test,         \* what is left of a test, <<>> if clients race
  objects,      \* the store's map
  lastGen,      \* the generation given last
  file,         \* the records appended
  opened,       \* whether the process has the store open
  tokens,       \* what each client has read
  listing,      \* a walk through the pages of a list
  puts,         \* the calls that wrote so far, or tried to
  claimed,      \* history: what a delete removed
  acked,        \* history: what the last successful call left under each name
  unsure,       \* history: what failed calls may have left since
  storeFaults

contents == <<backend, test, objects, lastGen, file, opened, puts, claimed, acked, unsure,
              storeFaults>>
storesVars == <<contents, tokens, listing>>

Object == [data : Nat, gen : Nat]

\* No object.  No stored object has the generation 0.
Missing == [data |-> 0, gen |-> 0]

Nothing == [name |-> 0, data |-> 0, gen |-> 0]

\* after: the cursor; times: how often each name was listed; staying: the names
\* that were there all along.
NoListing == [on |-> FALSE, over |-> FALSE, after |-> 0,
              times |-> [n \in ObjectNames |-> 0], staying |-> {}]

StoresTypeOK ==
  /\ backend \in {"blob", "memory", "file"} /\ opened \in BOOLEAN
  /\ objects \in [ObjectNames -> Object] /\ lastGen \in Nat
  /\ file \in Seq([name : ObjectNames \cup {0}, data : Nat, gen : Nat])
  /\ tokens \in [Clients -> [name : ObjectNames \cup {0}, data : Nat, gen : Nat]]
  /\ listing \in [on : BOOLEAN, over : BOOLEAN, after : Nat,
                  times : [ObjectNames -> Nat], staying : SUBSET ObjectNames]
  /\ puts \in Nat /\ claimed \subseteq Nat /\ storeFaults \in 0 .. MaxStoreFaults
  /\ acked \in [ObjectNames -> Nat] /\ unsure \in [ObjectNames -> SUBSET Nat]

-----------------------------------------------------------------------------
(* What the calls answer and do.                                           *)

\* The precondition of Put: create-only goes before the generation, and the
\* generation 0 asks for nothing.
Fits(n, create, g) ==
  \/ create /\ objects[n] = Missing
  \/ ~create /\ (g = 0 \/ objects[n].gen = g)

ObjectsWith(n, d) == [objects EXCEPT ![n] = [data |-> d, gen |-> lastGen + 1]]

\* A blob's delete without a generation is unconditional; a checkpoint's never is.
Unconditional(g) == g = 0 /\ backend = "blob"

Deletable(n, g) == objects[n] # Missing /\ (objects[n].gen = g \/ Unconditional(g))

DeleteAnswer(n, g) ==
  IF Deletable(n, g) THEN "done" ELSE IF Unconditional(g) THEN "not exist" ELSE "refused"

\* The page of at most limit names after a cursor, and whether it is the last.
NamesAfter(after) == {n \in ObjectNames : n > after /\ objects[n] # Missing}
PageAfter(after, limit) ==
  {n \in NamesAfter(after) : Cardinality({m \in NamesAfter(after) : m < n}) < limit}
IsLast(after, limit) == PageAfter(after, limit) = NamesAfter(after)

\* The file's appends.
Torn == [name |-> 0, data |-> 0, gen |-> 0]

\* Where an append ends: with its line on the disk, before it, in the middle of
\* it, or behind it with an error from the sync.
Appends(record, end) ==
  file' = IF backend # "file" \/ end = "unwritten" THEN file
          ELSE Append(file, IF end = "torn" THEN Torn ELSE record)

Endings ==
  IF backend = "file" /\ storeFaults < MaxStoreFaults
  THEN {"synced", "unwritten", "torn", "unsynced"} ELSE {"synced"}

\* What the histories make of a call that leaves d under n.
Recorded(n, d, end) ==
  /\ acked' = IF end = "synced" THEN [acked EXCEPT ![n] = d] ELSE acked
  /\ unsure' = [unsure EXCEPT ![n] = IF end = "synced" THEN {}
                                     ELSE IF end = "unsynced" THEN @ \cup {d} ELSE @]
  /\ storeFaults' = IF end = "synced" THEN storeFaults ELSE storeFaults + 1

\* Names that a walk may still expect to see.
KeepStaying == listing' = [listing EXCEPT !.staying = {n \in @ : objects'[n] # Missing}]

-----------------------------------------------------------------------------
(* Clients.                                                                *)

Race == test = <<>> /\ opened

\* Get, and Load with its token.
Get(c, n) ==
  /\ Race
  /\ tokens' = [tokens EXCEPT ![c] =
                   [name |-> n, data |-> objects[n].data, gen |-> objects[n].gen]]
  /\ UNCHANGED <<contents, listing>>

\* A client writes over what it has read or creates what it found missing, or
\* writes blindly.
Put(c, blind) ==
  LET n == tokens[c].name  g == tokens[c].gen IN
  /\ Race /\ backend = "blob" /\ n # 0 /\ puts < MaxPuts
  /\ blind \/ Fits(n, g = 0, g)
  /\ objects' = ObjectsWith(n, puts + 1) /\ lastGen' = lastGen + 1 /\ puts' = puts + 1
  /\ Recorded(n, puts + 1, "synced") /\ KeepStaying
  /\ UNCHANGED <<backend, test, file, opened, tokens, claimed>>

\* A Save overwrites whatever is there; one that fails gives its generation back.
SaveEnvelope(n) ==
  /\ Race /\ backend # "blob" /\ puts < MaxPuts /\ puts' = puts + 1
  /\ \E end \in Endings :
       /\ Appends([name |-> n, data |-> puts + 1, gen |-> lastGen + 1], end)
       /\ Recorded(n, puts + 1, end)
       /\ IF end = "synced" THEN objects' = ObjectsWith(n, puts + 1) /\ lastGen' = lastGen + 1
          ELSE UNCHANGED <<objects, lastGen>>
  /\ UNCHANGED <<backend, test, opened, tokens, listing, claimed>>

\* A delete with what the client has read, or of a blob without.
Delete(c, conditional) ==
  LET n == tokens[c].name  g == IF conditional THEN tokens[c].gen ELSE 0 IN
  /\ Race /\ n # 0 /\ (conditional => g # 0) /\ Deletable(n, g)
  /\ \E end \in Endings :
       /\ Appends([name |-> n, data |-> 0, gen |-> objects[n].gen], end)
       /\ Recorded(n, 0, end)
       /\ IF end = "synced"
          THEN /\ objects' = [objects EXCEPT ![n] = Missing]
               /\ claimed' = claimed \cup {objects[n].data}
          ELSE UNCHANGED <<objects, claimed>>
  /\ KeepStaying
  /\ UNCHANGED <<backend, test, lastGen, opened, tokens, puts>>

\* A client walks through a list, page by page.
StartListing ==
  /\ Race /\ backend = "blob" /\ ~listing.on
  /\ listing' = [NoListing EXCEPT !.on = TRUE,
                                  !.staying = {n \in ObjectNames : objects[n] # Missing}]
  /\ UNCHANGED <<contents, tokens>>

Listed(P, over, after) ==
  listing' = [listing EXCEPT !.over = over, !.after = after,
                !.times = [n \in ObjectNames |-> IF n \in P THEN @[n] + 1 ELSE @[n]]]

NextPage ==
  LET P == PageAfter(listing.after, listLimit) IN
  /\ Race /\ listing.on /\ ~listing.over
  /\ \/ IsLast(listing.after, listLimit) /\ Listed(P, TRUE, listing.after)
     \/ /\ ~IsLast(listing.after, listLimit)
        /\ \E cursor \in P : (\A n \in P : n <= cursor) /\ Listed(P, FALSE, cursor)
  /\ UNCHANGED <<contents, tokens>>

-----------------------------------------------------------------------------
(* The process of the file.                                                *)

ProcessDies ==
  /\ Race /\ backend = "file" /\ storeFaults < MaxStoreFaults
  /\ storeFaults' = storeFaults + 1 /\ opened' = FALSE
  /\ objects' = [n \in ObjectNames |-> Missing] /\ lastGen' = 0
  /\ tokens' = [c \in Clients |-> Nothing]
  /\ UNCHANGED <<backend, test, file, listing, puts, claimed, acked, unsure>>

\* The last record of a name, if it has any.
LastOf(n) ==
  LET I == {i \in DOMAIN file : file[i].name = n} IN
  IF I = {} THEN Missing
  ELSE LET last == file[CHOOSE i \in I : \A j \in I : j <= i] IN
       IF last.data = 0 THEN Missing ELSE [data |-> last.data, gen |-> last.gen]

\* A record cut short is corrupt, and so is the line that went on behind it: the
\* file is not opened again.
Replay ==
  /\ ~opened /\ \A i \in DOMAIN file : file[i] # Torn
  /\ opened' = TRUE /\ objects' = [n \in ObjectNames |-> LastOf(n)]
  /\ \E g \in {0} \cup {file[i].gen : i \in DOMAIN file} :
       /\ \A i \in DOMAIN file : file[i].gen <= g
       /\ lastGen' = g
  /\ acked' = [n \in ObjectNames |-> LastOf(n).data]
  /\ unsure' = [n \in ObjectNames |-> {}]
  /\ UNCHANGED <<backend, test, file, tokens, listing, puts, claimed, storeFaults>>

-----------------------------------------------------------------------------
(* The conformance tests.                                                  *)

Puts(n, create, g, ok) == [op |-> "put", name |-> n, create |-> create, gen |-> g, ok |-> ok]
Saves(n)               == Puts(n, FALSE, 0, TRUE)
Gets(n, d)             == [op |-> "get", name |-> n, data |-> d]
Deletes(n, g, answer)  == [op |-> "delete", name |-> n, gen |-> g, answer |-> answer]
ListsPage(limit, after, P, last) ==
  [op |-> "list", limit |-> limit, after |-> after, page |-> P, last |-> last]
EndOfTest == [op |-> "end"]

\* Names that are never stored, generations that no store of the tests reaches, and
\* the limit of a list that sets none.
neverStored == 5
wrongGen  == 1000
defaultListLimit == 100

PutsAndDeletes ==
  <<Gets(1, 0), Deletes(1, 0, "not exist"), Deletes(1, 5, "refused"),
    Puts(1, TRUE, 0, TRUE), Gets(1, 1), Puts(1, TRUE, 0, FALSE),
    Puts(1, FALSE, wrongGen, FALSE), Puts(neverStored, FALSE, 42, FALSE),
    Puts(1, FALSE, 1, TRUE), Gets(1, 2), Saves(1), Gets(1, 3),
    ListsPage(defaultListLimit, 0, {1}, TRUE),
    Puts(2, TRUE, 999, TRUE), Deletes(2, 0, "done"),
    Deletes(1, wrongGen, "refused"), Gets(1, 3), Deletes(1, 3, "done"), Gets(1, 0)>>

Pagination ==
  <<Saves(1), Saves(2), Saves(3), Saves(4), Saves(5), ListsPage(2, 0, {1, 2}, FALSE),
    ListsPage(2, 2, {3, 4}, FALSE), ListsPage(2, 4, {5}, TRUE)>>

LoadMissing      == <<Gets(neverStored, 0)>>
SaveLoad         == <<Saves(1), Gets(1, 1)>>
ClaimOnce        ==
  <<Saves(1), Gets(1, 1), Deletes(1, 1, "done"), Deletes(1, 1, "refused"), Gets(1, 0)>>
DeleteWrongToken == <<Saves(1), Deletes(1, wrongGen, "refused"), Gets(1, 1)>>
DeleteAbsentKey  == <<Deletes(neverStored, 1, "refused")>>
Resave           ==
  <<Saves(1), Saves(1), Deletes(1, 1, "refused"), Gets(1, 2), Deletes(1, 2, "done")>>

Tests ==
  IF backend = "blob" THEN {PutsAndDeletes, Pagination}
  ELSE {LoadMissing, SaveLoad, ClaimOnce, DeleteWrongToken, DeleteAbsentKey, Resave}

\* The next call of a test.  No test opens the store again, so that the file's
\* records play no part.
StoreTestCalls ==
  LET t == Head(test)
      stores == t.op = "put" /\ Fits(t.name, t.create, t.gen)
      removes == t.op = "delete" /\ Deletable(t.name, t.gen) IN
  /\ test # <<>> /\ t # EndOfTest /\ test' = Tail(test)
  /\ puts' = IF stores THEN puts + 1 ELSE puts
  /\ lastGen' = IF stores THEN lastGen + 1 ELSE lastGen
  /\ objects' = IF stores THEN ObjectsWith(t.name, puts + 1)
                ELSE IF removes THEN [objects EXCEPT ![t.name] = Missing]
                ELSE objects
  /\ UNCHANGED <<backend, file, opened, tokens, listing, claimed, acked, unsure, storeFaults>>

-----------------------------------------------------------------------------

StoresInit ==
  /\ backend \in {"blob", "memory", "file"}
  /\ test \in {<<>>} \cup {Append(t, EndOfTest) : t \in Tests}
  /\ objects = [n \in ObjectNames |-> Missing] /\ lastGen = 0 /\ file = <<>> /\ opened = TRUE
  /\ tokens = [c \in Clients |-> Nothing] /\ listing = NoListing /\ puts = 0 /\ claimed = {}
  /\ acked = [n \in ObjectNames |-> 0] /\ unsure = [n \in ObjectNames |-> {}]
  /\ storeFaults = 0

StoresNext ==
  \/ \E c \in Clients : \/ \E n \in ClientNames : Get(c, n)
                        \/ \E b \in BOOLEAN : Put(c, b) \/ Delete(c, b)
  \/ \E n \in ClientNames : SaveEnvelope(n)
  \/ StartListing \/ NextPage \/ ProcessDies \/ Replay \/ StoreTestCalls

StoresSpec == StoresInit /\ [][StoresNext]_storesVars

-----------------------------------------------------------------------------

\* What was claimed is claimed for good: neither the store nor a replay of its
\* file, crashes and failed appends included, hands it out again (the claim-once
\* contract of checkpoint.Store).
ClaimedForGood ==
  \A n \in ObjectNames : objects[n].data \notin claimed /\ LastOf(n).data \notin claimed

\* A generation tells one content: where a conditional call of a client is let
\* through, the object is the one that the client has read.
TokensTell ==
  \A c \in Clients : tokens[c].gen # 0 /\ objects[tokens[c].name].gen = tokens[c].gen
                       => objects[tokens[c].name].data = tokens[c].data

\* An open store shows what the calls that succeeded left, and the file would bring
\* it back, or what a failed call left since (the doc of jsonlstore: "so state
\* survives process restarts").
SuccessSurvives ==
  test = <<>> => \A n \in ObjectNames :
    /\ opened => objects[n].data = acked[n]
    /\ backend = "file" => LastOf(n).data \in {acked[n]} \cup unsure[n]

\* A walk through the pages returns no name twice, and in the end every name that
\* was there all along, whatever is created and deleted between two pages.
ListedOnce ==
  /\ \A n \in ObjectNames : listing.times[n] <= 1
  /\ listing.over => \A n \in listing.staying : listing.times[n] = 1

StoresSound == ClaimedForGood /\ TokensTell /\ SuccessSurvives /\ ListedOnce

\* The answers are those that the conformance tests ask for.
StoresConform ==
  test # <<>> =>
    LET t == Head(test) IN
    /\ t.op = "put" => t.ok = Fits(t.name, t.create, t.gen)
    /\ t.op = "get" => objects[t.name].data = t.data
    /\ t.op = "delete" => t.answer = DeleteAnswer(t.name, t.gen)
    /\ t.op = "list" => /\ t.page = PageAfter(t.after, t.limit)
                        /\ t.last = IsLast(t.after, t.limit)

=============================================================================
