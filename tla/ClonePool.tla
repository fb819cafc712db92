------------------------------ MODULE ClonePool ------------------------------
(***************************************************************************)
(* The pool of git clones of one repository (clonemanager.Manager): each   *)
(* reconciler that runs leases a clone at a ref, lets an agent edit its    *)
(* working tree, pushes one commit and returns the clone.  The pool's list *)
(* is the only thing under the lock; any step may fail.                    *)
(*                                                                         *)
(* A commit is the set of the reconcilers whose edits it holds.  An edit   *)
(* is a change of a tracked file or a new file, which git resets apart.    *)
(***************************************************************************)
EXTENDS FiniteSets, SequencesExt

CONSTANTS
  Reconcilers,
  Branches,     \* the branches they push, apart from main
  Dirs,         \* names of temporary directories
  maxFetches    \* 0: no bound

ASSUME PoolAssumption ==
  /\ IsFiniteSet(Reconcilers) /\ maxFetches \in Nat /\ "main" \notin Branches

Refs == Branches \cup {"main"}

VARIABLES
  remote,  \* the commit each ref of the repository is at
  disk,    \* the directories that exist
  pool,    \* the clones that are available, in order
  clone,   \* what is in each directory
  held     \* the lease of each reconciler

poolVars == <<remote, disk, pool, clone, held>>

\* Every commit descends from the first one.
Root == {"root"}
NoCommit == {}
Commits  == {Root \cup e : e \in SUBSET Reconcilers}

\* changed and new are the edits of the working tree that are not committed.
Clone(c) == [head |-> c, changed |-> {}, new |-> {}, fetches |-> 0]

NoDir == "none"
NotHeld == [at |-> "idle", dir |-> NoDir, ref |-> "main", sha |-> {}, branch |-> "main"]

PoolTypeOK ==
  /\ remote \in [Refs -> Commits \cup {NoCommit}]
  /\ disk \subseteq Dirs /\ pool \in Seq(Dirs)
  /\ clone \in [Dirs -> [head : Commits,
                         changed : SUBSET Reconcilers,
                         new : SUBSET Reconcilers,
                         fetches : Nat]]
  /\ held \in [Reconcilers ->
       [at : {"idle", "creating", "preparing", "leased", "editing", "committed", "returning"},
        dir : Dirs \cup {NoDir}, ref : Refs, sha : Commits \cup {NoCommit}, branch : Refs]]

PoolInit ==
  /\ remote = [f \in Refs |-> IF f = "main" THEN Root ELSE NoCommit]
  /\ disk = {} /\ pool = <<>> /\ clone = [d \in Dirs |-> Clone(Root)]
  /\ held = [w \in Reconcilers |-> NotHeld]

Dir(w) == held[w].dir

Moves(w, place) == held' = [held EXCEPT ![w].at = place]

\* The deferred Return comes next.
Done(w) == held' = [held EXCEPT ![w] = [NotHeld EXCEPT !.at = "returning", !.dir = Dir(w)]]

-----------------------------------------------------------------------------
(* Leasing.                                                                *)

FromPool(w, f) ==
  /\ pool # <<>>
  /\ held' = [held EXCEPT ![w] = [NotHeld EXCEPT !.at = "preparing", !.dir = Head(pool), !.ref = f]]
  /\ pool' = Tail(pool)

\* The oldest available clone, else a new one in a directory of its own.
acquireClone(w, f) ==
  /\ held[w].at = "idle"
  /\ \/ FromPool(w, f) /\ UNCHANGED disk
     \/ /\ pool = <<>> /\ UNCHANGED pool
        /\ Dirs \ disk # {}
        /\ LET d == CHOOSE d \in Dirs : d \notin disk IN
             /\ disk' = disk \cup {d}
             /\ held' = [held EXCEPT ![w] =
                           [NotHeld EXCEPT !.at = "creating", !.dir = d, !.ref = f]]
  /\ UNCHANGED <<remote, clone>>

Created(w) ==
  /\ held[w].at = "creating" /\ remote[held[w].ref] # NoCommit
  /\ clone' = [clone EXCEPT ![Dir(w)] = Clone(remote[held[w].ref])]
  /\ Moves(w, "preparing")
  /\ UNCHANGED <<remote, disk, pool>>

Discard(w) ==
  /\ disk' = disk \ {Dir(w)} /\ clone' = [clone EXCEPT ![Dir(w)] = Clone(Root)]
  /\ held' = [held EXCEPT ![w] = NotHeld] /\ UNCHANGED pool

\* A clone that cannot be made, or not be brought to the ref, is given up: the
\* ref may be gone and every call may fail.
LeaseFails(w) ==
  /\ held[w].at \in {"creating", "preparing"}
  /\ Discard(w)
  /\ UNCHANGED remote

\* The ref is fetched, with or without a pack, and checked out by force unless
\* the clone is there already.  Files git does not track are left alone.  The
\* lease keeps the commit, not the ref.
prepareClone(w) ==
  LET d == Dir(w)  k == clone[d]  c == remote[held[w].ref] IN
  /\ held[w].at = "preparing" /\ c # NoCommit
  /\ \E pack \in {0, 1} :
       clone' = [clone EXCEPT
         ![d] = [k EXCEPT !.head = c, !.fetches = k.fetches + pack,
                          !.changed = IF k.head = c THEN k.changed ELSE {}]]
  /\ held' = [held EXCEPT ![w].at = "leased", ![w].sha = c, ![w].ref = NotHeld.ref]
  /\ UNCHANGED <<remote, disk, pool>>

-----------------------------------------------------------------------------
(* MakeAndPushChanges.                                                     *)

\* A branch begins at the leased commit and the working tree is kept.
createFreshBranch(w, b) ==
  /\ held[w].at = "leased"
  /\ held' = [held EXCEPT ![w].at = "editing", ![w].branch = b]
  /\ clone' = [clone EXCEPT ![Dir(w)].head = held[w].sha]
  /\ UNCHANGED <<remote, disk, pool>>

\* The agent changes a tracked file or writes a new one.  One edit is enough here.
Edit(w) ==
  /\ held[w].at = "editing" /\ w \notin clone[Dir(w)].changed \cup clone[Dir(w)].new
  /\ \/ clone' = [clone EXCEPT ![Dir(w)].changed = @ \cup {w}]
     \/ clone' = [clone EXCEPT ![Dir(w)].new = @ \cup {w}]
  /\ UNCHANGED <<remote, disk, pool, held>>

\* Everything in the working tree is committed; there must be something.
commitChanges(w) ==
  LET c == clone[Dir(w)] IN
  /\ held[w].at = "editing" /\ c.changed \cup c.new # {}
  /\ clone' = [clone EXCEPT ![Dir(w)] =
                 [c EXCEPT !.head = c.head \cup c.changed \cup c.new, !.changed = {}, !.new = {}]]
  /\ Moves(w, "committed")
  /\ UNCHANGED <<remote, disk, pool>>

\* The push replaces the branch; its response may be lost.
forcePushBranch(w) ==
  /\ held[w].at = "committed"
  /\ remote' = [remote EXCEPT ![held[w].branch] = clone[Dir(w)].head]
  /\ Done(w)
  /\ UNCHANGED <<disk, pool, clone>>

\* The caller only reads, the agent fails or has nothing to commit, or a call
\* fails.
GivesUp(w) ==
  /\ held[w].at \in {"leased", "editing", "committed"}
  /\ Done(w)
  /\ UNCHANGED <<remote, disk, pool, clone>>

-----------------------------------------------------------------------------
(* Returning.                                                              *)

\* Mutated form of resetClone: new files are not cleaned away.
resetCloneHardOnly(c) == [c EXCEPT !.changed = {}]

resetClone(c) == [c EXCEPT !.changed = {}, !.new = {}]

WornOut(c) == maxFetches > 0 /\ c.fetches >= maxFetches

\* A worn out clone, or one that cannot be reset, is discarded.
Return(w) ==
  /\ held[w].at = "returning"
  /\ \/ Discard(w)
     \/ /\ ~WornOut(clone[Dir(w)])
        /\ clone' = [clone EXCEPT ![Dir(w)] = resetClone(@)]
        /\ pool' = Append(pool, Dir(w))
        /\ held' = [held EXCEPT ![w] = NotHeld] /\ UNCHANGED disk
  /\ UNCHANGED remote

\* A branch is merged, or deleted.
Merge(b) ==
  /\ b \in Branches /\ remote[b] # NoCommit
  /\ \/ remote' = [remote EXCEPT !["main"] = @ \cup remote[b]]
     \/ remote' = [remote EXCEPT ![b] = NoCommit]
  /\ UNCHANGED <<disk, pool, clone, held>>

PoolNext ==
  \/ \E w \in Reconcilers :
       \/ \E f \in Refs : acquireClone(w, f)
       \/ \E b \in Branches : createFreshBranch(w, b)
       \/ Created(w) \/ LeaseFails(w) \/ prepareClone(w)
       \/ Edit(w) \/ commitChanges(w) \/ forcePushBranch(w) \/ GivesUp(w)
       \/ Return(w)
  \/ \E b \in Branches : Merge(b)

-----------------------------------------------------------------------------

Holders == {w \in Reconcilers : held[w].at # "idle"}

\* A directory is with one reconciler or once in the pool, although clones are
\* created outside the lock and any step may fail ("Each lease is dedicated").
ClonesExclusive ==
  /\ \A v, w \in Holders : v # w => Dir(v) # Dir(w)
  /\ \A w \in Holders : ~Contains(pool, Dir(w))
  /\ \A i, j \in DOMAIN pool : pool[i] = pool[j] => i = j

\* Whatever fails, no directory is left behind: each is in the pool or with a
\* reconciler, so there are never more than run at once.
NoDirLeaked ==
  /\ disk = ToSet(pool) \cup {Dir(w) : w \in Holders}
  /\ Cardinality(disk) <= Cardinality(Reconcilers)

\* A clone's object store grows by no more fetches than the bound
\* (WithMaxFetches: "The bound caps that growth").
StoreBounded == maxFetches > 0 => \A d \in disk : clone[d].fetches <= maxFetches

\* No clone is shared, left behind or worn out.
ClonesKept == ClonesExclusive /\ NoDirLeaked /\ StoreBounded

\* A push carries the leased commit and the edits of its own lease: nothing that
\* an earlier user left in the working tree, whichever way their lease ended
\* ("ensures the working tree is reset before being returned to the pool").
PushedOnlyOwn ==
  [][\A w \in Reconcilers :
       held[w].at = "committed" /\ remote' # remote /\ held'[w].at = "returning"
       => remote'[held[w].branch] \subseteq held[w].sha \cup {w}]_poolVars

=============================================================================
