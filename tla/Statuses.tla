------------------------------- MODULE Statuses -------------------------------
(***************************************************************************)
(* The status of a digest or of a key, as two reconcilers may write it at  *)
(* once: signed bundles beside an image (src/reconcilers/ocireconciler/    *)
(* statusmanager), or an object of a bucket (src/reconcilers/              *)
(* gcsstatusmanager).  A write of a bundle is a sequence of calls.  Each   *)
(* may fail, or be carried out and its answer lost, and the process may    *)
(* die between two of them.                                                *)
(***************************************************************************)
EXTENDS Naturals, FiniteSets

CONSTANTS
  Writers,             \* reconcilers that write a status
  Types,               \* predicate types, or identities, that share the subject
  Findings,            \* what a status may say
  retryAttempts,       \* tries of a write of a bundle
  MaxWrites,           \* bound: writes
  MaxRegistryFaults    \* bound: failed calls and deaths

VARIABLES
  kept,      \* where: "oci" or "gcs"
  stored,    \* the bundles or objects: whose, of which type, what they say, when signed
  writing,   \* what each writer is at
  signedAt,  \* the time of the last signature
  writes, registryFaults,
  \* history, per type
  told,      \* what the last write said that nobody disturbed, or "any"
  placed,    \* whether a status was ever stored
  cut        \* whether a write ended between its deletions and its bundle

statusesVars ==
  <<kept, stored, writing, signedAt, writes, registryFaults, told, placed, cut>>

Bundle == [by : {"us", "others"}, type : Types, says : Findings, at : Nat]

Resting == [at |-> "idle", type |-> "none", says |-> "none", seen |-> {}, tries |-> 0,
            alone |-> TRUE, deleted |-> FALSE]

StatusesTypeOK ==
  /\ kept \in {"oci", "gcs"} /\ \A b \in stored : b \in Bundle
  /\ DOMAIN writing = Writers /\ signedAt \in Nat
  /\ told \in [Types -> Findings \cup {"any"}]
  /\ placed \in [Types -> BOOLEAN] /\ cut \in [Types -> BOOLEAN]

Of(t) == {b \in stored : b.type = t}

\* verifyAndExtract: the bundles that verify under the manager's identity and are
\* of its type.
Verified(t) == {b \in Of(t) : b.by = "us"}

\* ObservedState: any that is not older than another.
ObservedState(t) == {b \in Verified(t) : \A c \in Verified(t) : c.at <= b.at}

\* The bucket is empty; the image may carry a status that another identity signed.
StatusesInit ==
  /\ kept \in {"oci", "gcs"}
  /\ \/ stored = {}
     \/ /\ kept = "oci"
        /\ \E t \in Types, f \in Findings :
             stored = {[by |-> "others", type |-> t, says |-> f, at |-> 0]}
  /\ writing = [w \in Writers |-> Resting] /\ signedAt = 0 /\ writes = 0 /\ registryFaults = 0
  /\ told = [t \in Types |-> "any"]
  /\ placed = [t \in Types |-> FALSE] /\ cut = [t \in Types |-> FALSE]

-----------------------------------------------------------------------------
(* SetActualState.                                                         *)

Busy(t) == {w \in Writers : writing[w].at # "idle" /\ writing[w].type = t}

\* A write begins.  It is alone if nobody else writes the type, and finds at most
\* one bundle, of its own identity.
SetActualState(w, t, f) ==
  /\ writing[w].at = "idle" /\ writes < MaxWrites /\ writes' = writes + 1
  /\ LET session == [Resting EXCEPT
           !.at = IF kept = "oci" THEN "list" ELSE "write", !.type = t, !.says = f,
           !.alone = Busy(t) = {} /\ Cardinality(Of(t)) <= 1 /\ Of(t) = Verified(t)]
     IN writing' = [v \in Writers |->
          IF v = w THEN session
          ELSE [writing[v] EXCEPT !.alone = @ /\ v \notin Busy(t)]]
  /\ told' = [told EXCEPT ![t] = "any"]
  /\ UNCHANGED <<kept, stored, signedAt, registryFaults, placed, cut>>

At(w, place) == writing[w].at = place

\* Something stored before this step is not there after it.
Deleted == ~(stored \subseteq stored')

\* The write is over; ok says whether SetActualState returned without an error.
Ends(w, ok) ==
  LET s == writing[w] IN
  /\ writing' = [writing EXCEPT ![w] = Resting]
  /\ told' = [told EXCEPT ![s.type] = IF ok /\ s.alone THEN s.says ELSE "any"]
  /\ cut'  = [cut EXCEPT ![s.type] = IF ok THEN FALSE ELSE @ \/ s.deleted \/ Deleted]

\* transient.Retry begins anew, unless the attempts are used up or the error is
\* not worth another.
Fails(w) ==
  /\ registryFaults < MaxRegistryFaults /\ registryFaults' = registryFaults + 1
  /\ \/ Ends(w, FALSE)
     \/ /\ kept = "oci" /\ writing[w].tries + 1 < retryAttempts
        /\ writing' = [writing EXCEPT ![w].at = "list", ![w].tries = @ + 1,
                                      ![w].deleted = @ \/ Deleted]
        /\ UNCHANGED <<told, cut>>

\* SkipSame: a bundle with this very payload is there, whoever signed it.
Same(w) == \E b \in Of(writing[w].type) : b.says = writing[w].says

\* The bundles that a new one of the type replaces.
Superseded(w) == Of(writing[w].type)

ListBundles(w) ==
  /\ At(w, "list") /\ UNCHANGED <<kept, stored, signedAt, writes, placed>>
  /\ \/ Fails(w)
     \/ /\ Same(w) /\ Ends(w, TRUE) /\ UNCHANGED registryFaults
     \/ /\ ~Same(w) /\ UNCHANGED <<registryFaults, told, cut>>
        /\ writing' = [writing EXCEPT ![w].at = "sign", ![w].seen = Superseded(w)]

\* The signature's time is read in seconds: it may be that of the one before.
Sign(w) ==
  /\ At(w, "sign") /\ UNCHANGED <<kept, stored, writes, placed>>
  /\ \/ Fails(w) /\ UNCHANGED signedAt
     \/ /\ signedAt' \in signedAt .. signedAt + 1
        /\ writing' = [writing EXCEPT ![w].at = "delete"]
        /\ UNCHANGED <<registryFaults, told, cut>>

DeleteSuperseded(w) ==
  /\ At(w, "delete") /\ UNCHANGED <<kept, signedAt, writes, placed>>
  /\ \/ /\ \E D \in SUBSET writing[w].seen : stored' = stored \ D
        /\ Fails(w)
     \/ /\ stored' = stored \ writing[w].seen
        /\ writing' = [writing EXCEPT ![w].at = "write",
                         ![w].deleted = @ \/ Deleted]
        /\ UNCHANGED <<registryFaults, told, cut>>

\* A new bundle joins the others; an object replaces the one before.
After(w) ==
  LET s == writing[w]
      new == [by |-> "us", type |-> s.type, says |-> s.says, at |-> signedAt]
  IN  (IF kept = "gcs" THEN stored \ Of(s.type) ELSE stored) \cup {new}

Store(w) == stored' = After(w) /\ placed' = [placed EXCEPT ![writing[w].type] = TRUE]

WriteStatus(w) ==
  /\ At(w, "write") /\ UNCHANGED <<kept, signedAt, writes>>
  /\ \/ Store(w) /\ Ends(w, TRUE) /\ UNCHANGED registryFaults
     \/ (Store(w) \/ UNCHANGED <<stored, placed>>) /\ Fails(w)

WriterDies(w) ==
  /\ writing[w].at # "idle" /\ UNCHANGED <<kept, stored, signedAt, writes, placed>>
  /\ registryFaults < MaxRegistryFaults /\ registryFaults' = registryFaults + 1
  /\ Ends(w, FALSE)

StatusesNext ==
  \E w \in Writers :
    \/ \E t \in Types, f \in Findings : SetActualState(w, t, f)
    \/ ListBundles(w) \/ Sign(w) \/ DeleteSuperseded(w) \/ WriteStatus(w) \/ WriterDies(w)

-----------------------------------------------------------------------------

\* A status that was written while nobody else wrote its type is what a reader of
\* that type gets until the next write of it, whatever is written beside it under
\* other types ("without reaping each other's attestations").
TellsTheLast ==
  \A t \in Types : told[t] # "any" =>
    ObservedState(t) # {} /\ \A b \in ObservedState(t) : b.says = told[t]

\* Of several concurrent writers at least one bundle stays: between writes, a
\* status is missing only where a write ended after it had deleted.
NoneLost ==
  \A t \in Types : placed[t] /\ Busy(t) = {} /\ ObservedState(t) = {} => cut[t]

StatusesSound == TellsTheLast /\ NoneLost

=============================================================================
