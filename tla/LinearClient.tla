---------------------------- MODULE LinearClient ----------------------------
(***************************************************************************)
(* What reconciles keep on Linear through the client of linearreconciler:  *)
(* the state attachment and the bot's comment of one issue, which          *)
(* StateManagers of overlapping reconciles read and rewrite while people   *)
(* comment, and the lists of a team, which are paged through while its     *)
(* issues and projects change.  A behaviour is of one of the two.          *)
(*                                                                         *)
(* Comments and attachments are known by their place in the order they     *)
(* were created in.                                                        *)
(***************************************************************************)
EXTENDS Integers, FiniteSets, Sequences, FiniteSetsExt

CONSTANTS
  Managers,           \* reconciles of one issue that may overlap
  MaxSaves,           \* bound: attachments ever created
  MaxPersonComments,  \* bound: comments people write
  MaxLinearFaults,    \* bound: crashes, lost and refused calls
  TeamItems,          \* issues or projects of the team: 1 .. n, by creation
  issuesPageSize,
  MaxTouches          \* bound: changes made to them while a list is read

ASSUME LinearClientAssumption ==
  /\ MaxSaves \in Nat /\ MaxPersonComments \in Nat /\ MaxLinearFaults \in Nat
  /\ IsFiniteSet(Managers) /\ IsFiniteSet(TeamItems)
  /\ 1 \in TeamItems /\ TeamItems = 1 .. Cardinality(TeamItems)
  /\ issuesPageSize \in Nat \ {0} /\ MaxTouches \in Nat

NoID == 0

\* How a call of the API ends.  One that is lost may have been carried out.
Responses == {"done", "refused", "lost", "lost but done"}
CarriedOut(response) == response \in {"done", "lost but done"}

VARIABLES
  subject,      \* "an issue" or "a team"
  \* one issue
  attachments,  \* those with the title of the bot's state
  created,      \* how many were ever created
  comments,     \* who wrote each comment
  manager,      \* what each reconcile's StateManager knows and is at
  faults,       \* faults so far
  heard,        \* history: comments that were handed out, or that were written between
                \* a reconcile's read and the first comment it wrote
  neglected,    \* history: a reconcile passed over another comment
  undeleted,    \* history: deletes of an attachment that failed
  gone,         \* history: the last reconcile that deleted did not get to attach
  \* a team
  born,         \* the items that exist
  workflow,     \* the workflow state of each
  recency,      \* the change that each was last touched by, 0 for the team's first item
  touches,      \* changes so far
  sweep         \* the list that is being read

issueVars == <<attachments, created, comments, manager, faults, heard, neglected,
               undeleted, gone>>
teamVars == <<born, workflow, recency, touches, sweep>>
linearClientVars == <<subject, issueVars, teamVars>>

NoRun == [at |-> "idle", snapshot |-> {}, read |-> 0, commentID |-> NoID,
          lastProcessed |-> NoID]

\* The workflow states of the team, in Linear's order.
TeamStates ==
  <<[name |-> "Todo", type |-> "unstarted"], [name |-> "Duplicate", type |-> "canceled"],
    [name |-> "Canceled", type |-> "canceled"]>>

closedStateTypes == {"completed", "canceled"}
OpenItems == {i \in born : TeamStates[workflow[i]].type \notin closedStateTypes}

NoSweep == [on |-> FALSE, of |-> "issues", after |-> NoID, got |-> <<>>, steady |-> {}]

LinearClientInit ==
  /\ subject \in {"an issue", "a team"}
  /\ attachments = {} /\ created = 0 /\ comments = <<>> /\ faults = 0
  /\ manager = [m \in Managers |-> NoRun]
  /\ heard = {} /\ neglected = FALSE /\ undeleted = 0 /\ gone = FALSE
  /\ born = {1} /\ workflow = [i \in TeamItems |-> 1] /\ recency = [i \in TeamItems |-> 0]
  /\ touches = 0 /\ sweep = NoSweep

StateAttachment == [id : 1 .. MaxSaves, commentID : Nat, lastProcessed : Nat]

LinearClientTypeOK ==
  /\ subject \in {"an issue", "a team"}
  /\ attachments \subseteq StateAttachment /\ created \in 0 .. MaxSaves
  /\ \A m \in Managers :
       /\ manager[m].at \in {"idle", "heard", "told", "delete"}
       /\ manager[m].snapshot \subseteq StateAttachment
       /\ manager[m].read <= Len(comments) /\ manager[m].commentID <= Len(comments)
  /\ heard \subseteq 1 .. Len(comments)
  /\ born \subseteq TeamItems /\ recency \in [TeamItems -> 0 .. touches]
  /\ workflow \in [TeamItems -> 1 .. Len(TeamStates)]
  /\ sweep.steady \subseteq born

-----------------------------------------------------------------------------
(* One issue.                                                              *)

LeavesIssue(m) == manager' = [manager EXCEPT ![m] = NoRun]

\* Only what ends as "done" costs no fault.
Suffers(response) ==
  /\ response # "done" => faults < MaxLinearFaults
  /\ faults' = IF response = "done" THEN faults ELSE faults + 1

PersonComments(cs) == {c \in DOMAIN cs : cs[c] = "person"}

\* A person comments.
Comment ==
  /\ Cardinality(PersonComments(comments)) < MaxPersonComments
  /\ comments' = Append(comments, "person")
  /\ UNCHANGED <<attachments, created, manager, faults, heard, neglected, undeleted, gone>>

\* Load: the latest attachment; without one there is no state.
FindLatestAttachment(found) == CHOOSE a \in found : \A b \in found : b.id <= a.id

LoadState ==
  IF attachments = {} THEN [commentID |-> NoID, lastProcessed |-> NoID]
  ELSE FindLatestAttachment(attachments)

\* The comments after the bot's last.
AfterBot == {c \in DOMAIN comments : \A b \in c .. Len(comments) : comments[b] = "person"}

\* None, if the last comment was processed.
UnprocessedComments == IF LoadState.lastProcessed = Len(comments) THEN {} ELSE AfterBot

\* Reconcile reads the issue once, for all that its StateManager does: it loads the
\* state, and hands out the comments, the last of which Save will mark.  (One that
\* cannot fetch the state dies.)
GetIssue(m) ==
  /\ manager[m].at = "idle" /\ created < MaxSaves
  /\ heard' = heard \cup UnprocessedComments
  /\ neglected' =
       (neglected \/ ~(PersonComments(comments) \subseteq heard \cup UnprocessedComments))
  /\ manager' = [manager EXCEPT ![m] =
       [at |-> "heard", snapshot |-> attachments, read |-> Len(comments),
        commentID |-> LoadState.commentID,
        lastProcessed |-> IF UnprocessedComments = {} THEN LoadState.lastProcessed
                          ELSE Len(comments)]]
  /\ UNCHANGED <<attachments, created, comments, faults, undeleted, gone>>

\* Mutated form of Edits: each answer is a comment of its own.
EditsNone(m) == FALSE

\* upsertComment: the comment that the state names is edited in place.
Edits(m) == manager[m].commentID # NoID

UpsertBotComment(m) ==
  /\ manager[m].at = "heard"
  /\ \E response \in Responses :
       LET new == ~Edits(m) /\ CarriedOut(response) IN
       /\ Suffers(response)
       /\ comments' = IF new THEN Append(comments, "bot") ELSE comments
       /\ heard' = IF new /\ manager[m].commentID = NoID THEN
                     heard \cup {c \in PersonComments(comments) : c > manager[m].read}
                   ELSE heard
       /\ manager' = [manager EXCEPT ![m] =
            IF response # "done" THEN NoRun
            ELSE [manager[m] EXCEPT !.at = "told", !.read = 0,
                    !.commentID = IF new THEN Len(comments) + 1 ELSE manager[m].commentID]]
  /\ UNCHANGED <<attachments, created, neglected, undeleted, gone>>

\* Save deletes every attachment it knows, before it uploads.
Save(m) ==
  /\ manager[m].at \in {"heard", "told"}
  /\ manager' = [manager EXCEPT ![m].at = "delete", ![m].read = 0]
  /\ UNCHANGED <<attachments, created, comments, faults, heard, neglected, undeleted, gone>>

\* A failure to delete is logged; another may have deleted it before.
DeleteAttachment(m) ==
  /\ manager[m].at = "delete"
  /\ \E a \in manager[m].snapshot, response \in {"done", "refused"} :
       /\ Suffers(response)
       /\ attachments' = IF response = "done" THEN attachments \ {a} ELSE attachments
       /\ undeleted' = IF response = "refused" THEN undeleted + 1 ELSE undeleted
       /\ manager' = [manager EXCEPT ![m].snapshot = @ \ {a}]
  /\ UNCHANGED <<created, comments, heard, neglected, gone>>

\* The upload URL, the upload and attachmentCreate, whose success is not looked at.
UploadFileAttachment(m) ==
  /\ manager[m].at = "delete" /\ manager[m].snapshot = {}
  /\ \E response \in Responses :
       /\ Suffers(response)
       /\ gone' = ~CarriedOut(response)
       /\ IF CarriedOut(response)
          THEN /\ created' = created + 1
               /\ attachments' = attachments \cup
                    {[id |-> created + 1, commentID |-> manager[m].commentID,
                      lastProcessed |-> manager[m].lastProcessed]}
          ELSE UNCHANGED <<created, attachments>>
  /\ created < MaxSaves /\ LeavesIssue(m)
  /\ UNCHANGED <<comments, heard, neglected, undeleted>>

\* The process dies, or the reconcile returns before it saves.
Dies(m) ==
  /\ manager[m].at # "idle" /\ Suffers("lost") /\ LeavesIssue(m)
  /\ gone' = (gone \/ manager[m].at = "delete")
  /\ UNCHANGED <<attachments, created, comments, heard, neglected, undeleted>>

IssueNext ==
  \/ Comment
  \/ \E m \in Managers :
       \/ GetIssue(m) \/ UpsertBotComment(m) \/ Save(m)
       \/ DeleteAttachment(m) \/ UploadFileAttachment(m) \/ Dies(m)

-----------------------------------------------------------------------------
(* A team.                                                                 *)

\* A change to i makes it the one last changed.
Touched(i) ==
  /\ touches < MaxTouches /\ touches' = touches + 1
  /\ recency' = [recency EXCEPT ![i] = touches + 1]

\* CreateIssue, CreateProject: the newest.
CreateItem ==
  /\ \E i \in TeamItems \ born :
       /\ \A j \in TeamItems : j < i => j \in born
       /\ born' = born \cup {i} /\ Touched(i)
  /\ UNCHANGED <<workflow, sweep>>

\* The first state of the type whose name is preferred, else the first of the type.
FindStateIDByType(stateType, preferred) ==
  LET ofType == {s \in DOMAIN TeamStates : TeamStates[s].type = stateType}
      named  == {s \in ofType : TeamStates[s].name \in preferred}
  IN IF named # {} THEN {Min(named)} ELSE IF ofType # {} THEN {Min(ofType)} ELSE {}

\* A team without a state of the type is left alone.
SetIssueStateByType(i, stateType, preferred) ==
  /\ \E s \in FindStateIDByType(stateType, preferred) :
       workflow' = [workflow EXCEPT ![i] = s]
  /\ Touched(i) /\ UNCHANGED born
  /\ sweep' = [sweep EXCEPT !.steady =
       IF stateType \in closedStateTypes \/ sweep.of = "projects" THEN @ \ {i} ELSE @]

\* Any other edit of an item, say a state attachment.
EditItem(i) ==
  /\ Touched(i) /\ UNCHANGED <<born, workflow>>
  /\ sweep' = [sweep EXCEPT !.steady = IF sweep.of = "projects" THEN @ \ {i} ELSE @]

\* The order of a list, the newest first: issues are asked for by creation,
\* projects are not asked for in any order and come by their last change.
Behind(of, i, after) ==
  \/ after = NoID
  \/ of = "issues" /\ i < after
  \/ of = "projects" /\ recency[i] < recency[after]

Rest == {i \in OpenItems : Behind(sweep.of, i, sweep.after)}

\* The first page of what is left, as a sequence: each entry goes before all that is
\* not listed before it.
Listing(i, j) == IF sweep.of = "issues" THEN i >= j ELSE recency[i] >= recency[j]
PageOf(items) ==
  LET n == IF Cardinality(items) < issuesPageSize THEN Cardinality(items) ELSE issuesPageSize
  IN CHOOSE p \in [1 .. n -> items] :
       \A k \in 1 .. n : LET rest == items \ {p[l] : l \in 1 .. k - 1} IN
                        p[k] \in rest /\ \A i \in rest : Listing(p[k], i)

\* steady is what is open, and for projects unchanged, as long as the list is read.
StartSweep(of) ==
  /\ ~sweep.on
  /\ sweep' = [on |-> TRUE, of |-> of, after |-> NoID, got |-> <<>>, steady |-> OpenItems]
  /\ UNCHANGED <<born, workflow, recency, touches>>

\* ListTeamIssues and FindActiveProjectIDByName: page after page, from the cursor.
NextPageOf ==
  /\ sweep.on
  /\ LET page == PageOf(Rest) IN
     sweep' = [sweep EXCEPT !.got = @ \o page, !.on = Cardinality(Rest) > Len(page),
                            !.after = IF page = <<>> THEN @ ELSE page[Len(page)]]
  /\ UNCHANGED <<born, workflow, recency, touches>>

TeamNext ==
  \/ CreateItem \/ NextPageOf
  \/ \E of \in {"issues", "projects"} : StartSweep(of)
  \/ \E i \in born :
       \/ EditItem(i)
       \/ SetIssueStateByType(i, "unstarted", {}) \/ SetIssueStateByType(i, "completed", {})
       \/ SetIssueStateByType(i, "canceled", {"Canceled", "Cancelled"})

-----------------------------------------------------------------------------

LinearClientNext ==
  /\ UNCHANGED subject
  /\ \/ subject = "an issue" /\ IssueNext /\ UNCHANGED teamVars
     \/ subject = "a team" /\ TeamNext /\ UNCHANGED issueVars

\* A state that was saved is lost only with a reconcile that deleted it and did not
\* get to attach its own.
StateKept ==
  created > 0 => \/ attachments # {} \/ gone
                 \/ \E m \in Managers : manager[m].at = "delete"

\* States pile up by what overlaps and what could not be deleted, not by saving.
StatesBounded == Cardinality(attachments) <= Cardinality(Managers) + undeleted

\* Whatever a reconcile passes over was handed to one, however they overlap, die or
\* save over each other, unless it was written behind the back of a first answer.
CommentsHeard == ~neglected

\* A list that was read to its end has each item once that was there all along.
ListsComplete ==
  ~sweep.on => \A i \in sweep.steady :
    LET times == Cardinality({j \in DOMAIN sweep.got : sweep.got[j] = i}) IN
    IF sweep.of = "issues" THEN times = 1 ELSE times >= 1

LinearClientSound == StateKept /\ StatesBounded /\ CommentsHeard /\ ListsComplete

=============================================================================
