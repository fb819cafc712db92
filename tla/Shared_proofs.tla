--------------------------- MODULE Shared_proofs ----------------------------
(***************************************************************************)
(* Proofs about what reconcilers share: credentials, the Linear client,    *)
(* statuses and attestations, and the stores with generations.             *)
(***************************************************************************)
EXTENDS Credentials, LinearClient, Statuses, Stores, FiniteSetTheorems, FunctionTheorems,
        SequenceTheorems, WellFoundedInduction, TLAPS

\* The principle behind each induction here: a set of numbers has a smallest.
LEMMA SmallestExists ==
  ASSUME NEW T \in SUBSET Nat, T # {} PROVE \E x \in T : \A y \in T : x <= y
<1>1. \A x, y \in Nat : y < x => <<y, x>> \in OpToRel(<, Nat)
  BY DEF OpToRel
<1>2. \E R : IsWellFoundedOn(R, Nat) /\ \A x, y \in Nat : y < x => <<y, x>> \in R
  BY <1>1, NatLessThanWellFounded, Zenon
<1>3. PICK R : IsWellFoundedOn(R, Nat) /\ \A x, y \in Nat : y < x => <<y, x>> \in R
  BY <1>2, Zenon
<1>4. \E x \in T : \A y \in T : ~(<<y, x>> \in R)
  BY <1>3, WFMin
<1>5. PICK x \in T : \A y \in T : ~(<<y, x>> \in R)
  BY <1>4
<1>6. ASSUME NEW y \in T PROVE x <= y
  <2>1. x \in Nat /\ y \in Nat
    OBVIOUS
  <2>2. ~(y < x)
    BY <1>3, <1>5, <2>1, Zenon
  <2> QED BY <2>1, <2>2
<1> QED BY <1>5, <1>6

-----------------------------------------------------------------------------
(***************************************************************************)
(* Proofs about Credentials, for any requests, repositories and lifetimes. *)
(***************************************************************************)

Requested == [at : {"idle", "lock", "mint", "lookup", "fetch", "build", "exchange"},
              what : {"client", "source", "install", None}, repo : Repos \cup {None},
              end : {"served", "failed", "rejected", None}]

\* Each vendor's requests have their own places.
Places ==
  IF vendor = "linear" THEN {"idle", "mint"}
  ELSE IF vendor = "github" THEN {"idle", "lock", "lookup", "fetch", "build"}
  ELSE {"idle", "exchange"}

CallsTyped ==
  /\ vendor \in {"linear", "github", "anthropic"}
  /\ mu \in Requests \cup {None} /\ call \in [Requests -> Requested]
  /\ \A r \in Requests : call[r].at \in Places

TokenBounded ==
  /\ token \in {None, "good", "dead"} /\ left \in Int /\ age \in Nat
  /\ left >= -Margin /\ left <= maxTokenCacheTTL /\ age <= maxTokenCacheTTL
  /\ OutageBounded

SourcesTyped ==
  /\ sources \in [Repos -> Nat] /\ clients \in [Repos -> Nat] /\ made \in [Repos -> Nat]
  /\ installed \in BOOLEAN
  /\ flight \in [leader : Requests \cup {None}, members : SUBSET Requests]

\* The request is about to make a source, or wants to.
Wants(r) == call[r].at \in {"lock", "lookup", "fetch", "build"} /\ call[r].what # "install"

\* Who makes a source holds the lock, and there is none yet; who waits for a lookup
\* has asked for it.
LockHeld ==
  \A r \in Requests :
    /\ Wants(r) => /\ call[r].repo \in Repos /\ call[r].what \in {"client", "source"}
                   /\ call[r].at # "lock" => mu = r /\ made[call[r].repo] = 0
    /\ r \in flight.members => call[r].at = "fetch"

\* A source is built for each count, and clients are built on sources.
SourcesCounted ==
  \A p \in Repos : /\ sources[p] = made[p] /\ made[p] <= 1
                   /\ clients[p] # 0 => clients[p] = sources[p]

SourcesKept == SourcesTyped /\ LockHeld /\ SourcesCounted

\* The identity token at hand was presented by a client that now has access.
PresentedForAccess ==
  /\ shared \in BOOLEAN /\ access \in [Instances -> BOOLEAN] /\ presented \in BOOLEAN
  /\ replayed = FALSE
  /\ Replays => access["shared"]

CredentialsIInv == CallsTyped /\ TokenBounded /\ SourcesKept /\ PresentedForAccess

LEMMA CredentialsInitInv == CredentialsInit => CredentialsIInv
<1> SUFFICES ASSUME CredentialsInit PROVE CredentialsIInv
  OBVIOUS
<1>1. NoCall \in Requested /\ NoCall.at = "idle"
  BY DEF NoCall, Requested, None
<1>2. CallsTyped
  BY <1>1 DEF CredentialsInit, CallsTyped, Places
<1>3. TokenBounded
  BY CredentialsAssumption DEF CredentialsInit, TokenBounded, OutageBounded, Margin
<1>4. SourcesKept
  <2>1. /\ sources \in [Repos -> Nat] /\ clients \in [Repos -> Nat] /\ made \in [Repos -> Nat]
        /\ \A p \in Repos : sources[p] = 0 /\ clients[p] = 0 /\ made[p] = 0
        /\ installed \in BOOLEAN /\ \A r \in Requests : call[r].at = "idle"
    BY <1>1 DEF CredentialsInit
  <2>2. flight = [leader |-> None, members |-> {}]
    BY DEF CredentialsInit, NoFlight
  <2> QED BY <2>1, <2>2 DEF SourcesKept, SourcesTyped, LockHeld, SourcesCounted, Wants
<1>5. PresentedForAccess
  BY DEF CredentialsInit, PresentedForAccess, Replays
<1> QED BY <1>2, <1>3, <1>4, <1>5 DEF CredentialsIInv

LEMMA EndsFacts ==
  ASSUME CallsTyped, NEW r \in Requests, NEW e \in {"served", "failed", "rejected"}, EndsAs(r, e)
  PROVE  /\ call' \in [Requests -> Requested] /\ call'[r].at = "idle"
         /\ \A q \in Requests \ {r} : call'[q] = call[q]
<1> DEFINE x == [NoCall EXCEPT !.end = e]
<1>1. x \in Requested /\ x.at = "idle"
  BY DEF NoCall, Requested, None
<1>2. call' = [call EXCEPT ![r] = x]
  BY DEF EndsAs
<1> HIDE DEF x
<1> QED BY <1>1, <1>2 DEF CallsTyped

LEMMA GoesFacts ==
  ASSUME CallsTyped, NEW r \in Requests,
         NEW a \in {"idle", "lock", "mint", "lookup", "fetch", "build", "exchange"}, Goes(r, a)
  PROVE  /\ call' \in [Requests -> Requested] /\ call'[r].at = a
         /\ call'[r].what = call[r].what /\ call'[r].repo = call[r].repo
         /\ \A q \in Requests \ {r} : call'[q] = call[q]
<1> DEFINE x == [call[r] EXCEPT !.at = a]
<1>1. x \in Requested /\ x.at = a /\ x.what = call[r].what /\ x.repo = call[r].repo
  BY DEF CallsTyped, Requested
<1>2. call' = [call EXCEPT ![r] = x]
  BY DEF Goes
<1> HIDE DEF x
<1> QED BY <1>1, <1>2 DEF CallsTyped

-----------------------------------------------------------------------------

\* Of other vendors than GitHub, requests build no sources.
LEMMA NoSourcesWanted ==
  ASSUME CallsTyped, CallsTyped', SourcesKept, vendor # "github", UNCHANGED <<vendor, githubVars>>
  PROVE  SourcesKept'
<1>1. \A r \in Requests : /\ call[r].at \notin {"lock", "lookup", "fetch", "build"}
                          /\ call'[r].at \notin {"lock", "lookup", "fetch", "build"}
  BY DEF CallsTyped, Places
<1>2. UNCHANGED <<sources, clients, installed, flight, made>>
  BY DEF githubVars
<1>3. \A r \in Requests : r \notin flight.members
  BY <1>1 DEF SourcesKept, LockHeld
<1> QED BY <1>1, <1>2, <1>3 DEF SourcesKept, SourcesTyped, LockHeld, Wants, SourcesCounted

LEMMA LinearInv ==
  ASSUME CredentialsIInv, vendor = "linear", LinearNext,
         UNCHANGED <<vendor, githubVars, anthropicVars>>
  PROVE  CredentialsIInv'
<1>1. CallsTyped
  BY DEF CredentialsIInv
<1>2. CallsTyped'
  <2>1. mu' \in Requests \cup {None} /\ vendor' = "linear"
    BY <1>1 DEF LinearNext, AsksLinear, UseToken, StartMint, Minted, Revoke, TokenTick, CallsTyped
  <2>2. CASE UNCHANGED call
    BY <1>1, <2>1, <2>2 DEF CallsTyped, Places
  <2>3. CASE \E r \in Requests : Goes(r, "mint")
    <3>1. PICK r \in Requests : Goes(r, "mint")
      BY <2>3
    <3>2. /\ call' \in [Requests -> Requested] /\ call'[r].at = "mint"
          /\ \A q \in Requests \ {r} : call'[q] = call[q]
      BY <1>1, <3>1, GoesFacts
    <3> QED BY <1>1, <2>1, <3>2 DEF CallsTyped, Places
  <2>4. CASE \E r \in Requests, e \in {"served", "failed", "rejected"} : EndsAs(r, e)
    <3>1. PICK r \in Requests, e \in {"served", "failed", "rejected"} : EndsAs(r, e)
      BY <2>4
    <3>2. /\ call' \in [Requests -> Requested] /\ call'[r].at = "idle"
          /\ \A q \in Requests \ {r} : call'[q] = call[q]
      BY <1>1, <3>1, EndsFacts
    <3> QED BY <1>1, <2>1, <3>2 DEF CallsTyped, Places
  <2>5. CASE \E r \in Requests : UseToken(r)
    BY <2>4, <2>5 DEF UseToken
  <2>6. CASE \E r \in Requests : StartMint(r) \/ Minted(r)
    BY <2>3, <2>4, <2>6 DEF StartMint, Minted
  <2> QED BY <2>2, <2>5, <2>6 DEF LinearNext, AsksLinear, Revoke, TokenTick
<1>3. TokenBounded'
  <2>1. TokenBounded /\ maxTokenCacheTTL \in Nat
    BY CredentialsAssumption DEF CredentialsIInv
  <2>2. CASE UNCHANGED linearTokenVars
    BY <2>1, <2>2 DEF TokenBounded, OutageBounded, linearTokenVars
  <2>3. CASE \E advertised \in Lifetimes :
               left' = CacheLife(advertised) /\ token' = "good" /\ age' = 0
    BY <2>1, <2>3, CredentialsAssumption DEF TokenBounded, OutageBounded, CacheLife, Margin
  <2>4. CASE Revoke
    BY <2>1, <2>4 DEF TokenBounded, OutageBounded, Revoke
  <2>5. CASE TokenTick
    BY <2>1, <2>5 DEF TokenBounded, OutageBounded, TokenTick, Margin
  <2> QED BY <2>2, <2>3, <2>4, <2>5 DEF LinearNext, AsksLinear, UseToken, StartMint, Minted
<1>4. SourcesKept'
  BY <1>1, <1>2, NoSourcesWanted DEF CredentialsIInv
<1>5. PresentedForAccess'
  BY DEF CredentialsIInv, PresentedForAccess, Replays, anthropicVars
<1> QED BY <1>2, <1>3, <1>4, <1>5 DEF CredentialsIInv

LEMMA AnthropicInv ==
  ASSUME CredentialsIInv, vendor = "anthropic", AnthropicNext,
         UNCHANGED <<vendor, linearTokenVars, githubVars>>
  PROVE  CredentialsIInv'
<1>1. CallsTyped /\ PresentedForAccess
  BY DEF CredentialsIInv
<1>2. CallsTyped'
  <2>1. mu' \in Requests \cup {None} /\ vendor' = "anthropic"
    BY <1>1 DEF AnthropicNext, UseClaude, Exchange, Expire, CallsTyped
  <2>2. CASE UNCHANGED call
    BY <1>1, <2>1, <2>2 DEF CallsTyped, Places
  <2>3. CASE \E r \in Requests : Goes(r, "exchange")
    <3>1. PICK r \in Requests : Goes(r, "exchange")
      BY <2>3
    <3>2. /\ call' \in [Requests -> Requested] /\ call'[r].at = "exchange"
          /\ \A q \in Requests \ {r} : call'[q] = call[q]
      BY <1>1, <3>1, GoesFacts
    <3> QED BY <1>1, <2>1, <3>2 DEF CallsTyped, Places
  <2>4. CASE \E r \in Requests, e \in {"served", "failed", "rejected"} : EndsAs(r, e)
    <3>1. PICK r \in Requests, e \in {"served", "failed", "rejected"} : EndsAs(r, e)
      BY <2>4
    <3>2. /\ call' \in [Requests -> Requested] /\ call'[r].at = "idle"
          /\ \A q \in Requests \ {r} : call'[q] = call[q]
      BY <1>1, <3>1, EndsFacts
    <3> QED BY <1>1, <2>1, <3>2 DEF CallsTyped, Places
  <2>5. CASE \E r \in Requests : UseClaude(r) \/ Exchange(r)
    BY <2>3, <2>4, <2>5 DEF UseClaude, Exchange
  <2> QED BY <2>2, <2>5 DEF AnthropicNext, Expire
<1>3. TokenBounded'
  BY DEF CredentialsIInv, TokenBounded, OutageBounded, linearTokenVars
<1>4. SourcesKept'
  BY <1>1, <1>2, NoSourcesWanted DEF CredentialsIInv
<1>5. PresentedForAccess'
  <2>1. CASE UNCHANGED <<source, access, presented, replayed>> /\ shared' \in BOOLEAN
    BY <1>1, <2>1 DEF PresentedForAccess, Replays
  <2>2. CASE ~access["shared"] /\ access' = [access EXCEPT !["shared"] = ~Replays]
             /\ presented' = TRUE /\ replayed' = (replayed \/ Replays) /\ UNCHANGED <<source, shared>>
    <3>1. ~Replays
      BY <1>1, <2>2, Zenon DEF PresentedForAccess
    <3>2. replayed' = FALSE
      BY <1>1, <2>2, <3>1 DEF PresentedForAccess
    <3>3. access' \in [Instances -> BOOLEAN] /\ access'["shared"]
      BY <1>1, <2>2, <3>1 DEF PresentedForAccess, Instances
    <3> QED BY <1>1, <2>2, <3>2, <3>3 DEF PresentedForAccess
  <2>3. CASE Expire
    <3>1. /\ access' = [i \in Instances |-> FALSE] /\ presented' = (source = "github-actions")
          /\ UNCHANGED <<source, shared, replayed>>
      BY <2>3 DEF Expire
    <3>2. ~Replays'
      BY <3>1 DEF Replays
    <3> QED BY <1>1, <3>1, <3>2 DEF PresentedForAccess
  <2>4. CASE \E r \in Requests : UseClaude(r)
    BY <1>1, <2>1, <2>4 DEF UseClaude, anthropicVars, PresentedForAccess
  <2>5. CASE \E r \in Requests : Exchange(r)
    BY <1>1, <2>1, <2>2, <2>5 DEF Exchange, federationClient, PresentedForAccess
  <2> QED BY <2>3, <2>4, <2>5 DEF AnthropicNext
<1> QED BY <1>2, <1>3, <1>4, <1>5 DEF CredentialsIInv

-----------------------------------------------------------------------------
(* The sources and clients of repositories.                                *)

\* What a request of GitHub's does keeps the lock and the counts.
GitHubKept == CallsTyped /\ SourcesKept /\ vendor = "github"

\* Only the request r went on, to a place where it wants nothing it has not got.
LEMMA OneGoesOn ==
  ASSUME GitHubKept, vendor' = vendor, NEW r \in Requests,
         call' \in [Requests -> Requested], \A q \in Requests \ {r} : call'[q] = call[q],
         call'[r].at \in {"idle", "lock", "lookup", "fetch", "build"},
         UNCHANGED <<sources, made, installed>>, SourcesTyped', SourcesCounted',
         mu' \in Requests \cup {None}, mu' = mu \/ (mu = None /\ mu' = r),
         Wants(r)' => /\ call'[r].repo \in Repos /\ call'[r].what \in {"client", "source"}
                      /\ call'[r].at # "lock" => mu' = r /\ made[call'[r].repo] = 0,
         \A q \in flight'.members : IF q = r THEN call'[q].at = "fetch" ELSE q \in flight.members
  PROVE  GitHubKept'
<1>1. CallsTyped'
  BY DEF GitHubKept, CallsTyped, Places
<1>2. LockHeld'
  <2>1. ASSUME NEW q \in Requests
        PROVE  /\ Wants(q)' => /\ call'[q].repo \in Repos /\ call'[q].what \in {"client", "source"}
                               /\ call'[q].at # "lock" => mu' = q /\ made'[call'[q].repo] = 0
               /\ q \in flight'.members => call'[q].at = "fetch"
    <3>1. CASE q = r
      BY <3>1
    <3>2. CASE q # r
      <4>1. call'[q] = call[q]
        BY <3>2
      <4>2. LockHeld /\ mu # q => mu' # q
        BY <3>2
      <4>3. Wants(q)' => Wants(q)
        BY <4>1 DEF Wants
      <4> QED BY <3>2, <4>1, <4>2, <4>3, CredentialsAssumption
              DEF GitHubKept, SourcesKept, LockHeld
    <3> QED BY <3>1, <3>2
  <2> QED BY <2>1 DEF LockHeld
<1> QED BY <1>1, <1>2 DEF GitHubKept, SourcesKept

LEMMA CallInv ==
  ASSUME GitHubKept, vendor' = vendor, NEW r \in Requests, Call(r) \/ CallLookup(r)
  PROVE  GitHubKept'
<1>1. /\ call[r].at = "idle" /\ mu' = mu /\ mu \in Requests \cup {None}
      /\ UNCHANGED <<sources, clients, installed, flight, made>>
  BY DEF Call, CallLookup, githubVars, GitHubKept, CallsTyped
<1>2. SourcesTyped' /\ SourcesCounted'
  BY <1>1 DEF GitHubKept, SourcesKept, SourcesTyped, SourcesCounted
<1>3. \A q \in flight'.members : q \in flight.members /\ q # r
  BY <1>1 DEF GitHubKept, SourcesKept, LockHeld, SourcesTyped
<1>4. PICK x \in Requested :
        /\ call' = [call EXCEPT ![r] = x]
        /\ x.at \in {"idle", "lock", "lookup"} /\ (x.at = "lookup" => x.what = "install")
        /\ x.at = "lock" => x.repo \in Repos /\ x.what \in {"client", "source"}
  <2>1. CASE Call(r)
    <3>1. PICK what \in {"client", "source"}, p \in Repos, a \in {"idle", "lock"},
               e \in {"served", None} :
            call' = [call EXCEPT ![r] = [at |-> a, what |-> what, repo |-> p, end |-> e]]
      BY <2>1 DEF Call
    <3> DEFINE x == [at |-> a, what |-> what, repo |-> p, end |-> e]
    <3>2. x \in Requested /\ x.at = a /\ x.repo = p /\ x.what = what
      BY DEF Requested
    <3> HIDE DEF x
    <3>3. call' = [call EXCEPT ![r] = x]
      BY <3>1 DEF x
    <3> QED BY <3>2, <3>3
  <2>2. CASE CallLookup(r)
    <3> DEFINE x == [NoCall EXCEPT !.at = "lookup", !.what = "install"]
    <3>1. x \in Requested /\ x.at = "lookup" /\ x.what = "install"
      BY DEF Requested, NoCall
    <3>2. call' = [call EXCEPT ![r] = x]
      BY <2>2 DEF CallLookup
    <3> HIDE DEF x
    <3> QED BY <3>1, <3>2
  <2> QED BY <2>1, <2>2
<1>5. /\ call' \in [Requests -> Requested] /\ call'[r] = x
      /\ \A q \in Requests \ {r} : call'[q] = call[q]
  BY <1>4 DEF GitHubKept, CallsTyped
<1>6. Wants(r)' => /\ call'[r].repo \in Repos /\ call'[r].what \in {"client", "source"}
                   /\ call'[r].at # "lock" => mu' = r /\ made[call'[r].repo] = 0
  BY <1>4, <1>5 DEF Wants
<1>7. call'[r].at \in {"idle", "lock", "lookup", "fetch", "build"}
  BY <1>4, <1>5
<1> QED BY <1>1, <1>2, <1>3, <1>5, <1>6, <1>7, OneGoesOn

LEMMA LockInv ==
  ASSUME GitHubKept, vendor' = vendor, NEW r \in Requests, Lock(r) PROVE GitHubKept'
<1> DEFINE p == call[r].repo
<1>1. /\ call[r].at = "lock" /\ mu = None /\ UNCHANGED <<sources, installed, flight, made>>
      /\ CallsTyped /\ SourcesTyped /\ SourcesCounted
  BY DEF Lock, githubVars, GitHubKept, SourcesKept
<1>2. \A q \in flight'.members : q \in flight.members /\ q # r
  BY <1>1 DEF GitHubKept, SourcesKept, LockHeld, SourcesTyped
<1>3. call[r].what # "install" => p \in Repos /\ call[r].what \in {"client", "source"}
  BY <1>1 DEF GitHubKept, SourcesKept, LockHeld, Wants
<1>4. CASE EndsAs(r, "served") /\ mu' = mu /\ SourcesTyped' /\ SourcesCounted'
  <2>1. /\ call' \in [Requests -> Requested] /\ call'[r].at = "idle"
        /\ \A q \in Requests \ {r} : call'[q] = call[q]
    BY <1>1, <1>4, EndsFacts
  <2>2. ~Wants(r)'
    BY <2>1 DEF Wants
  <2>3. mu' \in Requests \cup {None}
    BY <1>1, <1>4
  <2> QED BY <1>1, <1>2, <1>4, <2>1, <2>2, <2>3, OneGoesOn
<1>5. CASE Held(r) # 0
  BY <1>1, <1>4, <1>5 DEF Lock, githubVars, SourcesTyped, SourcesCounted
<1>6. CASE Held(r) = 0 /\ sources[p] # 0
  <2>1. clients' = [clients EXCEPT ![p] = sources[p]]
    BY <1>6 DEF Lock
  <2>2. SourcesTyped' /\ SourcesCounted'
    <3>1. CASE p \in Repos
      BY <1>1, <2>1, <3>1 DEF SourcesTyped, SourcesCounted
    <3>2. CASE p \notin Repos
      <4>1. clients' = clients
        BY <1>1, <2>1, <3>2 DEF SourcesTyped
      <4> QED BY <1>1, <4>1 DEF SourcesTyped, SourcesCounted
    <3> QED BY <3>1, <3>2
  <2> QED BY <1>4, <1>6, <2>2 DEF Lock
<1>7. CASE Held(r) = 0 /\ sources[p] = 0
  <2>1. mu' = r /\ Goes(r, "lookup") /\ clients' = clients
    BY <1>7 DEF Lock, githubVars
  <2>2. /\ call' \in [Requests -> Requested] /\ call'[r].at = "lookup"
        /\ call'[r].what = call[r].what /\ call'[r].repo = p
        /\ \A q \in Requests \ {r} : call'[q] = call[q]
    BY <1>1, <2>1, GoesFacts
  <2>3. SourcesTyped' /\ SourcesCounted'
    BY <1>1, <2>1 DEF SourcesTyped, SourcesCounted
  <2>4. Wants(r)' => /\ call'[r].repo \in Repos /\ call'[r].what \in {"client", "source"}
                     /\ call'[r].at # "lock" => mu' = r /\ made[call'[r].repo] = 0
    BY <1>1, <1>3, <1>7, <2>1, <2>2 DEF Wants, SourcesCounted
  <2>5. mu' \in Requests \cup {None} /\ (mu' = mu \/ (mu = None /\ mu' = r))
    BY <1>1, <2>1
  <2> QED BY <1>1, <1>2, <2>2, <2>3, <2>4, <2>5, OneGoesOn
<1> QED BY <1>5, <1>6, <1>7

LEMMA LookupInstallIDInv ==
  ASSUME GitHubKept, vendor' = vendor, NEW r \in Requests, LookupInstallID(r) PROVE GitHubKept'
<1>1. /\ call[r].at = "lookup" /\ UNCHANGED <<sources, clients, installed, made, mu>>
      /\ CallsTyped /\ SourcesTyped /\ SourcesCounted
  BY DEF LookupInstallID, GitHubKept, SourcesKept
<1>2. PICK a \in {"fetch", "build"} : Goes(r, a)
  BY DEF LookupInstallID
<1>3. /\ call' \in [Requests -> Requested] /\ call'[r].at = a
      /\ call'[r].what = call[r].what /\ call'[r].repo = call[r].repo
      /\ \A q \in Requests \ {r} : call'[q] = call[q]
  BY <1>1, <1>2, GoesFacts
<1>4. Wants(r)' => /\ call'[r].repo \in Repos /\ call'[r].what \in {"client", "source"}
                   /\ call'[r].at # "lock" => mu' = r /\ made[call'[r].repo] = 0
  BY <1>1, <1>3 DEF Wants, GitHubKept, SourcesKept, LockHeld
<1>5. /\ flight' \in [leader : Requests \cup {None}, members : SUBSET Requests]
      /\ \A q \in flight'.members : IF q = r THEN call'[q].at = "fetch" ELSE q \in flight.members
  <2>1. r \notin flight.members /\ flight \in [leader : Requests \cup {None}, members : SUBSET Requests]
    BY <1>1 DEF GitHubKept, SourcesKept, LockHeld, SourcesTyped
  <2>2. CASE installed
    BY <2>1, <2>2 DEF LookupInstallID
  <2>3. CASE ~installed
    <3>1. Goes(r, "fetch") /\ flight' = [leader |-> IF flight.leader = None THEN r ELSE flight.leader,
                                         members |-> flight.members \cup {r}]
      BY <2>3 DEF LookupInstallID
    <3>2. call'[r].at = "fetch"
      BY <1>1, <3>1, GoesFacts
    <3> QED BY <2>1, <3>1, <3>2
  <2> QED BY <2>2, <2>3
<1>6. SourcesTyped' /\ SourcesCounted'
  BY <1>1, <1>5 DEF SourcesTyped, SourcesCounted
<1>7. mu' \in Requests \cup {None} /\ mu' = mu
  BY <1>1 DEF CallsTyped
<1> QED BY <1>1, <1>3, <1>4, <1>5, <1>6, <1>7, OneGoesOn

LEMMA LookupEndsInv ==
  ASSUME GitHubKept, vendor' = vendor, NEW ok \in BOOLEAN, LookupEnds(ok) PROVE GitHubKept'
<1> DEFINE b(q) == [call[q] EXCEPT !.at = "build"]
           n == [NoCall EXCEPT !.end = "failed"]
<1>1. /\ call' = [q \in Requests |->
                    IF q \notin flight.members THEN call[q] ELSE IF ok THEN b(q) ELSE n]
      /\ installed' = ok /\ flight' = NoFlight /\ UNCHANGED <<sources, clients, made>>
      /\ mu' = IF ~ok /\ mu \in flight.members THEN None ELSE mu
  BY DEF LookupEnds
<1>2. CallsTyped /\ SourcesTyped /\ SourcesCounted /\ LockHeld
  BY DEF GitHubKept, SourcesKept
<1>3. n \in Requested /\ n.at = "idle"
  BY DEF NoCall, Requested
<1>4. ASSUME NEW q \in Requests
      PROVE  /\ b(q) \in Requested /\ b(q).at = "build" /\ b(q).what = call[q].what
             /\ b(q).repo = call[q].repo
  BY <1>2 DEF CallsTyped, Requested
<1> HIDE DEF b, n
<1>5. \A q \in Requests :
        call'[q] = IF q \notin flight.members THEN call[q] ELSE IF ok THEN b(q) ELSE n
  BY <1>1
<1>6. CallsTyped'
  <2>1. call' \in [Requests -> Requested]
    BY <1>1, <1>2, <1>3, <1>4 DEF CallsTyped
  <2>2. \A q \in Requests : call'[q].at \in Places
    BY <1>2, <1>3, <1>4, <1>5 DEF CallsTyped, Places, GitHubKept
  <2> QED BY <1>1, <1>2, <2>1, <2>2 DEF CallsTyped, Places
<1>7. flight'.members = {} /\ SourcesTyped' /\ SourcesCounted'
  BY <1>1, <1>2 DEF NoFlight, SourcesTyped, SourcesCounted
<1>8. LockHeld'
  <2>1. ASSUME NEW q \in Requests, Wants(q)'
        PROVE  /\ call'[q].repo \in Repos /\ call'[q].what \in {"client", "source"}
               /\ call'[q].at # "lock" => mu' = q /\ made'[call'[q].repo] = 0
    <3>1. CASE q \notin flight.members
      <4>1. call'[q] = call[q] /\ Wants(q)
        BY <1>5, <2>1, <3>1 DEF Wants
      <4> QED BY <1>1, <1>2, <3>1, <4>1 DEF LockHeld
    <3>2. CASE q \in flight.members
      <4>1. ok /\ call'[q] = b(q) /\ call[q].at = "fetch" /\ mu' = mu
        BY <1>1, <1>2, <1>3, <1>5, <2>1, <3>2 DEF Wants, LockHeld
      <4>2. Wants(q)
        BY <1>4, <2>1, <4>1 DEF Wants
      <4> QED BY <1>1, <1>2, <1>4, <4>1, <4>2 DEF LockHeld
    <3> QED BY <3>1, <3>2
  <2> QED BY <1>7, <2>1 DEF LockHeld
<1> QED BY <1>6, <1>7, <1>8 DEF GitHubKept, SourcesKept

LEMMA BuildInv ==
  ASSUME GitHubKept, vendor' = vendor, NEW r \in Requests, Build(r) PROVE GitHubKept'
<1> DEFINE p == call[r].repo
<1>1. /\ call[r].at = "build" /\ EndsAs(r, "served") /\ UNCHANGED <<installed, flight>>
      /\ CallsTyped /\ SourcesTyped /\ SourcesCounted /\ LockHeld
  BY DEF Build, GitHubKept, SourcesKept
<1>2. /\ call' \in [Requests -> Requested] /\ call'[r].at = "idle"
      /\ \A q \in Requests \ {r} : call'[q] = call[q]
  BY <1>1, EndsFacts
<1>3. ~Wants(r)'
  BY <1>2 DEF Wants
<1>4. CASE call[r].what = "install"
  <2>1. UNCHANGED <<sources, clients, made, mu>>
    BY <1>4 DEF Build
  <2>2. SourcesTyped' /\ SourcesCounted'
    BY <1>1, <2>1 DEF SourcesTyped, SourcesCounted
  <2>3. mu' \in Requests \cup {None} /\ mu' = mu
    BY <1>1, <2>1 DEF CallsTyped
  <2>4. \A q \in flight'.members : q \in flight.members /\ q # r
    BY <1>1 DEF LockHeld, SourcesTyped
  <2> QED BY <1>1, <1>2, <1>3, <2>1, <2>2, <2>3, <2>4, OneGoesOn
<1>5. CASE call[r].what # "install"
  <2>1. p \in Repos /\ mu = r /\ made[p] = 0 /\ sources[p] = 0 /\ clients[p] = 0
    BY <1>1, <1>5 DEF LockHeld, Wants, SourcesCounted, SourcesTyped
  <2>2. /\ sources' = [sources EXCEPT ![p] = 1] /\ made' = [made EXCEPT ![p] = 1] /\ mu' = None
        /\ clients' = clients \/ clients' = [clients EXCEPT ![p] = 1]
    BY <1>1, <1>5, <2>1 DEF Build, SourcesTyped
  <2>3. SourcesTyped' /\ SourcesCounted'
    BY <1>1, <2>1, <2>2 DEF SourcesTyped, SourcesCounted
  <2>4. CallsTyped'
    BY <1>1, <1>2, <2>2 DEF CallsTyped, Places, GitHubKept
  <2>5. LockHeld'
    <3>1. ASSUME NEW q \in Requests
          PROVE  /\ Wants(q)' => /\ call'[q].repo \in Repos
                                 /\ call'[q].what \in {"client", "source"}
                                 /\ call'[q].at = "lock"
                 /\ q \in flight'.members => call'[q].at = "fetch"
      <4>1. CASE q = r
        BY <1>1, <1>3, <4>1 DEF LockHeld
      <4>2. CASE q # r
        <5>1. call'[q] = call[q] /\ mu # q
          BY <1>2, <2>1, <4>2
        <5>2. Wants(q)' => Wants(q)
          BY <5>1 DEF Wants
        <5> QED BY <1>1, <5>1, <5>2 DEF LockHeld
      <4> QED BY <4>1, <4>2
    <3> QED BY <3>1 DEF LockHeld
  <2> QED BY <2>3, <2>4, <2>5 DEF GitHubKept, SourcesKept
<1> QED BY <1>4, <1>5

LEMMA ClearInv == ASSUME GitHubKept, vendor' = vendor, Clear PROVE GitHubKept'
<1>1. /\ mu = None /\ UNCHANGED <<installed, flight, mu, call>>
      /\ sources' = [p \in Repos |-> 0] /\ clients' = [p \in Repos |-> 0]
      /\ made' = [p \in Repos |-> 0]
  BY DEF Clear
<1>2. SourcesTyped' /\ SourcesCounted'
  BY <1>1 DEF GitHubKept, SourcesKept, SourcesTyped, SourcesCounted
<1>3. \A q \in Requests : Wants(q)' => Wants(q)
  BY <1>1 DEF Wants
<1>4. LockHeld'
  BY <1>1, <1>3, CredentialsAssumption DEF GitHubKept, SourcesKept, LockHeld
<1>5. CallsTyped'
  BY <1>1 DEF GitHubKept, CallsTyped, Places
<1> QED BY <1>2, <1>4, <1>5 DEF GitHubKept, SourcesKept

LEMMA GitHubInv ==
  ASSUME CredentialsIInv, vendor = "github", GitHubNext,
         UNCHANGED <<vendor, linearTokenVars, anthropicVars>>
  PROVE  CredentialsIInv'
<1>1. GitHubKept /\ vendor' = vendor
  BY DEF CredentialsIInv, GitHubKept
<1>2. GitHubKept'
  BY <1>1, CallInv, LockInv, LookupInstallIDInv, LookupEndsInv, BuildInv, ClearInv
  DEF GitHubNext, GoesOnGitHub, LookupAnswered, LeaderCanceled
<1>3. TokenBounded'
  BY DEF CredentialsIInv, TokenBounded, OutageBounded, linearTokenVars
<1>4. PresentedForAccess'
  BY DEF CredentialsIInv, PresentedForAccess, Replays, anthropicVars
<1> QED BY <1>2, <1>3, <1>4 DEF CredentialsIInv, GitHubKept

LEMMA CredentialsStepInv ==
  CredentialsIInv /\ [CredentialsNext]_credentialsVars => CredentialsIInv'
<1> SUFFICES ASSUME CredentialsIInv, [CredentialsNext]_credentialsVars PROVE CredentialsIInv'
  OBVIOUS
<1>1. CASE CredentialsNext
  BY <1>1, LinearInv, GitHubInv, AnthropicInv DEF CredentialsNext
<1>2. CASE UNCHANGED credentialsVars
  BY <1>2 DEF credentialsVars, linearTokenVars, githubVars, anthropicVars, CredentialsIInv,
       CallsTyped, Places, TokenBounded, OutageBounded, SourcesKept, SourcesTyped, LockHeld,
       Wants, SourcesCounted, PresentedForAccess, Replays
<1> QED BY <1>1, <1>2

LEMMA CredentialsAreSound == CredentialsIInv => CredentialsSound
BY DEF CredentialsIInv, TokenBounded, SourcesKept, SourcesCounted, PresentedForAccess,
       CredentialsSound, OneSource, PresentedOnce

-----------------------------------------------------------------------------
(***************************************************************************)
(* Proofs about LinearClient, for any number of managers, items and        *)
(* comments.                                                               *)
(***************************************************************************)

HeardTo(n) ==
  n <= Len(comments) /\ \A c \in PersonComments(comments) : c <= n => c \in heard

RunStates == [at : {"idle", "heard", "told", "delete"}, snapshot : SUBSET StateAttachment,
              read : Nat, commentID : Nat, lastProcessed : Nat]

IssueTyped ==
  /\ created \in 0 .. MaxSaves /\ undeleted \in Nat /\ faults \in Nat
  /\ comments \in Seq({"person", "bot"}) /\ heard \subseteq 1 .. Len(comments)
  /\ gone \in BOOLEAN
  /\ IsFiniteSet(attachments) /\ attachments \subseteq StateAttachment
  /\ manager \in [Managers -> RunStates]

StatesTell == \A a \in attachments : HeardTo(a.lastProcessed) /\ a.commentID <= Len(comments)

Tells(mgr) ==
  /\ HeardTo(mgr.lastProcessed)
  /\ mgr.commentID <= Len(comments) /\ mgr.read <= Len(comments)
  /\ mgr.at = "heard" => HeardTo(mgr.read)

ManagersTell == \A m \in Managers : Tells(manager[m])

Answered == PersonComments(comments) \subseteq heard \cup AfterBot

WrittenBy(U, f) ==
  /\ IsFiniteSet(U) /\ Cardinality(U) <= undeleted
  /\ f \in [attachments \ U -> Managers]
  /\ \A a, b \in attachments \ U : f[a] = f[b] => a = b
  /\ \A a \in attachments \ U : manager[f[a]].at # "idle" => a \in manager[f[a]].snapshot

Covered == \E U \in SUBSET attachments : \E f \in [attachments \ U -> Managers] : WrittenBy(U, f)

IssueIInv ==
  /\ IssueTyped /\ StatesTell /\ ManagersTell /\ Answered /\ ~neglected /\ StateKept /\ Covered

TeamTyped ==
  /\ born \subseteq TeamItems /\ workflow \in [TeamItems -> 1 .. Len(TeamStates)]
  /\ touches \in Nat /\ recency \in [TeamItems -> 0 .. touches]
  /\ \A i, j \in born : recency[i] = recency[j] => i = j
  /\ sweep \in [on : BOOLEAN, of : {"issues", "projects"}, after : born \cup {NoID},
                got : Seq(born), steady : SUBSET OpenItems]

CursorAtEnd ==
  sweep.after = IF sweep.got = <<>> THEN NoID ELSE sweep.got[Len(sweep.got)]

NewestFirst ==
  sweep.of = "issues" =>
    \A j, k \in 1 .. Len(sweep.got) : j < k => sweep.got[k] < sweep.got[j]

Reached(i) == \E j \in 1 .. Len(sweep.got) : sweep.got[j] = i

SteadyReached ==
  \A i \in sweep.steady : Reached(i) \/ (sweep.on /\ Behind(sweep.of, i, sweep.after))

TeamIInv == TeamTyped /\ CursorAtEnd /\ NewestFirst /\ SteadyReached
LinearClientIInv == IssueIInv /\ TeamIInv

-----------------------------------------------------------------------------
LEMMA MinOf ==
  ASSUME NEW T \in SUBSET Nat, T # {} PROVE Min(T) \in T
<1>1. \E x \in T : \A y \in T : x <= y
  BY SmallestExists
<1> QED BY <1>1 DEF Min

\* The attachment that Load finds is one of those that are there.
LEMMA LoadedState ==
  ASSUME IssueTyped, attachments # {} PROVE LoadState \in attachments
<1> DEFINE T == {n \in Nat : \E a \in attachments : n = MaxSaves - a.id}
<1>1. \A a \in attachments : a.id \in 1 .. MaxSaves
  BY DEF IssueTyped, StateAttachment
<1>2. MaxSaves \in Nat
  BY LinearClientAssumption
<1>3. T \in SUBSET Nat /\ T # {}
  <2>1. PICK a \in attachments : TRUE
    OBVIOUS
  <2>2. MaxSaves - a.id \in Nat
    BY <1>1, <1>2, <2>1
  <2>3. MaxSaves - a.id \in T
    BY <2>1, <2>2
  <2> QED BY <2>3
<1>4. PICK n \in T : \A k \in T : n <= k
  <2> HIDE DEF T
  <2> QED BY <1>3, SmallestExists
<1>5. PICK a \in attachments : n = MaxSaves - a.id
  BY <1>4
<1>6. ASSUME NEW b \in attachments PROVE b.id <= a.id
  <2>1. MaxSaves - b.id \in Nat
    BY <1>1, <1>2
  <2>2. n <= MaxSaves - b.id
    BY <1>4, <2>1
  <2> QED BY <1>1, <1>2, <1>5, <2>1, <2>2
<1>7. FindLatestAttachment(attachments) \in attachments
  BY <1>5, <1>6 DEF FindLatestAttachment
<1> QED BY <1>7 DEF LoadState

\* What Load returns was heard, and so was all before an answer.
LEMMA LoadFacts ==
  ASSUME IssueTyped, StatesTell
  PROVE  /\ LoadState.commentID \in Nat /\ LoadState.commentID <= Len(comments)
         /\ LoadState.lastProcessed \in Nat /\ HeardTo(LoadState.lastProcessed)
<1>0. Len(comments) \in Nat /\ \A c \in PersonComments(comments) : c \in 1 .. Len(comments)
  <2>1. comments \in Seq({"person", "bot"})
    BY DEF IssueTyped
  <2>2. Len(comments) \in Nat /\ DOMAIN comments = 1 .. Len(comments)
    BY <2>1, LenProperties
  <2> QED BY <2>2 DEF PersonComments
<1>1. CASE attachments = {}
  <2>1. LoadState = [commentID |-> 0, lastProcessed |-> 0]
    BY <1>1 DEF LoadState, NoID
  <2>2. HeardTo(0)
    BY <1>0 DEF HeardTo
  <2> QED BY <1>0, <2>1, <2>2
<1>2. CASE attachments # {}
  <2>1. LoadState \in attachments
    BY <1>2, LoadedState
  <2>2. LoadState \in StateAttachment
    BY <2>1 DEF IssueTyped
  <2>3. HeardTo(LoadState.lastProcessed) /\ LoadState.commentID <= Len(comments)
    BY <2>1 DEF StatesTell
  <2> QED BY <2>2, <2>3 DEF StateAttachment
<1> QED BY <1>1, <1>2

LEMMA IssueInit ==
  LinearClientInit => IssueIInv
<1> SUFFICES ASSUME LinearClientInit PROVE IssueIInv
  OBVIOUS
<1>1. /\ attachments = {} /\ created = 0 /\ comments = <<>> /\ faults = 0 /\ heard = {}
      /\ ~neglected /\ undeleted = 0 /\ ~gone /\ manager = [m \in Managers |-> NoRun]
  BY DEF LinearClientInit
<1>2. Len(comments) = 0 /\ comments \in Seq({"person", "bot"}) /\ PersonComments(comments) = {}
  <2>1. \A S : <<>> \in Seq(S) /\ Len(<<>>) = 0
    BY EmptySeq
  <2>2. comments \in Seq({"person", "bot"}) /\ Len(comments) = 0
    BY <1>1, <2>1
  <2>3. DOMAIN comments = 1 .. 0
    BY <2>2, LenProperties
  <2> QED BY <2>2, <2>3 DEF PersonComments
<1>3. HeardTo(0)
  BY <1>2 DEF HeardTo
<1>4. /\ \A m \in Managers : manager[m] = NoRun
      /\ NoRun \in RunStates
      /\ NoRun.at = "idle" /\ NoRun.read = 0 /\ NoRun.commentID = 0 /\ NoRun.lastProcessed = 0
  BY <1>1 DEF NoRun, NoID, RunStates
<1>5. IssueTyped
  <2>1. IsFiniteSet({}) /\ MaxSaves \in Nat
    BY FS_EmptySet, LinearClientAssumption
  <2>2. manager \in [Managers -> RunStates]
    BY <1>1, <1>4
  <2>3. created \in 0 .. MaxSaves /\ undeleted \in Nat /\ faults \in Nat
    BY <1>1, <2>1
  <2>4. heard \subseteq 1 .. Len(comments) /\ attachments \subseteq StateAttachment
    BY <1>1
  <2>5. IsFiniteSet(attachments)
    BY <1>1, <2>1
  <2>6. gone \in BOOLEAN
    BY DEF LinearClientInit
  <2> QED BY <1>2, <2>2, <2>3, <2>4, <2>5, <2>6, Zenon DEF IssueTyped
<1>6. StatesTell /\ Answered
  BY <1>1, <1>2 DEF StatesTell, Answered
<1>7. ManagersTell
  BY <1>2, <1>3, <1>4 DEF ManagersTell, Tells
<1>8. StateKept
  BY <1>1 DEF StateKept
<1>9. Covered
  <2>1. [x \in {} |-> x] \in [{} -> Managers]
    OBVIOUS
  <2>2. PICK f \in [{} -> Managers] : TRUE
    BY <2>1
  <2>3. WrittenBy({}, f)
    BY <1>1, FS_EmptySet DEF WrittenBy
  <2>4. {} \in SUBSET attachments /\ attachments \ {} = {}
    BY <1>1
  <2>5. f \in [attachments \ {} -> Managers]
    BY <2>4
  <2> QED BY <2>3, <2>4, <2>5 DEF Covered
<1> QED BY <1>1, <1>5, <1>6, <1>7, <1>8, <1>9 DEF IssueIInv

\* What another comment adds.
LEMMA Appended ==
  ASSUME IssueTyped, NEW who \in {"person", "bot"}, comments' = Append(comments, who)
  PROVE  /\ Len(comments) \in Nat /\ Len(comments') = Len(comments) + 1
         /\ comments' \in Seq({"person", "bot"})
         /\ \A c \in 1 .. Len(comments) : comments'[c] = comments[c]
         /\ comments'[Len(comments) + 1] = who
         /\ DOMAIN comments' = 1 .. Len(comments) + 1 /\ DOMAIN comments = 1 .. Len(comments)
         /\ PersonComments(comments) \subseteq PersonComments(comments')
         /\ PersonComments(comments') \subseteq PersonComments(comments) \cup {Len(comments) + 1}
         /\ who = "bot" => PersonComments(comments') \subseteq PersonComments(comments)
<1>1. comments \in Seq({"person", "bot"})
  BY DEF IssueTyped
<1>2. /\ Len(comments) \in Nat /\ DOMAIN comments = 1 .. Len(comments)
  BY <1>1, LenProperties
<1>3. /\ comments' \in Seq({"person", "bot"}) /\ Len(comments') = Len(comments) + 1
      /\ \A c \in 1 .. Len(comments) : comments'[c] = comments[c]
      /\ comments'[Len(comments) + 1] = who
  BY <1>1, <1>2
<1>4. DOMAIN comments' = 1 .. Len(comments) + 1
  BY <1>2, <1>3, LenProperties
<1>5. /\ PersonComments(comments) \subseteq PersonComments(comments')
      /\ PersonComments(comments') \subseteq PersonComments(comments) \cup {Len(comments) + 1}
      /\ who = "bot" => PersonComments(comments') \subseteq PersonComments(comments)
  <2> DEFINE n == Len(comments)
             cs == comments'
  <2>1. /\ n \in Nat /\ DOMAIN cs = 1 .. n + 1 /\ DOMAIN comments = 1 .. n
        /\ \A c \in 1 .. n : cs[c] = comments[c]
        /\ cs[n + 1] = who
    BY <1>2, <1>3, <1>4
  <2> HIDE DEF n, cs
  <2>2. /\ PersonComments(comments) \subseteq PersonComments(cs)
        /\ PersonComments(cs) \subseteq PersonComments(comments) \cup {n + 1}
        /\ who = "bot" => PersonComments(cs) \subseteq PersonComments(comments)
    BY <2>1 DEF PersonComments
  <2> QED BY <2>2 DEF n, cs
<1> QED BY <1>2, <1>3, <1>4, <1>5

\* What was heard stays heard, whoever comments.
LEMMA StaysHeard ==
  ASSUME IssueTyped, NEW n \in Nat, HeardTo(n), heard \subseteq heard',
         \/ comments' = comments
         \/ \E who \in {"person", "bot"} : comments' = Append(comments, who)
  PROVE  HeardTo(n)'
<1>1. CASE comments' = comments
  BY <1>1 DEF HeardTo, PersonComments
<1>2. ASSUME NEW who \in {"person", "bot"}, comments' = Append(comments, who)
      PROVE  HeardTo(n)'
  <2>1. /\ Len(comments) \in Nat /\ Len(comments') = Len(comments) + 1
        /\ PersonComments(comments') \subseteq PersonComments(comments) \cup {Len(comments) + 1}
    BY <1>2, Appended
  <2>2. n <= Len(comments')
    BY <2>1 DEF HeardTo
  <2>3. ASSUME NEW c \in PersonComments(comments'), c <= n PROVE c \in heard'
    <3>1. n <= Len(comments)
      BY DEF HeardTo
    <3>2. c \in PersonComments(comments)
      BY <2>1, <2>3, <3>1
    <3> QED BY <2>3, <3>2 DEF HeardTo
  <2> QED BY <2>2, <2>3 DEF HeardTo
<1> QED BY <1>1, <1>2

\* Nothing is passed over: what is not handed out was heard.
LEMMA NothingPassedOver ==
  ASSUME IssueTyped, StatesTell, Answered
  PROVE  /\ PersonComments(comments) \subseteq heard \cup UnprocessedComments
         /\ UnprocessedComments \subseteq 1 .. Len(comments)
<1>1. /\ Len(comments) \in Nat /\ DOMAIN comments = 1 .. Len(comments)
  BY LenProperties DEF IssueTyped
<1>2. UnprocessedComments \subseteq 1 .. Len(comments)
  BY <1>1 DEF UnprocessedComments, AfterBot
<1>3. CASE LoadState.lastProcessed = Len(comments)
  <2>1. HeardTo(LoadState.lastProcessed)
    BY LoadFacts
  <2>2. \A c \in PersonComments(comments) : c <= Len(comments)
    BY <1>1 DEF PersonComments
  <2>3. \A c \in PersonComments(comments) : c \in heard
    BY <1>3, <2>1, <2>2 DEF HeardTo
  <2> QED BY <1>2, <2>3
<1>4. CASE LoadState.lastProcessed # Len(comments)
  <2>1. UnprocessedComments = AfterBot
    BY <1>4 DEF UnprocessedComments
  <2> QED BY <1>2, <2>1 DEF Answered
<1> QED BY <1>3, <1>4

\* Who is busy with a snapshot that is his, or a fresh one, keeps the count.
LEMMA CoverStays ==
  ASSUME Covered, attachments' = attachments, undeleted' = undeleted,
         \A m \in Managers : manager'[m].at # "idle" =>
           \/ manager[m].at # "idle" /\ manager'[m].snapshot = manager[m].snapshot
           \/ manager'[m].snapshot = attachments
  PROVE  Covered'
<1>0. PICK U \in SUBSET attachments : \E f \in [attachments \ U -> Managers] : WrittenBy(U, f)
  BY DEF Covered
<1>1. PICK f \in [attachments \ U -> Managers] : WrittenBy(U, f)
  BY <1>0
<1>2. WrittenBy(U, f)'
  <2>1. ASSUME NEW a \in attachments \ U, manager'[f[a]].at # "idle"
        PROVE  a \in manager'[f[a]].snapshot
    <3>1. f[a] \in Managers
      OBVIOUS
    <3> QED BY <1>1, <2>1, <3>1 DEF WrittenBy
  <2>2. /\ IsFiniteSet(U) /\ Cardinality(U) <= undeleted'
        /\ \A a, b \in attachments \ U : f[a] = f[b] => a = b
    BY <1>1 DEF WrittenBy
  <2> QED BY <2>1, <2>2 DEF WrittenBy
<1>3. U \in SUBSET attachments' /\ f \in [attachments' \ U -> Managers]
  BY <1>1
<1> QED BY <1>2, <1>3 DEF Covered

\* A delete that is done takes its attachment out, one that fails is counted.
LEMMA CoverDelete ==
  ASSUME IssueTyped, Covered, NEW m \in Managers, NEW a, manager[m].at # "idle",
         \/ attachments' = attachments \ {a} /\ undeleted' = undeleted
         \/ attachments' = attachments /\ undeleted' = undeleted + 1,
         manager' = [manager EXCEPT ![m].snapshot = @ \ {a}]
  PROVE  Covered'
<1>0. PICK U \in SUBSET attachments : \E f \in [attachments \ U -> Managers] : WrittenBy(U, f)
  BY DEF Covered
<1>1. PICK f \in [attachments \ U -> Managers] : WrittenBy(U, f)
  BY <1>0
<1>2. PICK V \in SUBSET attachments' :
        /\ IsFiniteSet(V) /\ Cardinality(V) <= undeleted' /\ U \ {a} \subseteq V
        /\ \A b \in attachments' \ V : b # a /\ b \in attachments \ U
  <2>0. undeleted \in Nat /\ IsFiniteSet(U) /\ Cardinality(U) <= undeleted
    BY <1>1 DEF WrittenBy, IssueTyped
  <2>1. CASE attachments' = attachments \ {a} /\ undeleted' = undeleted
    <3>1. IsFiniteSet(U \ {a}) /\ Cardinality(U \ {a}) <= Cardinality(U)
      <4>1. /\ IsFiniteSet(U \ {a})
            /\ Cardinality(U \ {a}) = IF a \in U THEN Cardinality(U) - 1 ELSE Cardinality(U)
        BY <2>0, FS_RemoveElement
      <4>2. Cardinality(U) \in Nat
        BY <2>0, FS_CardinalityType
      <4> QED BY <4>1, <4>2
    <3>2. Cardinality(U \ {a}) <= undeleted'
      BY <2>0, <2>1, <3>1, FS_CardinalityType
    <3>3. U \ {a} \in SUBSET attachments' /\ \A b \in attachments' \ (U \ {a}) : b # a /\ b \in attachments \ U
      BY <2>1
    <3> QED BY <3>1, <3>2, <3>3
  <2>2. CASE attachments' = attachments /\ undeleted' = undeleted + 1 /\ a \in attachments
    <3>1. IsFiniteSet(U \cup {a}) /\ Cardinality(U \cup {a}) <= Cardinality(U) + 1
      <4>1. /\ IsFiniteSet(U \cup {a})
            /\ Cardinality(U \cup {a}) = IF a \in U THEN Cardinality(U) ELSE Cardinality(U) + 1
        BY <2>0, FS_AddElement
      <4>2. Cardinality(U) \in Nat
        BY <2>0, FS_CardinalityType
      <4> QED BY <4>1, <4>2
    <3>2. Cardinality(U \cup {a}) <= undeleted'
      BY <2>0, <2>2, <3>1, FS_CardinalityType
    <3>3. U \cup {a} \in SUBSET attachments' /\ \A b \in attachments' \ (U \cup {a}) : b # a /\ b \in attachments \ U
      BY <2>2
    <3> QED BY <3>1, <3>2, <3>3
  <2>3. CASE attachments' = attachments /\ undeleted' = undeleted + 1 /\ a \notin attachments
    <3>1. Cardinality(U) <= undeleted'
      BY <2>0, <2>3, FS_CardinalityType
    <3>2. U \in SUBSET attachments' /\ \A b \in attachments' \ U : b # a /\ b \in attachments \ U
      BY <2>3
    <3> QED BY <2>0, <3>1, <3>2
  <2> QED BY <2>1, <2>2, <2>3
<1>2a. PICK g : g = [b \in attachments' \ V |-> f[b]]
  OBVIOUS
<1>3. g \in [attachments' \ V -> Managers]
  BY <1>2, <1>2a
<1>4. \A b \in attachments' \ V : g[b] = f[b] /\ b # a /\ b \in attachments \ U
  BY <1>2, <1>2a
<1>5. \A w \in Managers : /\ manager'[w].at = manager[w].at
                          /\ manager'[w].snapshot = IF w = m THEN manager[w].snapshot \ {a}
                                                    ELSE manager[w].snapshot
  BY DEF IssueTyped, RunStates
<1>6. WrittenBy(V, g)'
  <2>1. \A b, c \in attachments' \ V : g[b] = g[c] => b = c
    BY <1>1, <1>4 DEF WrittenBy
  <2>2. ASSUME NEW b \in attachments' \ V, manager'[g[b]].at # "idle"
        PROVE  b \in manager'[g[b]].snapshot
    <3>1. g[b] = f[b] /\ f[b] \in Managers /\ b # a /\ b \in attachments \ U
      BY <1>4
    <3>2. b \in manager[f[b]].snapshot
      BY <1>1, <1>5, <2>2, <3>1 DEF WrittenBy
    <3> QED BY <1>5, <3>1, <3>2
  <2> QED BY <1>2, <1>3, <2>1, <2>2 DEF WrittenBy
<1> QED BY <1>2, <1>3, <1>6 DEF Covered

\* Who has deleted all that he read has no attachment left, and attaches one.
LEMMA CoverUpload ==
  ASSUME IssueTyped, Covered, NEW m \in Managers, manager[m].at # "idle",
         manager[m].snapshot = {}, undeleted' = undeleted, NEW new,
         attachments' = attachments \cup {new}, manager' = [manager EXCEPT ![m] = NoRun]
  PROVE  Covered'
<1>0. PICK U \in SUBSET attachments : \E f \in [attachments \ U -> Managers] : WrittenBy(U, f)
  BY DEF Covered
<1>1. PICK f \in [attachments \ U -> Managers] : WrittenBy(U, f)
  BY <1>0
<1>1a. PICK g : g = [b \in attachments' \ U |-> IF b = new THEN m ELSE f[b]]
  OBVIOUS
<1>2. \A b \in attachments' \ U : b # new => b \in attachments \ U
  OBVIOUS
<1>3. g \in [attachments' \ U -> Managers]
  BY <1>1a, <1>2
<1>4. \A b \in attachments' \ U : g[b] = IF b = new THEN m ELSE f[b]
  BY <1>1a
<1>5. \A b \in attachments \ U : f[b] # m
  BY <1>1 DEF WrittenBy
<1>6. /\ manager'[m].at = "idle"
      /\ \A w \in Managers \ {m} : manager'[w] = manager[w]
  BY DEF IssueTyped, NoRun
<1>7. WrittenBy(U, g)'
  <2>1. \A b, c \in attachments' \ U : g[b] = g[c] => b = c
    BY <1>1, <1>2, <1>4, <1>5 DEF WrittenBy
  <2>2. ASSUME NEW b \in attachments' \ U, manager'[g[b]].at # "idle"
        PROVE  b \in manager'[g[b]].snapshot
    <3>1. b # new
      BY <1>4, <1>6, <2>2
    <3>2. g[b] = f[b] /\ f[b] \in Managers \ {m} /\ b \in attachments \ U
      BY <1>2, <1>4, <1>5, <3>1
    <3> QED BY <1>1, <1>6, <2>2, <3>2 DEF WrittenBy
  <2>3. IsFiniteSet(U) /\ Cardinality(U) <= undeleted'
    BY <1>1 DEF WrittenBy
  <2> QED BY <1>3, <2>1, <2>2, <2>3 DEF WrittenBy
<1>8. U \in SUBSET attachments'
  OBVIOUS
<1> QED BY <1>3, <1>7, <1>8 DEF Covered

LEMMA BoundedFromCover ==
  ASSUME IssueTyped, Covered PROVE StatesBounded
<1>0. PICK U \in SUBSET attachments : \E f \in [attachments \ U -> Managers] : WrittenBy(U, f)
  BY DEF Covered
<1>1. PICK f \in [attachments \ U -> Managers] : WrittenBy(U, f)
  BY <1>0
<1>2. IsFiniteSet(Managers) /\ IsFiniteSet(attachments) /\ undeleted \in Nat
  BY LinearClientAssumption DEF IssueTyped
<1>3. f \in Injection(attachments \ U, Managers)
  BY <1>1 DEF WrittenBy, Injection, IsInjective
<1>4. /\ IsFiniteSet(attachments \ U)
      /\ Cardinality(attachments \ U) <= Cardinality(Managers)
  BY <1>2, <1>3, FS_Injection
<1>5. IsFiniteSet(U) /\ Cardinality(U) <= undeleted
  BY <1>1 DEF WrittenBy
<1>6. PICK W : W = attachments \ U
  OBVIOUS
<1>7. Cardinality(attachments) = Cardinality(U) + Cardinality(W)
  <2>1. attachments = U \cup W /\ U \cap W = {}
    BY <1>6
  <2>2. IsFiniteSet(U) /\ IsFiniteSet(W)
    BY <1>4, <1>5, <1>6
  <2>3. Cardinality(U \cup W) = Cardinality(U) + Cardinality(W) - Cardinality(U \cap W)
    BY <2>2, FS_Union
  <2>4. Cardinality(U) \in Nat /\ Cardinality(W) \in Nat /\ Cardinality(U \cap W) = 0
    BY <2>1, <2>2, FS_CardinalityType, FS_EmptySet
  <2> QED BY <2>1, <2>3, <2>4
<1>8. Cardinality(U) \in Nat /\ Cardinality(W) \in Nat /\ Cardinality(Managers) \in Nat
  BY <1>2, <1>4, <1>5, <1>6, FS_CardinalityType
<1> QED BY <1>2, <1>4, <1>5, <1>6, <1>7, <1>8 DEF StatesBounded

-----------------------------------------------------------------------------

CommentsGrow ==
  \/ comments' = comments
  \/ \E who \in {"person", "bot"} : comments' = Append(comments, who)

LEMMA GrowFacts ==
  ASSUME IssueTyped, CommentsGrow
  PROVE  /\ Len(comments) \in Nat /\ Len(comments') \in Nat /\ Len(comments) <= Len(comments')
         /\ comments' \in Seq({"person", "bot"})
<1>1. comments \in Seq({"person", "bot"}) /\ Len(comments) \in Nat
  BY LenProperties DEF IssueTyped
<1>2. CASE comments' = comments
  BY <1>1, <1>2
<1>3. ASSUME NEW who \in {"person", "bot"}, comments' = Append(comments, who)
      PROVE  Len(comments') = Len(comments) + 1 /\ comments' \in Seq({"person", "bot"})
  BY <1>3, Appended
<1> QED BY <1>1, <1>2, <1>3 DEF CommentsGrow

LEMMA TellsOn ==
  ASSUME IssueTyped, CommentsGrow, heard \subseteq heard', NEW mgr \in RunStates, Tells(mgr)
  PROVE  Tells(mgr)'
<1>1. /\ HeardTo(mgr.lastProcessed) /\ mgr.commentID <= Len(comments)
      /\ mgr.read <= Len(comments) /\ (mgr.at = "heard" => HeardTo(mgr.read))
  BY DEF Tells
<1>2. mgr.lastProcessed \in Nat /\ mgr.commentID \in Nat /\ mgr.read \in Nat
  BY DEF RunStates
<1>3. HeardTo(mgr.lastProcessed)' /\ (mgr.at = "heard" => HeardTo(mgr.read)')
  BY <1>1, <1>2, StaysHeard DEF CommentsGrow
<1>4. mgr.commentID <= Len(comments') /\ mgr.read <= Len(comments')
  BY <1>1, <1>2, GrowFacts
<1> QED BY <1>3, <1>4 DEF Tells

LEMMA StatesTellOn ==
  ASSUME IssueTyped, CommentsGrow, heard \subseteq heard', StatesTell,
         \A a \in attachments' : a \notin attachments =>
           /\ a \in StateAttachment
           /\ HeardTo(a.lastProcessed) /\ a.commentID <= Len(comments)
  PROVE  StatesTell'
<1> SUFFICES ASSUME NEW a \in attachments'
             PROVE  HeardTo(a.lastProcessed)' /\ a.commentID <= Len(comments')
  BY DEF StatesTell
<1>1. /\ HeardTo(a.lastProcessed) /\ a.commentID <= Len(comments)
      /\ a \in StateAttachment
  BY DEF StatesTell, IssueTyped
<1>2. a.commentID \in Nat /\ a.lastProcessed \in Nat
  BY <1>1 DEF StateAttachment
<1>3. HeardTo(a.lastProcessed)'
  BY <1>1, <1>2, StaysHeard DEF CommentsGrow
<1> QED BY <1>1, <1>2, <1>3, GrowFacts

LEMMA RunFacts ==
  ASSUME IssueTyped, NEW m \in Managers, NEW mgr \in RunStates,
         manager' = [manager EXCEPT ![m] = mgr]
  PROVE  /\ manager' \in [Managers -> RunStates] /\ manager'[m] = mgr
         /\ \A w \in Managers \ {m} : manager'[w] = manager[w]
BY DEF IssueTyped

LEMMA ManagersTellOn ==
  ASSUME IssueTyped, CommentsGrow, heard \subseteq heard', ManagersTell,
         NEW m \in Managers, NEW mgr \in RunStates, Tells(mgr)',
         manager' = [manager EXCEPT ![m] = mgr]
  PROVE  ManagersTell'
<1> SUFFICES ASSUME NEW w \in Managers PROVE Tells(manager[w])'
  BY DEF ManagersTell
<1>1. PICK other : other = manager'[w]
  OBVIOUS
<1>2. Tells(other)'
  <2>1. CASE w = m
    BY <1>1, <2>1, RunFacts
  <2>2. CASE w # m
    <3>1. other = manager[w] /\ other \in RunStates
      BY <1>1, <2>2, RunFacts DEF IssueTyped
    <3>2. Tells(other)
      BY <3>1 DEF ManagersTell
    <3> QED BY <3>1, <3>2, TellsOn
  <2> QED BY <2>1, <2>2
<1> QED BY <1>1, <1>2 DEF Tells, HeardTo

\* A step of one reconcile that leaves the attachments alone.
LEMMA QuietStep ==
  ASSUME IssueIInv, NEW m \in Managers, NEW mgr \in RunStates,
         manager' = [manager EXCEPT ![m] = mgr],
         UNCHANGED <<attachments, created, undeleted>>,
         CommentsGrow, heard \subseteq heard', heard' \subseteq 1 .. Len(comments'), Tells(mgr)',
         mgr.at # "idle" => \/ manager[m].at # "idle" /\ mgr.snapshot = manager[m].snapshot
                            \/ mgr.snapshot = attachments,
         gone' \in BOOLEAN, gone => gone', manager[m].at = "delete" => mgr.at = "delete" \/ gone',
         faults' \in Nat, ~neglected', Answered'
  PROVE  IssueIInv'
<1>1. IssueTyped /\ StatesTell /\ ManagersTell /\ StateKept /\ Covered
  BY DEF IssueIInv
<1>2. /\ manager' \in [Managers -> RunStates] /\ manager'[m] = mgr
      /\ \A w \in Managers \ {m} : manager'[w] = manager[w]
  BY <1>1, RunFacts
<1>3. IssueTyped'
  <2>1. comments' \in Seq({"person", "bot"})
    BY <1>1, GrowFacts
  <2> QED BY <1>1, <1>2, <2>1 DEF IssueTyped
<1>4. StatesTell' /\ ManagersTell'
  BY <1>1, StatesTellOn, ManagersTellOn
<1>5. Covered'
  <2>1. \A w \in Managers : manager'[w].at # "idle" =>
           \/ manager[w].at # "idle" /\ manager'[w].snapshot = manager[w].snapshot
           \/ manager'[w].snapshot = attachments
    BY <1>2
  <2> QED BY <1>1, <2>1, CoverStays
<1>6. StateKept'
  <2>1. \A w \in Managers : manager[w].at = "delete" => manager'[w].at = "delete" \/ gone'
    BY <1>2
  <2> QED BY <1>1, <2>1 DEF StateKept
<1> QED BY <1>3, <1>4, <1>5, <1>6 DEF IssueIInv

LEMMA NoRunTells ==
  ASSUME IssueTyped, CommentsGrow PROVE NoRun \in RunStates /\ Tells(NoRun)'
<1>1. NoRun \in RunStates /\ NoRun.at = "idle" /\ NoRun.lastProcessed = 0
      /\ NoRun.commentID = 0 /\ NoRun.read = 0
  BY DEF NoRun, RunStates, NoID
<1>2. Len(comments') \in Nat /\ DOMAIN comments' = 1 .. Len(comments')
  BY GrowFacts, LenProperties
<1>3. \A c \in PersonComments(comments') : ~(c <= 0)
  BY <1>2 DEF PersonComments
<1> QED BY <1>1, <1>2, <1>3 DEF Tells, HeardTo

LEMMA CommentKeeps ==
  ASSUME IssueIInv, Comment PROVE IssueIInv'
<1>1. IssueTyped /\ StatesTell /\ ManagersTell /\ Answered /\ StateKept /\ Covered /\ ~neglected
  BY DEF IssueIInv
<1>2. /\ comments' = Append(comments, "person") /\ CommentsGrow /\ manager' = manager
      /\ UNCHANGED <<attachments, created, faults, heard, neglected, undeleted, gone>>
  BY DEF Comment, CommentsGrow
<1>3. IssueTyped'
  <2>1. comments' \in Seq({"person", "bot"}) /\ heard' \subseteq 1 .. Len(comments')
    BY <1>1, <1>2, GrowFacts DEF IssueTyped
  <2> QED BY <1>1, <1>2, <2>1 DEF IssueTyped
<1>4. StatesTell'
  BY <1>1, <1>2, StatesTellOn
<1>5. ManagersTell'
  <2> SUFFICES ASSUME NEW w \in Managers PROVE Tells(manager[w])'
    BY DEF ManagersTell
  <2>1. PICK mgr : mgr = manager[w]
    OBVIOUS
  <2>2. mgr \in RunStates /\ Tells(mgr)
    BY <1>1, <2>1 DEF ManagersTell, IssueTyped
  <2>3. Tells(mgr)'
    BY <1>1, <1>2, <2>2, TellsOn
  <2> QED BY <1>2, <2>1, <2>3 DEF Tells, HeardTo
<1>6. Answered'
  <2>1. /\ Len(comments) \in Nat /\ Len(comments') = Len(comments) + 1
        /\ \A c \in 1 .. Len(comments) : comments'[c] = comments[c]
        /\ comments'[Len(comments) + 1] = "person"
        /\ DOMAIN comments' = 1 .. Len(comments) + 1 /\ DOMAIN comments = 1 .. Len(comments)
        /\ PersonComments(comments') \subseteq PersonComments(comments) \cup {Len(comments) + 1}
    BY <1>1, <1>2, Appended
  <2>2. AfterBot \cup {Len(comments) + 1} \subseteq AfterBot'
    <3> DEFINE n == Len(comments)
               cs == comments'
    <3>1. /\ n \in Nat /\ Len(cs) = n + 1 /\ DOMAIN cs = 1 .. n + 1 /\ DOMAIN comments = 1 .. n
          /\ \A c \in 1 .. n : cs[c] = comments[c]
          /\ cs[n + 1] = "person"
      BY <2>1
    <3>2. AfterBot = {c \in DOMAIN comments : \A b \in c .. n : comments[b] = "person"}
      BY DEF AfterBot
    <3>3. AfterBot' = {c \in DOMAIN cs : \A b \in c .. Len(cs) : cs[b] = "person"}
      BY DEF AfterBot
    <3> HIDE DEF n, cs
    <3>4. n + 1 \in AfterBot'
      BY <3>1, <3>3
    <3>5. ASSUME NEW c \in AfterBot PROVE c \in AfterBot'
      <4>1. c \in 1 .. n /\ \A b \in c .. n : comments[b] = "person"
        BY <3>1, <3>2
      <4>2. \A b \in c .. n + 1 : cs[b] = "person"
        BY <3>1, <4>1
      <4> QED BY <3>1, <3>3, <4>1, <4>2
    <3> QED BY <3>4, <3>5 DEF n
  <2> QED BY <1>1, <1>2, <2>1, <2>2 DEF Answered
<1>7. Covered'
  BY <1>1, <1>2, CoverStays
<1>8. StateKept'
  BY <1>1, <1>2 DEF StateKept
<1> QED BY <1>1, <1>2, <1>3, <1>4, <1>5, <1>6, <1>7, <1>8 DEF IssueIInv

LEMMA GetIssueKeeps ==
  ASSUME IssueIInv, NEW m \in Managers, GetIssue(m) PROVE IssueIInv'
<1> DEFINE mgr == [at |-> "heard", snapshot |-> attachments, read |-> Len(comments),
                   commentID |-> LoadState.commentID,
                   lastProcessed |-> IF UnprocessedComments = {} THEN LoadState.lastProcessed
                                     ELSE Len(comments)]
<1>1. IssueTyped /\ StatesTell /\ Answered /\ ~neglected
  BY DEF IssueIInv
<1>2. /\ manager[m].at = "idle" /\ manager' = [manager EXCEPT ![m] = mgr]
      /\ heard' = heard \cup UnprocessedComments
      /\ UNCHANGED <<attachments, created, comments, faults, undeleted, gone>>
  BY DEF GetIssue
<1>3. /\ PersonComments(comments) \subseteq heard'
      /\ UnprocessedComments \subseteq 1 .. Len(comments)
  BY <1>1, <1>2, NothingPassedOver
<1>4. ~neglected'
  BY <1>1, <1>2, <1>3 DEF GetIssue
<1>5. CommentsGrow /\ heard \subseteq heard' /\ heard' \subseteq 1 .. Len(comments')
  BY <1>1, <1>2, <1>3 DEF CommentsGrow, IssueTyped
<1>6. /\ LoadState.commentID \in Nat /\ LoadState.commentID <= Len(comments)
      /\ LoadState.lastProcessed \in Nat /\ HeardTo(LoadState.lastProcessed)
      /\ Len(comments) \in Nat
  BY <1>1, <1>5, LoadFacts, GrowFacts
<1>7. mgr \in RunStates
  <2>1. attachments \subseteq StateAttachment
    BY <1>1 DEF IssueTyped
  <2> QED BY <1>6, <2>1 DEF RunStates
<1>8. PICK n \in Nat : n = LoadState.lastProcessed
  BY <1>6
<1>9. HeardTo(n)'
  <2>1. HeardTo(n)
    BY <1>6, <1>8
  <2> QED BY <1>1, <1>5, <2>1, StaysHeard DEF CommentsGrow
<1>10. PICK r : r = mgr
  OBVIOUS
<1>11. PICK k : k = Len(comments)
  OBVIOUS
<1>12. HeardTo(k)'
  BY <1>2, <1>3, <1>6, <1>11 DEF HeardTo
<1>13. Tells(r)'
  <2>1. r.lastProcessed \in {n, k} /\ r.read = k
    BY <1>8, <1>10, <1>11
  <2>2. HeardTo(r.lastProcessed)' /\ HeardTo(r.read)'
    BY <1>9, <1>12, <2>1
  <2>3. r.commentID <= Len(comments') /\ r.read <= Len(comments')
    BY <1>2, <1>6, <1>10, <1>11
  <2> QED BY <2>2, <2>3 DEF Tells
<1>14. Answered'
  BY <1>2, <1>3 DEF Answered
<1>15. r \in RunStates /\ manager' = [manager EXCEPT ![m] = r] /\ r.snapshot = attachments
  BY <1>2, <1>7, <1>10
<1>16. faults' \in Nat
  BY <1>1, <1>2 DEF IssueTyped
<1>17. gone' \in BOOLEAN /\ (gone => gone') /\ UNCHANGED <<attachments, created, undeleted>>
  BY <1>1, <1>2 DEF IssueTyped
<1>18. manager[m].at = "delete" => r.at = "delete" \/ gone'
  BY <1>2
<1> HIDE DEF mgr
<1> QED BY <1>4, <1>5, <1>13, <1>14, <1>15, <1>16, <1>17, <1>18, QuietStep

LEMMA UpsertKeeps ==
  ASSUME IssueIInv, NEW m \in Managers, UpsertBotComment(m) PROVE IssueIInv'
<1>1. IssueTyped /\ StatesTell /\ ManagersTell /\ Answered /\ ~neglected
  BY DEF IssueIInv
<1>2. /\ manager[m].at = "heard" /\ manager[m] \in RunStates /\ Tells(manager[m])
      /\ HeardTo(manager[m].read)
      /\ UNCHANGED <<attachments, created, neglected, undeleted, gone>>
  BY <1>1 DEF UpsertBotComment, IssueTyped, ManagersTell, Tells
<1>3. PICK response \in Responses :
       LET new == ~Edits(m) /\ CarriedOut(response) IN
       /\ Suffers(response)
       /\ comments' = IF new THEN Append(comments, "bot") ELSE comments
       /\ heard' = IF new /\ manager[m].commentID = NoID THEN
                     heard \cup {c \in PersonComments(comments) : c > manager[m].read}
                   ELSE heard
       /\ manager' = [manager EXCEPT ![m] =
            IF response # "done" THEN NoRun
            ELSE [manager[m] EXCEPT !.at = "told", !.read = 0,
                    !.commentID = IF new THEN Len(comments) + 1 ELSE manager[m].commentID]]
  BY DEF UpsertBotComment
<1>4. PICK new \in BOOLEAN : new <=> (~Edits(m) /\ CarriedOut(response))
  OBVIOUS
<1>5. /\ new => comments' = Append(comments, "bot")
      /\ ~new => comments' = comments
      /\ CommentsGrow
  BY <1>3, <1>4 DEF CommentsGrow
<1>6. new => manager[m].commentID = NoID
  BY <1>4 DEF Edits
<1>7. /\ new => heard' = heard \cup {c \in PersonComments(comments) : c > manager[m].read}
      /\ ~new => heard' = heard
  BY <1>3, <1>4, <1>6
<1>8. /\ Len(comments) \in Nat /\ Len(comments') \in Nat /\ Len(comments) <= Len(comments')
      /\ PersonComments(comments) \subseteq 1 .. Len(comments)
      /\ new => Len(comments') = Len(comments) + 1
      /\ new => PersonComments(comments') \subseteq PersonComments(comments)
  <2>1. comments \in Seq({"person", "bot"})
    BY <1>1 DEF IssueTyped
  <2>2. PersonComments(comments) \subseteq 1 .. Len(comments)
    BY <2>1, LenProperties DEF PersonComments
  <2>3. Len(comments) \in Nat /\ Len(comments') \in Nat /\ Len(comments) <= Len(comments')
    BY <1>1, <1>5, GrowFacts
  <2>4. new => /\ Len(comments') = Len(comments) + 1
               /\ PersonComments(comments') \subseteq PersonComments(comments)
    BY <1>1, <1>5, Appended
  <2> QED BY <2>2, <2>3, <2>4
<1>9. heard \subseteq heard' /\ heard' \subseteq 1 .. Len(comments')
  <2>1. heard \subseteq 1 .. Len(comments)
    BY <1>1 DEF IssueTyped
  <2>2. 1 .. Len(comments) \subseteq 1 .. Len(comments')
    BY <1>8
  <2> QED BY <1>7, <1>8, <2>1, <2>2
<1>10. Answered'
  <2>1. CASE new
    <3>1. \A c \in PersonComments(comments) : c \in heard'
      <4>1. ASSUME NEW c \in PersonComments(comments) PROVE c \in heard'
        <5>1. c \in Nat /\ manager[m].read \in Nat
          BY <1>2, <1>8 DEF RunStates
        <5>2. c <= manager[m].read => c \in heard
          BY <1>2 DEF HeardTo
        <5> QED BY <1>7, <2>1, <5>1, <5>2
      <4> QED BY <4>1
    <3> QED BY <1>8, <2>1, <3>1 DEF Answered
  <2>2. CASE ~new
    BY <1>1, <1>5, <1>7, <2>2 DEF Answered, AfterBot
  <2> QED BY <2>1, <2>2
<1>11. faults' \in Nat /\ gone' \in BOOLEAN /\ (gone => gone') /\ ~neglected'
  <2>1. faults \in Nat /\ gone \in BOOLEAN
    BY <1>1 DEF IssueTyped
  <2>2. faults' \in Nat
    BY <1>3, <2>1 DEF Suffers
  <2> QED BY <1>1, <1>2, <2>1, <2>2
<1>12. CASE response # "done"
  <2>1. manager' = [manager EXCEPT ![m] = NoRun]
    BY <1>3, <1>12
  <2>2. NoRun \in RunStates /\ Tells(NoRun)' /\ NoRun.at = "idle"
    BY <1>1, <1>5, NoRunTells DEF NoRun
  <2> QED BY <1>2, <1>5, <1>9, <1>10, <1>11, <2>1, <2>2, QuietStep
<1>13. CASE response = "done"
  <2> DEFINE mgr == [manager[m] EXCEPT !.at = "told", !.read = 0,
                       !.commentID = IF new THEN Len(comments) + 1 ELSE manager[m].commentID]
  <2>1. manager' = [manager EXCEPT ![m] = mgr]
    BY <1>3, <1>4, <1>13
  <2>2. /\ mgr \in RunStates /\ mgr.at = "told" /\ mgr.read = 0
        /\ mgr.snapshot = manager[m].snapshot /\ mgr.lastProcessed = manager[m].lastProcessed
        /\ mgr.commentID = IF new THEN Len(comments) + 1 ELSE manager[m].commentID
    BY <1>2, <1>8 DEF RunStates
  <2> HIDE DEF mgr
  <2>3. PICK r : r = mgr
    OBVIOUS
  <2>4. Tells(r)'
    <3>1. PICK n \in Nat : n = manager[m].lastProcessed
      BY <1>2 DEF RunStates
    <3>2. HeardTo(n)
      BY <1>2, <3>1 DEF Tells
    <3>3. HeardTo(n)'
      BY <1>1, <1>5, <1>9, <3>2, StaysHeard DEF CommentsGrow
    <3>4. r.lastProcessed = n /\ r.read = 0 /\ r.at = "told"
      BY <2>2, <2>3, <3>1
    <3>5. r.commentID <= Len(comments')
      <4>1. manager[m].commentID \in Nat /\ manager[m].commentID <= Len(comments)
        BY <1>2 DEF RunStates, Tells
      <4> QED BY <1>8, <2>2, <2>3, <4>1
    <3> QED BY <1>8, <3>3, <3>4, <3>5 DEF Tells
  <2>5. /\ r \in RunStates /\ manager' = [manager EXCEPT ![m] = r]
        /\ manager[m].at # "idle" /\ r.snapshot = manager[m].snapshot
        /\ manager[m].at # "delete"
    BY <1>2, <2>1, <2>2, <2>3
  <2> QED BY <1>2, <1>5, <1>9, <1>10, <1>11, <2>4, <2>5, QuietStep
<1> QED BY <1>12, <1>13

LEMMA SaveKeeps ==
  ASSUME IssueIInv, NEW m \in Managers, Save(m) PROVE IssueIInv'
<1>1. IssueTyped /\ StatesTell /\ ManagersTell /\ Answered /\ ~neglected
  BY DEF IssueIInv
<1>2. /\ manager[m].at \in {"heard", "told"} /\ manager[m] \in RunStates /\ Tells(manager[m])
      /\ UNCHANGED <<attachments, created, comments, faults, heard, neglected, undeleted, gone>>
  BY <1>1 DEF Save, IssueTyped, ManagersTell
<1>3. PICK r : r = [manager[m] EXCEPT !.at = "delete", !.read = 0]
  OBVIOUS
<1>4. /\ r \in RunStates /\ r.at = "delete" /\ r.read = 0
      /\ r.snapshot = manager[m].snapshot /\ r.lastProcessed = manager[m].lastProcessed
      /\ r.commentID = manager[m].commentID
  BY <1>2, <1>3 DEF RunStates
<1>5. manager' = [manager EXCEPT ![m] = r]
  BY <1>1, <1>3 DEF Save, IssueTyped, RunStates
<1>6. CommentsGrow /\ Len(comments) \in Nat
  BY <1>1, <1>2, GrowFacts DEF CommentsGrow
<1>7. Tells(r)'
  <2>1. HeardTo(r.lastProcessed) /\ r.commentID <= Len(comments) /\ r.read <= Len(comments)
    BY <1>2, <1>4, <1>6 DEF Tells
  <2>2. Tells(r)
    BY <1>4, <2>1 DEF Tells
  <2> QED BY <1>1, <1>2, <1>4, <1>6, <2>2, TellsOn
<1>8. /\ heard \subseteq heard' /\ heard' \subseteq 1 .. Len(comments') /\ faults' \in Nat
      /\ gone' \in BOOLEAN
  BY <1>1, <1>2 DEF IssueTyped
<1>9. ~neglected' /\ Answered' /\ (gone => gone')
  BY <1>1, <1>2 DEF Answered, AfterBot
<1>10. manager[m].at # "idle" /\ manager[m].at # "delete"
  BY <1>2
<1> QED BY <1>2, <1>4, <1>5, <1>6, <1>7, <1>8, <1>9, <1>10, QuietStep

LEMMA DiesKeeps ==
  ASSUME IssueIInv, NEW m \in Managers, Dies(m) PROVE IssueIInv'
<1>1. IssueTyped /\ Answered /\ ~neglected
  BY DEF IssueIInv
<1>2. /\ manager' = [manager EXCEPT ![m] = NoRun]
      /\ UNCHANGED <<attachments, created, comments, heard, neglected, undeleted>>
  BY DEF Dies, LeavesIssue
<1>3. CommentsGrow
  BY <1>2 DEF CommentsGrow
<1>4. NoRun \in RunStates /\ Tells(NoRun)' /\ NoRun.at = "idle"
  BY <1>1, <1>3, NoRunTells DEF NoRun
<1>5. heard \subseteq heard' /\ heard' \subseteq 1 .. Len(comments')
  BY <1>1, <1>2 DEF IssueTyped
<1>6. faults' \in Nat
  <2>1. faults \in Nat
    BY <1>1 DEF IssueTyped
  <2> QED BY <2>1 DEF Dies, Suffers
<1>7. gone' \in BOOLEAN /\ (gone => gone') /\ (manager[m].at = "delete" => gone')
  <2>1. gone' = (gone \/ manager[m].at = "delete")
    BY DEF Dies
  <2> QED BY <2>1
<1>8. ~neglected' /\ Answered'
  BY <1>1, <1>2 DEF Answered, AfterBot
<1> QED BY <1>2, <1>3, <1>4, <1>5, <1>6, <1>7, <1>8, QuietStep

LEMMA DeleteKeeps ==
  ASSUME IssueIInv, NEW m \in Managers, DeleteAttachment(m) PROVE IssueIInv'
<1>1. IssueTyped /\ StatesTell /\ ManagersTell /\ Answered /\ ~neglected /\ StateKept /\ Covered
  BY DEF IssueIInv
<1>2. /\ manager[m].at = "delete" /\ manager[m] \in RunStates /\ Tells(manager[m])
      /\ UNCHANGED <<created, comments, heard, neglected, gone>>
  BY <1>1 DEF DeleteAttachment, IssueTyped, ManagersTell
<1>3. PICK a \in manager[m].snapshot, response \in {"done", "refused"} :
       /\ Suffers(response)
       /\ attachments' = IF response = "done" THEN attachments \ {a} ELSE attachments
       /\ undeleted' = IF response = "refused" THEN undeleted + 1 ELSE undeleted
       /\ manager' = [manager EXCEPT ![m].snapshot = @ \ {a}]
  BY DEF DeleteAttachment
<1>4. PICK r : r = [manager[m] EXCEPT !.snapshot = @ \ {a}]
  OBVIOUS
<1>5. /\ r \in RunStates /\ r.at = "delete" /\ r.read = manager[m].read
      /\ r.lastProcessed = manager[m].lastProcessed /\ r.commentID = manager[m].commentID
  BY <1>2, <1>4 DEF RunStates
<1>6. manager' = [manager EXCEPT ![m] = r]
  BY <1>1, <1>3, <1>4 DEF IssueTyped, RunStates
<1>7. CommentsGrow
  BY <1>2 DEF CommentsGrow
<1>8. \/ attachments' = attachments \ {a} /\ undeleted' = undeleted
      \/ attachments' = attachments /\ undeleted' = undeleted + 1
  BY <1>3
<1>9. Tells(r)'
  <2>1. Tells(r)
    BY <1>2, <1>5 DEF Tells
  <2> QED BY <1>1, <1>2, <1>5, <1>7, <2>1, TellsOn
<1>10. StatesTell' /\ ManagersTell'
  <2>1. ManagersTell'
    BY <1>1, <1>2, <1>5, <1>6, <1>7, <1>9, ManagersTellOn
  <2>2. \A b \in attachments' : b \in attachments
    BY <1>8
  <2> QED BY <1>1, <1>2, <1>7, <2>1, <2>2, StatesTellOn
<1>11. Covered'
  BY <1>1, <1>2, <1>3, <1>8, CoverDelete
<1>12. IssueTyped'
  <2>1. manager' \in [Managers -> RunStates]
    BY <1>1, <1>5, <1>6, RunFacts
  <2>2. IsFiniteSet(attachments') /\ attachments' \subseteq StateAttachment
    BY <1>1, <1>8, FS_RemoveElement DEF IssueTyped
  <2>3. undeleted' \in Nat
    BY <1>1, <1>8 DEF IssueTyped
  <2>4. faults' \in Nat
    BY <1>1, <1>3 DEF IssueTyped, Suffers
  <2> QED BY <1>1, <1>2, <2>1, <2>2, <2>3, <2>4 DEF IssueTyped
<1>13. StateKept'
  BY <1>1, <1>5, <1>6, RunFacts DEF StateKept
<1>14. Answered' /\ ~neglected'
  BY <1>1, <1>2 DEF Answered, AfterBot
<1> QED BY <1>10, <1>11, <1>12, <1>13, <1>14 DEF IssueIInv

LEMMA UploadKeeps ==
  ASSUME IssueIInv, NEW m \in Managers, UploadFileAttachment(m) PROVE IssueIInv'
<1>1. IssueTyped /\ StatesTell /\ ManagersTell /\ Answered /\ ~neglected /\ StateKept /\ Covered
  BY DEF IssueIInv
<1>2. /\ manager[m].at = "delete" /\ manager[m].snapshot = {} /\ manager[m] \in RunStates
      /\ Tells(manager[m]) /\ created < MaxSaves
      /\ manager' = [manager EXCEPT ![m] = NoRun]
      /\ UNCHANGED <<comments, heard, neglected, undeleted>>
  BY <1>1 DEF UploadFileAttachment, LeavesIssue, IssueTyped, ManagersTell
<1>3. PICK response \in Responses :
       /\ Suffers(response)
       /\ gone' = ~CarriedOut(response)
       /\ IF CarriedOut(response)
          THEN /\ created' = created + 1
               /\ attachments' = attachments \cup
                    {[id |-> created + 1, commentID |-> manager[m].commentID,
                      lastProcessed |-> manager[m].lastProcessed]}
          ELSE UNCHANGED <<created, attachments>>
  BY DEF UploadFileAttachment
<1>4. CommentsGrow
  BY <1>2 DEF CommentsGrow
<1>5. NoRun \in RunStates /\ Tells(NoRun)' /\ NoRun.at = "idle"
  BY <1>1, <1>4, NoRunTells DEF NoRun
<1>6. manager' \in [Managers -> RunStates]
  BY <1>1, <1>2, <1>5, RunFacts
<1>7. ManagersTell'
  BY <1>1, <1>2, <1>4, <1>5, ManagersTellOn
<1>8. Answered' /\ ~neglected'
  BY <1>1, <1>2 DEF Answered, AfterBot
<1>9. faults' \in Nat
  BY <1>1, <1>3 DEF IssueTyped, Suffers
<1>10. CASE CarriedOut(response)
  <2>1. PICK new : new = [id |-> created + 1, commentID |-> manager[m].commentID,
                          lastProcessed |-> manager[m].lastProcessed]
    OBVIOUS
  <2>2. created' = created + 1 /\ attachments' = attachments \cup {new}
    BY <1>3, <1>10, <2>1
  <2>3. gone' \in BOOLEAN
    BY <1>3
  <2>4. MaxSaves \in Nat /\ created \in 0 .. MaxSaves
    BY <1>1, LinearClientAssumption DEF IssueTyped
  <2>5. new \in StateAttachment
    BY <1>2, <2>1, <2>4 DEF StateAttachment, RunStates
  <2>6. HeardTo(new.lastProcessed) /\ new.commentID <= Len(comments)
    BY <1>2, <2>1 DEF Tells
  <2>7. StatesTell'
    BY <1>1, <1>2, <1>4, <2>2, <2>5, <2>6, StatesTellOn
  <2>8. Covered'
    BY <1>1, <1>2, <2>2, CoverUpload
  <2>9. IssueTyped'
    <3>1. IsFiniteSet(attachments') /\ attachments' \subseteq StateAttachment
      BY <1>1, <2>2, <2>5, FS_AddElement DEF IssueTyped
    <3>2. created' \in 0 .. MaxSaves
      BY <1>2, <2>2, <2>4
    <3> QED BY <1>1, <1>2, <1>6, <1>9, <2>3, <3>1, <3>2 DEF IssueTyped
  <2>10. StateKept'
    BY <2>2 DEF StateKept
  <2> QED BY <1>7, <1>8, <2>7, <2>8, <2>9, <2>10 DEF IssueIInv
<1>11. CASE ~CarriedOut(response)
  <2>1. gone' /\ gone' \in BOOLEAN /\ UNCHANGED <<attachments, created, undeleted>>
    BY <1>2, <1>3, <1>11
  <2>2. heard \subseteq heard' /\ heard' \subseteq 1 .. Len(comments')
    BY <1>1, <1>2 DEF IssueTyped
  <2> QED BY <1>2, <1>4, <1>5, <1>8, <1>9, <2>1, <2>2, QuietStep
<1> QED BY <1>10, <1>11

-----------------------------------------------------------------------------

\* Where an item stands in the list that is read.
Rank(i) == IF sweep.of = "issues" THEN i ELSE recency[i]

LEMMA RankFacts ==
  ASSUME TeamTyped
  PROVE  /\ \A i \in born : Rank(i) \in Nat /\ i \in Nat \ {0}
         /\ \A i, j \in born : Rank(i) = Rank(j) => i = j
         /\ \A i, j \in born : Listing(i, j) <=> Rank(i) >= Rank(j)
         /\ \A i, j \in born : Behind(sweep.of, i, j) <=> Rank(i) < Rank(j)
         /\ \E B \in Nat : \A i \in born : Rank(i) <= B
         /\ IsFiniteSet(born)
<1>1. PICK c \in Nat : TeamItems = 1 .. c
  BY LinearClientAssumption, FS_CardinalityType
<1>2. /\ born \subseteq 1 .. c /\ touches \in Nat
      /\ \A i \in born : recency[i] \in 0 .. touches
      /\ \A i, j \in born : recency[i] = recency[j] => i = j
      /\ sweep.of \in {"issues", "projects"}
  BY <1>1 DEF TeamTyped
<1>3. \A i \in born : Rank(i) \in Nat /\ i \in Nat \ {0}
  BY <1>2 DEF Rank
<1>4. \A i, j \in born : Rank(i) = Rank(j) => i = j
  BY <1>2 DEF Rank
<1>5. \A i, j \in born : Listing(i, j) <=> Rank(i) >= Rank(j)
  BY <1>2 DEF Rank, Listing
<1>6. \A i, j \in born : Behind(sweep.of, i, j) <=> Rank(i) < Rank(j)
  BY <1>2 DEF Rank, Behind, NoID
<1>7. \E B \in Nat : \A i \in born : Rank(i) <= B
  <2>1. CASE sweep.of = "issues"
    <3>1. \A i \in born : Rank(i) <= c
      BY <1>2, <2>1 DEF Rank
    <3> QED BY <3>1
  <2>2. CASE sweep.of = "projects"
    <3>1. \A i \in born : Rank(i) <= touches
      BY <1>2, <2>2 DEF Rank
    <3> QED BY <1>2, <3>1
  <2> QED BY <1>2, <2>1, <2>2
<1>8. IsFiniteSet(born)
  BY LinearClientAssumption, FS_Subset DEF TeamTyped
<1> QED BY <1>3, <1>4, <1>5, <1>6, <1>7, <1>8

LEMMA NewestOf ==
  ASSUME TeamTyped, NEW S \in SUBSET born, S # {}
  PROVE  \E i \in S : \A j \in S : Listing(i, j)
<1>1. PICK B \in Nat : \A i \in born : Rank(i) <= B
  BY RankFacts
<1>2. \A i \in born : Rank(i) \in Nat
  BY RankFacts
<1>3. PICK T : T = {n \in Nat : \E i \in S : n = B - Rank(i)}
  OBVIOUS
<1>4. \A i \in S : B - Rank(i) \in T
  BY <1>1, <1>2, <1>3
<1>5. T \in SUBSET Nat /\ T # {}
  BY <1>3, <1>4
<1>6. PICK n \in T : \A k \in T : n <= k
  BY <1>5, SmallestExists
<1>7. PICK i \in S : n = B - Rank(i)
  BY <1>3
<1>8. ASSUME NEW j \in S PROVE Listing(i, j)
  <2>1. B - Rank(i) <= B - Rank(j)
    BY <1>4, <1>6, <1>7
  <2>2. Rank(i) \in Nat /\ Rank(j) \in Nat
    BY <1>2
  <2>3. Rank(i) >= Rank(j)
    BY <2>1, <2>2
  <2> QED BY <2>3, RankFacts
<1> QED BY <1>8

Earlier(p, k) == {p[l] : l \in 1 .. k - 1}

InOrder(items, n, p) ==
  \A k \in 1 .. n : /\ p[k] \in items \ Earlier(p, k)
                   /\ \A i \in items \ Earlier(p, k) : Listing(p[k], i)

LEMMA OneMore ==
  ASSUME TeamTyped, NEW items \in SUBSET born, NEW n \in Nat, n < Cardinality(items),
         NEW p \in [1 .. n -> items], InOrder(items, n, p)
  PROVE  \E q \in [1 .. n + 1 -> items] : InOrder(items, n + 1, q)
<1>1. IsFiniteSet(items) /\ Cardinality(items) \in Nat
  BY RankFacts, FS_Subset, FS_CardinalityType
<1>2. PICK used : used = Earlier(p, n + 1)
  OBVIOUS
<1>3. IsFiniteSet(used) /\ Cardinality(used) <= n
  <2>1. used = {p[l] : l \in 1 .. n}
    BY <1>2 DEF Earlier
  <2>2. p \in Surjection(1 .. n, used)
    BY <2>1 DEF Surjection
  <2>3. IsFiniteSet(1 .. n) /\ Cardinality(1 .. n) = n
    BY FS_Interval
  <2>4. IsFiniteSet(used) /\ Cardinality(used) <= Cardinality(1 .. n)
    BY <2>2, <2>3, FS_Surjection
  <2> QED BY <2>3, <2>4
<1>4. items \ used # {}
  <2> SUFFICES ASSUME items \subseteq used PROVE FALSE
    OBVIOUS
  <2>1. Cardinality(items) <= Cardinality(used)
    BY <1>3, FS_Subset
  <2>2. Cardinality(used) \in Nat
    BY <1>3, FS_CardinalityType
  <2> QED BY <1>1, <1>3, <2>1, <2>2
<1>5. PICK x \in items \ used : \A j \in items \ used : Listing(x, j)
  BY <1>4, NewestOf
<1>6. PICK q : q = [k \in 1 .. n + 1 |-> IF k = n + 1 THEN x ELSE p[k]]
  OBVIOUS
<1>7. /\ q \in [1 .. n + 1 -> items] /\ q[n + 1] = x
      /\ \A k \in 1 .. n : q[k] = p[k]
  BY <1>6
<1>8. \A k \in 1 .. n + 1 : Earlier(q, k) = Earlier(p, k)
  BY <1>7 DEF Earlier
<1>9. ASSUME NEW k \in 1 .. n + 1
      PROVE  /\ q[k] \in items \ Earlier(q, k)
             /\ \A i \in items \ Earlier(q, k) : Listing(q[k], i)
  <2>1. CASE k = n + 1
    BY <1>2, <1>5, <1>7, <1>8, <2>1
  <2>2. CASE k # n + 1
    <3>1. k \in 1 .. n
      BY <2>2
    <3> QED BY <1>7, <1>8, <3>1 DEF InOrder
  <2> QED BY <2>1, <2>2
<1> QED BY <1>7, <1>9 DEF InOrder

LEMMA PageExists ==
  ASSUME TeamTyped, NEW items \in SUBSET born, NEW n \in Nat, n <= Cardinality(items)
  PROVE  \E p \in [1 .. n -> items] : InOrder(items, n, p)
<1>0. Cardinality(items) \in Nat
  BY RankFacts, FS_Subset, FS_CardinalityType
<1>1. PICK T : T = {k \in Nat : k <= Cardinality(items) /\ ~\E p \in [1 .. k -> items] : InOrder(items, k, p)}
  OBVIOUS
<1>2. SUFFICES ASSUME T # {} PROVE FALSE
  BY <1>1
<1>3. PICK k \in T : \A j \in T : k <= j
  BY <1>1, <1>2, SmallestExists
<1>4. k \in Nat /\ k <= Cardinality(items) /\ ~\E p \in [1 .. k -> items] : InOrder(items, k, p)
  BY <1>1
<1>5. k # 0
  <2>1. SUFFICES ASSUME k = 0 PROVE FALSE
    OBVIOUS
  <2>2. PICK p : p = [l \in 1 .. 0 |-> l]
    OBVIOUS
  <2>3. p \in [1 .. 0 -> items]
    BY <2>2
  <2>4. InOrder(items, 0, p)
    BY DEF InOrder
  <2> QED BY <1>4, <2>1, <2>3, <2>4
<1>6. PICK j \in Nat : k = j + 1
  <2>1. k - 1 \in Nat /\ k = (k - 1) + 1
    BY <1>4, <1>5
  <2> QED BY <2>1
<1>7. j \notin T
  BY <1>3, <1>6
<1>8. j < Cardinality(items)
  BY <1>0, <1>4, <1>6
<1>9. PICK p \in [1 .. j -> items] : InOrder(items, j, p)
  BY <1>0, <1>1, <1>7, <1>8
<1>10. \E q \in [1 .. j + 1 -> items] : InOrder(items, j + 1, q)
  BY <1>8, <1>9, OneMore
<1> QED BY <1>4, <1>6, <1>10

\* A page: what goes first, each item once and the newest before the others; it is
\* the whole of what is left, unless there is more.
LEMMA PageFacts ==
  ASSUME TeamTyped, NEW items \in SUBSET born, NEW page, page = PageOf(items)
  PROVE  /\ page \in Seq(items) /\ Len(page) \in Nat /\ Cardinality(items) \in Nat
         /\ \A k, l \in 1 .. Len(page) : k < l => Rank(page[l]) < Rank(page[k])
         /\ Cardinality(items) <= Len(page) => \A i \in items : \E k \in 1 .. Len(page) : page[k] = i
         /\ \A i \in items : \/ \E k \in 1 .. Len(page) : page[k] = i
                             \/ Len(page) > 0 /\ Rank(i) < Rank(page[Len(page)])
         /\ items # {} => Len(page) > 0
<1>1. IsFiniteSet(items) /\ Cardinality(items) \in Nat
  BY RankFacts, FS_Subset, FS_CardinalityType
<1>2. PICK n : n = IF Cardinality(items) < issuesPageSize THEN Cardinality(items) ELSE issuesPageSize
  OBVIOUS
<1>3. n \in Nat /\ n <= Cardinality(items) /\ (items # {} => n > 0)
  <2>1. Cardinality(items) = 0 <=> items = {}
    BY <1>1, FS_EmptySet
  <2>2. issuesPageSize \in Nat \ {0}
    BY LinearClientAssumption
  <2> QED BY <1>1, <1>2, <2>1, <2>2
<1>4. page = CHOOSE p \in [1 .. n -> items] : InOrder(items, n, p)
  BY <1>2 DEF PageOf, InOrder, Earlier
<1>5. page \in [1 .. n -> items] /\ InOrder(items, n, page)
  <2>1. \E p \in [1 .. n -> items] : InOrder(items, n, p)
    BY <1>3, PageExists
  <2> QED BY <1>4, <2>1
<1>6. page \in Seq(items) /\ Len(page) = n
  <2>1. page \in Seq(items)
    BY <1>3, <1>5
  <2>2. Len(page) \in Nat /\ DOMAIN page = 1 .. Len(page)
    BY <2>1, LenProperties
  <2> QED BY <1>3, <1>5, <2>1, <2>2
<1>7. \A k \in 1 .. n : page[k] \in born /\ Rank(page[k]) \in Nat
  BY <1>5, RankFacts
<1>8. ASSUME NEW k \in 1 .. n, NEW l \in 1 .. n, k < l PROVE Rank(page[l]) < Rank(page[k])
  <2>1. k \in 1 .. l - 1
    BY <1>8
  <2>2. page[l] \in items \ Earlier(page, l) /\ page[k] \in Earlier(page, l)
    BY <1>5, <2>1 DEF InOrder, Earlier
  <2>3. Earlier(page, k) \subseteq Earlier(page, l)
    BY <1>8 DEF Earlier
  <2>4. Listing(page[k], page[l]) /\ page[k] # page[l]
    BY <1>5, <2>2, <2>3 DEF InOrder
  <2> QED BY <1>7, <2>4, RankFacts
<1>9. ASSUME n = Cardinality(items), NEW i \in items PROVE \E k \in 1 .. n : page[k] = i
  <2>1. \A k, l \in 1 .. n : page[k] = page[l] => k = l
    <3>1. ASSUME NEW k \in 1 .. n, NEW l \in 1 .. n, page[k] = page[l] PROVE k = l
      <4>1. ~(Rank(page[l]) < Rank(page[k])) /\ ~(Rank(page[k]) < Rank(page[l]))
        BY <1>7, <3>1
      <4>2. ~(k < l) /\ ~(l < k)
        BY <1>8, <4>1
      <4> QED BY <4>2
    <3> QED BY <3>1
  <2>2. page \in Injection(1 .. n, items)
    BY <1>5, <2>1 DEF Injection, IsInjective
  <2>3. Cardinality(1 .. n) = n
    BY <1>3, FS_Interval
  <2>4. page \in Surjection(1 .. n, items)
    BY <1>1, <1>9, <2>2, <2>3, FS_Injection
  <2> QED BY <2>4 DEF Surjection
<1>10. ASSUME NEW i \in items, ~\E k \in 1 .. n : page[k] = i
       PROVE  n > 0 /\ Rank(i) < Rank(page[n])
  <2>0. items # {}
    BY <1>10
  <2>1. n > 0 /\ n \in 1 .. n
    BY <1>3, <2>0
  <2>2. i \notin Earlier(page, n)
    BY <1>3, <1>10 DEF Earlier
  <2>3. Listing(page[n], i) /\ page[n] # i
    BY <1>5, <1>10, <2>1, <2>2 DEF InOrder
  <2>4. i \in born /\ page[n] \in born /\ Rank(i) \in Nat /\ Rank(page[n]) \in Nat
    BY <1>7, <2>1, RankFacts
  <2>5. Rank(page[n]) >= Rank(i) /\ Rank(page[n]) # Rank(i)
    BY <2>3, <2>4, RankFacts
  <2> QED BY <2>1, <2>4, <2>5
<1>11. Cardinality(items) <= n => n = Cardinality(items)
  BY <1>1, <1>3
<1> QED BY <1>1, <1>3, <1>6, <1>8, <1>9, <1>10, <1>11

\* A change to one item leaves the walk where it is.
LEMMA TouchKeeps ==
  ASSUME TeamIInv, NEW i \in TeamItems, Touched(i),
         born' = born \/ (born' = born \cup {i} /\ i \notin born),
         NEW S \in SUBSET sweep.steady, S \subseteq OpenItems', sweep.of = "projects" => i \notin S,
         sweep' = [sweep EXCEPT !.steady = S],
         workflow' \in [TeamItems -> 1 .. Len(TeamStates)]
  PROVE  TeamIInv'
<1>1. TeamTyped /\ CursorAtEnd /\ NewestFirst /\ SteadyReached
  BY DEF TeamIInv
<1>2. /\ born \subseteq TeamItems /\ touches \in Nat /\ recency \in [TeamItems -> 0 .. touches]
      /\ \A j, k \in born : recency[j] = recency[k] => j = k
      /\ sweep \in [on : BOOLEAN, of : {"issues", "projects"}, after : born \cup {NoID},
                    got : Seq(born), steady : SUBSET OpenItems]
  BY <1>1 DEF TeamTyped
<1>3. /\ touches' = touches + 1 /\ recency' = [recency EXCEPT ![i] = touches + 1]
  BY DEF Touched
<1>4. recency' \in [TeamItems -> 0 .. touches + 1]
  BY <1>2, <1>3
<1>5. born \subseteq born' /\ born' \subseteq TeamItems /\ born' \subseteq born \cup {i}
  BY <1>2
<1>6. \A j, k \in born' : recency'[j] = recency'[k] => j = k
  <2>1. \A j \in TeamItems : recency'[j] = IF j = i THEN touches + 1 ELSE recency[j]
    BY <1>2, <1>3
  <2>2. \A j \in TeamItems : recency[j] # touches + 1
    BY <1>2
  <2> QED BY <1>2, <1>5, <2>1, <2>2
<1>7. /\ sweep'.on = sweep.on /\ sweep'.of = sweep.of /\ sweep'.after = sweep.after
      /\ sweep'.got = sweep.got /\ sweep'.steady = S
      /\ sweep' \in [on : BOOLEAN, of : {"issues", "projects"}, after : born' \cup {NoID},
                     got : Seq(born'), steady : SUBSET OpenItems']
  <2>1. sweep.got \in Seq(born')
    BY <1>2, <1>5, SeqMonotonic
  <2> QED BY <1>2, <1>5, <2>1
<1>8. TeamTyped'
  BY <1>3, <1>4, <1>5, <1>6, <1>7 DEF TeamTyped
<1>9. CursorAtEnd' /\ NewestFirst'
  BY <1>1, <1>7 DEF CursorAtEnd, NewestFirst
<1>10. SteadyReached'
  <2> SUFFICES ASSUME NEW j \in S
               PROVE  Reached(j)' \/ (sweep'.on /\ Behind(sweep.of, j, sweep.after)')
    BY <1>7 DEF SteadyReached
  <2>1. Reached(j) \/ (sweep.on /\ Behind(sweep.of, j, sweep.after))
    BY <1>1 DEF SteadyReached
  <2>2. CASE Reached(j)
    BY <1>7, <2>2 DEF Reached
  <2>3. CASE sweep.on /\ Behind(sweep.of, j, sweep.after)
    <3>1. j \in born
      BY <1>2 DEF OpenItems
    <3>2. CASE sweep.of = "issues"
      BY <1>7, <2>3, <3>2 DEF Behind
    <3>3. CASE sweep.of = "projects"
      <4>1. j # i /\ recency'[j] = recency[j]
        BY <1>2, <1>3, <3>1, <3>3
      <4>2. CASE sweep.after = NoID
        BY <1>7, <2>3, <4>2 DEF Behind
      <4>3. CASE sweep.after # NoID
        <5>1. sweep.after \in born /\ recency[j] < recency[sweep.after]
          BY <1>2, <2>3, <3>3, <4>3 DEF Behind
        <5>2. recency[sweep.after] <= recency'[sweep.after]
          BY <1>2, <1>3, <5>1
        <5>3. recency'[j] < recency'[sweep.after]
          <6>1. /\ recency[j] \in Nat /\ recency[sweep.after] \in Nat
                /\ recency'[sweep.after] \in Nat
            BY <1>2, <1>4, <3>1, <5>1
          <6> QED BY <4>1, <5>1, <5>2, <6>1
        <5> QED BY <1>7, <2>3, <3>3, <5>3 DEF Behind
      <4> QED BY <4>2, <4>3
    <3> QED BY <1>2, <3>2, <3>3
  <2> QED BY <2>1, <2>2, <2>3
<1> QED BY <1>8, <1>9, <1>10 DEF TeamIInv

LEMMA StatesByType ==
  ASSUME NEW stateType, NEW preferred, NEW n \in FindStateIDByType(stateType, preferred)
  PROVE  n \in 1 .. Len(TeamStates) /\ TeamStates[n].type = stateType
<1>1. DOMAIN TeamStates = 1 .. 3 /\ Len(TeamStates) = 3
  BY DEF TeamStates
<1>2. PICK ofType : ofType = {k \in DOMAIN TeamStates : TeamStates[k].type = stateType}
  OBVIOUS
<1>3. PICK named : named = {k \in ofType : TeamStates[k].name \in preferred}
  OBVIOUS
<1>4. n \in (IF named # {} THEN {Min(named)} ELSE IF ofType # {} THEN {Min(ofType)} ELSE {})
  BY <1>2, <1>3 DEF FindStateIDByType
<1>5. named \in SUBSET Nat /\ ofType \in SUBSET Nat
  BY <1>1, <1>2, <1>3
<1>6. n \in ofType
  <2>1. named # {} => Min(named) \in named
    BY <1>5, MinOf
  <2>2. ofType # {} => Min(ofType) \in ofType
    BY <1>5, MinOf
  <2> QED BY <1>3, <1>4, <2>1, <2>2
<1> QED BY <1>1, <1>2, <1>6

LEMMA CreateItemKeeps ==
  ASSUME TeamIInv, CreateItem PROVE TeamIInv'
<1>1. PICK i \in TeamItems \ born :
        born' = born \cup {i} /\ Touched(i)
  BY DEF CreateItem
<1>2. UNCHANGED <<workflow, sweep>>
  BY DEF CreateItem
<1>3. TeamTyped
  BY DEF TeamIInv
<1>4. sweep.steady \subseteq OpenItems'
  BY <1>1, <1>2, <1>3 DEF TeamTyped, OpenItems
<1>5. sweep.steady \subseteq born
  BY <1>3 DEF TeamTyped, OpenItems
<1>6. sweep' = [sweep EXCEPT !.steady = sweep.steady]
  BY <1>2, <1>3 DEF TeamTyped
<1>7. workflow' \in [TeamItems -> 1 .. Len(TeamStates)]
  BY <1>2, <1>3 DEF TeamTyped
<1> QED BY <1>1, <1>4, <1>5, <1>6, <1>7, TouchKeeps

LEMMA EditItemKeeps ==
  ASSUME TeamIInv, NEW i \in born, EditItem(i) PROVE TeamIInv'
<1>1. TeamTyped
  BY DEF TeamIInv
<1>2. Touched(i) /\ UNCHANGED <<born, workflow>> /\ i \in TeamItems
  BY <1>1 DEF EditItem, TeamTyped
<1>3. PICK S : S = IF sweep.of = "projects" THEN sweep.steady \ {i} ELSE sweep.steady
  OBVIOUS
<1>4. S \in SUBSET sweep.steady /\ (sweep.of = "projects" => i \notin S)
  BY <1>3
<1>5. sweep' = [sweep EXCEPT !.steady = S]
  BY <1>3 DEF EditItem
<1>6. S \subseteq OpenItems'
  BY <1>1, <1>2, <1>4 DEF TeamTyped, OpenItems
<1>7. workflow' \in [TeamItems -> 1 .. Len(TeamStates)]
  BY <1>1, <1>2 DEF TeamTyped
<1> QED BY <1>2, <1>4, <1>5, <1>6, <1>7, TouchKeeps

LEMMA SetStateKeeps ==
  ASSUME TeamIInv, NEW i \in born, NEW stateType, NEW preferred,
         SetIssueStateByType(i, stateType, preferred)
  PROVE  TeamIInv'
<1>1. TeamTyped
  BY DEF TeamIInv
<1>2. Touched(i) /\ UNCHANGED born /\ i \in TeamItems
  BY <1>1 DEF SetIssueStateByType, TeamTyped
<1>3. PICK n \in FindStateIDByType(stateType, preferred) : workflow' = [workflow EXCEPT ![i] = n]
  BY DEF SetIssueStateByType
<1>4. n \in 1 .. Len(TeamStates) /\ TeamStates[n].type = stateType
  BY StatesByType
<1>5. /\ workflow' \in [TeamItems -> 1 .. Len(TeamStates)]
      /\ workflow'[i] = n /\ \A j \in TeamItems \ {i} : workflow'[j] = workflow[j]
  BY <1>1, <1>2, <1>3, <1>4 DEF TeamTyped
<1>6. PICK S : S = IF stateType \in closedStateTypes \/ sweep.of = "projects"
                   THEN sweep.steady \ {i} ELSE sweep.steady
  OBVIOUS
<1>7. /\ S \in SUBSET sweep.steady /\ (sweep.of = "projects" => i \notin S)
      /\ stateType \in closedStateTypes => i \notin S
  BY <1>6
<1>8. sweep' = [sweep EXCEPT !.steady = S]
  BY <1>6 DEF SetIssueStateByType
<1>9. S \subseteq OpenItems'
  <2>1. ASSUME NEW j \in S PROVE j \in OpenItems'
    <3>1. j \in OpenItems
      BY <1>1, <1>7 DEF TeamTyped
    <3>2. j \in born /\ j \in TeamItems /\ TeamStates[workflow[j]].type \notin closedStateTypes
      BY <1>1, <3>1 DEF OpenItems, TeamTyped
    <3>3. TeamStates[workflow'[j]].type \notin closedStateTypes
      <4>1. CASE j = i
        <5>1. stateType \notin closedStateTypes
          BY <1>7, <4>1
        <5> QED BY <1>4, <1>5, <4>1, <5>1
      <4>2. CASE j # i
        BY <1>5, <3>2, <4>2
      <4> QED BY <4>1, <4>2
    <3> QED BY <1>2, <3>2, <3>3 DEF OpenItems
  <2> QED BY <2>1
<1> QED BY <1>2, <1>5, <1>7, <1>8, <1>9, TouchKeeps

LEMMA StartSweepKeeps ==
  ASSUME TeamIInv, NEW of \in {"issues", "projects"}, StartSweep(of) PROVE TeamIInv'
<1>1. TeamTyped
  BY DEF TeamIInv
<1>2. /\ sweep' = [on |-> TRUE, of |-> of, after |-> NoID, got |-> <<>>, steady |-> OpenItems]
      /\ UNCHANGED <<born, workflow, recency, touches>>
  BY DEF StartSweep
<1>3. OpenItems' = OpenItems
  BY <1>2 DEF OpenItems
<1>4. <<>> \in Seq(born) /\ Len(<<>>) = 0
  BY EmptySeq
<1>5. TeamTyped'
  BY <1>1, <1>2, <1>3, <1>4 DEF TeamTyped
<1>6. CursorAtEnd' /\ NewestFirst'
  BY <1>2, <1>4 DEF CursorAtEnd, NewestFirst
<1>7. SteadyReached'
  BY <1>2 DEF SteadyReached, Behind
<1> QED BY <1>5, <1>6, <1>7 DEF TeamIInv

LEMMA NextPageKeeps ==
  ASSUME TeamIInv, NextPageOf PROVE TeamIInv'
<1>1. TeamTyped /\ CursorAtEnd /\ NewestFirst /\ SteadyReached
  BY DEF TeamIInv
<1>2. PICK page : page = PageOf(Rest)
  OBVIOUS
<1>3. /\ sweep.on /\ UNCHANGED <<born, workflow, recency, touches>>
      /\ sweep' = [sweep EXCEPT !.got = @ \o page, !.on = Cardinality(Rest) > Len(page),
                               !.after = IF page = <<>> THEN @ ELSE page[Len(page)]]
  BY <1>2 DEF NextPageOf
<1>4. Rest \in SUBSET born
  BY DEF Rest, OpenItems
<1>5. /\ page \in Seq(Rest) /\ Len(page) \in Nat /\ Cardinality(Rest) \in Nat
      /\ \A k, l \in 1 .. Len(page) : k < l => Rank(page[l]) < Rank(page[k])
      /\ Cardinality(Rest) <= Len(page) => \A i \in Rest : \E k \in 1 .. Len(page) : page[k] = i
      /\ \A i \in Rest : \/ \E k \in 1 .. Len(page) : page[k] = i
                         \/ Len(page) > 0 /\ Rank(i) < Rank(page[Len(page)])
      /\ Rest # {} => Len(page) > 0
  BY <1>1, <1>2, <1>4, PageFacts
<1>6. /\ page \in Seq(born) /\ \A k \in 1 .. Len(page) : page[k] \in Rest
      /\ page = <<>> <=> Len(page) = 0
  BY <1>4, <1>5, SeqMonotonic, ElementOfSeq, EmptySeq
<1>7. sweep \in [on : BOOLEAN, of : {"issues", "projects"}, after : born \cup {NoID},
                 got : Seq(born), steady : SUBSET OpenItems]
  BY <1>1 DEF TeamTyped
<1>8. /\ sweep.got \in Seq(born) /\ Len(sweep.got) \in Nat
      /\ \A j \in 1 .. Len(sweep.got) : sweep.got[j] \in born
      /\ sweep.got = <<>> <=> Len(sweep.got) = 0
  BY <1>7, LenProperties, ElementOfSeq, EmptySeq
<1>9. PICK got : got = sweep.got \o page
  OBVIOUS
<1>10. PICK m, n \in Nat : m = Len(sweep.got) /\ n = Len(page)
  BY <1>5, <1>8
<1>11. /\ got \in Seq(born) /\ Len(got) = m + n
       /\ \A k \in 1 .. m : got[k] = sweep.got[k]
       /\ \A k \in 1 .. n : got[m + k] = page[k]
       /\ got = <<>> <=> m + n = 0
  <2>1. /\ got \in Seq(born) /\ Len(got) = m + n
        /\ \A k \in 1 .. m + n : got[k] = IF k <= m THEN sweep.got[k] ELSE page[k - m]
    BY <1>6, <1>8, <1>9, <1>10, ConcatProperties
  <2>2. \A k \in 1 .. n : got[m + k] = page[k]
    BY <2>1
  <2>3. \A k \in 1 .. m : got[k] = sweep.got[k]
    BY <2>1
  <2>4. got = <<>> <=> m + n = 0
    BY <2>1, EmptySeq
  <2> QED BY <2>1, <2>2, <2>3, <2>4
<1>12. PICK after : after = IF page = <<>> THEN sweep.after ELSE page[n]
  OBVIOUS
<1>13. after \in born \cup {NoID}
  BY <1>4, <1>6, <1>7, <1>10, <1>12
<1>14. /\ sweep'.got = got /\ sweep'.after = after /\ sweep'.of = sweep.of
       /\ sweep'.steady = sweep.steady /\ (Cardinality(Rest) > n => sweep'.on)
       /\ sweep' \in [on : BOOLEAN, of : {"issues", "projects"}, after : born \cup {NoID},
                      got : Seq(born), steady : SUBSET OpenItems]
  <2>1. PICK on \in BOOLEAN : on <=> Cardinality(Rest) > n
    OBVIOUS
  <2>2. sweep' = [sweep EXCEPT !.got = got, !.on = on, !.after = after]
    <3>1. on = (Cardinality(Rest) > Len(page))
      BY <1>10, <2>1
    <3>2. sweep' = [sweep EXCEPT !.got = sweep.got \o page, !.on = Cardinality(Rest) > Len(page),
                               !.after = IF page = <<>> THEN sweep.after ELSE page[Len(page)]]
      BY <1>3
    <3> QED BY <1>9, <1>10, <1>12, <3>1, <3>2
  <2>3. sweep'.on = on
    BY <1>7, <2>2
  <2>4. Cardinality(Rest) > n => sweep'.on
    BY <2>1, <2>3
  <2>5. got \in Seq(born)
    BY <1>11
  <2> QED BY <1>7, <1>13, <2>1, <2>2, <2>4, <2>5
<1>15. TeamTyped'
  <2>1. OpenItems' = OpenItems
    BY <1>3 DEF OpenItems
  <2> QED BY <1>1, <1>3, <1>14, <2>1 DEF TeamTyped
<1>16. CursorAtEnd'
  <2>1. after = IF got = <<>> THEN NoID ELSE got[m + n]
    <3>1. CASE n = 0
      BY <1>1, <1>6, <1>8, <1>10, <1>11, <1>12, <3>1 DEF CursorAtEnd
    <3>2. CASE n # 0
      <4>1. n \in 1 .. n /\ m + n # 0
        BY <3>2
      <4> QED BY <1>6, <1>10, <1>11, <1>12, <3>2, <4>1
    <3> QED BY <3>1, <3>2
  <2> QED BY <1>11, <1>14, <2>1 DEF CursorAtEnd
<1>17. NewestFirst'
  <2> SUFFICES ASSUME sweep.of = "issues", NEW j \in 1 .. m + n, NEW k \in 1 .. m + n, j < k
               PROVE  got[k] < got[j]
    BY <1>11, <1>14 DEF NewestFirst
  <2>1. \A x \in 1 .. m : sweep.got[x] \in Nat \ {0}
    BY <1>1, <1>8, <1>10, RankFacts
  <2>2. \A x \in 1 .. n : page[x] \in Nat \ {0}
    BY <1>1, <1>4, <1>6, <1>10, RankFacts
  <2>3. \A x, y \in 1 .. m : x < y => sweep.got[y] < sweep.got[x]
    BY <1>1, <1>10 DEF NewestFirst
  <2>4. \A x, y \in 1 .. n : x < y => page[y] < page[x]
    BY <1>5, <1>10 DEF Rank
  <2>5. \A x \in 1 .. n : m > 0 => page[x] < sweep.got[m]
    <3>1. m > 0 => sweep.after = sweep.got[m] /\ m \in 1 .. m
      BY <1>1, <1>8, <1>10 DEF CursorAtEnd
    <3>2. \A x \in 1 .. n : Behind(sweep.of, page[x], sweep.after)
      BY <1>6, <1>10 DEF Rest
    <3> QED BY <2>1, <3>1, <3>2 DEF Behind, NoID
  <2>6. CASE k <= m
    BY <1>11, <2>3, <2>6
  <2>7. CASE j <= m /\ k > m
    <3>1. k - m \in 1 .. n /\ k = m + (k - m) /\ m \in 1 .. m /\ j \in 1 .. m
      BY <2>7
    <3>2. got[k] = page[k - m] /\ got[j] = sweep.got[j]
      BY <1>11, <3>1
    <3>3. page[k - m] < sweep.got[m] /\ sweep.got[m] <= sweep.got[j]
      BY <2>1, <2>3, <2>5, <3>1
    <3> QED BY <2>1, <2>2, <3>1, <3>2, <3>3
  <2>8. CASE j > m
    <3>1. k - m \in 1 .. n /\ k = m + (k - m) /\ j - m \in 1 .. n /\ j = m + (j - m)
          /\ j - m < k - m
      BY <2>8
    <3> QED BY <1>11, <2>4, <3>1
  <2> QED BY <2>6, <2>7, <2>8
<1>18. SteadyReached'
  <2> SUFFICES ASSUME NEW i \in sweep.steady
               PROVE  Reached(i)' \/ (sweep'.on /\ Behind(sweep.of, i, sweep.after)')
    BY <1>14 DEF SteadyReached
  <2>1. Reached(i) \/ (sweep.on /\ Behind(sweep.of, i, sweep.after))
    BY <1>1 DEF SteadyReached
  <2>2. CASE Reached(i)
    <3>1. PICK j \in 1 .. m : sweep.got[j] = i
      BY <1>10, <2>2 DEF Reached
    <3>2. j \in 1 .. m + n /\ got[j] = i
      BY <1>11, <3>1
    <3> QED BY <1>11, <1>14, <3>2 DEF Reached
  <2>3. CASE Behind(sweep.of, i, sweep.after)
    <3>1. i \in Rest
      BY <1>7, <2>3 DEF Rest
    <3>2. CASE \E k \in 1 .. n : page[k] = i
      <4>1. PICK k \in 1 .. n : page[k] = i
        BY <3>2
      <4>2. m + k \in 1 .. m + n /\ got[m + k] = i
        BY <1>11, <4>1
      <4> QED BY <1>11, <1>14, <4>2 DEF Reached
    <3>3. CASE ~\E k \in 1 .. n : page[k] = i
      <4>1. ~(Cardinality(Rest) <= n) /\ n > 0 /\ Rank(i) < Rank(page[n])
        BY <1>5, <1>10, <3>1, <3>3
      <4>2. sweep'.on
        BY <1>5, <1>14, <4>1
      <4>3. after = page[n] /\ page[n] \in born /\ i \in born
        BY <1>4, <1>6, <1>10, <1>12, <3>1, <4>1
      <4>4. Behind(sweep.of, i, after)
        BY <1>1, <4>1, <4>3, RankFacts
      <4>5. Behind(sweep.of, i, sweep.after)'
        BY <1>3, <1>14, <4>4 DEF Behind
      <4> QED BY <4>2, <4>5
    <3> QED BY <3>2, <3>3
  <2> QED BY <2>1, <2>2, <2>3
<1> QED BY <1>15, <1>16, <1>17, <1>18 DEF TeamIInv

LEMMA TeamInit ==
  LinearClientInit => TeamIInv
<1> SUFFICES ASSUME LinearClientInit PROVE TeamIInv
  OBVIOUS
<1>1. /\ born = {1} /\ workflow = [i \in TeamItems |-> 1] /\ recency = [i \in TeamItems |-> 0]
      /\ touches = 0 /\ sweep = NoSweep
  BY DEF LinearClientInit
<1>2. born \subseteq TeamItems /\ Len(TeamStates) = 3 /\ <<>> \in Seq(born) /\ Len(<<>>) = 0
  BY <1>1, LinearClientAssumption, EmptySeq DEF TeamStates
<1>3. /\ sweep.on = FALSE /\ sweep.of = "issues" /\ sweep.after = NoID /\ sweep.got = <<>>
      /\ sweep.steady = {}
      /\ sweep \in [on : BOOLEAN, of : {"issues", "projects"}, after : born \cup {NoID},
                    got : Seq(born), steady : SUBSET OpenItems]
  BY <1>1, <1>2 DEF NoSweep
<1>4. /\ workflow \in [TeamItems -> 1 .. Len(TeamStates)] /\ touches \in Nat
      /\ recency \in [TeamItems -> 0 .. touches]
      /\ \A i, j \in born : recency[i] = recency[j] => i = j
  BY <1>1, <1>2
<1>5. TeamTyped
  BY <1>2, <1>3, <1>4 DEF TeamTyped
<1>6. CursorAtEnd /\ NewestFirst /\ SteadyReached
  BY <1>2, <1>3 DEF CursorAtEnd, NewestFirst, SteadyReached
<1> QED BY <1>5, <1>6 DEF TeamIInv

LEMMA LinearClientInitInv ==
  LinearClientInit => LinearClientIInv
BY IssueInit, TeamInit DEF LinearClientIInv

LEMMA LinearClientStepInv ==
  ASSUME LinearClientIInv, [LinearClientNext]_linearClientVars PROVE LinearClientIInv'
<1>1. IssueIInv /\ TeamIInv
  BY DEF LinearClientIInv
<1>2. ASSUME UNCHANGED issueVars PROVE IssueIInv'
  <2>1. /\ UNCHANGED <<attachments, created, comments, manager>>
        /\ UNCHANGED <<faults, heard, neglected, undeleted, gone>>
    BY <1>2 DEF issueVars
  <2>2. IssueTyped' /\ StateKept' /\ ~neglected'
    BY <1>1, <2>1 DEF IssueIInv, IssueTyped, StateKept
  <2>3. StatesTell' /\ ManagersTell'
    BY <1>1, <2>1 DEF IssueIInv, StatesTell, ManagersTell, Tells, HeardTo, PersonComments
  <2>4. Answered'
    BY <1>1, <2>1 DEF IssueIInv, Answered, AfterBot, PersonComments
  <2>5. Covered'
    BY <1>1, <2>1, CoverStays DEF IssueIInv
  <2> QED BY <2>2, <2>3, <2>4, <2>5 DEF IssueIInv
<1>3. UNCHANGED teamVars => TeamIInv'
  BY <1>1 DEF teamVars, TeamIInv, TeamTyped, CursorAtEnd, NewestFirst, SteadyReached, Reached,
              Behind, OpenItems
<1>4. CASE IssueNext /\ UNCHANGED teamVars
  <2>1. IssueIInv'
    BY <1>1, <1>4, CommentKeeps, GetIssueKeeps, UpsertKeeps, SaveKeeps, DeleteKeeps, UploadKeeps,
       DiesKeeps DEF IssueNext
  <2> QED BY <1>3, <1>4, <2>1 DEF LinearClientIInv
<1>5. CASE TeamNext /\ UNCHANGED issueVars
  <2>1. TeamIInv'
    BY <1>1, <1>5, CreateItemKeeps, EditItemKeeps, SetStateKeeps, StartSweepKeeps, NextPageKeeps
       DEF TeamNext
  <2> QED BY <1>2, <1>5, <2>1 DEF LinearClientIInv
<1>6. CASE UNCHANGED linearClientVars
  BY <1>2, <1>3, <1>6 DEF linearClientVars, LinearClientIInv
<1> QED BY <1>4, <1>5, <1>6 DEF LinearClientNext

LEMMA ListsFromReached ==
  ASSUME TeamIInv PROVE ListsComplete
<1>1. TeamTyped /\ NewestFirst /\ SteadyReached
  BY DEF TeamIInv
<1>2. sweep.got \in Seq(born) /\ sweep.of \in {"issues", "projects"} /\ born \subseteq TeamItems
  BY <1>1 DEF TeamTyped
<1>3. Len(sweep.got) \in Nat /\ DOMAIN sweep.got = 1 .. Len(sweep.got)
  BY <1>2, LenProperties
<1> SUFFICES ASSUME ~sweep.on, NEW i \in sweep.steady
             PROVE  LET times == Cardinality({j \in DOMAIN sweep.got : sweep.got[j] = i}) IN
                    IF sweep.of = "issues" THEN times = 1 ELSE times >= 1
  BY DEF ListsComplete
<1>4. PICK k \in 1 .. Len(sweep.got) : sweep.got[k] = i
  BY <1>1 DEF SteadyReached, Reached
<1>5. PICK T : T = {j \in DOMAIN sweep.got : sweep.got[j] = i}
  OBVIOUS
<1>6. k \in T /\ T \subseteq 1 .. Len(sweep.got)
  BY <1>3, <1>4, <1>5
<1>7. IsFiniteSet(T) /\ Cardinality(T) \in Nat
  <2>1. IsFiniteSet(1 .. Len(sweep.got))
    BY <1>3, FS_Interval
  <2>2. IsFiniteSet(T)
    BY <1>6, <2>1, FS_Subset
  <2> QED BY <2>2, FS_CardinalityType
<1>8. Cardinality(T) # 0
  BY <1>6, <1>7, FS_EmptySet
<1>9. CASE sweep.of = "issues"
  <2>1. \A j \in 1 .. Len(sweep.got) : sweep.got[j] \in Nat
    <3>1. PICK c \in Nat : TeamItems = 1 .. c
      BY LinearClientAssumption, FS_CardinalityType
    <3>2. born \subseteq Nat
      BY <1>2, <3>1
    <3> QED BY <1>2, <3>2, ElementOfSeq
  <2>2. ASSUME NEW j \in T PROVE j = k
    <3>1. j \in 1 .. Len(sweep.got) /\ sweep.got[j] = sweep.got[k]
      BY <1>4, <1>5, <1>6
    <3>2. ~(j < k) /\ ~(k < j)
      BY <1>1, <1>4, <1>9, <2>1, <3>1 DEF NewestFirst
    <3> QED BY <1>3, <1>4, <3>1, <3>2
  <2>3. T = {k}
    BY <1>6, <2>2
  <2>4. Cardinality(T) = 1
    BY <2>3, FS_Singleton
  <2> QED BY <1>5, <1>9, <2>4
<1>10. CASE sweep.of # "issues"
  BY <1>5, <1>7, <1>8, <1>10
<1> QED BY <1>9, <1>10

LEMMA LinearClientIsSound ==
  LinearClientIInv => LinearClientSound
<1> SUFFICES ASSUME LinearClientIInv PROVE LinearClientSound
  OBVIOUS
<1>1. IssueIInv /\ TeamIInv
  BY DEF LinearClientIInv
<1>2. IssueTyped /\ Covered /\ StateKept /\ ~neglected
  BY <1>1 DEF IssueIInv
<1>3. StatesBounded
  BY <1>2, BoundedFromCover
<1>4. ListsComplete
  BY <1>1, ListsFromReached
<1> QED BY <1>2, <1>3, <1>4 DEF LinearClientSound, CommentsHeard

-----------------------------------------------------------------------------
(***************************************************************************)
(* Proofs about Statuses, for every set of writers, types and findings,    *)
(* and however often a write is tried.                                     *)
(***************************************************************************)

Sessions == [at : {"idle", "list", "sign", "delete", "write"}, type : Types \cup {"none"},
             says : Findings \cup {"none"}, seen : SUBSET Bundle, tries : Nat,
             alone : BOOLEAN, deleted : BOOLEAN]

StoredBundles ==
  /\ IsFiniteSet(stored) /\ stored \subseteq Bundle /\ signedAt \in Nat
  /\ \A b \in stored : b.at <= signedAt
  /\ kept = "gcs" => \A b \in stored : b.by = "us"

StatusesTyped ==
  /\ kept \in {"oci", "gcs"} /\ StoredBundles
  /\ writing \in [Writers -> Sessions]
  /\ told \in [Types -> Findings \cup {"any"}]
  /\ placed \in [Types -> BOOLEAN] /\ cut \in [Types -> BOOLEAN]

Ours(t) == \A b \in Of(t) : b.by = "us"
AtMostOne(t) == \A b, c \in Of(t) : b = c

\* What another identity signed is superseded before anything of ours is there; and
\* who writes alone finds what it has left.
AloneHolds(w) ==
  LET s == writing[w] IN
  s.at # "idle" /\ s.alone =>
    /\ Busy(s.type) = {w} /\ Ours(s.type) /\ AtMostOne(s.type)
    /\ s.at \in {"sign", "delete"} => Of(s.type) \subseteq s.seen
    /\ s.at = "write" /\ kept = "oci" => Of(s.type) = {}

SessionHolds(w) ==
  LET s == writing[w] IN
  s.at # "idle" =>
    /\ s.type \in Types /\ s.says \in Findings
    /\ \A b \in s.seen : b.type = s.type
    /\ s.at \in {"sign", "delete"} => \A b \in Of(s.type) : b.by = "us" \/ b \in s.seen
    /\ s.at = "write" => Ours(s.type)
    /\ kept = "gcs" => s.at = "write"

OneTells(t) ==
  told[t] # "any" => /\ Busy(t) = {} /\ Ours(t) /\ AtMostOne(t)
                     /\ \E b \in Of(t) : b.says = told[t]

PlacedOurs(t) == placed[t] => Ours(t)

CutNoted(t) ==
  placed[t] /\ Verified(t) = {} => cut[t] \/ \E w \in Busy(t) : writing[w].deleted

TypeHolds(t) == OneTells(t) /\ PlacedOurs(t) /\ CutNoted(t)

StatusesIInv ==
  /\ StatusesTyped /\ \A w \in Writers : SessionHolds(w) /\ AloneHolds(w)
  /\ \A t \in Types : TypeHolds(t)

LEMMA StatusesInitInv == StatusesInit => StatusesIInv
<1> SUFFICES ASSUME StatusesInit PROVE StatusesIInv
  OBVIOUS
<1>1. StoredBundles
  <2>1. CASE stored = {}
    BY <2>1, FS_EmptySet DEF StatusesInit, StoredBundles
  <2>2. CASE stored # {}
    <3>1. PICK b \in Bundle : b.at = 0 /\ stored = {b}
      <4>1. PICK t \in Types, f \in Findings :
              stored = {[by |-> "others", type |-> t, says |-> f, at |-> 0]}
        BY <2>2 DEF StatusesInit
      <4> QED BY <4>1 DEF Bundle
    <3>2. kept = "oci" /\ signedAt = 0 /\ IsFiniteSet(stored)
      BY <2>2, <3>1, FS_Singleton DEF StatusesInit
    <3> QED BY <3>1, <3>2 DEF StoredBundles
  <2> QED BY <2>1, <2>2
<1>2. \A w \in Writers : writing[w] = Resting
  BY DEF StatusesInit
<1>3. StatusesTyped
  <2>1. Resting \in Sessions
    BY DEF Resting, Sessions
  <2> QED BY <1>1, <2>1 DEF StatusesInit, StatusesTyped
<1>4. \A w \in Writers : SessionHolds(w) /\ AloneHolds(w)
  BY <1>2 DEF SessionHolds, AloneHolds, Resting
<1>5. \A t \in Types : TypeHolds(t)
  BY DEF StatusesInit, TypeHolds, OneTells, PlacedOurs, CutNoted
<1> QED BY <1>3, <1>4, <1>5 DEF StatusesIInv

-----------------------------------------------------------------------------
(* What a step of one writer leaves to the others.                         *)

\* The step of w, busy with t, makes x of its session, and touches nothing of
\* other types; what it adds is its own.
Concerns(w, t, x) ==
  /\ writing[w].at # "idle" /\ writing[w].type = t /\ UNCHANGED kept
  /\ writing' = [writing EXCEPT ![w] = x] /\ x \in Sessions
  /\ x.at = "idle" \/ (x.type = t /\ x.says = writing[w].says /\ x.alone = writing[w].alone)
  /\ StoredBundles' /\ \A b \in stored' \ stored : b.by = "us"
  /\ \A u \in Types \ {t} :
       Of(u)' = Of(u) /\ told'[u] = told[u] /\ placed'[u] = placed[u] /\ cut'[u] = cut[u]
  /\ told' \in [Types -> Findings \cup {"any"}]
  /\ placed' \in [Types -> BOOLEAN] /\ cut' \in [Types -> BOOLEAN]

LEMMA BusyAfter ==
  ASSUME StatusesIInv, NEW w \in Writers, NEW t, NEW x, Concerns(w, t, x)
  PROVE  /\ \A v \in Writers \ {w} : writing'[v] = writing[v]
         /\ writing'[w] = x /\ t \in Types /\ w \in Busy(t)
         /\ \A u \in Types \ {t} : Busy(u)' = Busy(u)
         /\ Busy(t)' = IF x.at = "idle" THEN Busy(t) \ {w} ELSE Busy(t)
<1>1. writing \in [Writers -> Sessions] /\ SessionHolds(w)
  BY DEF StatusesIInv, StatusesTyped
<1>2. /\ \A v \in Writers \ {w} : writing'[v] = writing[v]
      /\ writing'[w] = x /\ t \in Types /\ w \in Busy(t)
  BY <1>1 DEF Concerns, SessionHolds, Busy
<1>3. ASSUME NEW u \in Types, NEW v \in Writers
      PROVE  v \in Busy(u)' <=> IF v = w /\ u = t THEN x.at # "idle" ELSE v \in Busy(u)
  <2>1. v \in Busy(u)' <=> writing'[v].at # "idle" /\ writing'[v].type = u
    BY DEF Busy
  <2>2. v \in Busy(u) <=> writing[v].at # "idle" /\ writing[v].type = u
    BY DEF Busy
  <2> QED BY <1>2, <2>1, <2>2 DEF Concerns
<1>4. \A u \in Types : Busy(u)' \subseteq Writers /\ Busy(u) \subseteq Writers
  BY DEF Busy
<1>5. ASSUME NEW u \in Types \ {t} PROVE Busy(u)' = Busy(u)
  <2>1. \A v \in Writers : v \in Busy(u)' <=> v \in Busy(u)
    BY <1>3
  <2> QED BY <1>4, <2>1
<1>6. CASE x.at = "idle"
  <2>1. \A v \in Writers : v \in Busy(t)' <=> v # w /\ v \in Busy(t)
    BY <1>2, <1>3, <1>6
  <2>2. Busy(t)' = Busy(t) \ {w}
    BY <1>2, <1>4, <2>1
  <2> QED BY <1>2, <1>5, <1>6, <2>2
<1>7. CASE x.at # "idle"
  <2>1. \A v \in Writers : v \in Busy(t)' <=> v \in Busy(t)
    BY <1>2, <1>3, <1>7
  <2>2. Busy(t)' = Busy(t)
    BY <1>2, <1>4, <2>1
  <2> QED BY <1>2, <1>5, <1>7, <2>2
<1> QED BY <1>6, <1>7

\* What others know stays true, of this type and of others.
LEMMA OthersHold ==
  ASSUME StatusesIInv, NEW w \in Writers, NEW t, NEW x, Concerns(w, t, x)
  PROVE  /\ StatusesTyped' /\ \A u \in Types \ {t} : TypeHolds(u)'
         /\ \A v \in Writers \ {w} : SessionHolds(v)' /\ AloneHolds(v)'
<1>1. StatusesTyped'
  BY DEF StatusesIInv, StatusesTyped, Concerns
<1>2. ASSUME NEW u \in Types \ {t} PROVE TypeHolds(u)'
  <2>1. /\ Busy(u)' = Busy(u) /\ Of(u)' = Of(u) /\ TypeHolds(u) /\ w \notin Busy(u)
        /\ told'[u] = told[u] /\ placed'[u] = placed[u] /\ cut'[u] = cut[u]
    BY BusyAfter DEF Concerns, StatusesIInv, Busy
  <2>2. OneTells(u)' /\ PlacedOurs(u)'
    BY <2>1 DEF TypeHolds, OneTells, PlacedOurs, Ours, AtMostOne
  <2>3. CutNoted(u)'
    <3>1. Verified(u)' = Verified(u)
      BY <2>1 DEF Verified
    <3>2. \A v \in Busy(u) : writing'[v] = writing[v]
      BY <2>1, BusyAfter DEF Busy
    <3> QED BY <2>1, <3>1, <3>2, Zenon DEF TypeHolds, CutNoted
  <2> QED BY <2>2, <2>3 DEF TypeHolds
<1>3. ASSUME NEW v \in Writers \ {w} PROVE SessionHolds(v)' /\ AloneHolds(v)'
  <2>1. /\ writing'[v] = writing[v] /\ kept' = kept /\ SessionHolds(v) /\ AloneHolds(v)
        /\ writing[v] \in Sessions
    BY BusyAfter DEF Concerns, StatusesIInv, StatusesTyped
  <2> SUFFICES ASSUME writing[v].at # "idle" PROVE SessionHolds(v)' /\ AloneHolds(v)'
    BY <2>1 DEF SessionHolds, AloneHolds
  <2>2. PICK u \in Types : writing[v].type = u /\ v \in Busy(u)
    BY <2>1 DEF SessionHolds, Busy
  <2>3. \A b \in Of(u)' : b \in Of(u) \/ b.by = "us"
    BY DEF Of, Concerns
  <2>4. SessionHolds(v)'
    BY <2>1, <2>2, <2>3 DEF SessionHolds, Ours
  <2>5. CASE u = t
    <3>1. ~writing[v].alone
      BY <2>1, <2>2, <2>5, BusyAfter DEF AloneHolds
    <3> QED BY <2>1, <2>4, <3>1 DEF AloneHolds
  <2>6. CASE u # t
    <3>1. Of(u)' = Of(u)
      BY <2>6 DEF Concerns
    <3>2. Busy(u)' = Busy(u)
      BY <2>6, BusyAfter
    <3> QED BY <2>1, <2>2, <2>4, <3>1, <3>2 DEF AloneHolds, Ours, AtMostOne
  <2> QED BY <2>5, <2>6
<1> QED BY <1>1, <1>2, <1>3

-----------------------------------------------------------------------------

\* A deletion is what takes a bundle of ours away.
LEMMA TakenAway ==
  ASSUME NEW t, Verified(t) # {}, Verified(t)' = {} PROVE Deleted
<1>1. PICK b \in stored : b.type = t /\ b.by = "us"
  BY DEF Verified, Of
<1>2. b \notin stored'
  BY <1>1 DEF Verified, Of
<1> QED BY <1>1, <1>2 DEF Deleted

\* The write goes on, and notes what it deleted.
LEMMA GoesOnInv ==
  ASSUME StatusesIInv, NEW w \in Writers, NEW t, NEW x, Concerns(w, t, x), x.at # "idle",
         SessionHolds(w)', AloneHolds(w)', told'[t] = told[t], cut'[t] = cut[t],
         PlacedOurs(t)', placed'[t] /\ Verified(t)' = {} => placed[t],
         writing[w].deleted \/ Deleted => x.deleted
  PROVE  StatusesIInv'
<1>1. t \in Types /\ w \in Busy(t) /\ Busy(t)' = Busy(t) /\ TypeHolds(t)
  BY BusyAfter DEF StatusesIInv
<1>2. OneTells(t)'
  BY <1>1 DEF TypeHolds, OneTells
<1>3. CutNoted(t)'
  <2> SUFFICES ASSUME placed'[t], Verified(t)' = {}
               PROVE  cut'[t] \/ \E v \in Busy(t) : writing'[v].deleted
    BY <1>1, Zenon DEF CutNoted
  <2>1. CASE Verified(t) # {}
    BY <1>1, <2>1, TakenAway, BusyAfter
  <2>2. CASE Verified(t) = {}
    <3>1. cut[t] \/ \E v \in Busy(t) : writing[v].deleted
      BY <1>1, <2>2, Zenon DEF TypeHolds, CutNoted
    <3>2. CASE cut[t]
      BY <3>2, Zenon
    <3>3. ASSUME NEW v \in Busy(t), writing[v].deleted PROVE \E u \in Busy(t) : writing'[u].deleted
      <4>1. CASE v = w
        BY <1>1, <3>3, <4>1, BusyAfter
      <4>2. CASE v # w
        <5>1. v \in Writers \ {w}
          BY <4>2 DEF Busy
        <5>2. writing'[v] = writing[v]
          BY <5>1, BusyAfter
        <5> QED BY <3>3, <5>2
      <4> QED BY <4>1, <4>2
    <3> QED BY <3>1, <3>2, <3>3, Zenon
  <2> QED BY <2>1, <2>2
<1>4. TypeHolds(t)'
  BY <1>2, <1>3 DEF TypeHolds
<1> QED BY <1>4, OthersHold DEF StatusesIInv

\* The write is over.
LEMMA EndsInv ==
  ASSUME StatusesIInv, NEW w \in Writers, NEW t, NEW ok \in BOOLEAN,
         Concerns(w, t, Resting), Ends(w, ok), PlacedOurs(t)',
         placed'[t] /\ Verified(t)' = {} => placed[t],
         writing[w].alone => Ours(t)' /\ AtMostOne(t)',
         ok => \E b \in Of(t)' : b.says = writing[w].says
  PROVE  StatusesIInv'
<1>1. /\ t \in Types /\ w \in Busy(t) /\ Busy(t)' = Busy(t) \ {w} /\ TypeHolds(t)
      /\ writing'[w] = Resting /\ SessionHolds(w) /\ AloneHolds(w)
      /\ writing[w].type = t /\ writing[w].at # "idle"
  <2>1. writing[w].type = t /\ writing[w].at # "idle" /\ Resting.at = "idle"
    BY DEF Concerns, Resting
  <2> QED BY <2>1, BusyAfter DEF StatusesIInv
<1>2. told'[t] = IF ok /\ writing[w].alone THEN writing[w].says ELSE "any"
  BY <1>1 DEF Ends, StatusesIInv, StatusesTyped
<1>3. cut'[t] = IF ok THEN FALSE ELSE cut[t] \/ writing[w].deleted \/ Deleted
  <2> DEFINE noted == IF ok THEN FALSE ELSE cut[t] \/ writing[w].deleted \/ Deleted
  <2>1. cut' = [cut EXCEPT ![t] = noted]
    BY <1>1, Zenon DEF Ends
  <2>2. cut \in [Types -> BOOLEAN]
    BY DEF StatusesIInv, StatusesTyped
  <2> HIDE DEF noted
  <2>3. cut'[t] = noted
    BY <1>1, <2>1, <2>2
  <2> QED BY <2>3 DEF noted
<1>4. OneTells(t)'
  <2> SUFFICES ASSUME told'[t] # "any"
               PROVE  /\ Busy(t)' = {} /\ Ours(t)' /\ AtMostOne(t)'
                      /\ \E b \in Of(t)' : b.says = told'[t]
    BY DEF OneTells
  <2>1. ok /\ writing[w].alone /\ told'[t] = writing[w].says
    BY <1>2
  <2>2. Busy(t) = {w}
    BY <1>1, <2>1 DEF AloneHolds
  <2>3. Busy(t)' = {}
    BY <1>1, <2>2
  <2> QED BY <2>1, <2>3
<1>5. CutNoted(t)'
  <2> SUFFICES ASSUME placed'[t], Verified(t)' = {}
               PROVE  cut'[t] \/ \E v \in Busy(t) \ {w} : writing'[v].deleted
    BY <1>1, Zenon DEF CutNoted
  <2>1. ~ok
    <3>1. \A b \in Of(t)' : b.by = "us"
      BY DEF PlacedOurs, Ours
    <3>2. Of(t)' = {}
      BY <3>1 DEF Verified
    <3> QED BY <3>2
  <2>2. CASE Verified(t) # {}
    BY <1>3, <2>1, <2>2, TakenAway
  <2>3. CASE Verified(t) = {}
    <3>1. cut[t] \/ \E v \in Busy(t) : writing[v].deleted
      BY <1>1, <2>3, Zenon DEF TypeHolds, CutNoted
    <3>2. CASE cut[t]
      BY <1>3, <2>1, <3>2, Zenon
    <3>3. CASE \E v \in Busy(t) : writing[v].deleted
      <4>1. PICK v \in Busy(t) : writing[v].deleted
        BY <3>3
      <4>2. CASE v = w
        BY <1>3, <2>1, <4>1, <4>2, Zenon
      <4>3. CASE v # w
        <5>1. v \in Writers \ {w}
          BY <4>3 DEF Busy
        <5>2. writing'[v] = writing[v]
          BY <5>1, BusyAfter
        <5> QED BY <4>1, <4>3, <5>2
      <4> QED BY <4>2, <4>3
    <3> QED BY <3>1, <3>2, <3>3, Zenon
  <2> QED BY <2>2, <2>3
<1>6. TypeHolds(t)'
  BY <1>4, <1>5 DEF TypeHolds
<1>7. SessionHolds(w)' /\ AloneHolds(w)'
  BY <1>1 DEF SessionHolds, AloneHolds, Resting
<1> QED BY <1>6, <1>7, OthersHold DEF StatusesIInv

\* The step changes bundles of t alone, adds what is ours, and leaves no status of t
\* to others.
Changes(t) ==
  /\ UNCHANGED kept /\ StoredBundles' /\ \A b \in stored' \ stored : b.by = "us"
  /\ \A u \in Types \ {t} : Of(u)' = Of(u) /\ placed'[u] = placed[u]
  /\ placed' \in [Types -> BOOLEAN]
  /\ PlacedOurs(t)' /\ (placed'[t] /\ Verified(t)' = {} => placed[t])

LEMMA NothingChanges ==
  ASSUME StatusesIInv, NEW t \in Types, UNCHANGED <<kept, stored, placed>>,
         signedAt' \in Nat, signedAt' >= signedAt
  PROVE  Changes(t) /\ Of(t)' = Of(t)
<1>1. StoredBundles /\ placed \in [Types -> BOOLEAN] /\ PlacedOurs(t)
  BY DEF StatusesIInv, StatusesTyped, TypeHolds
<1>2. \A u : Of(u)' = Of(u)
  BY DEF Of
<1>3. StoredBundles'
  <2>1. \A b \in stored : b.at \in Nat
    BY <1>1 DEF StoredBundles, Bundle
  <2> QED BY <1>1, <2>1 DEF StoredBundles
<1>4. PlacedOurs(t)' /\ (placed'[t] /\ Verified(t)' = {} => placed[t])
  BY <1>1, <1>2 DEF PlacedOurs, Ours
<1> QED BY <1>1, <1>2, <1>3, <1>4 DEF Changes

LEMMA EndConcerns ==
  ASSUME StatusesIInv, NEW w \in Writers, NEW t \in Types, NEW ok \in BOOLEAN,
         writing[w].at # "idle", writing[w].type = t, Changes(t), Ends(w, ok)
  PROVE  Concerns(w, t, Resting)
<1> DEFINE f == IF ok /\ writing[w].alone THEN writing[w].says ELSE "any"
           c == IF ok THEN FALSE ELSE cut[t] \/ writing[w].deleted \/ Deleted
<1>1. /\ writing' = [writing EXCEPT ![w] = Resting]
      /\ told' = [told EXCEPT ![t] = f] /\ cut' = [cut EXCEPT ![t] = c]
  BY Zenon DEF Ends
<1>2. f \in Findings \cup {"any"} /\ told \in [Types -> Findings \cup {"any"}]
      /\ cut \in [Types -> BOOLEAN]
  BY DEF StatusesIInv, StatusesTyped, SessionHolds
<1>3. c \in BOOLEAN
  BY <1>2
<1> HIDE DEF f, c
<1>4. told' \in [Types -> Findings \cup {"any"}] /\ cut' \in [Types -> BOOLEAN]
      /\ \A u \in Types \ {t} : told'[u] = told[u] /\ cut'[u] = cut[u]
  BY <1>1, <1>2, <1>3
<1>5. Resting \in Sessions /\ Resting.at = "idle"
  BY DEF Resting, Sessions
<1> QED BY <1>1, <1>4, <1>5 DEF Concerns, Changes

LEMMA OverInv ==
  ASSUME StatusesIInv, NEW w \in Writers, NEW t \in Types, NEW ok \in BOOLEAN,
         writing[w].at # "idle", writing[w].type = t, Changes(t), Ends(w, ok),
         writing[w].alone => Ours(t)' /\ AtMostOne(t)',
         ok => \E b \in Of(t)' : b.says = writing[w].says
  PROVE  StatusesIInv'
<1>1. PlacedOurs(t)' /\ (placed'[t] /\ Verified(t)' = {} => placed[t])
  BY DEF Changes
<1> QED BY <1>1, EndConcerns, EndsInv

\* A session x that goes on concerns t alone.
LEMMA GoingConcerns ==
  ASSUME StatusesIInv, NEW w \in Writers, NEW t \in Types, NEW x \in Sessions,
         writing[w].at # "idle", writing[w].type = t, Changes(t),
         writing' = [writing EXCEPT ![w] = x], UNCHANGED <<told, cut>>,
         x.type = t, x.says = writing[w].says, x.alone = writing[w].alone, x.at # "idle",
         writing[w].deleted \/ Deleted => x.deleted,
         SessionHolds(w)', AloneHolds(w)'
  PROVE  StatusesIInv'
<1>1. told \in [Types -> Findings \cup {"any"}] /\ cut \in [Types -> BOOLEAN]
  BY DEF StatusesIInv, StatusesTyped
<1>2. Concerns(w, t, x)
  BY <1>1 DEF Concerns, Changes
<1>3. PlacedOurs(t)' /\ (placed'[t] /\ Verified(t)' = {} => placed[t])
  BY DEF Changes
<1>4. told'[t] = told[t] /\ cut'[t] = cut[t]
  OBVIOUS
<1> QED BY <1>2, <1>3, <1>4, GoesOnInv

LEMMA FailsInv ==
  ASSUME StatusesIInv, NEW w \in Writers, NEW t \in Types,
         writing[w].at # "idle", writing[w].type = t, Changes(t), Fails(w),
         writing[w].alone => Ours(t)' /\ AtMostOne(t)'
  PROVE  StatusesIInv'
<1>1. CASE Ends(w, FALSE)
  BY <1>1, OverInv
<1>2. CASE ~Ends(w, FALSE)
  <2> DEFINE s == writing[w]
             d == s.deleted \/ Deleted
             n == s.tries + 1
             x == [s EXCEPT !.at = "list", !.tries = n, !.deleted = d]
  <2>1. kept = "oci" /\ writing' = [writing EXCEPT ![w] = x] /\ UNCHANGED <<told, cut>>
    BY <1>2, Zenon DEF Fails
  <2>2. /\ s \in Sessions /\ SessionHolds(w) /\ AloneHolds(w)
        /\ writing \in [Writers -> Sessions]
    BY DEF StatusesIInv, StatusesTyped
  <2>3. d \in BOOLEAN
    OBVIOUS
  <2>4. s.deleted \/ Deleted => d
    OBVIOUS
  <2>0. n \in Nat
    BY <2>2 DEF Sessions
  <2> HIDE DEF d, n
  <2>5. x \in Sessions
    BY <2>0, <2>2, <2>3 DEF Sessions
  <2>6. /\ x.at = "list" /\ x.type = t /\ x.says = s.says /\ x.alone = s.alone
        /\ x.seen = s.seen /\ x.deleted = d
    BY <2>2 DEF Sessions
  <2> HIDE DEF x
  <2>7. writing'[w] = x /\ kept' = "oci"
    BY <2>1, <2>2 DEF Changes
  <2>8. SessionHolds(w)'
    BY <2>2, <2>6, <2>7 DEF SessionHolds
  <2>9. AloneHolds(w)'
    <3> SUFFICES ASSUME s.alone PROVE AloneHolds(w)'
      BY <2>6, <2>7 DEF AloneHolds
    <3>1. Busy(t) = {w}
      BY <2>2 DEF AloneHolds
    <3>2. Busy(t)' = {w}
      <4>1. w \in Busy(t)'
        BY <2>6, <2>7 DEF Busy
      <4>2. \A v \in Writers \ {w} : v \in Busy(t)' <=> v \in Busy(t)
        BY <2>1, <2>2 DEF Busy
      <4>3. Busy(t)' \subseteq Writers
        BY DEF Busy
      <4> QED BY <3>1, <4>1, <4>2, <4>3
    <3> QED BY <2>6, <2>7, <3>2 DEF AloneHolds
  <2> QED BY <2>1, <2>4, <2>5, <2>6, <2>8, <2>9, GoingConcerns
<1> QED BY <1>1, <1>2

-----------------------------------------------------------------------------
(* The calls of a write.                                                   *)

LEMMA BusyWriter ==
  ASSUME StatusesIInv, NEW w \in Writers, writing[w].at # "idle"
  PROVE  /\ writing[w].type \in Types /\ writing[w] \in Sessions
         /\ writing \in [Writers -> Sessions]
         /\ SessionHolds(w) /\ AloneHolds(w) /\ TypeHolds(writing[w].type)
BY DEF StatusesIInv, StatusesTyped, SessionHolds

\* Alone before, alone after.
LEMMA StillAlone ==
  ASSUME StatusesIInv, NEW w \in Writers, NEW t \in Types, NEW x, Busy(t) = {w},
         writing' = [writing EXCEPT ![w] = x], x.at # "idle", x.type = t
  PROVE  Busy(t)' = {w}
<1>1. writing \in [Writers -> Sessions]
  BY DEF StatusesIInv, StatusesTyped
<1>2. writing'[w] = x /\ \A v \in Writers \ {w} : writing'[v] = writing[v]
  BY <1>1
<1>3. w \in Busy(t)'
  BY <1>2 DEF Busy
<1>4. \A v \in Writers \ {w} : v \in Busy(t)' <=> v \in Busy(t)
  BY <1>2 DEF Busy
<1>5. Busy(t)' \subseteq Writers
  BY DEF Busy
<1> QED BY <1>3, <1>4, <1>5

LEMMA ListBundlesInv ==
  ASSUME StatusesIInv, NEW w \in Writers, ListBundles(w) PROVE StatusesIInv'
<1> DEFINE s == writing[w]
<1>1. PICK t \in Types : t = s.type
  BY BusyWriter DEF ListBundles, At
<1>2. /\ s.at = "list" /\ s \in Sessions /\ SessionHolds(w) /\ AloneHolds(w)
      /\ writing \in [Writers -> Sessions]
  BY BusyWriter DEF ListBundles, At
<1>3. Changes(t) /\ Of(t)' = Of(t)
  <2>1. UNCHANGED <<kept, stored, placed>> /\ signedAt' = signedAt /\ signedAt \in Nat
    BY DEF ListBundles, StatusesIInv, StatusesTyped, StoredBundles
  <2> QED BY <2>1, NothingChanges
<1>4. s.alone => /\ Ours(t)' /\ AtMostOne(t)' /\ Busy(t) = {w} /\ Ours(t) /\ AtMostOne(t)
  BY <1>1, <1>2, <1>3 DEF AloneHolds, Ours, AtMostOne
<1>5. CASE Fails(w)
  BY <1>1, <1>2, <1>3, <1>4, <1>5, FailsInv
<1>6. CASE Same(w) /\ Ends(w, TRUE)
  <2>1. \E b \in Of(t)' : b.says = s.says
    BY <1>1, <1>3, <1>6 DEF Same
  <2> QED BY <1>1, <1>2, <1>3, <1>4, <1>6, <2>1, OverInv
<1>7. CASE writing' = [writing EXCEPT ![w].at = "sign", ![w].seen = Superseded(w)]
           /\ UNCHANGED <<told, cut>>
  <2> DEFINE x == [s EXCEPT !.at = "sign", !.seen = Of(t)]
  <2>1. writing' = [writing EXCEPT ![w] = x] /\ ~Deleted
    BY <1>1, <1>2, <1>7 DEF Superseded, Deleted, ListBundles
  <2>2. Of(t) \subseteq Bundle
    BY DEF Of, StatusesIInv, StatusesTyped, StoredBundles
  <2>3. /\ x \in Sessions /\ x.at = "sign" /\ x.type = t /\ x.says = s.says /\ x.seen = Of(t)
        /\ x.alone = s.alone /\ x.deleted = s.deleted
    BY <1>1, <1>2, <2>2 DEF Sessions
  <2> HIDE DEF x
  <2>4. writing'[w] = x /\ kept' = kept
    BY <1>2, <1>3, <2>1 DEF Changes
  <2>5. \A b \in Of(t) : b.type = t
    BY DEF Of
  <2>6. SessionHolds(w)'
    BY <1>1, <1>2, <1>3, <2>3, <2>4, <2>5 DEF SessionHolds
  <2>7. AloneHolds(w)'
    BY <1>3, <1>4, <2>1, <2>3, <2>4, StillAlone DEF AloneHolds
  <2> QED BY <1>1, <1>2, <1>3, <1>7, <2>1, <2>3, <2>6, <2>7, GoingConcerns
<1> QED BY <1>5, <1>6, <1>7 DEF ListBundles

LEMMA SignInv ==
  ASSUME StatusesIInv, NEW w \in Writers, Sign(w) PROVE StatusesIInv'
<1> DEFINE s == writing[w]
<1>1. PICK t \in Types : t = s.type
  BY BusyWriter DEF Sign, At
<1>2. /\ s.at = "sign" /\ s \in Sessions /\ SessionHolds(w) /\ AloneHolds(w)
      /\ writing \in [Writers -> Sessions]
  BY BusyWriter DEF Sign, At
<1>3. Changes(t) /\ Of(t)' = Of(t)
  <2>1. /\ UNCHANGED <<kept, stored, placed>> /\ signedAt \in Nat
        /\ signedAt' = signedAt \/ signedAt' \in signedAt .. signedAt + 1
    BY DEF Sign, StatusesIInv, StatusesTyped, StoredBundles
  <2> QED BY <2>1, NothingChanges
<1>4. s.alone => /\ Ours(t)' /\ AtMostOne(t)' /\ Busy(t) = {w} /\ Of(t) \subseteq s.seen
  BY <1>1, <1>2, <1>3 DEF AloneHolds, Ours, AtMostOne
<1>5. CASE Fails(w)
  BY <1>1, <1>2, <1>3, <1>4, <1>5, FailsInv
<1>6. CASE writing' = [writing EXCEPT ![w].at = "delete"] /\ UNCHANGED <<told, cut>>
  <2> DEFINE x == [s EXCEPT !.at = "delete"]
  <2>1. writing' = [writing EXCEPT ![w] = x] /\ ~Deleted
    BY <1>2, <1>6 DEF Deleted, Sign
  <2>2. /\ x \in Sessions /\ x.at = "delete" /\ x.type = t /\ x.says = s.says /\ x.seen = s.seen
        /\ x.alone = s.alone /\ x.deleted = s.deleted
    BY <1>1, <1>2 DEF Sessions
  <2> HIDE DEF x
  <2>3. writing'[w] = x /\ kept' = kept
    BY <1>2, <1>3, <2>1 DEF Changes
  <2>4. SessionHolds(w)'
    BY <1>1, <1>2, <1>3, <2>2, <2>3 DEF SessionHolds
  <2>5. AloneHolds(w)'
    BY <1>3, <1>4, <2>1, <2>2, <2>3, StillAlone DEF AloneHolds
  <2> QED BY <1>1, <1>2, <1>3, <1>6, <2>1, <2>2, <2>4, <2>5, GoingConcerns
<1> QED BY <1>5, <1>6 DEF Sign

\* Bundles of t are deleted, whosever they are.
LEMMA DeletionChanges ==
  ASSUME StatusesIInv, NEW t \in Types, NEW D, \A b \in D : b.type = t,
         stored' = stored \ D, UNCHANGED <<kept, signedAt, placed>>
  PROVE  Changes(t) /\ Of(t)' = Of(t) \ D
<1>1. StoredBundles /\ placed \in [Types -> BOOLEAN] /\ PlacedOurs(t)
  BY DEF StatusesIInv, StatusesTyped, TypeHolds
<1>2. Of(t)' = Of(t) \ D /\ \A u \in Types \ {t} : Of(u)' = Of(u)
  BY DEF Of
<1>3. StoredBundles'
  <2>1. IsFiniteSet(stored')
    BY <1>1, FS_Subset DEF StoredBundles
  <2> QED BY <1>1, <2>1 DEF StoredBundles
<1>4. PlacedOurs(t)' /\ (placed'[t] /\ Verified(t)' = {} => placed[t])
  BY <1>1, <1>2 DEF PlacedOurs, Ours
<1> QED BY <1>1, <1>2, <1>3, <1>4 DEF Changes

LEMMA DeleteSupersededInv ==
  ASSUME StatusesIInv, NEW w \in Writers, DeleteSuperseded(w) PROVE StatusesIInv'
<1> DEFINE s == writing[w]
<1>1. PICK t \in Types : t = s.type
  BY BusyWriter DEF DeleteSuperseded, At
<1>2. /\ s.at = "delete" /\ s \in Sessions /\ SessionHolds(w) /\ AloneHolds(w)
      /\ writing \in [Writers -> Sessions]
  BY BusyWriter DEF DeleteSuperseded, At
<1>3. PICK D \in SUBSET s.seen :
        /\ stored' = stored \ D
        /\ \/ Fails(w)
           \/ /\ D = s.seen /\ UNCHANGED <<told, cut>>
              /\ writing' = [writing EXCEPT ![w].at = "write", ![w].deleted = @ \/ Deleted]
  BY DEF DeleteSuperseded
<1>4. \A b \in D : b.type = t
  BY <1>1, <1>2 DEF SessionHolds
<1>5. Changes(t) /\ Of(t)' = Of(t) \ D
  BY <1>3, <1>4, DeletionChanges DEF DeleteSuperseded
<1>6. s.alone => /\ Ours(t)' /\ AtMostOne(t)' /\ Busy(t) = {w} /\ Of(t) \subseteq s.seen
  BY <1>1, <1>2, <1>5 DEF AloneHolds, Ours, AtMostOne
<1>7. CASE Fails(w)
  BY <1>1, <1>2, <1>5, <1>6, <1>7, FailsInv
<1>8. CASE ~Fails(w)
  <2> DEFINE d == s.deleted \/ Deleted
             x == [s EXCEPT !.at = "write", !.deleted = d]
  <2>1. writing' = [writing EXCEPT ![w] = x] /\ UNCHANGED <<told, cut>>
    BY <1>3, <1>8, Zenon
  <2>2. d \in BOOLEAN /\ (s.deleted \/ Deleted => d) /\ D = s.seen
    BY <1>3, <1>8
  <2> HIDE DEF d
  <2>3. /\ x \in Sessions /\ x.at = "write" /\ x.type = t /\ x.says = s.says /\ x.seen = s.seen
        /\ x.alone = s.alone /\ x.deleted = d
    BY <1>1, <1>2, <2>2 DEF Sessions
  <2> HIDE DEF x
  <2>4. writing'[w] = x /\ kept' = kept
    BY <1>2, <1>5, <2>1 DEF Changes
  <2>5. Ours(t)'
    BY <1>1, <1>2, <1>5, <2>2 DEF SessionHolds, Ours
  <2>6. SessionHolds(w)'
    BY <1>1, <1>2, <1>5, <2>3, <2>4, <2>5 DEF SessionHolds
  <2>7. AloneHolds(w)'
    BY <1>5, <1>6, <2>1, <2>2, <2>3, <2>4, StillAlone DEF AloneHolds
  <2>8. s.deleted \/ Deleted => x.deleted
    BY <2>2, <2>3, Zenon
  <2> QED BY <1>1, <1>2, <1>5, <2>1, <2>3, <2>6, <2>7, <2>8, GoingConcerns
<1> QED BY <1>7, <1>8

\* What w stores for t: its bundle beside the others', or its object in their place.
LEMMA StoringChanges ==
  ASSUME StatusesIInv, NEW w \in Writers, NEW t \in Types,
         writing[w].at = "write", writing[w].type = t, Store(w), UNCHANGED <<kept, signedAt>>
  PROVE  /\ Changes(t) /\ Ours(t)' /\ \E b \in Of(t)' : b.says = writing[w].says
         /\ writing[w].alone => AtMostOne(t)'
<1> DEFINE new == [by |-> "us", type |-> t, says |-> writing[w].says, at |-> signedAt]
           K == IF kept = "gcs" THEN stored \ Of(t) ELSE stored
<1>1. stored' = K \cup {new} /\ placed' = [placed EXCEPT ![t] = TRUE]
  BY DEF Store, After
<1>2. /\ StoredBundles /\ placed \in [Types -> BOOLEAN] /\ Ours(t) /\ SessionHolds(w)
      /\ writing[w].says \in Findings
  BY BusyWriter DEF StatusesIInv, StatusesTyped, SessionHolds
<1>3. new \in Bundle /\ new.by = "us" /\ new.type = t /\ new.at = signedAt
      /\ new.says = writing[w].says
  BY <1>2 DEF Bundle, StoredBundles
<1> HIDE DEF new
<1>4. StoredBundles'
  <2>1. IsFiniteSet(K)
    BY <1>2, FS_Subset DEF StoredBundles
  <2>2. IsFiniteSet(stored')
    <3> HIDE DEF K
    <3> QED BY <1>1, <2>1, FS_AddElement
  <2> QED BY <1>1, <1>2, <1>3, <2>2 DEF StoredBundles
<1>5. /\ \A u \in Types \ {t} : Of(u)' = Of(u)
      /\ Of(t)' = IF kept = "gcs" THEN {new} ELSE Of(t) \cup {new}
  BY <1>1, <1>3 DEF Of
<1>6. Ours(t)' /\ new \in Of(t)'
  BY <1>2, <1>3, <1>5 DEF Ours
<1>7. Verified(t)' # {}
  BY <1>3, <1>6 DEF Verified
<1>8. Changes(t)
  <2>1. placed' \in [Types -> BOOLEAN] /\ \A u \in Types \ {t} : placed'[u] = placed[u]
    BY <1>1, <1>2
  <2>2. \A b \in stored' \ stored : b.by = "us"
    BY <1>1, <1>3
  <2> QED BY <1>4, <1>5, <1>6, <1>7, <2>1, <2>2 DEF Changes, PlacedOurs
<1>9. ASSUME writing[w].alone PROVE AtMostOne(t)'
  <2>1. kept = "oci" => Of(t) = {}
    BY <1>9, BusyWriter DEF AloneHolds
  <2>2. Of(t)' = {new}
    BY <1>5, <2>1 DEF StatusesIInv, StatusesTyped
  <2> QED BY <2>2 DEF AtMostOne
<1> QED BY <1>3, <1>6, <1>8, <1>9

LEMMA WriteStatusInv ==
  ASSUME StatusesIInv, NEW w \in Writers, WriteStatus(w) PROVE StatusesIInv'
<1>1. PICK t \in Types : t = writing[w].type
  BY BusyWriter DEF WriteStatus, At
<1>2. writing[w].at = "write" /\ AloneHolds(w) /\ UNCHANGED <<kept, signedAt>>
  BY BusyWriter DEF WriteStatus, At
<1>3. CASE Store(w) /\ Ends(w, TRUE)
  BY <1>1, <1>2, <1>3, StoringChanges, OverInv
<1>4. CASE Store(w) /\ Fails(w)
  BY <1>1, <1>2, <1>4, StoringChanges, FailsInv
<1>5. CASE UNCHANGED <<stored, placed>> /\ Fails(w)
  <2>1. Changes(t) /\ Of(t)' = Of(t)
    BY <1>2, <1>5, NothingChanges DEF StatusesIInv, StatusesTyped, StoredBundles
  <2>2. writing[w].alone => Ours(t)' /\ AtMostOne(t)'
    BY <1>1, <1>2, <2>1 DEF AloneHolds, Ours, AtMostOne
  <2> QED BY <1>1, <1>2, <1>5, <2>1, <2>2, FailsInv
<1> QED BY <1>3, <1>4, <1>5 DEF WriteStatus

LEMMA WriterDiesInv ==
  ASSUME StatusesIInv, NEW w \in Writers, WriterDies(w) PROVE StatusesIInv'
<1>1. PICK t \in Types : t = writing[w].type
  BY BusyWriter DEF WriterDies
<1>2. Changes(t) /\ Of(t)' = Of(t)
  BY NothingChanges DEF WriterDies, StatusesIInv, StatusesTyped, StoredBundles
<1>3. writing[w].alone => Ours(t)' /\ AtMostOne(t)'
  BY <1>1, <1>2, BusyWriter DEF WriterDies, AloneHolds, Ours, AtMostOne
<1> QED BY <1>1, <1>2, <1>3, OverInv DEF WriterDies

\* A set of at most one bundle.
LEMMA AtMostOneOf ==
  ASSUME StatusesIInv, NEW t, Cardinality(Of(t)) <= 1 PROVE AtMostOne(t)
<1>1. IsFiniteSet(Of(t))
  BY FS_Subset DEF StatusesIInv, StatusesTyped, StoredBundles, Of
<1>2. Cardinality(Of(t)) = 0 \/ Cardinality(Of(t)) = 1
  BY <1>1, FS_CardinalityType
<1>3. CASE Cardinality(Of(t)) = 0
  BY <1>1, <1>3, FS_EmptySet DEF AtMostOne
<1>4. CASE Cardinality(Of(t)) = 1
  <2>1. \E b : Of(t) = {b}
    BY <1>1, <1>4, FS_Singleton
  <2> QED BY <2>1 DEF AtMostOne
<1> QED BY <1>2, <1>3, <1>4

LEMMA SetActualStateInv ==
  ASSUME StatusesIInv, NEW w \in Writers, NEW t \in Types, NEW f \in Findings,
         SetActualState(w, t, f)
  PROVE  StatusesIInv'
<1> DEFINE a == Busy(t) = {} /\ Cardinality(Of(t)) <= 1 /\ Of(t) = Verified(t)
           p == IF kept = "oci" THEN "list" ELSE "write"
           x == [Resting EXCEPT !.at = p, !.type = t, !.says = f, !.alone = a]
           y(v) == [writing[v] EXCEPT !.alone = writing[v].alone /\ v \notin Busy(t)]
<1>1. /\ writing[w].at = "idle" /\ UNCHANGED <<kept, stored, signedAt, placed, cut>>
      /\ writing' = [v \in Writers |-> IF v = w THEN x ELSE y(v)]
      /\ told' = [told EXCEPT ![t] = "any"]
  BY DEF SetActualState
<1>2. StatusesTyped /\ \A v \in Writers : writing[v] \in Sessions
  BY DEF StatusesIInv, StatusesTyped
<1>3. a => Busy(t) = {} /\ Ours(t) /\ AtMostOne(t)
  BY AtMostOneOf DEF Ours, Verified
<1>4. a \in BOOLEAN
  OBVIOUS
<1> HIDE DEF a
<1>5. /\ x \in Sessions /\ x.at = p /\ x.type = t /\ x.says = f /\ x.alone = a /\ x.seen = {}
      /\ x.deleted = FALSE
  BY <1>4 DEF Resting, Sessions
<1> HIDE DEF x
<1>6. ASSUME NEW v \in Writers
      PROVE  /\ y(v) \in Sessions /\ y(v).at = writing[v].at /\ y(v).type = writing[v].type
             /\ y(v).says = writing[v].says /\ y(v).seen = writing[v].seen
             /\ y(v).deleted = writing[v].deleted
  BY <1>2 DEF Sessions
<1>7. ASSUME NEW v \in Writers, y(v).alone PROVE writing[v].alone /\ v \notin Busy(t)
  <2>1. y(v).alone = (writing[v].alone /\ v \notin Busy(t))
    BY <1>2 DEF Sessions
  <2> QED BY <1>7, <2>1, Zenon
<1> HIDE DEF y
<1>8. /\ writing'[w] = x /\ \A v \in Writers \ {w} : writing'[v] = y(v)
      /\ writing' \in [Writers -> Sessions]
  BY <1>1, <1>5, <1>6
<1>9. StatusesTyped'
  <2>1. told' \in [Types -> Findings \cup {"any"}]
    BY <1>1, <1>2 DEF StatusesTyped
  <2>2. StoredBundles'
    BY <1>1, <1>2 DEF StatusesTyped, StoredBundles
  <2> QED BY <1>1, <1>2, <1>8, <2>1, <2>2 DEF StatusesTyped
<1>10. ASSUME NEW u \in Types PROVE Of(u)' = Of(u) /\ Verified(u)' = Verified(u)
  BY <1>1 DEF Of, Verified
<1>11. p # "idle" /\ kept \in {"oci", "gcs"}
  BY <1>2 DEF StatusesTyped
<1>12. ASSUME NEW u \in Types
       PROVE  Busy(u)' = IF u = t THEN Busy(u) \cup {w} ELSE Busy(u)
  <2>1. ASSUME NEW v \in Writers
        PROVE  v \in Busy(u)' <=> (v = w /\ u = t) \/ v \in Busy(u)
    <3>1. v \in Busy(u)' <=> writing'[v].at # "idle" /\ writing'[v].type = u
      BY DEF Busy
    <3>2. v \in Busy(u) <=> writing[v].at # "idle" /\ writing[v].type = u
      BY DEF Busy
    <3>3. CASE v = w
      BY <1>1, <1>5, <1>8, <1>11, <3>1, <3>2, <3>3
    <3>4. CASE v # w
      BY <1>6, <1>8, <3>1, <3>2, <3>4
    <3> QED BY <3>3, <3>4
  <2>2. Busy(u)' \subseteq Writers /\ Busy(u) \subseteq Writers
    BY DEF Busy
  <2> QED BY <2>1, <2>2
<1>13. SessionHolds(w)' /\ AloneHolds(w)'
  <2>1. SessionHolds(w)'
    <3>1. kept = "gcs" => Ours(t)
      BY <1>2 DEF StatusesTyped, StoredBundles, Ours, Of
    <3>2. Ours(t)' <=> Ours(t)
      BY <1>10 DEF Ours
    <3> QED BY <1>1, <1>5, <1>8, <1>11, <3>1, <3>2 DEF SessionHolds
  <2>2. AloneHolds(w)'
    <3> SUFFICES ASSUME a PROVE AloneHolds(w)'
      BY <1>5, <1>8, Zenon DEF AloneHolds
    <3>1. Busy(t)' = {w} /\ Ours(t)' /\ AtMostOne(t)'
      BY <1>3, <1>10, <1>12 DEF Ours, AtMostOne
    <3> QED BY <1>1, <1>5, <1>8, <1>11, <3>1 DEF AloneHolds
  <2> QED BY <2>1, <2>2
<1>14. ASSUME NEW v \in Writers \ {w} PROVE SessionHolds(v)' /\ AloneHolds(v)'
  <2> SUFFICES ASSUME writing[v].at # "idle" PROVE SessionHolds(v)' /\ AloneHolds(v)'
    BY <1>6, <1>8 DEF SessionHolds, AloneHolds
  <2>1. PICK u \in Types : u = writing[v].type
    BY BusyWriter
  <2>2. SessionHolds(v)'
    BY <1>1, <1>6, <1>8, <1>10, <2>1, BusyWriter DEF SessionHolds, Ours
  <2>3. AloneHolds(v)'
    <3> SUFFICES ASSUME y(v).alone PROVE AloneHolds(v)'
      BY <1>8, Zenon DEF AloneHolds
    <3>1. writing[v].alone /\ v \notin Busy(t) /\ u # t
      BY <1>7, <2>1 DEF Busy
    <3>2. Busy(u)' = Busy(u) /\ Of(u)' = Of(u)
      BY <1>10, <1>12, <3>1
    <3>3. Ours(u)' /\ AtMostOne(u)' /\ Busy(u)' = {v}
      BY <2>1, <3>1, <3>2, BusyWriter DEF AloneHolds, Ours, AtMostOne
    <3>4. /\ writing[v].at \in {"sign", "delete"} => Of(u)' \subseteq writing[v].seen
          /\ writing[v].at = "write" /\ kept = "oci" => Of(u)' = {}
      BY <2>1, <3>1, <3>2, BusyWriter DEF AloneHolds
    <3>5. /\ writing'[v].at = writing[v].at /\ writing'[v].seen = writing[v].seen
          /\ writing'[v].type = u /\ kept' = kept
      BY <1>1, <1>6, <1>8, <2>1
    <3> QED BY <3>3, <3>4, <3>5 DEF AloneHolds
  <2> QED BY <2>2, <2>3
<1>15. ASSUME NEW u \in Types PROVE TypeHolds(u)'
  <2>1. TypeHolds(u)
    BY DEF StatusesIInv
  <2>2. OneTells(u)'
    <3>1. CASE u = t
      <4>1. told'[u] = "any"
        BY <1>1, <1>2, <3>1 DEF StatusesTyped
      <4> QED BY <4>1 DEF OneTells
    <3>2. CASE u # t
      <4>1. told'[u] = told[u] /\ Of(u)' = Of(u) /\ Busy(u)' = Busy(u)
        BY <1>1, <1>2, <1>10, <1>12, <3>2 DEF StatusesTyped
      <4> QED BY <2>1, <4>1 DEF TypeHolds, OneTells, Ours, AtMostOne
    <3> QED BY <3>1, <3>2
  <2>3. PlacedOurs(u)'
    BY <1>1, <1>10, <2>1 DEF TypeHolds, PlacedOurs, Ours
  <2>4. CutNoted(u)'
    <3> SUFFICES ASSUME placed[u], Verified(u) = {}
                 PROVE  cut[u] \/ \E v \in Busy(u)' : writing'[v].deleted
      BY <1>1, <1>10, Zenon DEF CutNoted
    <3>1. CASE \E v \in Busy(u) : writing[v].deleted
      <4>1. PICK v \in Busy(u) : writing[v].deleted
        BY <3>1
      <4>2. v \in Writers \ {w}
        BY <1>1 DEF Busy
      <4>3. v \in Busy(u)' /\ writing'[v].deleted
        BY <1>6, <1>8, <1>12, <4>1, <4>2
      <4> QED BY <4>3
    <3> QED BY <2>1, <3>1, Zenon DEF TypeHolds, CutNoted
  <2> QED BY <2>2, <2>3, <2>4 DEF TypeHolds
<1> QED BY <1>9, <1>13, <1>14, <1>15 DEF StatusesIInv

LEMMA StatusesStepInv == StatusesIInv /\ [StatusesNext]_statusesVars => StatusesIInv'
<1> SUFFICES ASSUME StatusesIInv, [StatusesNext]_statusesVars PROVE StatusesIInv'
  OBVIOUS
<1>1. CASE UNCHANGED statusesVars
  BY <1>1 DEF statusesVars, StatusesIInv, StatusesTyped, StoredBundles, SessionHolds, AloneHolds,
              TypeHolds, OneTells, PlacedOurs, CutNoted, Ours, AtMostOne, Of, Verified, Busy
<1>2. CASE StatusesNext
  BY <1>2, SetActualStateInv, ListBundlesInv, SignInv, DeleteSupersededInv, WriteStatusInv,
     WriterDiesInv DEF StatusesNext
<1> QED BY <1>1, <1>2

\* Some bundle that verifies is the latest.
LEMMA LatestExists ==
  ASSUME StatusesIInv, NEW t, Verified(t) # {} PROVE ObservedState(t) # {}
<1> DEFINE T == {signedAt - b.at : b \in Verified(t)}
<1>1. signedAt \in Nat /\ \A b \in Verified(t) : b.at \in Nat /\ b.at <= signedAt
  BY DEF StatusesIInv, StatusesTyped, StoredBundles, Verified, Of, Bundle
<1>2. T \in SUBSET Nat /\ T # {}
  BY <1>1
<1> HIDE DEF T
<1>3. PICK n \in T : \A m \in T : n <= m
  BY <1>2, SmallestExists
<1>4. PICK b \in Verified(t) : n = signedAt - b.at
  BY <1>3 DEF T
<1>5. ASSUME NEW c \in Verified(t) PROVE c.at <= b.at
  <2>1. signedAt - c.at \in T
    BY DEF T
  <2>2. signedAt - b.at <= signedAt - c.at
    BY <1>3, <1>4, <2>1
  <2> QED BY <1>1, <2>2
<1> QED BY <1>5 DEF ObservedState

LEMMA SoundFromInvariant == StatusesIInv => StatusesSound
<1> SUFFICES ASSUME StatusesIInv PROVE TellsTheLast /\ NoneLost
  BY DEF StatusesSound
<1>1. ASSUME NEW t \in Types, told[t] # "any"
      PROVE  ObservedState(t) # {} /\ \A b \in ObservedState(t) : b.says = told[t]
  <2>1. PICK b \in Of(t) : b.says = told[t] /\ b.by = "us" /\ \A c \in Of(t) : c = b
    BY <1>1 DEF StatusesIInv, TypeHolds, OneTells, Ours, AtMostOne
  <2>2. Verified(t) # {} /\ ObservedState(t) \subseteq Of(t)
    BY <2>1 DEF Verified, ObservedState
  <2> QED BY <2>1, <2>2, LatestExists
<1>2. ASSUME NEW t \in Types, placed[t], Busy(t) = {}, ObservedState(t) = {} PROVE cut[t]
  <2>1. Verified(t) = {}
    BY <1>2, LatestExists
  <2> QED BY <1>2, <2>1, Zenon DEF StatusesIInv, TypeHolds, CutNoted
<1> QED BY <1>1, <1>2, Zenon DEF TellsTheLast, NoneLost

-----------------------------------------------------------------------------
(***************************************************************************)
(* Proofs about Stores, for any number of clients, names and faults.       *)
(***************************************************************************)

AllTests == {PutsAndDeletes, Pagination, LoadMissing, SaveLoad, ClaimOnce, DeleteWrongToken,
             DeleteAbsentKey, Resave}

CallsOfTests == {EndOfTest} \cup UNION {{t[i] : i \in DOMAIN t} : t \in AllTests}

TestRunsOut ==
  test # <<>> => test \in Seq(CallsOfTests) /\ test[Len(test)] = EndOfTest

Record == [name : ObjectNames \cup {0}, data : Nat, gen : Nat]

Numbered ==
  /\ \A n \in ObjectNames : /\ objects[n].data <= puts /\ objects[n].gen <= lastGen
                            /\ objects[n].data = 0 => objects[n] = Missing
  /\ \A i \in 1 .. Len(file) : file[i].data <= puts
  /\ \A d \in claimed : d > 0 /\ d <= puts
  /\ backend # "file" => file = <<>>

Under(n) ==
  {objects[n].data} \cup {file[i].data : i \in {j \in 1 .. Len(file) : file[j].name = n}}

Owned == \A n, m \in ObjectNames : n # m => Under(n) \cap Under(m) \subseteq {0}

TokensKnown ==
  /\ ~opened => backend = "file"
  /\ \A c \in Clients :
       /\ tokens[c].gen <= lastGen
       /\ tokens[c].gen # 0 => tokens[c].name \in ObjectNames /\ opened

OneWalk ==
  /\ backend # "blob" \/ test # <<>> => listing = NoListing
  /\ \A n \in listing.staying : objects[n] # Missing
  /\ \A n \in ObjectNames : /\ listing.times[n] <= 1
                            /\ n > listing.after /\ ~listing.over => listing.times[n] = 0
  /\ \A n \in listing.staying : n <= listing.after \/ listing.over => listing.times[n] = 1

StoresIInv ==
  /\ StoresTypeOK /\ TestRunsOut /\ Numbered /\ Owned /\ ClaimedForGood /\ TokensKnown
  /\ TokensTell /\ SuccessSurvives /\ OneWalk

-----------------------------------------------------------------------------

LEMMA LastIn ==
  ASSUME NEW k \in Nat, NEW I \in SUBSET (1 .. k), I # {}
  PROVE  \E i \in I : \A j \in I : j <= i
<1>1. PICK T : T = {n \in Nat : \E i \in I : n = k - i}
  OBVIOUS
<1>2. \A i \in I : k - i \in T
  BY <1>1
<1>3. T \in SUBSET Nat /\ T # {}
  BY <1>1, <1>2
<1>4. PICK n \in T : \A j \in T : n <= j
  BY <1>3, SmallestExists
<1>5. PICK i \in I : n = k - i
  BY <1>1
<1>6. ASSUME NEW j \in I PROVE j <= i
  <2>1. k - i <= k - j /\ i \in Nat /\ j \in Nat
    BY <1>2, <1>4, <1>5
  <2> QED BY <2>1
<1> QED BY <1>6

\* What a record says of its name.
Said(r) == IF r.data = 0 THEN Missing ELSE [data |-> r.data, gen |-> r.gen]

Records(n) == {i \in 1 .. Len(file) : file[i].name = n}

LEMMA LastOfFacts ==
  ASSUME NEW n, file \in Seq(Record)
  PROVE  /\ Records(n) = {} => LastOf(n) = Missing
         /\ \A i \in Records(n) : (\A j \in Records(n) : j <= i) => LastOf(n) = Said(file[i])
         /\ Records(n) # {} => \E i \in Records(n) : \A j \in Records(n) : j <= i
<1>1. DOMAIN file = 1 .. Len(file) /\ Len(file) \in Nat
  BY LenProperties
<1>2. Records(n) = {i \in DOMAIN file : file[i].name = n} /\ Records(n) \subseteq 1 .. Len(file)
  BY <1>1 DEF Records
<1>3. PICK I : I = Records(n)
  OBVIOUS
<1>4. LastOf(n) = IF I = {} THEN Missing ELSE Said(file[CHOOSE i \in I : \A j \in I : j <= i])
  BY <1>2, <1>3 DEF LastOf, Said
<1>5. ASSUME NEW i \in I, \A j \in I : j <= i PROVE (CHOOSE x \in I : \A j \in I : j <= x) = i
  <2>1. \A x \in I : (\A j \in I : j <= x) => x = i
    <3>1. \A x \in I : x \in Nat
      BY <1>2, <1>3
    <3> QED BY <1>5, <3>1
  <2> QED BY <1>5, <2>1
<1>6. I # {} => \E i \in I : \A j \in I : j <= i
  BY <1>1, <1>2, <1>3, LastIn
<1>7. ASSUME NEW i \in I, \A j \in I : j <= i PROVE LastOf(n) = Said(file[i])
  BY <1>4, <1>5, <1>7
<1> QED BY <1>3, <1>4, <1>6, <1>7

\* What one more record does to what the file says.
LEMMA AppendedRecord ==
  ASSUME file \in Seq(Record), NEW r \in Record, file' = Append(file, r)
  PROVE  /\ file' \in Seq(Record) /\ Len(file) \in Nat /\ Len(file') = Len(file) + 1
         /\ \A i \in 1 .. Len(file) : file'[i] = file[i]
         /\ file'[Len(file) + 1] = r
         /\ \A n : LastOf(n)' = IF n = r.name THEN Said(r) ELSE LastOf(n)
<1>1. PICK k \in Nat : k = Len(file)
  BY LenProperties
<1>2. /\ file' \in Seq(Record) /\ Len(file') = k + 1
      /\ \A i \in 1 .. k : file'[i] = file[i]
      /\ file'[k + 1] = r
  BY <1>1
<1>3. ASSUME NEW n PROVE LastOf(n)' = IF n = r.name THEN Said(r) ELSE LastOf(n)
  <2>1. Records(n)' = Records(n) \cup {i \in {k + 1} : n = r.name}
    <3>1. Records(n)' = {i \in 1 .. k + 1 : file'[i].name = n}
      BY <1>2 DEF Records
    <3>2. Records(n) = {i \in 1 .. k : file[i].name = n}
      BY <1>1 DEF Records
    <3> QED BY <1>2, <3>1, <3>2
  <2>2. /\ Records(n)' = {} => LastOf(n)' = Missing
        /\ \A i \in Records(n)' : (\A j \in Records(n)' : j <= i) => LastOf(n)' = Said(file'[i])
    <3>1. PICK g : g = file'
      OBVIOUS
    <3>2. g \in Seq(Record)
      BY <1>2, <3>1
    <3>3. DOMAIN g = 1 .. Len(g) /\ Len(g) \in Nat
      BY <3>2, LenProperties
    <3>4. PICK I : I = {i \in 1 .. Len(g) : g[i].name = n}
      OBVIOUS
    <3>5. I = Records(n)'
      BY <3>1, <3>4 DEF Records
    <3>6. LastOf(n)' = IF I = {} THEN Missing ELSE Said(g[CHOOSE i \in I : \A j \in I : j <= i])
      BY <3>1, <3>3, <3>4 DEF LastOf, Said
    <3>7. ASSUME NEW i \in I, \A j \in I : j <= i
          PROVE  (CHOOSE x \in I : \A j \in I : j <= x) = i
      <4>1. \A x \in I : (\A j \in I : j <= x) => x = i
        <5>1. \A x \in I : x \in Nat
          BY <3>4
        <5> QED BY <3>7, <5>1
      <4> QED BY <3>7, <4>1
    <3>8. ASSUME NEW i \in I, \A j \in I : j <= i PROVE LastOf(n)' = Said(g[i])
      BY <3>6, <3>7, <3>8
    <3> QED BY <3>1, <3>5, <3>6, <3>8
  <2>3. CASE n = r.name
    <3>1. k + 1 \in Records(n)' /\ \A j \in Records(n)' : j <= k + 1
      BY <1>1, <2>1, <2>3 DEF Records
    <3>2. LastOf(n)' = Said(file'[k + 1])
      BY <2>2, <3>1
    <3> QED BY <1>2, <2>3, <3>2
  <2>4. CASE n # r.name
    <3>1. Records(n)' = Records(n)
      BY <2>1, <2>4
    <3>2. CASE Records(n) = {}
      BY <2>2, <2>4, <3>1, <3>2, LastOfFacts
    <3>3. CASE Records(n) # {}
      <4>1. PICK i \in Records(n) : \A j \in Records(n) : j <= i
        BY <3>3, LastOfFacts
      <4>2. LastOf(n) = Said(file[i])
        BY <4>1, LastOfFacts
      <4>3. LastOf(n)' = Said(file'[i])
        BY <2>2, <3>1, <4>1
      <4>4. i \in 1 .. k
        BY <1>1 DEF Records
      <4>5. file'[i] = file[i]
        BY <1>2, <4>4
      <4> QED BY <2>4, <4>2, <4>3, <4>5
    <3> QED BY <3>2, <3>3
  <2> QED BY <2>3, <2>4
<1> QED BY <1>1, <1>2, <1>3

\* Where an append ended, and what the file says of each name since.
LEMMA AppendedFile ==
  ASSUME StoresTypeOK, Numbered, NEW r \in Record, r.name \in ObjectNames,
         NEW end \in Endings, Appends(r, end)
  PROVE  /\ file' \in Seq(Record) /\ (backend # "file" => file' = <<>>)
         /\ \A i \in 1 .. Len(file') :
              \/ i \in 1 .. Len(file) /\ file'[i] = file[i]
              \/ file'[i].name = r.name /\ file'[i].data = r.data
              \/ file'[i].data = 0
         /\ \A n \in ObjectNames :
              LastOf(n)' = IF n = r.name /\ backend = "file" /\ end \in {"synced", "unsynced"}
                           THEN Said(r) ELSE LastOf(n)
<1>1. file \in Seq(Record) /\ Len(file) \in Nat /\ 0 \notin ObjectNames
  BY LenProperties, StoresAssumption DEF StoresTypeOK, Record
<1>2. end \in {"synced", "unwritten", "torn", "unsynced"} /\ (backend # "file" => file = <<>>)
  BY DEF Endings, Numbered
<1>3. CASE file' = file /\ (backend # "file" \/ end = "unwritten")
  <2>1. \A n : LastOf(n)' = LastOf(n)
    BY <1>3 DEF LastOf
  <2> QED BY <1>1, <1>2, <1>3, <2>1
<1>4. CASE backend = "file" /\ end = "torn" /\ file' = Append(file, Torn)
  <2>1. Torn \in Record /\ Torn.name = 0 /\ Torn.data = 0
    BY DEF Torn, Record
  <2>2. /\ file' \in Seq(Record) /\ Len(file') = Len(file) + 1
        /\ \A i \in 1 .. Len(file) : file'[i] = file[i]
        /\ file'[Len(file) + 1] = Torn
        /\ \A n : LastOf(n)' = IF n = Torn.name THEN Said(Torn) ELSE LastOf(n)
    BY <1>1, <1>4, <2>1, AppendedRecord
  <2>3. \A i \in 1 .. Len(file') : i \in 1 .. Len(file) \/ i = Len(file) + 1
    BY <1>1, <2>2
  <2>4. \A n \in ObjectNames : LastOf(n)' = LastOf(n)
    BY <1>1, <2>1, <2>2
  <2> QED BY <1>4, <2>1, <2>2, <2>3, <2>4
<1>5. CASE backend = "file" /\ end \in {"synced", "unsynced"} /\ file' = Append(file, r)
  <2>1. /\ file' \in Seq(Record) /\ Len(file') = Len(file) + 1
        /\ \A i \in 1 .. Len(file) : file'[i] = file[i]
        /\ file'[Len(file) + 1] = r
        /\ \A n : LastOf(n)' = IF n = r.name THEN Said(r) ELSE LastOf(n)
    BY <1>1, <1>5, AppendedRecord
  <2>2. \A i \in 1 .. Len(file') : i \in 1 .. Len(file) \/ i = Len(file) + 1
    BY <1>1, <2>1
  <2> QED BY <1>5, <2>1, <2>2
<1> QED BY <1>2, <1>3, <1>4, <1>5 DEF Appends

LEMMA LastUnder ==
  ASSUME StoresTypeOK, NEW n \in ObjectNames
  PROVE  /\ LastOf(n) \in Object
         /\ LastOf(n).data # 0 => LastOf(n).data \in Under(n)
         /\ LastOf(n).data = 0 => LastOf(n) = Missing
         /\ LastOf(n) = Missing \/ \E i \in 1 .. Len(file) : LastOf(n).gen = file[i].gen
<1>1. file \in Seq(Record)
  BY DEF StoresTypeOK, Record
<1>2. Missing \in Object /\ Missing.data = 0
  BY DEF Missing, Object
<1>3. CASE Records(n) = {}
  BY <1>1, <1>2, <1>3, LastOfFacts
<1>4. CASE Records(n) # {}
  <2>1. PICK i \in Records(n) : \A j \in Records(n) : j <= i
    BY <1>1, <1>4, LastOfFacts
  <2>2. LastOf(n) = Said(file[i])
    BY <1>1, <2>1, LastOfFacts
  <2>3. i \in 1 .. Len(file) /\ file[i].name = n
    BY DEF Records
  <2>4. file[i] \in Record
    BY <1>1, <2>3, ElementOfSeq
  <2>5. file[i].data \in Under(n)
    BY <2>3 DEF Under
  <2> QED BY <1>2, <2>2, <2>3, <2>4, <2>5 DEF Said, Record, Object
<1> QED BY <1>3, <1>4

LEMMA UnderFacts ==
  ASSUME StoresTypeOK, Numbered, NEW n \in ObjectNames
  PROVE  \A d \in Under(n) : d \in Nat /\ d <= puts
<1>1. objects[n].data \in Nat /\ objects[n].data <= puts
  BY DEF StoresTypeOK, Object, Numbered
<1>2. \A i \in 1 .. Len(file) : file[i].data \in Nat /\ file[i].data <= puts
  <2>1. file \in Seq(Record)
    BY DEF StoresTypeOK, Record
  <2>2. \A i \in 1 .. Len(file) : file[i] \in Record
    BY <2>1, ElementOfSeq
  <2>3. \A i \in 1 .. Len(file) : file[i].data <= puts
    BY DEF Numbered
  <2> QED BY <2>2, <2>3 DEF Record
<1> QED BY <1>1, <1>2 DEF Under

\* A call that writes d0 under n0, or 0 for what deletes, or nothing.
CallWrites(n0, d0) ==
  /\ d0 \in Nat /\ (d0 = 0 \/ (d0 > puts /\ d0 <= puts'))
  /\ puts' \in Nat /\ puts <= puts' /\ lastGen' \in Nat
  /\ objects' \in [ObjectNames -> Object]
  /\ \A n \in ObjectNames :
       \/ objects'[n] = objects[n] /\ lastGen <= lastGen'
       \/ objects'[n] = Missing
       \/ n = n0 /\ d0 > puts /\ objects'[n].data = d0 /\ objects'[n].gen <= lastGen'
  /\ file' \in Seq(Record) /\ backend' = backend /\ (backend # "file" => file' = <<>>)
  /\ \A i \in 1 .. Len(file') :
       \/ i \in 1 .. Len(file) /\ file'[i] = file[i]
       \/ file'[i].name = n0 /\ file'[i].data = d0
       \/ file'[i].data = 0
  /\ \A n \in ObjectNames :
       LastOf(n)'.data \in {LastOf(n).data, 0} \/ (n = n0 /\ LastOf(n)'.data = d0)
  /\ \A d \in claimed' : d \in claimed \/
       \E n \in ObjectNames : /\ d = objects[n].data /\ d # 0
                              /\ objects'[n].data # d /\ LastOf(n)'.data # d

LEMMA ContentsHold ==
  ASSUME StoresTypeOK, Numbered, Owned, ClaimedForGood, NEW n0, NEW d0, CallWrites(n0, d0)
  PROVE  Numbered' /\ Owned' /\ ClaimedForGood'
<1>0. /\ d0 \in Nat /\ (d0 = 0 \/ (d0 > puts /\ d0 <= puts'))
      /\ puts' \in Nat /\ puts <= puts' /\ lastGen' \in Nat
      /\ objects' \in [ObjectNames -> Object]
      /\ \A n \in ObjectNames :
           \/ objects'[n] = objects[n] /\ lastGen <= lastGen'
           \/ objects'[n] = Missing
           \/ n = n0 /\ d0 > puts /\ objects'[n].data = d0 /\ objects'[n].gen <= lastGen'
      /\ file' \in Seq(Record) /\ backend' = backend /\ (backend # "file" => file' = <<>>)
      /\ \A i \in 1 .. Len(file') :
           \/ i \in 1 .. Len(file) /\ file'[i] = file[i]
           \/ file'[i].name = n0 /\ file'[i].data = d0
           \/ file'[i].data = 0
      /\ \A n \in ObjectNames :
           LastOf(n)'.data \in {LastOf(n).data, 0} \/ (n = n0 /\ LastOf(n)'.data = d0)
      /\ \A d \in claimed' : d \in claimed \/
           \E n \in ObjectNames : /\ d = objects[n].data /\ d # 0
                                  /\ objects'[n].data # d /\ LastOf(n)'.data # d
  BY DEF CallWrites
<1>1. /\ puts \in Nat /\ lastGen \in Nat /\ Missing \in Object /\ Missing.data = 0 /\ Missing.gen = 0
      /\ \A n \in ObjectNames : objects[n] \in Object
  BY <1>0 DEF StoresTypeOK, Missing, Object
<1>2. \A n \in ObjectNames : objects[n].data \in Nat /\ objects[n].gen \in Nat
                            /\ objects[n].data <= puts /\ objects[n].gen <= lastGen
                            /\ (objects[n].data = 0 => objects[n] = Missing)
  BY <1>0, <1>1 DEF Object, Numbered
<1>3. \A i \in 1 .. Len(file) : file[i].data \in Nat /\ file[i].data <= puts
  <2>1. file \in Seq(Record)
    BY <1>0 DEF StoresTypeOK, Record
  <2>2. \A i \in 1 .. Len(file) : file[i] \in Record
    BY <1>0, <2>1, ElementOfSeq
  <2>3. \A i \in 1 .. Len(file) : file[i].data <= puts
    BY <1>0 DEF Numbered
  <2> QED BY <1>0, <2>2, <2>3 DEF Record
<1>4. Numbered'
  <2>1. ASSUME NEW n \in ObjectNames
        PROVE  /\ objects'[n].data <= puts' /\ objects'[n].gen <= lastGen'
               /\ objects'[n].data = 0 => objects'[n] = Missing
    <3>1. objects'[n].data \in Nat /\ objects'[n].gen \in Nat
      BY <1>0 DEF Object
    <3>2. CASE objects'[n] = objects[n] /\ lastGen <= lastGen'
      BY <1>0, <1>1, <1>2, <3>2
    <3>3. CASE objects'[n] = Missing
      BY <1>0, <1>1, <3>3
    <3>4. CASE n = n0 /\ d0 > puts /\ objects'[n].data = d0 /\ objects'[n].gen <= lastGen'
      BY <1>0, <1>1, <3>4
    <3> QED BY <1>0, <3>2, <3>3, <3>4
  <2>2. ASSUME NEW i \in 1 .. Len(file') PROVE file'[i].data <= puts'
    <3>1. CASE i \in 1 .. Len(file) /\ file'[i] = file[i]
      BY <1>0, <1>1, <1>3, <3>1
    <3>2. CASE file'[i].data \in {0, d0}
      BY <1>0, <1>1, <3>2
    <3> QED BY <1>0, <3>1, <3>2
  <2>3. ASSUME NEW d \in claimed' PROVE d > 0 /\ d <= puts'
    <3>1. CASE d \in claimed
      <4>1. claimed \subseteq Nat /\ d > 0 /\ d <= puts
        BY <1>0, <3>1 DEF StoresTypeOK, Numbered
      <4> QED BY <1>0, <1>1, <3>1, <4>1
    <3>2. CASE \E n \in ObjectNames : d = objects[n].data /\ d # 0
      BY <1>0, <1>1, <1>2, <3>2
    <3> QED BY <1>0, <2>3, <3>1, <3>2
  <2> QED BY <1>0, <2>1, <2>2, <2>3 DEF Numbered
<1>5. \A n \in ObjectNames : \A d \in Under(n)' : d = 0 \/ d \in Under(n) \/ (n = n0 /\ d = d0)
  <2> SUFFICES ASSUME NEW n \in ObjectNames, NEW d, d \in Under(n)'
               PROVE  d = 0 \/ d \in Under(n) \/ (n = n0 /\ d = d0)
    BY <1>0
  <2>1. CASE d = objects'[n].data
    BY <1>0, <1>1, <2>1 DEF Under
  <2>2. CASE \E i \in 1 .. Len(file') : file'[i].name = n /\ d = file'[i].data
    <3>1. PICK i \in 1 .. Len(file') : file'[i].name = n /\ d = file'[i].data
      BY <1>0, <2>2
    <3>2. CASE i \in 1 .. Len(file) /\ file'[i] = file[i]
      BY <1>0, <3>1, <3>2 DEF Under
    <3>3. CASE file'[i].name = n0 /\ file'[i].data = d0
      BY <1>0, <3>1, <3>3
    <3>4. CASE file'[i].data = 0
      BY <1>0, <3>1, <3>4
    <3> QED BY <1>0, <3>2, <3>3, <3>4
  <2> QED BY <1>0, <2>1, <2>2 DEF Under
<1>6. \A n \in ObjectNames : \A d \in Under(n) : d \in Nat /\ d <= puts
  BY <1>0, UnderFacts
<1>7. Owned'
  <2> SUFFICES ASSUME NEW n \in ObjectNames, NEW m \in ObjectNames, n # m,
                      NEW d, d \in Under(n)', d \in Under(m)'
               PROVE  d = 0
    BY <1>0 DEF Owned
  <2>1. d = 0 \/ d \in Under(n) \/ (n = n0 /\ d = d0)
    BY <1>0, <1>5
  <2>2. d = 0 \/ d \in Under(m) \/ (m = n0 /\ d = d0)
    BY <1>0, <1>5
  <2>3. CASE d \in Under(n) /\ d \in Under(m)
    BY <1>0, <2>3 DEF Owned
  <2>4. CASE d \in Under(n) /\ m = n0 /\ d = d0
    BY <1>0, <1>1, <1>6, <2>4
  <2>5. CASE d \in Under(m) /\ n = n0 /\ d = d0
    BY <1>0, <1>1, <1>6, <2>5
  <2> QED BY <1>0, <2>1, <2>2, <2>3, <2>4, <2>5
<1>8. ClaimedForGood'
  <2> SUFFICES ASSUME NEW n \in ObjectNames, NEW d \in claimed'
               PROVE  objects'[n].data # d /\ LastOf(n)'.data # d
    BY <1>0 DEF ClaimedForGood
  <2>1. CASE d \in claimed
    <3>1. d \in Nat /\ d > 0 /\ d <= puts
      BY <1>0, <2>1 DEF StoresTypeOK, Numbered
    <3>2. objects[n].data # d /\ LastOf(n).data # d
      BY <1>0, <2>1 DEF ClaimedForGood
    <3>3. objects'[n].data \in {objects[n].data, 0, d0} /\ LastOf(n)'.data \in {LastOf(n).data, 0, d0}
      BY <1>0, <1>1
    <3>4. d # 0 /\ d # d0
      BY <1>0, <1>1, <3>1
    <3> QED BY <1>0, <3>2, <3>3, <3>4
  <2>2. ASSUME NEW m \in ObjectNames, d = objects[m].data, d # 0,
               objects'[m].data # d, LastOf(m)'.data # d
        PROVE  objects'[n].data # d /\ LastOf(n)'.data # d
    <3>1. CASE n = m
      BY <1>0, <2>2, <3>1
    <3>2. CASE n # m
      <4>1. d \in Under(m)
        BY <1>0, <2>2 DEF Under
      <4>2. d \notin Under(n) /\ d <= puts /\ d \in Nat
        BY <1>0, <1>6, <2>2, <3>2, <4>1 DEF Owned
      <4>3. objects[n].data # d
        BY <1>0, <4>2 DEF Under
      <4>4. LastOf(n).data # d
        BY <1>0, <2>2, <4>2, LastUnder
      <4>5. d # d0
        BY <1>0, <1>1, <2>2, <4>2
      <4>6. objects'[n].data \in {objects[n].data, 0, d0} /\ LastOf(n)'.data \in {LastOf(n).data, 0, d0}
        BY <1>0, <1>1
      <4> QED BY <1>0, <2>2, <4>3, <4>4, <4>5, <4>6
    <3> QED BY <1>0, <3>1, <3>2
  <2> QED BY <1>0, <2>1, <2>2
<1> QED BY <1>0, <1>4, <1>7, <1>8

\* Generations only grow, so that what a client holds stays what it is.
LEMMA TokensStay ==
  ASSUME StoresTypeOK, Numbered, TokensKnown, TokensTell,
         tokens' = tokens, opened' = opened, backend' = backend,
         lastGen' \in Nat, lastGen <= lastGen',
         \A n \in ObjectNames :
           objects'[n] = objects[n] \/ objects'[n] = Missing \/ objects'[n].gen = lastGen + 1
  PROVE  TokensKnown' /\ TokensTell'
<1>1. lastGen \in Nat /\ \A c \in Clients : tokens[c].gen \in Nat
  BY DEF StoresTypeOK
<1>2. TokensKnown'
  BY <1>1 DEF TokensKnown
<1>3. ASSUME NEW c \in Clients, tokens[c].gen # 0, objects'[tokens[c].name].gen = tokens[c].gen
      PROVE  objects'[tokens[c].name].data = tokens[c].data
  <2>1. tokens[c].name \in ObjectNames /\ tokens[c].gen <= lastGen
    BY <1>3 DEF TokensKnown
  <2>2. objects'[tokens[c].name] # Missing
    BY <1>3 DEF Missing
  <2>3. objects'[tokens[c].name].gen # lastGen + 1
    BY <1>1, <1>3, <2>1
  <2>4. objects'[tokens[c].name] = objects[tokens[c].name]
    BY <2>1, <2>2, <2>3
  <2> QED BY <1>3, <2>4 DEF TokensTell
<1> QED BY <1>2, <1>3 DEF TokensTell

\* The walk expects what is still there.
LEMMA WalkKept ==
  ASSUME StoresTypeOK, OneWalk, KeepStaying, backend' = backend, test' = test
  PROVE  /\ OneWalk'
         /\ listing' \in [on : BOOLEAN, over : BOOLEAN, after : Nat,
                        times : [ObjectNames -> Nat], staying : SUBSET ObjectNames]
<1>1. PICK S : S = {n \in listing.staying : objects'[n] # Missing}
  OBVIOUS
<1>2. listing' = [listing EXCEPT !.staying = S]
  BY <1>1 DEF KeepStaying
<1>3. listing \in [on : BOOLEAN, over : BOOLEAN, after : Nat,
                  times : [ObjectNames -> Nat], staying : SUBSET ObjectNames]
  BY DEF StoresTypeOK
<1>4. /\ listing'.staying = S /\ listing'.times = listing.times /\ listing'.after = listing.after
      /\ listing'.over = listing.over
      /\ listing' \in [on : BOOLEAN, over : BOOLEAN, after : Nat,
                       times : [ObjectNames -> Nat], staying : SUBSET ObjectNames]
  BY <1>1, <1>2, <1>3
<1>5. ASSUME backend # "blob" \/ test # <<>> PROVE listing' = NoListing
  <2>1. listing = NoListing
    BY <1>5 DEF OneWalk
  <2>2. S = {}
    BY <1>1, <2>1 DEF NoListing
  <2> QED BY <1>2, <2>1, <2>2 DEF NoListing
<1>6. \A n \in S : objects'[n] # Missing /\ n \in listing.staying
  BY <1>1
<1>7. OneWalk'
  BY <1>4, <1>5, <1>6 DEF OneWalk
<1> QED BY <1>4, <1>7

LEMMA WalkUnmoved ==
  ASSUME OneWalk, listing' = listing, backend # "blob" \/ test # <<>>
  PROVE  OneWalk'
<1>1. listing = NoListing
  BY DEF OneWalk
<1>2. /\ listing'.staying = {} /\ listing' = NoListing
      /\ \A n \in ObjectNames : listing'.times[n] = 0
  BY <1>1 DEF NoListing
<1> QED BY <1>2 DEF OneWalk

LEMMA StorePutKeeps ==
  ASSUME StoresIInv, NEW c \in Clients, NEW blind \in BOOLEAN, Put(c, blind)
  PROVE  StoresIInv'
<1>1. /\ StoresTypeOK /\ TestRunsOut /\ Numbered /\ Owned /\ ClaimedForGood /\ TokensKnown
      /\ TokensTell /\ SuccessSurvives /\ OneWalk
  BY DEF StoresIInv
<1>2. PICK n : n = tokens[c].name
  OBVIOUS
<1>3. /\ test = <<>> /\ opened /\ backend = "blob" /\ n # 0
      /\ objects' = [objects EXCEPT ![n] = [data |-> puts + 1, gen |-> lastGen + 1]]
      /\ lastGen' = lastGen + 1 /\ puts' = puts + 1
      /\ acked' = [acked EXCEPT ![n] = puts + 1] /\ unsure' = [unsure EXCEPT ![n] = {}]
      /\ storeFaults' = storeFaults /\ KeepStaying
      /\ UNCHANGED <<backend, test, file, opened, tokens, claimed>>
  BY <1>2 DEF Put, Race, ObjectsWith, Recorded
<1>4. /\ puts \in Nat /\ lastGen \in Nat /\ n \in ObjectNames
      /\ objects \in [ObjectNames -> Object] /\ file \in Seq(Record)
      /\ acked \in [ObjectNames -> Nat] /\ unsure \in [ObjectNames -> SUBSET Nat]
  BY <1>1, <1>2, <1>3 DEF StoresTypeOK, Record
<1>5. /\ objects' \in [ObjectNames -> Object]
      /\ objects'[n].data = puts + 1 /\ objects'[n].gen = lastGen + 1
      /\ \A m \in ObjectNames \ {n} : objects'[m] = objects[m]
  BY <1>3, <1>4 DEF Object
<1>6. \A m \in ObjectNames : LastOf(m)' = LastOf(m)
  BY <1>3 DEF LastOf
<1>7. Numbered' /\ Owned' /\ ClaimedForGood'
  <2>1. PICK d0 \in Nat : d0 = puts + 1
    BY <1>4
  <2>2. d0 > puts /\ d0 <= puts' /\ puts' \in Nat /\ puts <= puts' /\ lastGen' \in Nat /\ lastGen <= lastGen'
    BY <1>3, <1>4, <2>1
  <2>3. \A m \in ObjectNames :
           \/ objects'[m] = objects[m] /\ lastGen <= lastGen'
           \/ m = n /\ d0 > puts /\ objects'[m].data = d0 /\ objects'[m].gen <= lastGen'
    BY <1>3, <1>4, <1>5, <2>1, <2>2
  <2>4. file' \in Seq(Record) /\ file' = file /\ backend' = backend /\ (backend # "file" => file' = <<>>)
    BY <1>1, <1>3, <1>4 DEF Numbered
  <2>5. \A i \in 1 .. Len(file') :
           \/ i \in 1 .. Len(file) /\ file'[i] = file[i]
           \/ file'[i].name = n /\ file'[i].data = d0
           \/ file'[i].data = 0
    BY <1>3
  <2>6. \A m \in ObjectNames :
           LastOf(m)'.data \in {LastOf(m).data, 0} \/ (m = n /\ LastOf(m)'.data = d0)
    BY <1>6
  <2>7. \A d \in claimed' : d \in claimed
    BY <1>3
  <2>8. \A m \in ObjectNames :
           \/ objects'[m] = objects[m] /\ lastGen <= lastGen'
           \/ objects'[m] = Missing
           \/ m = n /\ d0 > puts /\ objects'[m].data = d0 /\ objects'[m].gen <= lastGen'
    BY <2>3
  <2>9. CallWrites(n, d0)
    BY <1>5, <2>1, <2>2, <2>4, <2>5, <2>6, <2>7, <2>8 DEF CallWrites
  <2> QED BY <1>1, <2>9, ContentsHold
<1>8. TokensKnown' /\ TokensTell'
  BY <1>1, <1>3, <1>4, <1>5, TokensStay
<1>9. /\ OneWalk'
      /\ listing' \in [on : BOOLEAN, over : BOOLEAN, after : Nat,
                       times : [ObjectNames -> Nat], staying : SUBSET ObjectNames]
  BY <1>1, <1>3, WalkKept
<1>10. SuccessSurvives'
  BY <1>1, <1>3, <1>4, <1>5 DEF SuccessSurvives
<1>11. StoresTypeOK'
  <2>1. acked' \in [ObjectNames -> Nat] /\ unsure' \in [ObjectNames -> SUBSET Nat]
    BY <1>3, <1>4
  <2>2. puts' \in Nat /\ lastGen' \in Nat
    BY <1>3, <1>4
  <2> QED BY <1>1, <1>3, <1>5, <1>9, <2>1, <2>2 DEF StoresTypeOK
<1>12. TestRunsOut'
  BY <1>1, <1>3 DEF TestRunsOut
<1> QED BY <1>7, <1>8, <1>9, <1>10, <1>11, <1>12 DEF StoresIInv

LEMMA SaveEnvelopeKeeps ==
  ASSUME StoresIInv, NEW n \in ClientNames, SaveEnvelope(n)
  PROVE  StoresIInv'
<1>1. /\ StoresTypeOK /\ TestRunsOut /\ Numbered /\ Owned /\ ClaimedForGood /\ TokensKnown
      /\ TokensTell /\ SuccessSurvives /\ OneWalk
  BY DEF StoresIInv
<1>2. /\ test = <<>> /\ opened /\ backend # "blob" /\ puts' = puts + 1
      /\ UNCHANGED <<backend, test, opened, tokens, listing, claimed>>
  BY DEF SaveEnvelope, Race
<1>3. PICK end \in Endings :
       /\ Appends([name |-> n, data |-> puts + 1, gen |-> lastGen + 1], end)
       /\ Recorded(n, puts + 1, end)
       /\ IF end = "synced" THEN objects' = ObjectsWith(n, puts + 1) /\ lastGen' = lastGen + 1
          ELSE UNCHANGED <<objects, lastGen>>
  BY DEF SaveEnvelope
<1>4. /\ puts \in Nat /\ lastGen \in Nat /\ n \in ObjectNames /\ n # 0
      /\ objects \in [ObjectNames -> Object] /\ file \in Seq(Record)
      /\ acked \in [ObjectNames -> Nat] /\ unsure \in [ObjectNames -> SUBSET Nat]
      /\ storeFaults \in 0 .. MaxStoreFaults /\ MaxStoreFaults \in Nat
  BY <1>1, StoresAssumption DEF StoresTypeOK, Record
<1>5. /\ objects' \in [ObjectNames -> Object] /\ lastGen' \in Nat /\ lastGen <= lastGen'
      /\ \A m \in ObjectNames \ {n} : objects'[m] = objects[m]
      /\ end = "synced" => objects'[n].data = puts + 1 /\ objects'[n].gen = lastGen + 1
                          /\ lastGen' = lastGen + 1
      /\ end # "synced" => objects'[n] = objects[n]
  <2>1. CASE end = "synced"
    <3>1. objects' = [objects EXCEPT ![n] = [data |-> puts + 1, gen |-> lastGen + 1]]
      BY <1>3, <2>1 DEF ObjectsWith
    <3>2. [data |-> puts + 1, gen |-> lastGen + 1] \in Object
      BY <1>4 DEF Object
    <3> QED BY <1>3, <1>4, <2>1, <3>1, <3>2
  <2>2. CASE end # "synced"
    BY <1>3, <1>4, <2>2
  <2> QED BY <2>1, <2>2
<1>6. PICK r : r = [name |-> n, data |-> puts + 1, gen |-> lastGen + 1]
  OBVIOUS
<1>7. r \in Record /\ r.name = n /\ r.data = puts + 1 /\ Said(r).data = puts + 1
  BY <1>4, <1>6 DEF Record, Said
<1>8. /\ file' \in Seq(Record) /\ (backend # "file" => file' = <<>>)
      /\ \A i \in 1 .. Len(file') :
           \/ i \in 1 .. Len(file) /\ file'[i] = file[i]
           \/ file'[i].name = n /\ file'[i].data = puts + 1
           \/ file'[i].data = 0
      /\ \A m \in ObjectNames :
           LastOf(m)' = IF m = n /\ backend = "file" /\ end \in {"synced", "unsynced"}
                        THEN Said(r) ELSE LastOf(m)
  BY <1>1, <1>3, <1>4, <1>6, <1>7, AppendedFile
<1>9. Numbered' /\ Owned' /\ ClaimedForGood'
  <2>1. PICK d0 \in Nat : d0 = puts + 1
    BY <1>4
  <2>2. d0 > puts /\ d0 <= puts' /\ puts' \in Nat /\ puts <= puts'
    BY <1>2, <1>4, <2>1
  <2>3. \A m \in ObjectNames :
           \/ objects'[m] = objects[m] /\ lastGen <= lastGen'
           \/ m = n /\ d0 > puts /\ objects'[m].data = d0 /\ objects'[m].gen <= lastGen'
    BY <1>4, <1>5, <2>1, <2>2
  <2>4. \A m \in ObjectNames : LastOf(m)'.data = LastOf(m).data \/ (m = n /\ LastOf(m)'.data = d0)
    BY <1>7, <1>8, <2>1
  <2>5. \A i \in 1 .. Len(file') :
           \/ i \in 1 .. Len(file) /\ file'[i] = file[i]
           \/ file'[i].name = n /\ file'[i].data = d0
           \/ file'[i].data = 0
    BY <1>8, <2>1
  <2>6. \A m \in ObjectNames :
           LastOf(m)'.data \in {LastOf(m).data, 0} \/ (m = n /\ LastOf(m)'.data = d0)
    BY <2>4
  <2>7. \A d \in claimed' : d \in claimed
    BY <1>2
  <2>8. \A m \in ObjectNames :
           \/ objects'[m] = objects[m] /\ lastGen <= lastGen'
           \/ objects'[m] = Missing
           \/ m = n /\ d0 > puts /\ objects'[m].data = d0 /\ objects'[m].gen <= lastGen'
    BY <2>3
  <2>9. file' \in Seq(Record) /\ backend' = backend /\ (backend # "file" => file' = <<>>)
    BY <1>2, <1>8
  <2>10. CallWrites(n, d0)
    BY <1>5, <2>1, <2>2, <2>5, <2>6, <2>7, <2>8, <2>9 DEF CallWrites
  <2> QED BY <1>1, <2>10, ContentsHold
<1>10. TokensKnown' /\ TokensTell'
  BY <1>1, <1>2, <1>5, TokensStay
<1>11. OneWalk'
  BY <1>1, <1>2, WalkUnmoved
<1>12. /\ acked' = IF end = "synced" THEN [acked EXCEPT ![n] = puts + 1] ELSE acked
       /\ unsure' = [unsure EXCEPT ![n] = IF end = "synced" THEN {}
                                         ELSE IF end = "unsynced" THEN @ \cup {puts + 1} ELSE @]
       /\ storeFaults' = IF end = "synced" THEN storeFaults ELSE storeFaults + 1
  BY <1>3 DEF Recorded
<1>13. StoresTypeOK'
  <2>1. acked' \in [ObjectNames -> Nat] /\ unsure' \in [ObjectNames -> SUBSET Nat]
    BY <1>4, <1>12
  <2>2. storeFaults' \in 0 .. MaxStoreFaults /\ puts' \in Nat
    BY <1>2, <1>4, <1>12 DEF Endings
  <2> QED BY <1>1, <1>2, <1>5, <1>8, <2>1, <2>2 DEF StoresTypeOK, Record
<1>14. SuccessSurvives'
  <2> SUFFICES ASSUME NEW m \in ObjectNames
               PROVE  /\ objects'[m].data = acked'[m]
                      /\ backend = "file" => LastOf(m)'.data \in {acked'[m]} \cup unsure'[m]
    BY <1>2 DEF SuccessSurvives
  <2>1. /\ objects[m].data = acked[m]
        /\ backend = "file" => LastOf(m).data \in {acked[m]} \cup unsure[m]
    BY <1>1, <1>2 DEF SuccessSurvives
  <2>2. CASE m # n
    <3>1. objects'[m] = objects[m] /\ acked'[m] = acked[m] /\ unsure'[m] = unsure[m]
          /\ LastOf(m)' = LastOf(m)
      BY <1>4, <1>5, <1>8, <1>12, <2>2
    <3> QED BY <2>1, <3>1
  <2>3. CASE m = n /\ end = "synced"
    <3>1. acked'[m] = puts + 1 /\ objects'[m].data = puts + 1
      BY <1>4, <1>5, <1>12, <2>3
    <3>2. backend = "file" => LastOf(m)'.data = puts + 1
      BY <1>7, <1>8, <2>3
    <3> QED BY <3>1, <3>2
  <2>4. CASE m = n /\ end # "synced"
    <3>1. acked'[m] = acked[m] /\ objects'[m] = objects[m] /\ unsure[m] \subseteq unsure'[m]
          /\ (end = "unsynced" => puts + 1 \in unsure'[m])
      BY <1>4, <1>5, <1>12, <2>4
    <3>2. LastOf(m)' = LastOf(m) \/ (end = "unsynced" /\ LastOf(m)'.data = puts + 1)
      BY <1>7, <1>8, <2>4
    <3> QED BY <2>1, <3>1, <3>2
  <2> QED BY <2>2, <2>3, <2>4
<1>15. TestRunsOut'
  BY <1>1, <1>2 DEF TestRunsOut
<1> QED BY <1>9, <1>10, <1>11, <1>13, <1>14, <1>15 DEF StoresIInv

LEMMA StoreGetKeeps ==
  ASSUME StoresIInv, NEW c \in Clients, NEW n \in ClientNames, Get(c, n)
  PROVE  StoresIInv'
<1>1. /\ StoresTypeOK /\ TestRunsOut /\ Numbered /\ Owned /\ ClaimedForGood /\ TokensKnown
      /\ TokensTell /\ SuccessSurvives /\ OneWalk
  BY DEF StoresIInv
<1>2. PICK t : t = [name |-> n, data |-> objects[n].data, gen |-> objects[n].gen]
  OBVIOUS
<1>3. /\ opened /\ tokens' = [tokens EXCEPT ![c] = t]
      /\ UNCHANGED <<backend, test, objects, lastGen, file, opened, puts, claimed, acked, unsure,
                    storeFaults>>
      /\ UNCHANGED listing
  BY <1>2 DEF Get, Race, contents
<1>4. /\ n \in ObjectNames /\ objects[n] \in Object /\ objects[n].gen <= lastGen
      /\ tokens \in [Clients -> [name : ObjectNames \cup {0}, data : Nat, gen : Nat]]
  BY <1>1, StoresAssumption DEF StoresTypeOK, Numbered
<1>5. /\ t \in [name : ObjectNames \cup {0}, data : Nat, gen : Nat]
      /\ t.name = n /\ t.data = objects[n].data /\ t.gen = objects[n].gen
  BY <1>2, <1>4 DEF Object
<1>6. /\ tokens' \in [Clients -> [name : ObjectNames \cup {0}, data : Nat, gen : Nat]]
      /\ tokens'[c] = t /\ \A d \in Clients \ {c} : tokens'[d] = tokens[d]
  BY <1>3, <1>4, <1>5
<1>7. StoresTypeOK'
  BY <1>1, <1>3, <1>6 DEF StoresTypeOK
<1>8. TokensKnown'
  BY <1>1, <1>3, <1>4, <1>5, <1>6 DEF TokensKnown
<1>9. TokensTell'
  BY <1>1, <1>3, <1>5, <1>6 DEF TokensTell
<1>10. Numbered' /\ TestRunsOut'
  BY <1>1, <1>3 DEF Numbered, TestRunsOut
<1>11. Owned' /\ OneWalk'
  BY <1>1, <1>3 DEF Owned, Under, OneWalk
<1>12. ClaimedForGood' /\ SuccessSurvives'
  <2>1. \A m : LastOf(m)' = LastOf(m)
    BY <1>3 DEF LastOf
  <2>2. ClaimedForGood'
    BY <1>1, <1>3, <2>1 DEF ClaimedForGood
  <2> QED BY <1>1, <1>3, <2>1, <2>2 DEF SuccessSurvives
<1> QED BY <1>7, <1>8, <1>9, <1>10, <1>11, <1>12 DEF StoresIInv

\* A step of a walk.
LEMMA WalkKeeps ==
  ASSUME StoresIInv, UNCHANGED <<contents, tokens>>, OneWalk',
         listing' \in [on : BOOLEAN, over : BOOLEAN, after : Nat,
                      times : [ObjectNames -> Nat], staying : SUBSET ObjectNames]
  PROVE  StoresIInv'
<1>1. /\ StoresTypeOK /\ TestRunsOut /\ Numbered /\ Owned /\ ClaimedForGood /\ TokensKnown
      /\ TokensTell /\ SuccessSurvives
  BY DEF StoresIInv
<1>2. /\ UNCHANGED <<backend, test, objects, lastGen, file, opened, puts, claimed, acked, unsure,
                    storeFaults>>
      /\ UNCHANGED tokens
  BY DEF contents
<1>3. StoresTypeOK' /\ TokensKnown' /\ TokensTell'
  BY <1>1, <1>2 DEF StoresTypeOK, TokensKnown, TokensTell
<1>4. Numbered' /\ TestRunsOut' /\ Owned'
  <2>1. Owned'
    <3>1. \A n : Under(n)' = Under(n)
      BY <1>2 DEF Under
    <3> QED BY <1>1, <3>1 DEF Owned
  <2>2. Numbered'
    BY <1>1, <1>2 DEF Numbered
  <2> QED BY <1>1, <1>2, <2>1, <2>2 DEF TestRunsOut
<1>5. ClaimedForGood' /\ SuccessSurvives'
  <2>1. \A m : LastOf(m)' = LastOf(m)
    BY <1>2 DEF LastOf
  <2>2. ClaimedForGood'
    BY <1>1, <1>2, <2>1 DEF ClaimedForGood
  <2> QED BY <1>1, <1>2, <2>1, <2>2 DEF SuccessSurvives
<1> QED BY <1>3, <1>4, <1>5 DEF StoresIInv

LEMMA StartListingKeeps ==
  ASSUME StoresIInv, StartListing PROVE StoresIInv'
<1>1. StoresTypeOK /\ OneWalk
  BY DEF StoresIInv
<1>2. PICK S : S = {n \in ObjectNames : objects[n] # Missing}
  OBVIOUS
<1>3. /\ test = <<>> /\ backend = "blob" /\ UNCHANGED <<contents, tokens>>
      /\ UNCHANGED <<backend, test, objects>>
      /\ listing' = [NoListing EXCEPT !.on = TRUE, !.staying = S]
  BY <1>2 DEF StartListing, Race, contents
<1>4. listing' = [on |-> TRUE, over |-> FALSE, after |-> 0,
                  times |-> [n \in ObjectNames |-> 0], staying |-> S]
  BY <1>3 DEF NoListing
<1>5. listing' \in [on : BOOLEAN, over : BOOLEAN, after : Nat,
                   times : [ObjectNames -> Nat], staying : SUBSET ObjectNames]
  BY <1>2, <1>4
<1>6. \A n \in ObjectNames : ~(n <= 0)
  BY StoresAssumption
<1>7. OneWalk'
  <2>1. /\ \A n \in listing'.staying : n \in ObjectNames /\ objects'[n] # Missing
        /\ \A n \in ObjectNames : listing'.times[n] = 0
        /\ listing'.after = 0 /\ ~listing'.over
    <3>1. listing'.staying = S /\ listing'.after = 0 /\ ~listing'.over
      BY <1>4
    <3>2. \A n \in ObjectNames : listing'.times[n] = 0
      BY <1>4
    <3>3. objects' = objects
      BY <1>3
    <3>4. \A n \in S : n \in ObjectNames /\ objects[n] # Missing
      BY <1>2
    <3> QED BY <3>1, <3>2, <3>3, <3>4
  <2>2. \A n \in ObjectNames : listing'.times[n] <= 1
    BY <2>1
  <2>3. \A n \in listing'.staying : ~(n <= listing'.after \/ listing'.over)
    BY <1>6, <2>1
  <2>4. backend' = "blob" /\ test' = <<>>
    BY <1>3
  <2> QED BY <2>1, <2>2, <2>3, <2>4 DEF OneWalk
<1> QED BY <1>3, <1>5, <1>7, WalkKeeps

\* A page leaves out no name before its last.
LEMMA PageIsFirst ==
  ASSUME StoresTypeOK, NEW after \in Nat, NEW limit \in Nat,
         NEW n \in NamesAfter(after), NEW m \in PageAfter(after, limit), n <= m
  PROVE  n \in PageAfter(after, limit)
<1>1. IsFiniteSet(ObjectNames) /\ ObjectNames \subseteq Nat
  BY StoresAssumption
<1>2. PICK N : N = {x \in NamesAfter(after) : x < n}
  OBVIOUS
<1>3. PICK M : M = {x \in NamesAfter(after) : x < m}
  OBVIOUS
<1>4. m \in NamesAfter(after) /\ Cardinality(M) < limit
  BY <1>3 DEF PageAfter
<1>5. N \subseteq M
  <2>1. NamesAfter(after) \subseteq Nat
    BY <1>1 DEF NamesAfter
  <2> QED BY <1>2, <1>3, <1>4, <2>1
<1>6. IsFiniteSet(M)
  <2>1. M \subseteq ObjectNames
    BY <1>3 DEF NamesAfter
  <2> QED BY <1>1, <2>1, FS_Subset
<1>7. /\ IsFiniteSet(N) /\ Cardinality(N) <= Cardinality(M)
      /\ Cardinality(N) \in Nat /\ Cardinality(M) \in Nat
  BY <1>5, <1>6, FS_Subset, FS_CardinalityType
<1> QED BY <1>2, <1>4, <1>7 DEF PageAfter

LEMMA NextPageTurns ==
  ASSUME StoresIInv, NextPage PROVE StoresIInv'
<1>1. StoresTypeOK /\ OneWalk
  BY DEF StoresIInv
<1>2. PICK P : P = PageAfter(listing.after, listLimit)
  OBVIOUS
<1>3. /\ test = <<>> /\ listing.on /\ ~listing.over /\ UNCHANGED <<contents, tokens>>
      /\ UNCHANGED <<backend, test, objects>>
      /\ \/ IsLast(listing.after, listLimit) /\ Listed(P, TRUE, listing.after)
         \/ \E cursor \in P : (\A n \in P : n <= cursor) /\ Listed(P, FALSE, cursor)
  BY <1>2 DEF NextPage, Race, contents
<1>4. listing \in [on : BOOLEAN, over : BOOLEAN, after : Nat,
                  times : [ObjectNames -> Nat], staying : SUBSET ObjectNames]
  BY <1>1 DEF StoresTypeOK
<1>5. P \subseteq NamesAfter(listing.after) /\ ObjectNames \subseteq Nat /\ listLimit \in Nat
  BY <1>2, StoresAssumption DEF PageAfter
<1>6. \A n \in P : n \in ObjectNames /\ n > listing.after
  BY <1>5 DEF NamesAfter
<1>7. backend = "blob"
  BY <1>1, <1>3 DEF OneWalk, NoListing
<1>8. PICK times : times = [n \in ObjectNames |-> IF n \in P THEN listing.times[n] + 1
                                                ELSE listing.times[n]]
  OBVIOUS
<1>9. times \in [ObjectNames -> Nat]
  BY <1>4, <1>8
<1>10. \A n \in ObjectNames : times[n] = IF n \in P THEN 1 ELSE listing.times[n]
  BY <1>1, <1>3, <1>4, <1>6, <1>8 DEF OneWalk
<1>11. \A n \in listing.staying : n > listing.after => n \in NamesAfter(listing.after)
  BY <1>1, <1>4 DEF OneWalk, NamesAfter
<1>12. ASSUME IsLast(listing.after, listLimit), Listed(P, TRUE, listing.after)
       PROVE  StoresIInv'
  <2>1. listing' = [listing EXCEPT !.over = TRUE, !.after = listing.after, !.times = times]
    BY <1>8, <1>12 DEF Listed
  <2>2. /\ listing'.over /\ listing'.times = times /\ listing'.staying = listing.staying
        /\ listing' \in [on : BOOLEAN, over : BOOLEAN, after : Nat,
                         times : [ObjectNames -> Nat], staying : SUBSET ObjectNames]
    BY <1>4, <1>9, <2>1
  <2>3. P = NamesAfter(listing.after)
    BY <1>2, <1>12 DEF IsLast
  <2>4. \A n \in ObjectNames : times[n] <= 1
    BY <1>1, <1>4, <1>10 DEF OneWalk
  <2>5. ASSUME NEW n \in listing.staying PROVE times[n] = 1
    <3>1. n \in ObjectNames /\ n \in Nat /\ listing.after \in Nat
      BY <1>4, <1>5
    <3>2. CASE n > listing.after
      BY <1>10, <1>11, <2>3, <3>1, <3>2
    <3>3. CASE n <= listing.after
      BY <1>1, <1>10, <3>1, <3>3 DEF OneWalk
    <3> QED BY <3>1, <3>2, <3>3
  <2>6. OneWalk'
    BY <1>1, <1>3, <1>7, <2>2, <2>4, <2>5 DEF OneWalk
  <2> QED BY <1>3, <2>2, <2>6, WalkKeeps
<1>13. ASSUME NEW cursor \in P, \A n \in P : n <= cursor, Listed(P, FALSE, cursor)
       PROVE  StoresIInv'
  <2>1. listing' = [listing EXCEPT !.over = FALSE, !.after = cursor, !.times = times]
    BY <1>8, <1>13 DEF Listed
  <2>2. cursor \in ObjectNames /\ cursor \in Nat /\ cursor > listing.after /\ listing.after \in Nat
    BY <1>4, <1>5, <1>6, <1>13
  <2>3. /\ ~listing'.over /\ listing'.times = times /\ listing'.staying = listing.staying
        /\ listing'.after = cursor
        /\ listing' \in [on : BOOLEAN, over : BOOLEAN, after : Nat,
                         times : [ObjectNames -> Nat], staying : SUBSET ObjectNames]
    BY <1>4, <1>9, <2>1, <2>2
  <2>4. \A n \in ObjectNames : times[n] <= 1
    BY <1>1, <1>4, <1>10 DEF OneWalk
  <2>5. ASSUME NEW n \in ObjectNames, n > cursor PROVE times[n] = 0
    <3>1. n \notin P /\ n > listing.after
      BY <1>5, <1>13, <2>2, <2>5
    <3> QED BY <1>1, <1>3, <1>10, <3>1 DEF OneWalk
  <2>6. ASSUME NEW n \in listing.staying, n <= cursor PROVE times[n] = 1
    <3>1. n \in ObjectNames /\ n \in Nat
      BY <1>4, <1>5
    <3>2. CASE n > listing.after
      <4>1. n \in NamesAfter(listing.after)
        BY <1>11, <3>2
      <4>2. n \in P
        BY <1>1, <1>2, <1>5, <1>13, <2>2, <2>6, <4>1, PageIsFirst
      <4> QED BY <1>10, <3>1, <4>2
    <3>3. CASE n <= listing.after
      <4>1. n \notin P
        BY <1>6, <2>2, <3>1, <3>3
      <4> QED BY <1>1, <1>10, <3>1, <3>3, <4>1 DEF OneWalk
    <3> QED BY <2>2, <3>1, <3>2, <3>3
  <2>7. OneWalk'
    BY <1>1, <1>3, <1>7, <2>3, <2>4, <2>5, <2>6 DEF OneWalk
  <2> QED BY <1>3, <2>3, <2>7, WalkKeeps
<1> QED BY <1>3, <1>12, <1>13

LEMMA StoreDeleteKeeps ==
  ASSUME StoresIInv, NEW c \in Clients, NEW conditional \in BOOLEAN, Delete(c, conditional)
  PROVE  StoresIInv'
<1>1. /\ StoresTypeOK /\ TestRunsOut /\ Numbered /\ Owned /\ ClaimedForGood /\ TokensKnown
      /\ TokensTell /\ SuccessSurvives /\ OneWalk
  BY DEF StoresIInv
<1>2. PICK n : n = tokens[c].name
  OBVIOUS
<1>3. /\ test = <<>> /\ opened /\ n # 0 /\ objects[n] # Missing /\ KeepStaying
      /\ UNCHANGED <<backend, test, lastGen, opened, tokens, puts>>
  BY <1>2 DEF Delete, Race, Deletable
<1>4. PICK end \in Endings :
       /\ Appends([name |-> n, data |-> 0, gen |-> objects[n].gen], end)
       /\ Recorded(n, 0, end)
       /\ IF end = "synced"
          THEN /\ objects' = [objects EXCEPT ![n] = Missing]
               /\ claimed' = claimed \cup {objects[n].data}
          ELSE UNCHANGED <<objects, claimed>>
  BY <1>2 DEF Delete
<1>5. /\ puts \in Nat /\ lastGen \in Nat /\ n \in ObjectNames
      /\ objects \in [ObjectNames -> Object] /\ file \in Seq(Record)
      /\ acked \in [ObjectNames -> Nat] /\ unsure \in [ObjectNames -> SUBSET Nat]
      /\ storeFaults \in 0 .. MaxStoreFaults /\ MaxStoreFaults \in Nat
      /\ claimed \subseteq Nat
  BY <1>1, <1>2, <1>3, StoresAssumption DEF StoresTypeOK, Record
<1>6. Missing \in Object /\ Missing.data = 0 /\ Missing.gen = 0
  BY DEF Missing, Object
<1>7. /\ objects' \in [ObjectNames -> Object]
      /\ \A m \in ObjectNames \ {n} : objects'[m] = objects[m]
      /\ end = "synced" => objects'[n] = Missing
      /\ end # "synced" => objects'[n] = objects[n]
  <2>1. CASE end = "synced"
    BY <1>4, <1>5, <1>6, <2>1
  <2>2. CASE end # "synced"
    BY <1>4, <1>5, <2>2
  <2> QED BY <2>1, <2>2
<1>8. PICK r : r = [name |-> n, data |-> 0, gen |-> objects[n].gen]
  OBVIOUS
<1>9. r \in Record /\ r.name = n /\ r.data = 0 /\ Said(r) = Missing
  BY <1>5, <1>8 DEF Record, Said, Object
<1>10. /\ file' \in Seq(Record) /\ (backend # "file" => file' = <<>>)
       /\ \A i \in 1 .. Len(file') :
            \/ i \in 1 .. Len(file) /\ file'[i] = file[i]
            \/ file'[i].name = n /\ file'[i].data = 0
            \/ file'[i].data = 0
       /\ \A m \in ObjectNames :
            LastOf(m)' = IF m = n /\ backend = "file" /\ end \in {"synced", "unsynced"}
                         THEN Missing ELSE LastOf(m)
  BY <1>1, <1>4, <1>5, <1>8, <1>9, AppendedFile
<1>11. backend # "file" => LastOf(n) = Missing
  <2>1. ASSUME backend # "file" PROVE LastOf(n) = Missing
    <3>1. file = <<>>
      BY <1>1, <2>1 DEF Numbered
    <3>2. Records(n) = {}
      BY <3>1, EmptySeq DEF Records
    <3> QED BY <1>5, <3>2, LastOfFacts
  <2> QED BY <2>1
<1>12. end = "synced" => LastOf(n)' = Missing
  BY <1>5, <1>10, <1>11
<1>13. objects[n].data # 0 /\ objects[n].data \in Nat
  BY <1>1, <1>3, <1>5 DEF Numbered, Object
<1>14. CallWrites(n, 0)
  <2>1. \A m \in ObjectNames :
           \/ objects'[m] = objects[m] /\ lastGen <= lastGen'
           \/ objects'[m] = Missing
    BY <1>3, <1>5, <1>7
  <2>2. \A m \in ObjectNames : LastOf(m)'.data \in {LastOf(m).data, 0}
    BY <1>6, <1>10
  <2>3. \A d \in claimed' : d \in claimed \/
           \E m \in ObjectNames : /\ d = objects[m].data /\ d # 0
                                  /\ objects'[m].data # d /\ LastOf(m)'.data # d
    <3>1. CASE end = "synced"
      <4>1. objects'[n].data # objects[n].data /\ LastOf(n)'.data # objects[n].data
        BY <1>6, <1>7, <1>12, <1>13, <3>1
      <4>2. \A d \in claimed' : d \in claimed \/ d = objects[n].data
        BY <1>4, <3>1
      <4> QED BY <1>5, <1>13, <4>1, <4>2
    <3>2. CASE end # "synced"
      BY <1>4, <3>2
    <3> QED BY <3>1, <3>2
  <2>4. 0 \in Nat /\ puts' \in Nat /\ puts <= puts' /\ lastGen' \in Nat /\ backend' = backend
    BY <1>3, <1>5
  <2> QED BY <1>7, <1>10, <2>1, <2>2, <2>3, <2>4 DEF CallWrites
<1>15. Numbered' /\ Owned' /\ ClaimedForGood'
  BY <1>1, <1>14, ContentsHold
<1>16. TokensKnown' /\ TokensTell'
  <2>1. \A m \in ObjectNames : objects'[m] = objects[m] \/ objects'[m] = Missing
    BY <1>5, <1>7
  <2>2. lastGen' \in Nat /\ lastGen <= lastGen'
    BY <1>3, <1>5
  <2> QED BY <1>1, <1>3, <2>1, <2>2, TokensStay
<1>17. /\ OneWalk'
       /\ listing' \in [on : BOOLEAN, over : BOOLEAN, after : Nat,
                        times : [ObjectNames -> Nat], staying : SUBSET ObjectNames]
  BY <1>1, <1>3, WalkKept
<1>18. /\ acked' = IF end = "synced" THEN [acked EXCEPT ![n] = 0] ELSE acked
       /\ unsure' = [unsure EXCEPT ![n] = IF end = "synced" THEN {}
                                         ELSE IF end = "unsynced" THEN @ \cup {0} ELSE @]
       /\ storeFaults' = IF end = "synced" THEN storeFaults ELSE storeFaults + 1
  BY <1>4 DEF Recorded
<1>19. StoresTypeOK'
  <2>1. acked' \in [ObjectNames -> Nat] /\ unsure' \in [ObjectNames -> SUBSET Nat]
    BY <1>5, <1>18
  <2>2. storeFaults' \in 0 .. MaxStoreFaults
    BY <1>5, <1>18 DEF Endings
  <2>3. claimed' \subseteq Nat
    BY <1>4, <1>5, <1>13
  <2> QED BY <1>1, <1>3, <1>7, <1>10, <1>17, <2>1, <2>2, <2>3 DEF StoresTypeOK, Record
<1>20. SuccessSurvives'
  <2> SUFFICES ASSUME NEW m \in ObjectNames
               PROVE  /\ objects'[m].data = acked'[m]
                      /\ backend = "file" => LastOf(m)'.data \in {acked'[m]} \cup unsure'[m]
    BY <1>3 DEF SuccessSurvives
  <2>1. /\ objects[m].data = acked[m]
        /\ backend = "file" => LastOf(m).data \in {acked[m]} \cup unsure[m]
    BY <1>1, <1>3 DEF SuccessSurvives
  <2>2. CASE m # n
    <3>1. objects'[m] = objects[m] /\ acked'[m] = acked[m] /\ unsure'[m] = unsure[m]
          /\ LastOf(m)' = LastOf(m)
      BY <1>5, <1>7, <1>10, <1>18, <2>2
    <3> QED BY <2>1, <3>1
  <2>3. CASE m = n /\ end = "synced"
    <3>1. acked'[m] = 0 /\ objects'[m].data = 0 /\ LastOf(m)'.data = 0
      BY <1>5, <1>6, <1>7, <1>12, <1>18, <2>3
    <3> QED BY <3>1
  <2>4. CASE m = n /\ end # "synced"
    <3>1. acked'[m] = acked[m] /\ objects'[m] = objects[m] /\ unsure[m] \subseteq unsure'[m]
          /\ (end = "unsynced" => 0 \in unsure'[m])
      BY <1>5, <1>7, <1>18, <2>4
    <3>2. LastOf(m)' = LastOf(m) \/ (end = "unsynced" /\ LastOf(m)'.data = 0)
      BY <1>6, <1>10, <2>4
    <3> QED BY <2>1, <3>1, <3>2
  <2> QED BY <2>2, <2>3, <2>4
<1>21. TestRunsOut'
  BY <1>1, <1>3 DEF TestRunsOut
<1> QED BY <1>15, <1>16, <1>17, <1>19, <1>20, <1>21 DEF StoresIInv

\* The process of the file dies: what it held is gone, the file is not.
LEMMA ProcessDiesKeeps ==
  ASSUME StoresIInv, ProcessDies PROVE StoresIInv'
<1>1. /\ StoresTypeOK /\ TestRunsOut /\ Numbered /\ Owned /\ ClaimedForGood /\ TokensKnown
      /\ TokensTell /\ SuccessSurvives /\ OneWalk
  BY DEF StoresIInv
<1>2. /\ test = <<>> /\ backend = "file" /\ storeFaults < MaxStoreFaults
      /\ storeFaults' = storeFaults + 1 /\ opened' = FALSE
      /\ objects' = [n \in ObjectNames |-> Missing] /\ lastGen' = 0
      /\ tokens' = [c \in Clients |-> Nothing]
      /\ UNCHANGED <<backend, test, file, listing, puts, claimed, acked, unsure>>
  BY DEF ProcessDies, Race
<1>3. /\ puts \in Nat /\ file \in Seq(Record)
      /\ storeFaults \in 0 .. MaxStoreFaults /\ MaxStoreFaults \in Nat
      /\ Missing \in Object /\ Missing.data = 0
  BY <1>1, StoresAssumption DEF StoresTypeOK, Record, Missing, Object
<1>4. objects' \in [ObjectNames -> Object] /\ \A n \in ObjectNames : objects'[n] = Missing
  BY <1>2, <1>3
<1>5. \A n : LastOf(n)' = LastOf(n)
  BY <1>2 DEF LastOf
<1>6. Numbered' /\ Owned' /\ ClaimedForGood'
  <2>1. /\ file' \in Seq(Record) /\ backend' = backend /\ (backend # "file" => file' = <<>>)
        /\ \A i \in 1 .. Len(file') : i \in 1 .. Len(file) /\ file'[i] = file[i]
    BY <1>2, <1>3
  <2>2. \A n \in ObjectNames : LastOf(n)'.data \in {LastOf(n).data, 0}
    BY <1>5
  <2>3. 0 \in Nat /\ puts' \in Nat /\ puts <= puts' /\ lastGen' \in Nat
    BY <1>2, <1>3
  <2>4. \A d \in claimed' : d \in claimed
    BY <1>2
  <2>5. CallWrites(0, 0)
    BY <1>4, <2>1, <2>2, <2>3, <2>4 DEF CallWrites
  <2> QED BY <1>1, <2>5, ContentsHold
<1>7. Nothing \in Record /\ Nothing.gen = 0
  BY DEF Nothing, Record
<1>8. tokens' \in [Clients -> Record] /\ \A c \in Clients : tokens'[c].gen = 0
  BY <1>2, <1>7
<1>9. TokensKnown' /\ TokensTell'
  <2>1. \A c \in Clients : tokens'[c].gen <= lastGen'
    BY <1>2, <1>8
  <2> QED BY <1>2, <1>8, <2>1 DEF TokensKnown, TokensTell
<1>10. OneWalk'
  BY <1>1, <1>2, WalkUnmoved
<1>11. StoresTypeOK'
  <2>1. storeFaults' \in 0 .. MaxStoreFaults /\ lastGen' \in Nat
    BY <1>2, <1>3
  <2> QED BY <1>1, <1>2, <1>4, <1>8, <2>1 DEF StoresTypeOK, Record
<1>12. SuccessSurvives'
  BY <1>1, <1>2, <1>5 DEF SuccessSurvives
<1>13. TestRunsOut'
  BY <1>1, <1>2 DEF TestRunsOut
<1> QED BY <1>6, <1>9, <1>10, <1>11, <1>12, <1>13 DEF StoresIInv

\* The file is read back: what a name is left with is under that name already.
LEMMA ReplayKeeps ==
  ASSUME StoresIInv, Replay PROVE StoresIInv'
<1>1. /\ StoresTypeOK /\ TestRunsOut /\ Numbered /\ Owned /\ ClaimedForGood /\ TokensKnown
      /\ TokensTell /\ SuccessSurvives /\ OneWalk
  BY DEF StoresIInv
<1>2. /\ ~opened /\ opened' = TRUE /\ objects' = [n \in ObjectNames |-> LastOf(n)]
      /\ acked' = [n \in ObjectNames |-> LastOf(n).data]
      /\ unsure' = [n \in ObjectNames |-> {}]
      /\ UNCHANGED <<backend, test, file, tokens, listing, puts, claimed, storeFaults>>
  BY DEF Replay
<1>3. /\ puts \in Nat /\ file \in Seq(Record) /\ Missing.data = 0 /\ Missing.gen = 0
      /\ DOMAIN file = 1 .. Len(file) /\ \A i \in 1 .. Len(file) : file[i] \in Record
  <2>1. file \in Seq(Record)
    BY <1>1 DEF StoresTypeOK, Record
  <2>2. DOMAIN file = 1 .. Len(file) /\ \A i \in 1 .. Len(file) : file[i] \in Record
    BY <2>1, LenProperties, ElementOfSeq
  <2> QED BY <1>1, <2>1, <2>2 DEF StoresTypeOK, Missing
<1>4. lastGen' \in Nat /\ \A i \in 1 .. Len(file) : file[i].gen <= lastGen'
  <2>1. \E g \in {0} \cup {file[i].gen : i \in 1 .. Len(file)} :
          /\ \A i \in 1 .. Len(file) : file[i].gen <= g
          /\ lastGen' = g
    BY <1>3 DEF Replay
  <2>2. \A i \in 1 .. Len(file) : file[i].gen \in Nat
    BY <1>3 DEF Record
  <2> QED BY <2>1, <2>2
<1>5. \A n \in ObjectNames :
        /\ LastOf(n) \in Object
        /\ LastOf(n).data # 0 => LastOf(n).data \in Under(n)
        /\ LastOf(n).data = 0 => LastOf(n) = Missing
        /\ LastOf(n) = Missing \/ \E i \in 1 .. Len(file) : LastOf(n).gen = file[i].gen
  BY <1>1, LastUnder
<1>6. /\ objects' \in [ObjectNames -> Object] /\ acked' \in [ObjectNames -> Nat]
      /\ unsure' \in [ObjectNames -> SUBSET Nat]
      /\ \A n \in ObjectNames : objects'[n] = LastOf(n) /\ acked'[n] = LastOf(n).data
  BY <1>2, <1>5 DEF Object
<1>7. \A n : LastOf(n)' = LastOf(n)
  BY <1>2 DEF LastOf
<1>8. \A n \in ObjectNames : \A d \in Under(n)' : d = 0 \/ d \in Under(n)
  <2> SUFFICES ASSUME NEW n \in ObjectNames, NEW d, d \in Under(n)' PROVE d = 0 \/ d \in Under(n)
    OBVIOUS
  <2>1. CASE d = objects'[n].data
    BY <1>5, <1>6, <2>1
  <2>2. CASE \E i \in 1 .. Len(file) : file[i].name = n /\ d = file[i].data
    BY <2>2 DEF Under
  <2> QED BY <1>2, <2>1, <2>2 DEF Under
<1>9. Owned'
  <2> SUFFICES ASSUME NEW n \in ObjectNames, NEW m \in ObjectNames, n # m,
                      NEW d, d \in Under(n)', d \in Under(m)'
               PROVE  d = 0
    BY DEF Owned
  <2> QED BY <1>1, <1>8 DEF Owned
<1>10. Numbered'
  <2>1. ASSUME NEW n \in ObjectNames
        PROVE  /\ objects'[n].data <= puts' /\ objects'[n].gen <= lastGen'
               /\ objects'[n].data = 0 => objects'[n] = Missing
    <3>1. objects'[n].data <= puts
      BY <1>1, <1>3, <1>5, <1>6, UnderFacts
    <3>2. objects'[n].gen <= lastGen'
      BY <1>3, <1>4, <1>5, <1>6
    <3> QED BY <1>2, <1>5, <1>6, <3>1, <3>2
  <2> QED BY <1>1, <1>2, <2>1 DEF Numbered
<1>11. ClaimedForGood'
  BY <1>1, <1>2, <1>6, <1>7 DEF ClaimedForGood
<1>12. TokensKnown' /\ TokensTell'
  <2>1. \A c \in Clients : tokens'[c].gen = 0
    BY <1>1, <1>2 DEF TokensKnown
  <2>2. \A c \in Clients : tokens'[c].gen <= lastGen'
    BY <1>4, <2>1
  <2> QED BY <1>2, <2>1, <2>2 DEF TokensKnown, TokensTell
<1>13. OneWalk'
  <2>1. backend # "blob"
    BY <1>1, <1>2 DEF TokensKnown
  <2> QED BY <1>1, <1>2, <2>1, WalkUnmoved
<1>14. StoresTypeOK'
  BY <1>1, <1>2, <1>4, <1>6 DEF StoresTypeOK
<1>15. SuccessSurvives'
  <2>1. \A n \in ObjectNames : objects'[n].data = acked'[n] /\ LastOf(n)'.data = acked'[n]
    BY <1>6, <1>7
  <2> QED BY <2>1 DEF SuccessSurvives
<1>16. TestRunsOut'
  BY <1>1, <1>2 DEF TestRunsOut
<1> QED BY <1>9, <1>10, <1>11, <1>12, <1>13, <1>14, <1>15, <1>16 DEF StoresIInv

LEMMA EightCalls ==
  ASSUME NEW a1, NEW a2, NEW a3, NEW a4, NEW a5, NEW a6, NEW a7, NEW a8
  PROVE  \E S : <<a1, a2, a3, a4, a5, a6, a7, a8>> \in Seq(S)
<1>1. PICK S : S = {a1, a2, a3, a4, a5, a6, a7, a8}
  OBVIOUS
<1>2. a1 \in S /\ a2 \in S /\ a3 \in S /\ a4 \in S /\ a5 \in S /\ a6 \in S /\ a7 \in S /\
      a8 \in S
  BY <1>1
<1> QED BY <1>2

LEMMA NineteenCalls ==
  ASSUME NEW a1, NEW a2, NEW a3, NEW a4, NEW a5, NEW a6, NEW a7, NEW a8, NEW a9, NEW a10,
         NEW a11, NEW a12, NEW a13, NEW a14, NEW a15, NEW a16, NEW a17, NEW a18, NEW a19
  PROVE  \E S : <<a1, a2, a3, a4, a5, a6, a7, a8, a9, a10, a11, a12, a13, a14, a15, a16,
                  a17, a18, a19>> \in Seq(S)
<1>1. PICK S : S = {a1, a2, a3, a4, a5, a6, a7, a8, a9, a10, a11, a12, a13, a14, a15, a16,
                    a17, a18, a19}
  OBVIOUS
<1>2. a1 \in S /\ a2 \in S /\ a3 \in S /\ a4 \in S /\ a5 \in S /\ a6 \in S /\ a7 \in S /\
      a8 \in S /\ a9 \in S /\ a10 \in S /\ a11 \in S /\ a12 \in S /\ a13 \in S /\
      a14 \in S /\ a15 \in S /\ a16 \in S /\ a17 \in S /\ a18 \in S /\ a19 \in S
  BY <1>1
<1> QED BY <1>2

LEMMA TestsAreSequences == \A t \in AllTests : \E S : t \in Seq(S)
<1>1. \E S : PutsAndDeletes \in Seq(S)
  <2>1. PICK p1 : p1 = Puts(1, TRUE, 0, TRUE)
    OBVIOUS
  <2>2. PICK p2 : p2 = Puts(1, TRUE, 0, FALSE)
    OBVIOUS
  <2>3. PICK p3 : p3 = Puts(1, FALSE, wrongGen, FALSE)
    OBVIOUS
  <2>4. PICK p4 : p4 = Puts(neverStored, FALSE, 42, FALSE)
    OBVIOUS
  <2>5. PICK p5 : p5 = Puts(1, FALSE, 1, TRUE)
    OBVIOUS
  <2>6. PICK p6 : p6 = ListsPage(defaultListLimit, 0, {1}, TRUE)
    OBVIOUS
  <2>7. PICK p7 : p7 = Puts(2, TRUE, 999, TRUE)
    OBVIOUS
  <2>8. PutsAndDeletes =
          <<Gets(1, 0), Deletes(1, 0, "not exist"), Deletes(1, 5, "refused"), p1, Gets(1, 1), p2,
            p3, p4, p5, Gets(1, 2), Saves(1), Gets(1, 3), p6, p7, Deletes(2, 0, "done"),
            Deletes(1, wrongGen, "refused"), Gets(1, 3), Deletes(1, 3, "done"), Gets(1, 0)>>
    BY <2>1, <2>2, <2>3, <2>4, <2>5, <2>6, <2>7 DEF PutsAndDeletes
  <2> QED BY <2>8, NineteenCalls
<1>2. \E S : Pagination \in Seq(S)
  BY EightCalls DEF Pagination
<1>3. \E S : LoadMissing \in Seq(S)
  <2>1. PICK S : S = {Gets(neverStored, 0)}
    OBVIOUS
  <2>2. /\ Gets(neverStored, 0) \in S
    BY <2>1
  <2> QED BY <2>2 DEF LoadMissing
<1>4. \E S : SaveLoad \in Seq(S)
  <2>1. PICK S : S = {Saves(1), Gets(1, 1)}
    OBVIOUS
  <2>2. /\ Saves(1) \in S
        /\ Gets(1, 1) \in S
    BY <2>1
  <2> QED BY <2>2 DEF SaveLoad
<1>5. \E S : ClaimOnce \in Seq(S)
  <2>1. PICK S : S = {Saves(1), Gets(1, 1), Deletes(1, 1, "done"), Deletes(1, 1, "refused"),
                       Gets(1, 0)}
    OBVIOUS
  <2>2. /\ Saves(1) \in S
        /\ Gets(1, 1) \in S
        /\ Deletes(1, 1, "done") \in S
        /\ Deletes(1, 1, "refused") \in S
        /\ Gets(1, 0) \in S
    BY <2>1
  <2> QED BY <2>2 DEF ClaimOnce
<1>6. \E S : DeleteWrongToken \in Seq(S)
  <2>1. PICK S : S = {Saves(1), Deletes(1, wrongGen, "refused"), Gets(1, 1)}
    OBVIOUS
  <2>2. /\ Saves(1) \in S
        /\ Deletes(1, wrongGen, "refused") \in S
        /\ Gets(1, 1) \in S
    BY <2>1
  <2> QED BY <2>2 DEF DeleteWrongToken
<1>7. \E S : DeleteAbsentKey \in Seq(S)
  <2>1. PICK S : S = {Deletes(neverStored, 1, "refused")}
    OBVIOUS
  <2>2. /\ Deletes(neverStored, 1, "refused") \in S
    BY <2>1
  <2> QED BY <2>2 DEF DeleteAbsentKey
<1>8. \E S : Resave \in Seq(S)
  <2>1. PICK S : S = {Saves(1), Deletes(1, 1, "refused"), Gets(1, 2), Deletes(1, 2, "done")}
    OBVIOUS
  <2>2. /\ Saves(1) \in S
        /\ Deletes(1, 1, "refused") \in S
        /\ Gets(1, 2) \in S
        /\ Deletes(1, 2, "done") \in S
    BY <2>1
  <2> QED BY <2>2 DEF Resave
<1> QED BY <1>1, <1>2, <1>3, <1>4, <1>5, <1>6, <1>7, <1>8 DEF AllTests

LEMMA TestsAreCalls == \A t \in AllTests : t \in Seq(CallsOfTests)
<1> SUFFICES ASSUME NEW t \in AllTests, \E S : t \in Seq(S) PROVE t \in Seq(CallsOfTests)
  BY TestsAreSequences
<1>1. PICK S : t \in Seq(S)
  OBVIOUS
<1>2. t \in [1 .. Len(t) -> S] /\ Len(t) \in Nat /\ DOMAIN t = 1 .. Len(t)
  BY <1>1, LenProperties
<1>3. \A i \in 1 .. Len(t) : t[i] \in CallsOfTests
  BY <1>2 DEF CallsOfTests
<1> QED BY <1>2, <1>3, SeqDef

LEMMA StoreTestCallsKeeps ==
  ASSUME StoresIInv, StoreTestCalls PROVE StoresIInv'
<1>1. /\ StoresTypeOK /\ TestRunsOut /\ Numbered /\ Owned /\ ClaimedForGood /\ TokensKnown
      /\ TokensTell /\ SuccessSurvives /\ OneWalk
  BY DEF StoresIInv
<1>2. PICK t : t = Head(test)
  OBVIOUS
<1>3. PICK stores \in BOOLEAN : stores = (t.op = "put" /\ Fits(t.name, t.create, t.gen))
  OBVIOUS
<1>4. PICK n : n = t.name
  OBVIOUS
<1>5. /\ test # <<>> /\ t # EndOfTest /\ test' = Tail(test)
      /\ stores => /\ puts' = puts + 1 /\ lastGen' = lastGen + 1
                   /\ objects' = [objects EXCEPT ![n] = [data |-> puts + 1, gen |-> lastGen + 1]]
      /\ ~stores => /\ puts' = puts /\ lastGen' = lastGen
                    /\ objects' = [objects EXCEPT ![n] = Missing] \/ objects' = objects
      /\ UNCHANGED <<backend, file, opened, tokens, listing, claimed, acked, unsure, storeFaults>>
  BY <1>2, <1>3, <1>4 DEF StoreTestCalls, ObjectsWith
<1>6. /\ puts \in Nat /\ lastGen \in Nat /\ objects \in [ObjectNames -> Object]
      /\ file \in Seq(Record) /\ Missing \in Object /\ Missing.data = 0
  BY <1>1 DEF StoresTypeOK, Record, Missing, Object
<1>7. PICK d0 \in Nat : /\ stores => d0 = puts + 1
                        /\ ~stores => d0 = 0
  <2>1. puts + 1 \in Nat /\ 0 \in Nat
    BY <1>6
  <2> QED BY <2>1
<1>8. /\ objects' \in [ObjectNames -> Object]
      /\ puts' \in Nat /\ puts <= puts' /\ lastGen' \in Nat /\ lastGen <= lastGen'
      /\ d0 = 0 \/ (d0 > puts /\ d0 <= puts')
      /\ \A m \in ObjectNames :
           \/ objects'[m] = objects[m]
           \/ objects'[m] = Missing
           \/ m = n /\ d0 > puts /\ objects'[m].data = d0 /\ objects'[m].gen = lastGen + 1
                    /\ objects'[m].gen <= lastGen'
  <2>1. CASE stores
    <3>1. PICK o : o = [data |-> puts + 1, gen |-> lastGen + 1]
      OBVIOUS
    <3>2. o \in Object /\ o.data = puts + 1 /\ o.gen = lastGen + 1
      BY <1>6, <3>1 DEF Object
    <3>3. objects' = [objects EXCEPT ![n] = o]
      BY <1>5, <2>1, <3>1
    <3>4. objects' \in [ObjectNames -> Object]
      BY <1>6, <3>2, <3>3
    <3>5. \A m \in ObjectNames : objects'[m] = IF m = n THEN o ELSE objects[m]
      BY <1>6, <3>3
    <3>6. d0 = puts + 1 /\ puts' = puts + 1 /\ lastGen' = lastGen + 1
      BY <1>5, <1>7, <2>1
    <3> QED BY <1>6, <3>2, <3>4, <3>5, <3>6
  <2>2. CASE ~stores
    <3>1. objects' = [objects EXCEPT ![n] = Missing] \/ objects' = objects
      BY <1>5, <2>2
    <3>2. objects' \in [ObjectNames -> Object]
      BY <1>6, <3>1
    <3>3. \A m \in ObjectNames : objects'[m] = objects[m] \/ objects'[m] = Missing
      BY <1>6, <3>1
    <3>4. d0 = 0 /\ puts' = puts /\ lastGen' = lastGen
      BY <1>5, <1>7, <2>2
    <3> QED BY <1>6, <3>2, <3>3, <3>4
  <2> QED BY <2>1, <2>2
<1>9. \A m : LastOf(m)' = LastOf(m)
  BY <1>5 DEF LastOf
<1>10. Numbered' /\ Owned' /\ ClaimedForGood'
  <2>1. /\ file' \in Seq(Record) /\ backend' = backend /\ (backend # "file" => file' = <<>>)
        /\ \A i \in 1 .. Len(file') : i \in 1 .. Len(file) /\ file'[i] = file[i]
    BY <1>1, <1>5, <1>6 DEF Numbered
  <2>2. \A m \in ObjectNames : LastOf(m)'.data \in {LastOf(m).data, 0}
    BY <1>9
  <2>3. \A d \in claimed' : d \in claimed
    BY <1>5
  <2>4. \A m \in ObjectNames :
           \/ objects'[m] = objects[m] /\ lastGen <= lastGen'
           \/ objects'[m] = Missing
           \/ m = n /\ d0 > puts /\ objects'[m].data = d0 /\ objects'[m].gen <= lastGen'
    BY <1>8
  <2>5. CallWrites(n, d0)
    BY <1>7, <1>8, <2>1, <2>2, <2>3, <2>4 DEF CallWrites
  <2> QED BY <1>1, <2>5, ContentsHold
<1>11. TokensKnown' /\ TokensTell'
  <2>1. \A m \in ObjectNames :
          objects'[m] = objects[m] \/ objects'[m] = Missing \/ objects'[m].gen = lastGen + 1
    BY <1>8
  <2> QED BY <1>1, <1>5, <1>8, <2>1, TokensStay
<1>12. OneWalk'
  BY <1>1, <1>5, WalkUnmoved
<1>13. test' \in Seq(CallsOfTests) /\ test' # <<>> /\ test'[Len(test')] = EndOfTest
  <2>1. PICK s : s = test
    OBVIOUS
  <2>2. s \in Seq(CallsOfTests) /\ s # <<>> /\ s[Len(s)] = EndOfTest /\ Len(s) \in Nat
    <3>1. s \in Seq(CallsOfTests) /\ s # <<>> /\ s[Len(s)] = EndOfTest
      BY <1>1, <1>5, <2>1 DEF TestRunsOut
    <3> QED BY <3>1, LenProperties
  <2>3. Len(s) # 0
    BY <2>2, EmptySeq
  <2>4. Len(s) # 1
    BY <1>2, <1>5, <2>1, <2>2
  <2>5. /\ Tail(s) \in Seq(CallsOfTests) /\ Len(Tail(s)) = Len(s) - 1
        /\ \A i \in 1 .. Len(Tail(s)) : Tail(s)[i] = s[i + 1]
    <3>1. s \in Seq(CallsOfTests) /\ s # <<>>
      BY <2>2
    <3> QED BY <3>1, HeadTailProperties
  <2>6. PICK k \in Nat : k = Len(s) /\ k # 0 /\ k # 1
    BY <2>2, <2>3, <2>4
  <2>7. Len(Tail(s)) = k - 1 /\ k - 1 \in 1 .. k - 1 /\ (k - 1) + 1 = k
    BY <2>5, <2>6
  <2>8. Tail(s)[Len(Tail(s))] = EndOfTest /\ Tail(s) # <<>>
    <3>1. Tail(s)[k - 1] = s[k]
      BY <2>5, <2>7
    <3>2. Tail(s) # <<>>
      <4>1. Len(Tail(s)) # 0
        BY <2>6, <2>7
      <4>2. ASSUME Tail(s) = <<>> PROVE FALSE
        <5>1. Len(Tail(s)) = Len(<<>>)
          BY <4>2
        <5>2. Len(<<>>) = 0
          OBVIOUS
        <5> QED BY <4>1, <5>1, <5>2
      <4> QED BY <4>2
    <3> QED BY <2>2, <2>6, <2>7, <3>1, <3>2
  <2> QED BY <1>5, <2>1, <2>5, <2>8
<1>14. StoresTypeOK'
  BY <1>1, <1>5, <1>8 DEF StoresTypeOK
<1>15. SuccessSurvives' /\ TestRunsOut'
  BY <1>13 DEF SuccessSurvives, TestRunsOut
<1> QED BY <1>10, <1>11, <1>12, <1>14, <1>15 DEF StoresIInv

LEMMA StoresInitInv == StoresInit => StoresIInv
<1> SUFFICES ASSUME StoresInit PROVE StoresIInv
  OBVIOUS
<1>1. /\ backend \in {"blob", "memory", "file"}
      /\ objects = [n \in ObjectNames |-> Missing] /\ lastGen = 0 /\ file = <<>> /\ opened = TRUE
      /\ tokens = [c \in Clients |-> Nothing] /\ listing = NoListing /\ puts = 0 /\ claimed = {}
      /\ acked = [n \in ObjectNames |-> 0] /\ unsure = [n \in ObjectNames |-> {}]
      /\ storeFaults = 0
  BY DEF StoresInit
<1>2. /\ Missing \in Object /\ Missing.data = 0 /\ Missing.gen = 0 /\ 0 \in Nat
      /\ Nothing \in Record /\ Nothing.gen = 0
  BY DEF Missing, Object, Nothing, Record
<1>3. StoresTypeOK
  <2>1. /\ objects \in [ObjectNames -> Object] /\ tokens \in [Clients -> Record]
        /\ acked \in [ObjectNames -> Nat] /\ unsure \in [ObjectNames -> SUBSET Nat]
        /\ file \in Seq(Record)
    BY <1>1, <1>2
  <2>2. listing \in [on : BOOLEAN, over : BOOLEAN, after : Nat,
                     times : [ObjectNames -> Nat], staying : SUBSET ObjectNames]
    BY <1>1, <1>2 DEF NoListing
  <2>3. storeFaults \in 0 .. MaxStoreFaults /\ claimed \subseteq Nat
    BY <1>1, StoresAssumption
  <2> QED BY <1>1, <1>2, <2>1, <2>2, <2>3 DEF StoresTypeOK, Record
<1>4. Len(file) = 0 /\ DOMAIN file = {}
  BY <1>1
<1>5. \A n : LastOf(n) = Missing
  BY <1>4 DEF LastOf
<1>6. \A n \in ObjectNames : objects[n] = Missing /\ acked[n] = 0
  BY <1>1
<1>7. \A n \in ObjectNames : Under(n) = {0}
  BY <1>2, <1>4, <1>6 DEF Under
<1>8. Numbered
  BY <1>1, <1>2, <1>4, <1>6 DEF Numbered
<1>9. Owned
  BY <1>7 DEF Owned
<1>10. ClaimedForGood
  BY <1>1 DEF ClaimedForGood
<1>11. TokensKnown /\ TokensTell
  <2>1. \A c \in Clients : tokens[c].gen = 0
    BY <1>1, <1>2
  <2>2. \A c \in Clients : tokens[c].gen <= lastGen
    BY <1>1, <2>1
  <2> QED BY <1>1, <2>1, <2>2 DEF TokensKnown, TokensTell
<1>12. SuccessSurvives
  BY <1>1, <1>2, <1>5, <1>6 DEF SuccessSurvives
<1>13. OneWalk
  <2>1. listing.staying = {} /\ \A n \in ObjectNames : listing.times[n] = 0
    BY <1>1 DEF NoListing
  <2> QED BY <1>1, <2>1 DEF OneWalk
<1>14. TestRunsOut
  <2> SUFFICES ASSUME test # <<>> PROVE test \in Seq(CallsOfTests) /\ test[Len(test)] = EndOfTest
    BY DEF TestRunsOut
  <2>1. PICK t \in Tests : test = Append(t, EndOfTest)
    BY DEF StoresInit
  <2>2. t \in AllTests
    BY <2>1 DEF Tests, AllTests
  <2>3. t \in Seq(CallsOfTests) /\ EndOfTest \in CallsOfTests
    BY <2>2, TestsAreCalls DEF CallsOfTests
  <2> QED BY <2>1, <2>3, AppendProperties
<1> QED BY <1>3, <1>8, <1>9, <1>10, <1>11, <1>12, <1>13, <1>14 DEF StoresIInv

LEMMA StoresStepInv ==
  ASSUME StoresIInv, [StoresNext]_storesVars PROVE StoresIInv'
<1>1. CASE UNCHANGED storesVars
  <2>1. UNCHANGED <<contents, tokens>> /\ UNCHANGED <<backend, test, objects>> /\ listing' = listing
    BY <1>1 DEF storesVars, contents
  <2>2. StoresTypeOK /\ OneWalk
    BY DEF StoresIInv
  <2>3. OneWalk'
    BY <2>1, <2>2 DEF OneWalk
  <2> QED BY <2>1, <2>2, <2>3, WalkKeeps DEF StoresTypeOK
<1>2. CASE StoresNext
  <2>1. ASSUME NEW c \in Clients, NEW n \in ClientNames, Get(c, n) PROVE StoresIInv'
    BY <2>1, StoreGetKeeps
  <2>2. ASSUME NEW c \in Clients, NEW b \in BOOLEAN, Put(c, b) PROVE StoresIInv'
    BY <2>2, StorePutKeeps
  <2>3. ASSUME NEW c \in Clients, NEW b \in BOOLEAN, Delete(c, b) PROVE StoresIInv'
    BY <2>3, StoreDeleteKeeps
  <2>4. ASSUME NEW n \in ClientNames, SaveEnvelope(n) PROVE StoresIInv'
    BY <2>4, SaveEnvelopeKeeps
  <2> QED
    BY <1>2, <2>1, <2>2, <2>3, <2>4, StartListingKeeps, NextPageTurns, ProcessDiesKeeps,
       ReplayKeeps, StoreTestCallsKeeps DEF StoresNext
<1> QED BY <1>1, <1>2

LEMMA StoresAreSound == StoresIInv => StoresSound
<1> SUFFICES ASSUME StoresIInv PROVE StoresSound
  OBVIOUS
<1>1. ClaimedForGood /\ TokensTell /\ SuccessSurvives /\ OneWalk
  BY DEF StoresIInv
<1>2. ListedOnce
  BY <1>1 DEF OneWalk, ListedOnce
<1> QED BY <1>1, <1>2 DEF StoresSound
=============================================================================
