----------------------------- MODULE Credentials -----------------------------
(***************************************************************************)
(* How the clients of one process come by their credentials: the access    *)
(* token that the Linear client caches (linearreconciler/client.go), the   *)
(* clients and token sources of repositories and the installation they     *)
(* are minted for (githubreconciler/client.go, app_tokensource.go), and    *)
(* the federated client of Anthropic (agents/anthropicauth).  Requests of  *)
(* the process share what is cached.  A behaviour is of one vendor.        *)
(*                                                                         *)
(* A tick is the 30 seconds that getToken keeps clear of the expiry.  All  *)
(* repositories are of one organization, thus of one installation.         *)
(***************************************************************************)
EXTENDS Integers, FiniteSets

CONSTANTS
  Requests,          \* what the process does at the same time
  Repos,             \* repositories of the organization
  maxTokenCacheTTL,  \* in ticks
  Lifetimes          \* what expires_in may say, in ticks

None == "none"

ASSUME CredentialsAssumption ==
  /\ maxTokenCacheTTL \in Nat \ {0} /\ Lifetimes \subseteq Nat
  /\ None \notin Requests

VARIABLES
  vendor,
  \* Linear
  token, left, age,  \* cached token: accepted or not, ticks to its expiry, ticks it is held
  \* GitHub
  sources, clients,  \* repo -> token source; the source its client was built on
  installed,         \* is the installation known?
  flight,            \* the requests that wait for one lookup, and who asked
  made,              \* history: sources built for a repo since the cache was cleared
  \* Anthropic
  source, shared,    \* where identity tokens come from; the memoized client
  access,            \* client -> does it hold an access token?
  presented,         \* was the identity token at hand exchanged before?
  replayed,          \* history: an identity token was presented twice
  \* all
  mu,                \* who holds the lock
  call               \* request -> what it does

linearTokenVars == <<token, left, age>>
githubVars == <<sources, clients, installed, flight, made>>
anthropicVars == <<source, shared, access, presented, replayed>>
credentialsVars == <<vendor, linearTokenVars, githubVars, anthropicVars, mu, call>>

NoCall == [at |-> "idle", what |-> None, repo |-> None, end |-> None]
NoFlight == [leader |-> None, members |-> {}]
Margin == 1

\* A tag for what each client of a request is: its own, or the shared one.
Instances == Requests \cup {"shared"}

\* ConfigFromEnv and NewClient: without a profile the backend is Vertex; a
\* profile that does not load, or lacks its identifiers, is an error.
Backend(env) ==
  IF ~env.profile THEN "vertex"
  ELSE IF ~env.loads \/ ~env.rule \/ ~env.organization THEN "error"
  ELSE "direct"

\* ResolveSource: one that is forced, else what the environment offers.
ResolveSource(env) ==
  IF env.forced # "auto" THEN env.forced
  ELSE IF env.actions THEN "github-actions"
  ELSE IF env.file THEN "file"
  ELSE "google"

\* What an environment that names a profile may lead to.
Environments == [profile : BOOLEAN, loads : BOOLEAN, rule : BOOLEAN, organization : BOOLEAN,
                 forced : {"auto", "file", "unknown"}, actions : BOOLEAN, file : BOOLEAN]

Sources == {ResolveSource(env) : env \in {e \in Environments : Backend(e) = "direct"}}

CredentialsInit ==
  /\ vendor \in {"linear", "github", "anthropic"}
  /\ token = None /\ left = 0 /\ age = 0
  /\ sources = [p \in Repos |-> 0] /\ clients = [p \in Repos |-> 0]
  /\ installed = FALSE /\ flight = NoFlight /\ made = [p \in Repos |-> 0]
  /\ source \in IF vendor = "anthropic" THEN Sources ELSE {"file"}
  /\ shared = FALSE /\ access = [i \in Instances |-> FALSE]
  /\ presented = FALSE /\ replayed = FALSE
  /\ mu = None /\ call = [r \in Requests |-> NoCall]

CredentialsTypeOK ==
  /\ token \in {None, "good", "dead"}
  /\ left \in -Margin .. maxTokenCacheTTL /\ age \in 0 .. maxTokenCacheTTL
  /\ sources \in [Repos -> Nat] /\ clients \in [Repos -> Nat] /\ installed \in BOOLEAN
  /\ flight.members \subseteq Requests /\ flight.leader \in Requests \cup {None}
  /\ shared \in BOOLEAN /\ access \in [Instances -> BOOLEAN]
  /\ presented \in BOOLEAN /\ replayed \in BOOLEAN
  /\ mu \in Requests \cup {None}
  /\ \A r \in Requests :
       call[r].at \in {"idle", "lock", "mint", "lookup", "fetch", "build", "exchange"}

\* The request r goes to at, or ends as end.
Goes(r, at) == call' = [call EXCEPT ![r].at = at]
EndsAs(r, end) == call' = [call EXCEPT ![r] = [NoCall EXCEPT !.end = end]]

-----------------------------------------------------------------------------
(* The access token of Linear.                                             *)

Cached == token # None /\ left > 0

\* Mutated form of CacheLife: what the server advertises is believed.
AdvertisedLife(advertised) == advertised - Margin

\* min(expires_in, maxTokenCacheTTL) - 30s.
CacheLife(advertised) ==
  (IF advertised < maxTokenCacheTTL THEN advertised ELSE maxTokenCacheTTL) - Margin

\* graphql and FetchAttachmentContent with the cached token.  A 401 does not
\* drop it.
UseToken(r) ==
  /\ mu = None /\ Cached
  /\ EndsAs(r, IF token = "good" THEN "served" ELSE "rejected")
  /\ UNCHANGED <<linearTokenVars, mu>>

\* The lock is held while the token endpoint is asked.
StartMint(r) ==
  /\ mu = None /\ ~Cached /\ mu' = r /\ Goes(r, "mint") /\ UNCHANGED linearTokenVars

Minted(r) ==
  /\ call[r].at = "mint" /\ mu' = None
  /\ \/ /\ \E advertised \in Lifetimes : left' = CacheLife(advertised)
        /\ token' = "good" /\ age' = 0 /\ EndsAs(r, "served")
     \/ EndsAs(r, "failed") /\ UNCHANGED linearTokenVars

\* The server drops a token long before it said it would.
Revoke == token = "good" /\ token' = "dead" /\ UNCHANGED <<left, age, mu, call>>

TokenTick ==
  /\ token # None /\ (left > 0 \/ age < maxTokenCacheTTL)
  /\ left' = IF left > 0 THEN left - 1 ELSE left
  /\ age' = IF age < maxTokenCacheTTL THEN age + 1 ELSE age
  /\ UNCHANGED <<token, mu, call>>

AsksLinear(r) == (call[r].at = "idle" /\ (UseToken(r) \/ StartMint(r))) \/ Minted(r)

LinearNext == (\E r \in Requests : AsksLinear(r)) \/ Revoke \/ TokenTick

-----------------------------------------------------------------------------
(* Clients and token sources of repositories.                              *)

\* What serves the request from the cache, 0 for nothing.
Held(r) ==
  IF call[r].what = "client" THEN clients[call[r].repo] ELSE sources[call[r].repo]

\* Get and TokenSourceFor look with the read lock first.
Call(r) ==
  /\ call[r].at = "idle" /\ mu = None
  /\ \E what \in {"client", "source"}, p \in Repos :
       LET hit == (IF what = "client" THEN clients ELSE sources)[p] # 0 IN
       call' = [call EXCEPT ![r] = [at |-> IF hit THEN "idle" ELSE "lock", what |-> what,
                                    repo |-> p, end |-> IF hit THEN "served" ELSE None]]
  /\ UNCHANGED <<githubVars, mu>>

\* LookupInstallID is also called as such.
CallLookup(r) ==
  /\ call[r].at = "idle"
  /\ call' = [call EXCEPT ![r] = [NoCall EXCEPT !.at = "lookup", !.what = "install"]]
  /\ UNCHANGED <<githubVars, mu>>

\* With the write lock they look again; a client is built on a source there is.
Lock(r) ==
  /\ call[r].at = "lock" /\ mu = None
  /\ LET p == call[r].repo IN
     IF Held(r) # 0 THEN EndsAs(r, "served") /\ UNCHANGED <<githubVars, mu>>
     ELSE IF sources[p] # 0
       THEN /\ clients' = [clients EXCEPT ![p] = sources[p]] /\ EndsAs(r, "served")
            /\ UNCHANGED <<sources, installed, flight, made, mu>>
     ELSE mu' = r /\ Goes(r, "lookup") /\ UNCHANGED githubVars

\* A lookup in flight is joined.
LookupInstallID(r) ==
  /\ call[r].at = "lookup"
  /\ IF installed THEN Goes(r, "build") /\ UNCHANGED flight
     ELSE /\ Goes(r, "fetch")
          /\ flight' = [leader |-> IF flight.leader = None THEN r ELSE flight.leader,
                        members |-> flight.members \cup {r}]
  /\ UNCHANGED <<sources, clients, installed, made, mu>>

\* The lookup ends for all that wait for it, and a failed one gives the lock back.
LookupEnds(ok) ==
  /\ call' = [r \in Requests |->
                IF r \notin flight.members THEN call[r]
                ELSE IF ok THEN [call[r] EXCEPT !.at = "build"]
                ELSE [NoCall EXCEPT !.end = "failed"]]
  /\ installed' = ok /\ flight' = NoFlight
  /\ mu' = IF ~ok /\ mu \in flight.members THEN None ELSE mu
  /\ UNCHANGED <<sources, clients, made>>

LookupAnswered == flight.leader # None /\ \E ok \in BOOLEAN : LookupEnds(ok)

\* The caller that leads a lookup gives up: its request ends for everyone.  Only
\* a direct caller's context is used; sources are built with one of their own.
LeaderCanceled ==
  /\ flight.leader # None /\ call[flight.leader].what = "install" /\ LookupEnds(FALSE)

\* The source captures no request's context, and is kept.
Build(r) ==
  /\ call[r].at = "build" /\ EndsAs(r, "served")
  /\ IF call[r].what = "install" THEN UNCHANGED <<sources, clients, made, mu>>
     ELSE LET p == call[r].repo IN
          /\ sources' = [sources EXCEPT ![p] = made[p] + 1]
          /\ clients' = IF call[r].what = "client" THEN [clients EXCEPT ![p] = made[p] + 1]
                        ELSE clients
          /\ made' = [made EXCEPT ![p] = @ + 1]
          /\ mu' = None
  /\ UNCHANGED <<installed, flight>>

Clear ==
  /\ mu = None
  /\ sources' = [p \in Repos |-> 0] /\ clients' = [p \in Repos |-> 0]
  /\ made' = [p \in Repos |-> 0] /\ UNCHANGED <<installed, flight, mu, call>>

GoesOnGitHub(r) == Lock(r) \/ LookupInstallID(r) \/ Build(r)

\* Who holds the lock goes on.
HolderGoesOn ==
  \E r \in Requests :
    mu = r /\ (LookupInstallID(r) \/ Build(r) \/ (r \in flight.members /\ LookupAnswered))

GitHubNext ==
  \/ \E r \in Requests : Call(r) \/ CallLookup(r) \/ GoesOnGitHub(r)
  \/ LookupAnswered \/ LeaderCanceled \/ Clear

-----------------------------------------------------------------------------
(* The federated client of Anthropic.                                      *)

\* One client for all that have the same configuration.
federationClient(r) == "shared"

\* NewClient, and a request of its client.  An unknown source makes a client
\* that cannot be used, and is not kept.
UseClaude(r) ==
  /\ call[r].at = "idle"
  /\ IF source = "unknown" THEN EndsAs(r, "failed") /\ UNCHANGED anthropicVars
     ELSE /\ shared' = TRUE
          /\ IF access[federationClient(r)] THEN EndsAs(r, "served") ELSE Goes(r, "exchange")
          /\ UNCHANGED <<source, access, presented, replayed>>
  /\ UNCHANGED mu

\* The runner makes a new identity token for each exchange; a file and the token
\* source of Google hold one.
Replays == presented /\ source # "github-actions"

\* The SDK exchanges an identity token for an access token, one request of a
\* client at a time; the next finds it.  One presented before is refused.
Exchange(r) ==
  /\ call[r].at = "exchange"
  /\ LET i == federationClient(r) IN
     \/ access[i] /\ EndsAs(r, "served") /\ UNCHANGED <<access, presented, replayed>>
     \/ /\ ~access[i]
        /\ access' = [access EXCEPT ![i] = ~Replays]
        /\ EndsAs(r, IF Replays THEN "rejected" ELSE "served")
        /\ presented' = TRUE /\ replayed' = (replayed \/ Replays)
     \/ EndsAs(r, "failed") /\ UNCHANGED <<access, presented, replayed>>  \* none to present
  /\ UNCHANGED <<source, shared, mu>>

\* An access token expires.  By then a file was rewritten, and Google's source has
\* refreshed its token.
Expire ==
  /\ \E i \in Instances : access[i]
  /\ access' = [i \in Instances |-> FALSE] /\ presented' = (source = "github-actions")
  /\ UNCHANGED <<source, shared, replayed, mu, call>>

AnthropicNext == (\E r \in Requests : UseClaude(r) \/ Exchange(r)) \/ Expire

-----------------------------------------------------------------------------

TokenAges ==
  vendor = "linear" /\ TokenTick /\ UNCHANGED <<vendor, githubVars, anthropicVars>>
HolderActs ==
  vendor = "github" /\ HolderGoesOn /\ UNCHANGED <<vendor, linearTokenVars, anthropicVars>>

CredentialsNext ==
  /\ UNCHANGED vendor
  /\ \/ vendor = "linear" /\ LinearNext /\ UNCHANGED <<githubVars, anthropicVars>>
     \/ vendor = "github" /\ GitHubNext /\ UNCHANGED <<linearTokenVars, anthropicVars>>
     \/ vendor = "anthropic" /\ AnthropicNext /\ UNCHANGED <<linearTokenVars, githubVars>>

\* No token is trusted longer than the cap, however long the server says it lasts.
OutageBounded == left > 0 => age + left <= maxTokenCacheTTL - Margin

\* The cache of a repository stays one: its client is built on its token source,
\* and between two clears no second source is made, however requests overlap.
OneSource ==
  \A p \in Repos : made[p] <= 1 /\ (clients[p] # 0 => clients[p] = sources[p])

\* An identity token is presented once: also where two agents of one process
\* start at the same time.
PresentedOnce == ~replayed

CredentialsSound == OutageBounded /\ OneSource /\ PresentedOnce

\* Access is blocked by a token that the server dropped, or by the lock of a
\* request whose lookup failed or was given up by another.
Blocked == (token = "dead" /\ left > 0) \/ (vendor = "github" /\ mu # None)

=============================================================================
