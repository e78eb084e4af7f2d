--------------------------------- MODULE Auth ---------------------------------
(***************************************************************************)
(* The way of a request into webapp_cloud.start_repo_run: require_auth of  *)
(* ai_company/auth.py, with the client for the signing keys that all       *)
(* request threads share and replace without a lock, and then the rate     *)
(* limiter.                                                                *)
(*                                                                         *)
(* Abstracted: a key client is the time it was stored at, before which it  *)
(* serves nobody and holds no key: it fetches the keys for a request that  *)
(* was given it.  The token is accepted or not.  PyJWKClient and           *)
(* jwt.decode are external.  Without SUPABASE_URL every request is         *)
(* answered with a server error (28-29): here the variable is set.         *)
(***************************************************************************)
EXTENDS RateLimit

CONSTANT CacheSeconds    \* _JWKS_CACHE_SECONDS

ASSUME AuthAssumption == CacheSeconds \in Nat

VARIABLES client,    \* _jwks_client
          builtAt,   \* _jwks_client_built_at
          step,      \* where each request is in require_auth
          started,   \* the local variable now of _get_jwks_client
          used       \* the client it returned

authVars == <<client, builtAt, step, started, used>>
allVars == <<vars, authVars>>

Times == 0..MaxTime
NoClient == -1

AuthTypeOK ==
  /\ TypeOK
  /\ client \in Times \union {NoClient}
  /\ builtAt \in Times
  /\ step \in [Requests -> {"arrived", "check", "build", "stamp", "return", "verify",
                            "entered", "refused", "error500"}]
  /\ started \in [Requests -> Times]
  /\ used \in [Requests -> Times \union {NoClient}]

AuthInit ==
  /\ Init
  /\ client = NoClient
  /\ builtAt = 0
  /\ step = [r \in Requests |-> "arrived"]
  /\ started = [r \in Requests |-> 0]
  /\ used = [r \in Requests |-> NoClient]

Goto(r, s) == step' = [step EXCEPT ![r] = s]

\* verify_token: a header of the wrong form is refused, or now = time.time().
Arrive(r) ==
  /\ step[r] = "arrived"
  /\ \/ Goto(r, "refused") /\ UNCHANGED started
     \/ Goto(r, "check") /\ started' = [started EXCEPT ![r] = clock]
  /\ UNCHANGED <<vars, client, builtAt, used>>

\* A client that is set is never unset, so the two reads count as one.
Check(r) ==
  /\ step[r] = "check"
  /\ Goto(r, IF client = NoClient \/ started[r] - builtAt > CacheSeconds
             THEN "build" ELSE "return")
  /\ UNCHANGED <<vars, client, builtAt, started, used>>

\* Bug: the time is stored before the client.
RebuildStampFirst(r) ==
  /\ \/ step[r] = "build" /\ Goto(r, "stamp") /\ builtAt' = started[r] /\ UNCHANGED client
     \/ step[r] = "stamp" /\ Goto(r, "return") /\ client' = clock /\ UNCHANGED builtAt
  /\ UNCHANGED <<vars, started, used>>

\* The client is replaced, and after it the time, which is the time the thread
\* had read before; other threads come in between, and rebuild as well.  Making
\* the client and storing it are one step: nothing is fetched by making it.
Rebuild(r) ==
  /\ \/ step[r] = "build" /\ Goto(r, "stamp") /\ client' = clock /\ UNCHANGED builtAt
     \/ step[r] = "stamp" /\ Goto(r, "return") /\ builtAt' = started[r] /\ UNCHANGED client
  /\ UNCHANGED <<vars, started, used>>

\* return _jwks_client: the client of the moment, whoever built it.
Return(r) ==
  /\ step[r] = "return"
  /\ Goto(r, "verify")
  /\ used' = [used EXCEPT ![r] = client]
  /\ UNCHANGED <<vars, client, builtAt, started>>

\* The key is fetched and the token decoded: the request enters, is refused, or
\* is answered with a server error (also a token without "sub").
Verify(r) ==
  /\ step[r] = "verify"
  /\ \E s \in {"entered", "refused", "error500"} : Goto(r, s)
  /\ started' = [started EXCEPT ![r] = 0]
  /\ used' = [used EXCEPT ![r] = NoClient]
  /\ UNCHANGED <<vars, client, builtAt>>

\* The handler: only an authenticated request reaches the rate limiter.
Handle(r) ==
  /\ step[r] = "entered"
  /\ ReadClock(r) \/ CheckAndRecord(r)
  /\ UNCHANGED authVars

AuthOver ==
  \A r \in Requests : \/ step[r] \in {"refused", "error500"}
                      \/ phase[r] \in {"allowed", "denied"}

AuthTerminating == AuthOver /\ clock = MaxTime /\ UNCHANGED allVars

AuthNext ==
  \/ Tick /\ UNCHANGED authVars
  \/ \E r \in Requests : \/ Arrive(r) \/ Check(r) \/ Rebuild(r) \/ Return(r)
                         \/ Verify(r) \/ Handle(r)
  \/ AuthTerminating

AuthSpec == AuthInit /\ [][AuthNext]_allVars

------------------------------------------------------------------------------
(* Properties. *)

\* Although nothing locks the two globals, no request gets a missing client, nor
\* one that had been in use for longer than the cache time when it asked.
KeysAreFresh ==
  \A r \in Requests :
    step[r] = "verify" => used[r] # NoClient /\ used[r] >= started[r] - CacheSeconds
==============================================================================
