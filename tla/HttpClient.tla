------------------------------- MODULE HttpClient -------------------------------
(***************************************************************************)
(* Concurrent calls of BaseEInvoicingClient.request (http_client.py) on    *)
(* one client instance: bearer tokens from a shared TokenCache, one retry  *)
(* after a 401, and backed-off retries after a 429 or a 503.               *)
(*                                                                         *)
(* Calls are tasks of one event loop, so a step is the code between two    *)
(* awaits that really suspend: the token request, the API request, and the *)
(* sleep before a retry.  The recursive call after a 401 does not suspend  *)
(* before its own token request, so it starts in the step that reads the   *)
(* 401.  The authorisation server and the platform answer as they like: a  *)
(* token that is asked for may be one that was given before, because the   *)
(* server repeats it while it lives, or because a JWS is minted twice in   *)
(* one second from the same claims.                                        *)
(***************************************************************************)
EXTENDS TokenCache, FiniteSets

CONSTANTS
  Calls,         \* calls of request(), each made once
  Tokens,        \* access tokens the authorisation server may issue, or JWS minted
  Static,        \* static_bearer_token
  MaxRetries,    \* max_retries
  Lifetimes,     \* values of expires_in
  MaxLatency,    \* ticks a token response may spend on the wire
  MaxTime        \* bound on the monotonic clock

ASSUME HttpAssumption ==
  /\ NoToken \notin Tokens \cup {Static}
  /\ Static \notin Tokens
  /\ MaxRetries \in Nat
  /\ Lifetimes \subseteq Nat
  /\ MaxLatency \in Nat /\ MaxLatency <= Margin
  /\ MaxTime \in Nat

VARIABLES
  auth_mode,       \* "oauth" (or JWS), "bearer", or "other" (mTLS, API key, none)
  now,             \* time.monotonic()
  cache,           \* _token_cache
  static_token,    \* _static_token: Static, or NoToken after a 401
  pc,              \* where each call is suspended
  attempt,         \* its loop index
  retry_on_401,    \* its parameter, FALSE in the recursive call
  token,           \* the token it was granted, or put in its last header
  resumed,         \* history: it has entered the recursive call
  renewed,         \* history: tokens that arrived since its 401
  sent,            \* history: API requests it sent in the loop it started with
  resent,          \* history: API requests it sent in the loop of the recursive call
  waits,           \* history: how often it slept because of a 429 or a 503
  answered_at,     \* when the token response that is on its way to a call was sent, 0 if none
  expires          \* when each token ends at the server, 0 for one it has not issued

callvars == <<pc, attempt, retry_on_401, token, resumed, renewed, sent, resent, waits>>
server == <<answered_at, expires>>
vars == <<auth_mode, now, cache, static_token, callvars, server>>

Phase == {"new", "fetching", "granted", "sending", "waiting", "done"}

TypeOK ==
  /\ auth_mode \in {"oauth", "bearer", "other"}
  /\ now \in Nat
  /\ cache \in Cache(Tokens)
  /\ static_token \in {Static, NoToken}
  /\ pc \in [Calls -> Phase]
  /\ attempt \in [Calls -> 0..MaxRetries]
  /\ retry_on_401 \in [Calls -> BOOLEAN]
  /\ token \in [Calls -> Tokens \cup {Static, NoToken}]
  /\ resumed \in [Calls -> BOOLEAN]
  /\ renewed \in [Calls -> SUBSET Tokens]
  /\ sent \in [Calls -> Nat]
  /\ resent \in [Calls -> Nat]
  /\ waits \in [Calls -> Nat]
  /\ answered_at \in [Calls -> Nat]
  /\ expires \in [Tokens -> Nat]

\* monotonic() is positive when the process starts: 0 means "never used".
Init ==
  /\ auth_mode \in {"oauth", "bearer", "other"}
  /\ now = 1
  /\ cache = EmptyCache
  /\ static_token = Static
  /\ pc = [c \in Calls |-> "new"]
  /\ attempt = [c \in Calls |-> 0]
  /\ retry_on_401 \in [Calls -> BOOLEAN]
  /\ token = [c \in Calls |-> NoToken]
  /\ resumed = [c \in Calls |-> FALSE]
  /\ renewed = [c \in Calls |-> {}]
  /\ sent = [c \in Calls |-> 0]
  /\ resent = [c \in Calls |-> 0]
  /\ waits = [c \in Calls |-> 0]
  /\ answered_at = [c \in Calls |-> 0]
  /\ expires = [t \in Tokens |-> 0]

-----------------------------------------------------------------------------
Suspend(c, phase) == pc' = [pc EXCEPT ![c] = phase]

\* The call returns or raises: its headers are gone.
End(c) ==
  /\ pc' = [pc EXCEPT ![c] = "done"]
  /\ token' = [token EXCEPT ![c] = NoToken]

\* client.request(...) with the header that carries t, in the loop that the
\* step is in or begins.
Send(c, t) ==
  /\ Suspend(c, "sending")
  /\ token' = [token EXCEPT ![c] = t]
  /\ sent' = [sent EXCEPT ![c] = IF resumed'[c] THEN @ ELSE @ + 1]
  /\ resent' = [resent EXCEPT ![c] = IF resumed'[c] THEN @ + 1 ELSE @]

\* _get_headers, and the request itself if the header needs no token request.
\* k and s are the cache and the static token as the code finds them here.
GetHeaders(c, k, s) ==
  \/ /\ auth_mode = "oauth" /\ IsValid(k, now)
     /\ Send(c, k.token)
     /\ cache' = Touch(k, now)
     /\ static_token' = s
  \/ /\ auth_mode = "oauth" /\ ~IsValid(k, now)
     /\ Suspend(c, "fetching")
     /\ cache' = k
     /\ static_token' = s
     /\ UNCHANGED <<token, sent, resent>>
  \/ /\ auth_mode = "bearer" /\ s # NoToken
     /\ Send(c, s)
     /\ cache' = k
     /\ static_token' = s
  \/ /\ auth_mode = "bearer" /\ s = NoToken     \* "static_bearer_token is not set"
     /\ End(c)
     /\ cache' = k
     /\ static_token' = s
     /\ UNCHANGED <<sent, resent>>
  \/ /\ auth_mode = "other"
     /\ Send(c, NoToken)
     /\ cache' = k
     /\ static_token' = s

Request(c) ==
  /\ pc[c] = "new"
  /\ UNCHANGED <<auth_mode, now, attempt, retry_on_401, resumed, renewed, waits, server>>
  /\ GetHeaders(c, cache, static_token)

\* The answer of the authorisation server, or of the signer of a JWS: a new
\* token, or one it gave before, to any call, that has not expired.
Grant(c) ==
  /\ pc[c] = "fetching"
  /\ \E t \in Tokens :
       /\ token' = [token EXCEPT ![c] = t]
       /\ \/ /\ expires[t] = 0
             /\ \E expires_in \in Lifetimes : expires' = [expires EXCEPT ![t] = now + expires_in]
          \/ expires[t] > now /\ UNCHANGED expires
  /\ answered_at' = [answered_at EXCEPT ![c] = now]
  /\ Suspend(c, "granted")
  /\ UNCHANGED <<auth_mode, now, cache, static_token, attempt, retry_on_401,
                 resumed, renewed, sent, resent, waits>>

\* The answer arrives: _fetch_oauth_token stores the token with the expires_in
\* of the answer (JWS: _get_bearer_token, with ttl_seconds), whatever the cache
\* holds by now, and the request goes out with it.
Fetched(c) ==
  /\ pc[c] = "granted"
  /\ cache' = Set(token[c], expires[token[c]] - answered_at[c], now)
  /\ renewed' = [d \in Calls |-> IF resumed[d] /\ pc[d] # "done"
                                 THEN renewed[d] \cup {token[c]} ELSE renewed[d]]
  /\ answered_at' = [answered_at EXCEPT ![c] = 0]
  /\ UNCHANGED <<auth_mode, now, static_token, attempt, retry_on_401, resumed, waits, expires>>
  /\ Send(c, token[c])

\* The token request fails: a status error, no access_token, no connection, or
\* an answer that is lost on its way.
FetchFails(c) ==
  /\ pc[c] \in {"fetching", "granted"}
  /\ End(c)
  /\ answered_at' = [answered_at EXCEPT ![c] = 0]
  /\ UNCHANGED <<auth_mode, now, cache, static_token, attempt, retry_on_401,
                 resumed, renewed, sent, resent, waits, expires>>

\* Mutant of Unauthorized: the recursive call may retry again.
Bug_UnauthorizedAgain(c) ==
  /\ pc[c] = "sending" /\ retry_on_401[c]
  /\ resumed' = [resumed EXCEPT ![c] = TRUE]
  /\ attempt' = [attempt EXCEPT ![c] = 0]
  /\ GetHeaders(c, Invalidated(cache), NoToken)
  /\ UNCHANGED <<auth_mode, now, retry_on_401, renewed, waits, server>>

\* 401: invalidate_token, whoever stored what the cache holds now, and the
\* recursive call with a loop of its own.
Unauthorized(c) ==
  /\ pc[c] = "sending" /\ retry_on_401[c]
  /\ retry_on_401' = [retry_on_401 EXCEPT ![c] = FALSE]
  /\ resumed' = [resumed EXCEPT ![c] = TRUE]
  /\ attempt' = [attempt EXCEPT ![c] = 0]
  /\ GetHeaders(c, Invalidated(cache), NoToken)
  /\ UNCHANGED <<auth_mode, now, renewed, waits, server>>

\* 429 or 503 with retries left: sleep.
Busy(c) ==
  /\ pc[c] = "sending" /\ attempt[c] < MaxRetries
  /\ Suspend(c, "waiting")
  /\ waits' = [waits EXCEPT ![c] = @ + 1]
  /\ UNCHANGED <<auth_mode, now, cache, static_token, attempt, retry_on_401,
                 token, resumed, renewed, sent, resent, server>>

\* Mutant of Wake: the task waits until some call has filled the cache.
Bug_WakeNeedsToken(c) ==
  /\ pc[c] = "waiting" /\ IsValid(cache, now)
  /\ attempt' = [attempt EXCEPT ![c] = @ + 1]
  /\ UNCHANGED <<auth_mode, now, retry_on_401, resumed, renewed, waits, server>>
  /\ GetHeaders(c, cache, static_token)

Wake(c) ==
  /\ pc[c] = "waiting"
  /\ attempt' = [attempt EXCEPT ![c] = @ + 1]
  /\ UNCHANGED <<auth_mode, now, retry_on_401, resumed, renewed, waits, server>>
  /\ GetHeaders(c, cache, static_token)

\* Success, an error that is not retried, a 401 in the recursive call, a 429 or
\* 503 out of retries, or a transport error: the call returns or raises.
Answered(c) ==
  /\ pc[c] = "sending"
  /\ End(c)
  /\ UNCHANGED <<auth_mode, now, cache, static_token, attempt, retry_on_401,
                 resumed, renewed, sent, resent, waits, server>>

\* Environment: a granted token is on the wire for at most MaxLatency.
Tick ==
  /\ now < MaxTime
  /\ \A c \in Calls : pc[c] = "granted" => now < answered_at[c] + MaxLatency
  /\ now' = now + 1
  /\ UNCHANGED <<auth_mode, cache, static_token, callvars, server>>

Step(c) ==
  \/ Request(c)
  \/ Grant(c) \/ Fetched(c) \/ FetchFails(c)
  \/ Unauthorized(c) \/ Busy(c) \/ Answered(c)
  \/ Wake(c)

Next == (\E c \in Calls : Step(c)) \/ Tick

Spec == Init /\ [][Next]_vars

\* Every server answers, or the call times out (http_timeout), a sleeping task
\* wakes up, and a runnable one is scheduled.
FairSpec == Spec /\ \A c \in Calls : WF_vars(Step(c))
-----------------------------------------------------------------------------
(* Properties *)

\* After a 401 every request of the retry, its backed-off repetitions included,
\* carries a token that was received after that 401: neither what the cache held
\* before it nor a header that was built before it is used again.  (The token
\* may be the rejected one, if the server gives that one again.)
RetryRenewed ==
  auth_mode = "oauth" =>
    \A c \in Calls : resumed[c] /\ pc[c] = "sending" => token[c] \in renewed[c]

\* A cached token is still alive at the server when a header is built from it,
\* although the cache dates its expiry from the answer's arrival: the margin
\* absorbs the latency.
CachedTokenAlive ==
  auth_mode = "oauth" /\ IsValid(cache, now) =>
    now < expires[cache.token]

\* One call sends at most MaxRetries + 1 requests in the loop it starts with
\* and as many in the loop of the retry, and only sleeps to send again.
SendsBounded ==
  \A c \in Calls :
    /\ sent[c] <= MaxRetries + 1
    /\ resent[c] <= MaxRetries + 1
    /\ waits[c] <= 2 * MaxRetries

\* Every call ends (and stays so: all of them have, in the end).
EveryCallEnds == <>(\A c \in Calls : pc[c] = "done")

\* "401: invalidates the token cache and retries exactly once": violated for a
\* static bearer token, which invalidate_token drops, so that the retry (and
\* every later call) fails before it is sent.
BearerRetriedOnce ==
  \A c \in Calls :
    auth_mode = "bearer" /\ resumed[c] /\ pc[c] = "done" => resent[c] > 0
=============================================================================
