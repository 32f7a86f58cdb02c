---------------------------- MODULE HttpClientProofs ----------------------------
(***************************************************************************)
(* Proofs about concurrent requests on one client, for any number of       *)
(* calls, tokens, retries and lifetimes.                                   *)
(*                                                                         *)
(* IInv is inductive.  Its parts say what a token in a header, in the cache *)
(* or in an answer on its way has been through since a call's 401          *)
(* (TokensRenewed, ModesKept), how old it is (TokensDated), and how far    *)
(* the two loops of a call have counted (LoopsCounted).                    *)
(***************************************************************************)
EXTENDS HttpClient, TLAPS

\* Only the OAuth mode fetches tokens, and what it fetches is a token.
ModesKept ==
  \A c \in Calls : pc[c] \in {"fetching", "granted"} =>
    auth_mode = "oauth" /\ (pc[c] = "granted" => token[c] \in Tokens)

\* Since a call's 401 the cache holds, and the call's headers carry, only tokens
\* that were received after it.
TokensRenewed ==
  auth_mode = "oauth" =>
    \A c \in Calls : resumed[c] /\ pc[c] # "done" =>
      /\ cache.token \in renewed[c] \cup {NoToken}
      /\ pc[c] = "sending" => token[c] \in renewed[c]

\* The end of a token never moves once it is issued; the cached expiry is later
\* than that end by no more than the latency.
TokensDated ==
  /\ now # 0
  /\ \A c \in Calls : pc[c] = "granted" =>
       /\ expires[token[c]] >= answered_at[c]
       /\ expires[token[c]] # 0
       /\ now <= answered_at[c] + MaxLatency
  /\ auth_mode = "oauth" /\ cache.token # NoToken =>
       /\ expires[cache.token] # 0
       /\ cache.expires_at <= expires[cache.token] + MaxLatency

\* 1 when the request of the current attempt has been counted.
Counted(c) == IF pc[c] \in {"sending", "waiting", "done"} THEN 1 ELSE 0
Slept(c) == IF pc[c] = "waiting" THEN 1 ELSE 0

LoopsCounted ==
  \A c \in Calls :
    /\ pc[c] = "waiting" => attempt[c] < MaxRetries
    /\ pc[c] = "new" => ~resumed[c]
    /\ retry_on_401[c] => ~resumed[c]
    /\ ~resumed[c] =>
         /\ sent[c] <= attempt[c] + Counted(c)
         /\ resent[c] = 0
         /\ waits[c] <= attempt[c] + Slept(c)
    /\ resumed[c] =>
         /\ sent[c] <= MaxRetries + 1
         /\ resent[c] <= attempt[c] + Counted(c)
         /\ waits[c] <= MaxRetries + attempt[c] + Slept(c)

IInv ==
  /\ TypeOK
  /\ ModesKept
  /\ TokensRenewed
  /\ TokensDated
  /\ LoopsCounted

USE HttpAssumption, CacheAssumption

-----------------------------------------------------------------------------
(* Types *)

\* A client that has just been made.
LEMMA InitIInv == Init => IInv
  BY DEF Init, IInv, TypeOK, ModesKept, TokensRenewed, TokensDated, LoopsCounted,
         Counted, Slept, Cache, EmptyCache, Phase

\* The types of what _get_headers changes.
HeaderTypes ==
  /\ cache \in Cache(Tokens)
  /\ static_token \in {Static, NoToken}
  /\ pc \in [Calls -> Phase]
  /\ token \in [Calls -> Tokens \cup {Static, NoToken}]
  /\ sent \in [Calls -> Nat]
  /\ resent \in [Calls -> Nat]

\* _get_headers keeps the types of what it changes.
LEMMA HeadersType ==
  ASSUME TypeOK, NEW c \in Calls, NEW k \in Cache(Tokens), NEW s \in {Static, NoToken},
         GetHeaders(c, k, s)
  PROVE  HeaderTypes'
<1> USE DEF TypeOK, Phase, Send, Suspend, End, Cache
<1>1. Touch(k, now) \in Cache(Tokens)
  BY DEF Touch
<1>2. ASSUME NEW t \in Tokens \cup {Static, NoToken}, Send(c, t)
      PROVE  /\ pc' \in [Calls -> Phase]
             /\ token' \in [Calls -> Tokens \cup {Static, NoToken}]
             /\ sent' \in [Calls -> Nat]
             /\ resent' \in [Calls -> Nat]
  BY <1>2
<1>3. k.token \in Tokens \cup {Static, NoToken}
  OBVIOUS
<1>4. QED
  BY <1>1, <1>2, <1>3 DEF GetHeaders, HeaderTypes

\* Every step of a call, and the clock, keep the types.
LEMMA NextTypeOK ==
  TypeOK /\ LoopsCounted /\ ModesKept /\ TokensDated /\ [Next]_vars => TypeOK'
<1> SUFFICES ASSUME TypeOK, LoopsCounted, ModesKept, TokensDated, [Next]_vars PROVE TypeOK'
  OBVIOUS
<1> USE DEF TypeOK
<1>1. ASSUME NEW c \in Calls, Request(c) PROVE TypeOK'
  <2>1. GetHeaders(c, cache, static_token)
    BY <1>1 DEF Request
  <2>2. HeaderTypes'
    BY <2>1, HeadersType
  <2>3. QED
    BY <1>1, <2>2 DEF Request, HeaderTypes, server
<1>2. ASSUME NEW c \in Calls, Grant(c) PROVE TypeOK'
  BY <1>2 DEF Grant, Suspend, Phase
<1>3. ASSUME NEW c \in Calls, Fetched(c) PROVE TypeOK'
  <2>1. token[c] \in Tokens /\ expires[token[c]] - answered_at[c] \in Nat
    BY <1>3 DEF Fetched, ModesKept, TokensDated
  <2>2. QED
    BY <1>3, <2>1 DEF Fetched, Send, Suspend, Set, Cache, Phase, server
<1>4. ASSUME NEW c \in Calls, FetchFails(c) PROVE TypeOK'
  BY <1>4 DEF FetchFails, End, Phase, server
<1>5. ASSUME NEW c \in Calls, Answered(c) PROVE TypeOK'
  BY <1>5 DEF Answered, End, Phase, server
<1>6. ASSUME NEW c \in Calls, Unauthorized(c) PROVE TypeOK'
  <2>1. Invalidated(cache) \in Cache(Tokens)
    BY DEF Invalidated, EmptyCache, Cache
  <2>2. GetHeaders(c, Invalidated(cache), NoToken)
    BY <1>6 DEF Unauthorized
  <2>3. HeaderTypes'
    BY <2>1, <2>2, HeadersType
  <2>4. /\ retry_on_401' \in [Calls -> BOOLEAN]
        /\ resumed' \in [Calls -> BOOLEAN]
        /\ attempt' \in [Calls -> 0..MaxRetries]
    BY <1>6 DEF Unauthorized
  <2>5. QED
    BY <1>6, <2>3, <2>4 DEF Unauthorized, HeaderTypes, server
<1>7. ASSUME NEW c \in Calls, Busy(c) PROVE TypeOK'
  BY <1>7 DEF Busy, Suspend, Phase, server
<1>8. ASSUME NEW c \in Calls, Wake(c) PROVE TypeOK'
  <2>1. GetHeaders(c, cache, static_token)
    BY <1>8 DEF Wake
  <2>2. HeaderTypes'
    BY <2>1, HeadersType
  <2>3. attempt' \in [Calls -> 0..MaxRetries]
    BY <1>8 DEF Wake, LoopsCounted
  <2>4. QED
    BY <1>8, <2>2, <2>3 DEF Wake, HeaderTypes, server
<1>9. CASE Tick
  BY <1>9 DEF Tick, callvars, server
<1>10. CASE UNCHANGED vars
  BY <1>10 DEF vars, callvars, server
<1>11. QED
  BY <1>1, <1>2, <1>3, <1>4, <1>5, <1>6, <1>7, <1>8, <1>9, <1>10 DEF Next, Step

-----------------------------------------------------------------------------
(* The two loops *)

\* _get_headers counts a request exactly when it sends one.
LEMMA HeadersCount ==
  ASSUME TypeOK, NEW c \in Calls, NEW k, NEW s, GetHeaders(c, k, s)
  PROVE  /\ pc'[c] \in {"sending", "fetching", "done"}
         /\ \A d \in Calls \ {c} : pc'[d] = pc[d] /\ sent'[d] = sent[d] /\ resent'[d] = resent[d]
         /\ pc'[c] # "sending" => sent'[c] = sent[c] /\ resent'[c] = resent[c]
         /\ pc'[c] = "sending" =>
              /\ sent'[c] = IF resumed'[c] THEN sent[c] ELSE sent[c] + 1
              /\ resent'[c] = IF resumed'[c] THEN resent[c] + 1 ELSE resent[c]
  BY DEF GetHeaders, Send, Suspend, End, TypeOK

\* The counts of the loops grow with the attempts (_request).
LEMMA NextLoopsCounted == TypeOK /\ LoopsCounted /\ [Next]_vars => LoopsCounted'
<1> SUFFICES ASSUME TypeOK, LoopsCounted, [Next]_vars PROVE LoopsCounted'
  OBVIOUS
<1> USE DEF TypeOK, LoopsCounted, Counted, Slept
<1>1. ASSUME NEW c \in Calls, Request(c) PROVE LoopsCounted'
  <2>1. GetHeaders(c, cache, static_token)
    BY <1>1 DEF Request
  <2>2. QED
    BY <1>1, <2>1, HeadersCount DEF Request
<1>2. ASSUME NEW c \in Calls, Grant(c) PROVE LoopsCounted'
  BY <1>2 DEF Grant, Suspend
<1>3. ASSUME NEW c \in Calls, Fetched(c) PROVE LoopsCounted'
  BY <1>3 DEF Fetched, Send, Suspend
<1>4. ASSUME NEW c \in Calls, FetchFails(c) PROVE LoopsCounted'
  BY <1>4 DEF FetchFails, End
<1>5. ASSUME NEW c \in Calls, Answered(c) PROVE LoopsCounted'
  BY <1>5 DEF Answered, End
<1>6. ASSUME NEW c \in Calls, Unauthorized(c) PROVE LoopsCounted'
  <2>1. GetHeaders(c, Invalidated(cache), NoToken)
    BY <1>6 DEF Unauthorized
  <2>2. /\ retry_on_401' = [retry_on_401 EXCEPT ![c] = FALSE]
        /\ resumed' = [resumed EXCEPT ![c] = TRUE]
        /\ attempt' = [attempt EXCEPT ![c] = 0]
        /\ waits' = waits
    BY <1>6 DEF Unauthorized
  <2>3. /\ pc[c] = "sending" /\ retry_on_401[c] /\ ~resumed[c]
        /\ sent[c] <= MaxRetries + 1 /\ resent[c] = 0 /\ waits[c] <= MaxRetries
    BY <1>6 DEF Unauthorized
  <2>4. /\ pc'[c] \in {"sending", "fetching", "done"}
        /\ \A d \in Calls \ {c} : pc'[d] = pc[d] /\ sent'[d] = sent[d] /\ resent'[d] = resent[d]
        /\ sent'[c] = sent[c]
        /\ resent'[c] = IF pc'[c] = "sending" THEN resent[c] + 1 ELSE resent[c]
    BY <2>1, <2>2, HeadersCount
  <2>5. QED
    BY <2>2, <2>3, <2>4
<1>7. ASSUME NEW c \in Calls, Busy(c) PROVE LoopsCounted'
  BY <1>7 DEF Busy, Suspend
<1>8. ASSUME NEW c \in Calls, Wake(c) PROVE LoopsCounted'
  <2>1. GetHeaders(c, cache, static_token)
    BY <1>8 DEF Wake
  <2>2. QED
    BY <1>8, <2>1, HeadersCount DEF Wake
<1>9. CASE Tick
  BY <1>9 DEF Tick, callvars
<1>10. CASE UNCHANGED vars
  BY <1>10 DEF vars, callvars
<1>11. QED
  BY <1>1, <1>2, <1>3, <1>4, <1>5, <1>6, <1>7, <1>8, <1>9, <1>10 DEF Next, Step

-----------------------------------------------------------------------------
(* Where tokens can be *)

\* What the other parts of the invariant say about tokens.
TokenFacts == ModesKept /\ TokensRenewed /\ TokensDated

\* What _get_headers does with a cache k and a static token s: in the OAuth mode
\* a header carries the valid token of k.
LEMMA HeadersToken ==
  ASSUME TypeOK, NEW c \in Calls, NEW k \in Cache(Tokens), NEW s \in {Static, NoToken},
         GetHeaders(c, k, s)
  PROVE  /\ cache'.token = k.token /\ cache'.expires_at = k.expires_at
         /\ \A d \in Calls \ {c} : pc'[d] = pc[d] /\ token'[d] = token[d]
         /\ pc'[c] \in {"sending", "fetching", "done"}
         /\ pc'[c] = "fetching" => auth_mode = "oauth"
         /\ auth_mode = "oauth" /\ pc'[c] = "sending" =>
              token'[c] = k.token /\ k.token # NoToken
<1>1. Touch(k, now).token = k.token /\ Touch(k, now).expires_at = k.expires_at
  BY DEF Touch, Cache
<1>2. QED
  BY <1>1 DEF GetHeaders, Send, Suspend, End, TypeOK, IsValid

\* Every step keeps the facts: only an answer brings a token into the cache, and
\* it is one that every call waiting after its 401 counts as received.
LEMMA NextTokenFacts ==
  TypeOK /\ LoopsCounted /\ TokenFacts /\ [Next]_vars => TokenFacts'
<1> SUFFICES ASSUME TypeOK, LoopsCounted, TokenFacts, [Next]_vars PROVE TokenFacts'
  OBVIOUS
<1> USE DEF TypeOK, TokenFacts, ModesKept, TokensRenewed, TokensDated
<1>1. ASSUME NEW c \in Calls, Request(c) PROVE TokenFacts'
  <2>1. GetHeaders(c, cache, static_token)
    BY <1>1 DEF Request
  <2>2. ~resumed[c] /\ pc[c] = "new"
    BY <1>1 DEF Request, LoopsCounted
  <2>3. UNCHANGED <<auth_mode, now, resumed, renewed, answered_at, expires>>
    BY <1>1 DEF Request, server
  <2>4. QED
    BY <2>1, <2>2, <2>3, HeadersToken
<1>2. ASSUME NEW c \in Calls, Grant(c) PROVE TokenFacts'
  <2>1. /\ pc[c] = "fetching" /\ pc' = [pc EXCEPT ![c] = "granted"]
        /\ answered_at' = [answered_at EXCEPT ![c] = now]
        /\ UNCHANGED <<auth_mode, now, cache, resumed, renewed>>
    BY <1>2 DEF Grant, Suspend
  <2>2. PICK t \in Tokens :
          /\ token' = [token EXCEPT ![c] = t]
          /\ \/ /\ expires[t] = 0
                /\ \E expires_in \in Lifetimes :
                     expires' = [expires EXCEPT ![t] = now + expires_in]
             \/ expires[t] > now /\ UNCHANGED expires
    BY <1>2 DEF Grant
  <2>3. now \in Nat /\ now # 0 /\ \A u \in Tokens : expires[u] \in Nat
    OBVIOUS
  <2>4. /\ expires'[t] >= now /\ expires'[t] # 0
        /\ \A u \in Tokens : expires[u] # 0 => expires'[u] = expires[u]
    <3>1. CASE /\ expires[t] = 0
               /\ \E expires_in \in Lifetimes : expires' = [expires EXCEPT ![t] = now + expires_in]
      <4>1. PICK e \in Nat : expires' = [expires EXCEPT ![t] = now + e]
        BY <3>1
      <4>2. expires'[t] = now + e
        BY <4>1
      <4>3. QED
        BY <2>3, <3>1, <4>1, <4>2
    <3>2. CASE expires[t] > now /\ UNCHANGED expires
      BY <2>3, <3>2
    <3>3. QED
      BY <2>2, <3>1, <3>2
  <2>5. ModesKept' /\ TokensRenewed'
    BY <2>1, <2>2, <2>4
  <2>6. ASSUME NEW d \in Calls, pc'[d] = "granted"
        PROVE  /\ expires'[token'[d]] >= answered_at'[d]
               /\ expires'[token'[d]] # 0
               /\ now' <= answered_at'[d] + MaxLatency
    <3>1. CASE d = c
      BY <2>1, <2>2, <2>3, <2>4, <3>1
    <3>2. CASE d # c
      BY <2>1, <2>2, <2>4, <2>6, <3>2
    <3>3. QED
      BY <3>1, <3>2
  <2>7. auth_mode' = "oauth" /\ cache'.token # NoToken =>
          expires'[cache'.token] # 0 /\ cache'.expires_at <= expires'[cache'.token] + MaxLatency
    BY <2>1, <2>2, <2>4 DEF Cache
  <2>8. QED
    BY <2>1, <2>3, <2>5, <2>6, <2>7
<1>3. ASSUME NEW c \in Calls, Fetched(c) PROVE TokenFacts'
  <2>1. /\ pc[c] = "granted" /\ pc' = [pc EXCEPT ![c] = "sending"]
        /\ token' = [token EXCEPT ![c] = token[c]]
        /\ cache'.token = token[c]
        /\ cache'.expires_at = now + (expires[token[c]] - answered_at[c])
        /\ renewed' = [d \in Calls |-> IF resumed[d] /\ pc[d] # "done"
                                       THEN renewed[d] \cup {token[c]} ELSE renewed[d]]
        /\ answered_at' = [answered_at EXCEPT ![c] = 0]
        /\ UNCHANGED <<auth_mode, now, resumed, expires>>
    BY <1>3 DEF Fetched, Send, Suspend, Set
  <2>2. token[c] \in Tokens /\ now <= answered_at[c] + MaxLatency /\ expires[token[c]] # 0
    BY <2>1
  <2>3. ModesKept' /\ TokensRenewed'
    BY <2>1, <2>2
  <2>4. cache'.expires_at <= expires[token[c]] + MaxLatency
    BY <2>1, <2>2
  <2>5. QED
    BY <2>1, <2>2, <2>3, <2>4
<1>4. ASSUME NEW c \in Calls, FetchFails(c) PROVE TokenFacts'
  BY <1>4 DEF FetchFails, End
<1>5. ASSUME NEW c \in Calls, Answered(c) PROVE TokenFacts'
  BY <1>5 DEF Answered, End, server
<1>6. ASSUME NEW c \in Calls, Unauthorized(c) PROVE TokenFacts'
  <2>1. Invalidated(cache) \in Cache(Tokens) /\ Invalidated(cache).token = NoToken
    BY DEF Invalidated, EmptyCache, Cache
  <2>2. GetHeaders(c, Invalidated(cache), NoToken)
    BY <1>6 DEF Unauthorized
  <2>3. /\ UNCHANGED <<auth_mode, now, renewed, answered_at, expires>>
        /\ resumed' = [resumed EXCEPT ![c] = TRUE]
        /\ pc[c] = "sending"
    BY <1>6 DEF Unauthorized, server
  <2>4. /\ cache'.token = NoToken
        /\ \A d \in Calls \ {c} : pc'[d] = pc[d] /\ token'[d] = token[d]
        /\ pc'[c] \in {"sending", "fetching", "done"}
        /\ pc'[c] = "fetching" => auth_mode = "oauth"
        /\ auth_mode = "oauth" => pc'[c] # "sending"
    BY <2>1, <2>2, HeadersToken
  <2>5. QED
    BY <2>3, <2>4
<1>7. ASSUME NEW c \in Calls, Busy(c) PROVE TokenFacts'
  BY <1>7 DEF Busy, Suspend, server
<1>8. ASSUME NEW c \in Calls, Wake(c) PROVE TokenFacts'
  <2>1. GetHeaders(c, cache, static_token)
    BY <1>8 DEF Wake
  <2>2. pc[c] = "waiting" /\ UNCHANGED <<auth_mode, now, resumed, renewed, answered_at, expires>>
    BY <1>8 DEF Wake, server
  <2>3. QED
    BY <2>1, <2>2, HeadersToken
<1>9. CASE Tick
  BY <1>9 DEF Tick, callvars, server
<1>10. CASE UNCHANGED vars
  BY <1>10 DEF vars, callvars, server
<1>11. QED
  BY <1>1, <1>2, <1>3, <1>4, <1>5, <1>6, <1>7, <1>8, <1>9, <1>10 DEF Next, Step

-----------------------------------------------------------------------------
(* The theorems *)

\* The invariant is inductive.
LEMMA NextIInv == IInv /\ [Next]_vars => IInv'
<1> SUFFICES ASSUME IInv, [Next]_vars PROVE IInv'
  OBVIOUS
<1>1. TypeOK /\ LoopsCounted /\ ModesKept /\ TokensDated /\ TokenFacts
  BY DEF IInv, TokenFacts
<1>2. TypeOK'
  BY <1>1, NextTypeOK
<1>3. LoopsCounted'
  BY <1>1, NextLoopsCounted
<1>4. TokenFacts'
  BY <1>1, NextTokenFacts
<1>5. QED
  BY <1>2, <1>3, <1>4 DEF IInv, TokenFacts

\* The invariant holds in every reachable state.
LEMMA Invariant == Spec => []IInv
  BY InitIInv, NextIInv, PTL DEF Spec

\* The client's state always has its types.
THEOREM ClientTypeCorrect == Spec => []TypeOK
<1>1. IInv => TypeOK
  BY DEF IInv
<1>2. QED
  BY <1>1, Invariant, PTL

\* Every request of the retry after a 401 carries a token received after that
\* 401, however many calls share the cache and whatever tokens the server gives.
THEOREM RetriesRenewed == Spec => []RetryRenewed
<1>1. IInv => RetryRenewed
  BY DEF IInv, TokensRenewed, RetryRenewed
<1>2. QED
  BY <1>1, Invariant, PTL

\* A cached token that is_valid accepts is alive at the server, if an answer of
\* the token endpoint spends no longer on the wire than the expiry margin.
THEOREM CachedAlive == Spec => []CachedTokenAlive
<1>1. IInv => CachedTokenAlive
  <2> SUFFICES ASSUME IInv, auth_mode = "oauth", IsValid(cache, now)
               PROVE  now < expires[cache.token]
    BY DEF CachedTokenAlive
  <2>1. cache.token # NoToken /\ now < cache.expires_at - Margin
    BY DEF IsValid
  <2>2. cache.token \in Tokens /\ cache.expires_at \in Nat /\ now \in Nat
    BY <2>1 DEF IInv, TypeOK, Cache
  <2>3. expires[cache.token] \in Nat
    BY <2>2 DEF IInv, TypeOK
  <2>4. cache.expires_at <= expires[cache.token] + MaxLatency
    BY <2>1 DEF IInv, TokensDated
  <2>5. QED
    BY <2>1, <2>2, <2>3, <2>4
<1>2. QED
  BY <1>1, Invariant, PTL

\* The number of requests and sleeps of a call is bounded, for any MaxRetries.
THEOREM TrafficBounded == Spec => []SendsBounded
<1>1. IInv => SendsBounded
  <2> SUFFICES ASSUME IInv, NEW c \in Calls
               PROVE  /\ sent[c] <= MaxRetries + 1
                      /\ resent[c] <= MaxRetries + 1
                      /\ waits[c] <= 2 * MaxRetries
    BY DEF SendsBounded
  <2>1. /\ attempt[c] \in 0..MaxRetries /\ sent[c] \in Nat /\ resent[c] \in Nat /\ waits[c] \in Nat
        /\ pc[c] = "waiting" => attempt[c] < MaxRetries
    BY DEF IInv, TypeOK, LoopsCounted
  <2>2. Counted(c) \in 0..1 /\ Slept(c) \in 0..1 /\ attempt[c] + Slept(c) <= MaxRetries
    BY <2>1 DEF Counted, Slept
  <2>3. CASE resumed[c]
    <3>1. /\ sent[c] <= MaxRetries + 1
          /\ resent[c] <= attempt[c] + Counted(c)
          /\ waits[c] <= MaxRetries + attempt[c] + Slept(c)
      BY <2>3 DEF IInv, LoopsCounted
    <3>2. QED
      BY <2>1, <2>2, <3>1
  <2>4. CASE ~resumed[c]
    BY <2>1, <2>2, <2>4 DEF IInv, LoopsCounted
  <2>5. QED
    BY <2>3, <2>4
<1>2. QED
  BY <1>1, Invariant, PTL
=============================================================================
