---------------------------- MODULE ConfirmationGate ----------------------------
(***************************************************************************)
(* The human-in-the-loop gate of confirmation.py: a ConfirmationStore of   *)
(* pending tokens, shared by tool handlers that follow the two-call        *)
(* protocol of the module docstring (is_confirmed, then either             *)
(* pending_response, or the action followed by consume).                   *)
(*                                                                         *)
(* Every ConfirmationStore method holds the store's lock, so a method is   *)
(* one step; a handler interleaves with the others between two methods,    *)
(* and while it awaits its action.  A restart loses the in-memory store.   *)
(*                                                                         *)
(* An entry also stores the action and the summary it was issued for; no   *)
(* method reads them back, so they are left out: a token issued for one    *)
(* action confirms any other.                                              *)
(***************************************************************************)
EXTENDS Naturals, FiniteSets

CONSTANTS
  Handlers,   \* tool invocations that may be in flight at the same time
  Tokens,     \* the random strings secrets.token_hex may return
  NoToken,    \* confirmation_token=None
  TTL,        \* TOKEN_TTL_SECONDS, in ticks
  MaxTime     \* bound on the monotonic clock

ASSUME GateAssumption ==
  /\ NoToken \notin Tokens
  /\ TTL \in Nat
  /\ MaxTime \in Nat

VARIABLES
  hitl_disabled, \* _HITL_DISABLED, read from the environment at import
  now,           \* time.monotonic()
  pending,       \* the keys of _pending
  expires_at,    \* of the entry a token was issued with (read only while pending)
  issued,        \* history: tokens handed out, the ones a caller can know
  retired,       \* history: tokens consumed, or lost with the process
  pc,            \* what each handler is about to do
  token,         \* the confirmation_token of each handler's call
  completed      \* history: confirmed actions that succeeded, per token

store == <<pending, expires_at, issued, retired>>
vars == <<hitl_disabled, now, store, pc, token, completed>>

Phase == {"idle", "called", "asking", "issuing", "running", "ran"}

TypeOK ==
  /\ hitl_disabled \in BOOLEAN
  /\ now \in Nat
  /\ pending \subseteq issued
  /\ expires_at \in [Tokens -> Nat]
  /\ issued \subseteq Tokens
  /\ retired \subseteq issued
  /\ pc \in [Handlers -> Phase]
  /\ token \in [Handlers -> issued \cup {NoToken}]
  /\ completed \in [Tokens -> Nat]

Init ==
  /\ hitl_disabled \in BOOLEAN
  /\ now = 0
  /\ pending = {}
  /\ expires_at = [t \in Tokens |-> 0]
  /\ issued = {}
  /\ retired = {}
  /\ pc = [h \in Handlers |-> "idle"]
  /\ token = [h \in Handlers |-> NoToken]
  /\ completed = [t \in Tokens |-> 0]

-----------------------------------------------------------------------------
(* ConfirmationStore *)

Expired(t) == now > expires_at[t]

IsValid(t) == t \in pending /\ ~Expired(t)

\* is_valid drops the entry it finds expired.
IsValidDrops(t) == {u \in pending \cap {t} : Expired(u)}

\* Mutant of PurgeExpired: an off-by-one at the expiry.
Bug_PurgeEarly == {t \in pending : now < expires_at[t]}

PurgeExpired == {t \in pending : ~Expired(t)}

-----------------------------------------------------------------------------
(* Tool handlers *)

Goto(h, from, to) ==
  /\ pc[h] = from
  /\ pc' = [pc EXCEPT ![h] = to]

\* The handler returns or raises; its arguments are gone.
Return(h, from) ==
  /\ Goto(h, from, "idle")
  /\ token' = [token EXCEPT ![h] = NoToken]

\* Bound: enough tokens are left for the calls in flight to be answered.
TokensLeft ==
  Cardinality(issued) + Cardinality({h \in Handlers : pc[h] \in {"called", "asking", "issuing"}})
    < Cardinality(Tokens)

\* The client calls a tool, with no token or with one it was given before.
\* The tool checks the token (is_confirmed), or only asks for confirmation
\* (pending_response).
Call(h) ==
  /\ TokensLeft
  /\ \E phase \in {"called", "asking"} : Goto(h, "idle", phase)
  /\ \E t \in issued \cup {NoToken} : token' = [token EXCEPT ![h] = t]
  /\ UNCHANGED <<hitl_disabled, now, store, completed>>

\* Mutant of Confirmed: the presence of the token is enough.
Bug_ConfirmedByPresence(h) == hitl_disabled \/ token[h] \in pending

Confirmed(h) == hitl_disabled \/ IsValid(token[h])

\* is_confirmed answers True: the handler goes on with its action.
IsConfirmed(h) ==
  /\ Confirmed(h)
  /\ Goto(h, "called", "running")
  /\ UNCHANGED <<hitl_disabled, now, store, token, completed>>

\* is_confirmed answers False: the handler returns pending_response(...).
NotConfirmed(h) ==
  /\ ~Confirmed(h)
  /\ Goto(h, "called", "asking")
  /\ pending' = pending \ IsValidDrops(token[h])
  /\ UNCHANGED <<hitl_disabled, now, expires_at, issued, retired, token, completed>>

\* pending_response with a token that is still valid hands it out again.
ReuseToken(h) ==
  /\ IsValid(token[h])
  /\ Return(h, "asking")
  /\ UNCHANGED <<hitl_disabled, now, store, completed>>

\* pending_response without one goes on to issue a fresh token.
NeedToken(h) ==
  /\ ~IsValid(token[h])
  /\ Goto(h, "asking", "issuing")
  /\ pending' = pending \ IsValidDrops(token[h])
  /\ UNCHANGED <<hitl_disabled, now, expires_at, issued, retired, token, completed>>

\* store.issue, under the lock, and the awaiting_confirmation answer.
Issue(h) ==
  /\ Return(h, "issuing")
  /\ \E t \in Tokens \ issued :
       /\ pending' = PurgeExpired \cup {t}
       /\ expires_at' = [expires_at EXCEPT ![t] = now + TTL]
       /\ issued' = issued \cup {t}
  /\ UNCHANGED <<hitl_disabled, now, retired, completed>>

\* The awaited action returns.
Succeed(h) ==
  /\ Goto(h, "running", "ran")
  /\ completed' = [t \in Tokens |->
       IF t = token[h] /\ ~hitl_disabled THEN completed[t] + 1 ELSE completed[t]]
  /\ UNCHANGED <<hitl_disabled, now, store, token>>

\* Mutant of Fail: the handler tries again on an exception.
Bug_FailRetries(h) ==
  /\ Goto(h, "running", "called")
  /\ UNCHANGED <<hitl_disabled, now, store, token, completed>>

\* Mutant of Fail: the handler puts its token into the store again for the retry.
Bug_FailRestores(h) ==
  /\ Return(h, "running")
  /\ pending' = pending \cup ({token[h]} \ {NoToken})
  /\ UNCHANGED <<hitl_disabled, now, expires_at, issued, retired, completed>>

\* The awaited action raises: consume is not reached.
Fail(h) ==
  /\ Return(h, "running")
  /\ UNCHANGED <<hitl_disabled, now, store, completed>>

\* What gate.consume removes; it ignores what store.consume returns.
Consumed(h) == IF hitl_disabled THEN {} ELSE {token[h]} \ {NoToken}

Consume(h) ==
  /\ Return(h, "ran")
  /\ pending' = pending \ Consumed(h)
  /\ retired' = retired \cup Consumed(h)
  /\ UNCHANGED <<hitl_disabled, now, expires_at, issued, completed>>

Tick ==
  /\ now < MaxTime
  /\ now' = now + 1
  /\ UNCHANGED <<hitl_disabled, store, pc, token, completed>>

\* The server process restarts: the store and the calls in flight are gone.
Restart ==
  /\ pending' = {}
  /\ retired' = issued
  /\ pc' = [h \in Handlers |-> "idle"]
  /\ token' = [h \in Handlers |-> NoToken]
  /\ UNCHANGED <<hitl_disabled, now, expires_at, issued, completed>>

Step(h) ==
  \/ IsConfirmed(h)
  \/ NotConfirmed(h)
  \/ ReuseToken(h)
  \/ NeedToken(h)
  \/ Issue(h)
  \/ Succeed(h)
  \/ Fail(h)
  \/ Consume(h)

Next ==
  \/ \E h \in Handlers : Call(h) \/ Step(h)
  \/ Tick
  \/ Restart

Spec == Init /\ [][Next]_vars

\* The action a handler awaits returns or raises (its HTTP client has a
\* timeout), and a runnable handler is eventually scheduled.
FairSpec == Spec /\ \A h \in Handlers : WF_vars(Step(h))
-----------------------------------------------------------------------------
(* Properties *)

\* No confirmation is lost: a token that was handed out, is within its TTL,
\* and was neither consumed nor lost in a restart is still in the store.
\* Other handlers' purges and validity checks never take it away, and a
\* failed action leaves it for a retry.
LiveTokenKept ==
  \A t \in issued : t \notin retired /\ ~Expired(t) => t \in pending

\* A token that was consumed, or lost with the process, is never in the store
\* again, however issue, purge and consume of several handlers interleave.
RetiredStaysOut == pending \cap retired = {}

\* With the gate on, an action starts only under a token that was handed out
\* by an earlier answer, at most TTL ago, and whose action has not been
\* completed and consumed before.
RunsOnlyLiveTokens ==
  [][\A h \in Handlers :
       (pc[h] # "running" /\ pc'[h] = "running" /\ ~hitl_disabled) =>
         /\ token[h] \in issued \ retired
         /\ now <= expires_at[token[h]]
         /\ expires_at[token[h]] <= now + TTL]_vars

\* The validity of a token is never extended: presenting it again
\* (pending_response reuses it) does not renew its entry.
NeverExtended ==
  [][\A t \in issued : expires_at'[t] = expires_at[t]]_vars

\* Every tool call is answered: with a result, an error, or a confirmation
\* request.
EveryCallAnswered ==
  \A h \in Handlers : pc[h] # "idle" ~> pc[h] = "idle"

\* "Tokens are single-use": no token authorises two completed actions.  The
\* handler of the docstring consumes the token only after its await, so two
\* overlapping calls can both pass is_confirmed.
SingleUse == \A t \in Tokens : completed[t] <= 1
=============================================================================
