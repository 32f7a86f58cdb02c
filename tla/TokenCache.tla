------------------------------- MODULE TokenCache -------------------------------
(***************************************************************************)
(* The TokenCache of http_client.py as a value: a record of the three      *)
(* fields, and what each method makes of it at time now.  Methods do not   *)
(* await, so each of them is atomic on the event loop.                     *)
(***************************************************************************)
EXTENDS Integers

CONSTANTS
  NoToken,       \* _access_token is None
  Margin,        \* EXPIRY_MARGIN_SECONDS
  IdleTimeout    \* IDLE_TIMEOUT_SECONDS

ASSUME CacheAssumption == Margin \in Nat /\ IdleTimeout \in Nat

Cache(Tokens) == [token : Tokens \cup {NoToken}, expires_at : Nat, last_used_at : Nat]

EmptyCache == [token |-> NoToken, expires_at |-> 0, last_used_at |-> 0]

\* Mutant of IsValid: no renewal ahead of the expiry.
Bug_NoMargin(cache, now) ==
  /\ cache.token # NoToken
  /\ now < cache.expires_at
  /\ cache.last_used_at > 0 => now - cache.last_used_at <= IdleTimeout

\* is_valid: zero in last_used_at means never used.
IsValid(cache, now) ==
  /\ cache.token # NoToken
  /\ now < cache.expires_at - Margin
  /\ cache.last_used_at > 0 => now - cache.last_used_at <= IdleTimeout

\* _set, called by the fetcher.
Set(token, expires_in, now) ==
  [token |-> token, expires_at |-> now + expires_in, last_used_at |-> now]

\* get, when the cached token is valid.
Touch(cache, now) == [cache EXCEPT !.last_used_at = now]

\* Mutant of Invalidated: the idle timer is reset, the token stays.
Bug_InvalidateKeeps(cache) == [cache EXCEPT !.last_used_at = 0]

\* invalidate: force a renewal.
Invalidated(cache) == EmptyCache
=============================================================================
