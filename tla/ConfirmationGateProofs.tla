------------------------- MODULE ConfirmationGateProofs -------------------------
(***************************************************************************)
(* Proofs about the confirmation gate, for any number of handlers, tokens, *)
(* any TTL and any bound on the clock.                                     *)
(*                                                                         *)
(* IInv is inductive.  RetiredStaysOut needs retired \subseteq issued (a   *)
(* fresh token was never retired), LiveTokenKept needs that purges and     *)
(* validity checks drop expired tokens only, and the age bound of          *)
(* RunsOnlyLiveTokens needs DatedAtIssue.                                  *)
(***************************************************************************)
EXTENDS ConfirmationGateRefinement, TLAPS

\* No entry outlives a full TTL from now: an entry is dated once, at issue.
DatedAtIssue == \A t \in issued : expires_at[t] <= now + TTL

IInv == TypeOK /\ RetiredStaysOut /\ LiveTokenKept /\ DatedAtIssue

USE GateAssumption

\* Initially no token exists, and every part of the invariant holds (the
\* state of a new ConfirmationStore).
LEMMA InitIInv == Init => IInv
  BY DEF Init, IInv, TypeOK, Phase, RetiredStaysOut, LiveTokenKept, DatedAtIssue

\* Every step of the store and of its handlers preserves the types
\* (confirmation.py, all of ConfirmationStore and ConfirmationGate).
LEMMA NextTypeOK == TypeOK /\ [Next]_vars => TypeOK'
<1> SUFFICES ASSUME TypeOK, [Next]_vars PROVE TypeOK'
  OBVIOUS
<1> USE DEF TypeOK, Phase, Goto, Return, store
<1>1. ASSUME NEW h \in Handlers, Call(h) PROVE TypeOK'
  BY <1>1 DEF Call
<1>2. ASSUME NEW h \in Handlers, IsConfirmed(h) PROVE TypeOK'
  BY <1>2 DEF IsConfirmed
<1>3. ASSUME NEW h \in Handlers, NotConfirmed(h) PROVE TypeOK'
  BY <1>3 DEF NotConfirmed
<1>4. ASSUME NEW h \in Handlers, ReuseToken(h) PROVE TypeOK'
  BY <1>4 DEF ReuseToken
<1>5. ASSUME NEW h \in Handlers, NeedToken(h) PROVE TypeOK'
  BY <1>5 DEF NeedToken
<1>6. ASSUME NEW h \in Handlers, Issue(h) PROVE TypeOK'
  BY <1>6 DEF Issue, PurgeExpired
<1>7. ASSUME NEW h \in Handlers, Succeed(h) PROVE TypeOK'
  BY <1>7 DEF Succeed
<1>8. ASSUME NEW h \in Handlers, Fail(h) PROVE TypeOK'
  BY <1>8 DEF Fail
<1>9. ASSUME NEW h \in Handlers, Consume(h) PROVE TypeOK'
  <2>1. Consumed(h) \subseteq issued
    BY DEF Consumed
  <2>2. QED
    BY <1>9, <2>1 DEF Consume
<1>10. CASE Tick
  BY <1>10 DEF Tick
<1>11. CASE Restart
  BY <1>11 DEF Restart
<1>12. CASE UNCHANGED vars
  BY <1>12 DEF vars
<1>13. QED
  BY <1>1, <1>2, <1>3, <1>4, <1>5, <1>6, <1>7, <1>8, <1>9, <1>10, <1>11, <1>12 DEF Next, Step

\* The gate's state always has its types.
THEOREM TypeCorrect == Spec => []TypeOK
<1>1. Init => TypeOK
  BY InitIInv DEF IInv
<1>2. QED
  BY <1>1, NextTypeOK, PTL DEF Spec

-----------------------------------------------------------------------------
\* Every step preserves the three facts about the store, given the types.
LEMMA NextIInv == IInv /\ [Next]_vars => IInv'
<1> SUFFICES ASSUME IInv, [Next]_vars PROVE IInv'
  OBVIOUS
<1>0. TypeOK'
  BY NextTypeOK DEF IInv
<1> DEFINE Facts == RetiredStaysOut /\ LiveTokenKept /\ DatedAtIssue
<1> SUFFICES Facts'
  BY <1>0 DEF IInv
<1> USE DEF IInv, RetiredStaysOut, LiveTokenKept, DatedAtIssue, TypeOK, Expired, store
<1>1. ASSUME NEW h \in Handlers, Call(h) PROVE Facts'
  BY <1>1 DEF Call
<1>2. ASSUME NEW h \in Handlers, IsConfirmed(h) PROVE Facts'
  BY <1>2 DEF IsConfirmed
<1>3. ASSUME NEW h \in Handlers, NotConfirmed(h) PROVE Facts'
  BY <1>3 DEF NotConfirmed, IsValidDrops
<1>4. ASSUME NEW h \in Handlers, ReuseToken(h) PROVE Facts'
  BY <1>4 DEF ReuseToken
<1>5. ASSUME NEW h \in Handlers, NeedToken(h) PROVE Facts'
  BY <1>5 DEF NeedToken, IsValidDrops
<1>6. ASSUME NEW h \in Handlers, Issue(h) PROVE Facts'
  <2>1. PICK t \in Tokens \ issued :
          /\ pending' = PurgeExpired \cup {t}
          /\ expires_at' = [expires_at EXCEPT ![t] = now + TTL]
          /\ issued' = issued \cup {t}
    BY <1>6 DEF Issue
  <2>2. now' = now /\ retired' = retired
    BY <1>6 DEF Issue
  <2>3. RetiredStaysOut'
    BY <2>1, <2>2 DEF PurgeExpired
  <2>4. LiveTokenKept'
    BY <2>1, <2>2 DEF PurgeExpired
  <2>5. DatedAtIssue'
    BY <2>1, <2>2
  <2>6. QED
    BY <2>3, <2>4, <2>5
<1>7. ASSUME NEW h \in Handlers, Succeed(h) PROVE Facts'
  BY <1>7 DEF Succeed
<1>8. ASSUME NEW h \in Handlers, Fail(h) PROVE Facts'
  BY <1>8 DEF Fail
<1>9. ASSUME NEW h \in Handlers, Consume(h) PROVE Facts'
  BY <1>9 DEF Consume
<1>10. CASE Tick
  BY <1>10 DEF Tick
<1>11. CASE Restart
  BY <1>11 DEF Restart
<1>12. CASE UNCHANGED vars
  BY <1>12 DEF vars
<1>13. QED
  BY <1>1, <1>2, <1>3, <1>4, <1>5, <1>6, <1>7, <1>8, <1>9, <1>10, <1>11, <1>12 DEF Next, Step

\* The invariant holds in every reachable state.
LEMMA Invariant == Spec => []IInv
  BY InitIInv, NextIInv, PTL DEF Spec

\* No confirmation that is still within its TTL is ever lost to another
\* handler's purge or validity check.
THEOREM NoConfirmationLost == Spec => []LiveTokenKept
<1>1. IInv => LiveTokenKept
  BY DEF IInv
<1>2. QED
  BY <1>1, Invariant, PTL

\* A consumed token never comes back, for any number of handlers.
THEOREM RetiredForGood == Spec => []RetiredStaysOut
<1>1. IInv => RetiredStaysOut
  BY DEF IInv
<1>2. QED
  BY <1>1, Invariant, PTL

\* An action starts only under a live token that was not consumed before and
\* is at most TTL old.
THEOREM StartsOnlyUnderLiveToken == Spec => RunsOnlyLiveTokens
<1> DEFINE Fact(h) ==
      (pc[h] # "running" /\ pc'[h] = "running" /\ ~hitl_disabled) =>
         /\ token[h] \in issued \ retired
         /\ now <= expires_at[token[h]]
         /\ expires_at[token[h]] <= now + TTL
<1>1. IInv /\ [Next]_vars => [\A h \in Handlers : Fact(h)]_vars
  <2> SUFFICES ASSUME IInv, Next, NEW h \in Handlers,
                      pc[h] # "running", pc'[h] = "running", ~hitl_disabled
               PROVE  /\ token[h] \in issued \ retired
                      /\ now <= expires_at[token[h]]
                      /\ expires_at[token[h]] <= now + TTL
    OBVIOUS
  <2> USE DEF IInv, TypeOK, Phase
  <2>1. ASSUME NEW g \in Handlers, Call(g) PROVE FALSE
    BY <2>1 DEF Call, Goto
  <2>2. ASSUME NEW g \in Handlers, Step(g) PROVE IsConfirmed(h)
    BY <2>2 DEF Step, IsConfirmed, NotConfirmed, ReuseToken, NeedToken, Issue,
                Succeed, Fail, Consume, Goto, Return
  <2>3. ASSUME Tick PROVE FALSE
    BY <2>3 DEF Tick
  <2>4. ASSUME Restart PROVE FALSE
    BY <2>4 DEF Restart
  <2>5. IsConfirmed(h)
    BY <2>1, <2>2, <2>3, <2>4 DEF Next
  <2>6. IsValid(token[h])
    BY <2>5 DEF IsConfirmed, Confirmed
  <2>7. token[h] \in issued \ retired /\ expires_at[token[h]] \in Nat
    BY <2>6 DEF IsValid, RetiredStaysOut
  <2>8. now <= expires_at[token[h]]
    BY <2>6, <2>7 DEF IsValid, Expired
  <2>9. QED
    BY <2>7, <2>8 DEF DatedAtIssue
<1>2. QED
  BY <1>1, Invariant, PTL DEF Spec, RunsOnlyLiveTokens

-----------------------------------------------------------------------------
(* Refinement: the gate keeps the promise of OneTimeApproval. *)

USE NobodyAssumption

\* Every step of the gate is a step of the promise, or changes nothing it sees.
LEMMA StepSimulation == IInv /\ IInv' /\ [Next]_vars => [Promise!Next]_(Promise!avars)
<1> SUFFICES ASSUME IInv, IInv', [Next]_vars
             PROVE  Promise!Next \/ UNCHANGED <<hitl_disabled, TokenLife, ActingUnder>>
  BY DEF Promise!avars
<1> USE DEF IInv, TypeOK, Phase, store
<1> DEFINE Stutter == UNCHANGED <<hitl_disabled, TokenLife, ActingUnder>>
<1>1. ASSUME NEW h \in Handlers, Call(h) PROVE Stutter
  <2>1. TokenLife' = TokenLife
    BY <1>1 DEF Call, TokenLife, IsValid, Expired
  <2>2. ActingUnder' = ActingUnder
    BY <1>1 DEF Call, ActingUnder, Goto
  <2>3. QED
    BY <1>1, <2>1, <2>2 DEF Call
<1>2. ASSUME NEW h \in Handlers, IsConfirmed(h) PROVE Promise!Next
  <2>1. TokenLife' = TokenLife
    BY <1>2 DEF IsConfirmed, TokenLife, IsValid, Expired
  <2>2. /\ ActingUnder[h] = Nobody
        /\ ActingUnder' = [ActingUnder EXCEPT ![h] = token[h]]
    BY <1>2 DEF IsConfirmed, ActingUnder, Goto
  <2>3. hitl_disabled \/ (token[h] \in Tokens /\ TokenLife[token[h]] = "alive")
    BY <1>2 DEF IsConfirmed, Confirmed, TokenLife, IsValid
  <2>4. Promise!Start(h, token[h])
    BY <1>2, <2>1, <2>2, <2>3 DEF Promise!Start, IsConfirmed
  <2>5. QED
    BY <2>4 DEF Promise!Next
<1>3. ASSUME NEW h \in Handlers, NotConfirmed(h) PROVE Stutter
  <2>1. TokenLife' = TokenLife
    BY <1>3 DEF NotConfirmed, TokenLife, IsValid, Expired, IsValidDrops
  <2>2. ActingUnder' = ActingUnder
    BY <1>3 DEF NotConfirmed, ActingUnder, Goto
  <2>3. QED
    BY <1>3, <2>1, <2>2 DEF NotConfirmed
<1>4. ASSUME NEW h \in Handlers, ReuseToken(h) PROVE Stutter
  <2>1. TokenLife' = TokenLife
    BY <1>4 DEF ReuseToken, TokenLife, IsValid, Expired
  <2>2. ActingUnder' = ActingUnder
    BY <1>4 DEF ReuseToken, ActingUnder, Goto, Return
  <2>3. QED
    BY <1>4, <2>1, <2>2 DEF ReuseToken
<1>5. ASSUME NEW h \in Handlers, NeedToken(h) PROVE Stutter
  <2>1. TokenLife' = TokenLife
    BY <1>5 DEF NeedToken, TokenLife, IsValid, Expired, IsValidDrops
  <2>2. ActingUnder' = ActingUnder
    BY <1>5 DEF NeedToken, ActingUnder, Goto
  <2>3. QED
    BY <1>5, <2>1, <2>2 DEF NeedToken
<1>6. ASSUME NEW h \in Handlers, Issue(h) PROVE Promise!Next
  <2>1. PICK t \in Tokens \ issued :
          /\ pending' = PurgeExpired \cup {t}
          /\ expires_at' = [expires_at EXCEPT ![t] = now + TTL]
          /\ issued' = issued \cup {t}
    BY <1>6 DEF Issue
  <2>2. now' = now /\ hitl_disabled' = hitl_disabled
    BY <1>6 DEF Issue
  <2>3. TokenLife[t] = "unknown" /\ TokenLife' = [TokenLife EXCEPT ![t] = "alive"]
    <3>1. t \in issued' /\ IsValid(t)'
      BY <2>1, <2>2 DEF IsValid, Expired
    <3>2. \A u \in Tokens \ {t} : (u \in issued' <=> u \in issued) /\ (IsValid(u)' <=> IsValid(u))
      BY <2>1, <2>2 DEF IsValid, Expired, PurgeExpired
    <3>3. TokenLife'[t] = "alive"
      BY <3>1 DEF TokenLife
    <3>4. \A u \in Tokens \ {t} : TokenLife'[u] = TokenLife[u]
      BY <3>2 DEF TokenLife
    <3>5. TokenLife[t] = "unknown"
      BY DEF TokenLife
    <3>6. DOMAIN TokenLife = Tokens /\ DOMAIN TokenLife' = Tokens
      BY DEF TokenLife
    <3>7. TokenLife' = [u \in Tokens |-> TokenLife'[u]]
      BY DEF TokenLife
    <3>8. QED
      BY <3>3, <3>4, <3>5, <3>6, <3>7
  <2>4. ActingUnder' = ActingUnder
    BY <1>6 DEF Issue, ActingUnder, Goto, Return
  <2>5. Promise!Grant(t)
    BY <2>2, <2>3, <2>4 DEF Promise!Grant
  <2>6. QED
    BY <2>5 DEF Promise!Next
<1>7. ASSUME NEW h \in Handlers, Succeed(h) PROVE Stutter
  <2>1. TokenLife' = TokenLife
    BY <1>7 DEF Succeed, TokenLife, IsValid, Expired
  <2>2. ActingUnder' = ActingUnder
    BY <1>7 DEF Succeed, ActingUnder, Goto
  <2>3. QED
    BY <1>7, <2>1, <2>2 DEF Succeed
<1>8. ASSUME NEW h \in Handlers, Fail(h) PROVE Promise!Next
  <2>1. TokenLife' = TokenLife
    BY <1>8 DEF Fail, TokenLife, IsValid, Expired
  <2>2. /\ ActingUnder[h] # Nobody
        /\ ActingUnder' = [ActingUnder EXCEPT ![h] = Nobody]
    BY <1>8 DEF Fail, ActingUnder, Goto, Return
  <2>3. Promise!GiveUp(h)
    BY <1>8, <2>1, <2>2 DEF Promise!GiveUp, Fail
  <2>4. QED
    BY <2>3 DEF Promise!Next
<1>9. ASSUME NEW h \in Handlers, Consume(h) PROVE Promise!Next
  <2>1. /\ ActingUnder[h] = token[h]
        /\ ActingUnder[h] # Nobody
        /\ ActingUnder' = [ActingUnder EXCEPT ![h] = Nobody]
    BY <1>9 DEF Consume, ActingUnder, Goto, Return
  <2>2. TokenLife' = IF hitl_disabled THEN TokenLife ELSE Promise!Killed({token[h]})
    BY <1>9 DEF Consume, Consumed, Promise!Killed, TokenLife, IsValid, Expired
  <2>3. Promise!Finish(h)
    BY <1>9, <2>1, <2>2 DEF Promise!Finish, Consume
  <2>4. QED
    BY <2>3 DEF Promise!Next
<1>10. ASSUME Tick PROVE Promise!Next
  <2>1. TokenLife' = Promise!Killed({t \in Tokens : t \in issued /\ ~IsValid(t)'})
    BY <1>10 DEF Tick, Promise!Killed, TokenLife, IsValid, Expired
  <2>2. ActingUnder' = ActingUnder
    BY <1>10 DEF Tick, ActingUnder
  <2>3. Promise!Lapse
    BY <1>10, <2>1, <2>2 DEF Promise!Lapse, Tick
  <2>4. QED
    BY <2>3 DEF Promise!Next
<1>11. ASSUME Restart PROVE Promise!Next
  <2>1. TokenLife' = Promise!Killed(Tokens)
    BY <1>11 DEF Restart, Promise!Killed, TokenLife, IsValid
  <2>2. ActingUnder' = [h \in Handlers |-> Nobody]
    BY <1>11 DEF Restart, ActingUnder
  <2>3. Promise!Reset
    BY <1>11, <2>1, <2>2 DEF Promise!Reset, Restart
  <2>4. QED
    BY <2>3 DEF Promise!Next
<1>12. ASSUME UNCHANGED vars PROVE Stutter
  BY <1>12 DEF vars, TokenLife, ActingUnder, IsValid, Expired
<1>13. QED
  BY <1>1, <1>2, <1>3, <1>4, <1>5, <1>6, <1>7, <1>8, <1>9, <1>10, <1>11, <1>12 DEF Next, Step

\* The store and its handlers implement the promise: a token, once dead, never
\* authorises another action.
THEOREM GateKeepsPromise == Spec => KeepsPromise
<1>1. Init => Promise!Init
  BY DEF Init, Promise!Init, TokenLife, ActingUnder
<1>2. QED
  BY <1>1, Invariant, StepSimulation, PTL DEF Spec, KeepsPromise, Promise!Spec
=============================================================================
