---------------------------- MODULE PeppolQueriesProofs ----------------------------
(***************************************************************************)
(* Proofs about the queries of the Peppol network: the throttle of the     *)
(* Directory client, for any number of searches, any interval and any      *)
(* retry delays, and the vetting of endpoints, for any number of vettings. *)
(*                                                                         *)
(* IInv is inductive: a search that sleeps in the throttle is the one that *)
(* holds the lock (SleeperHolds), so nobody sends while it sleeps, and     *)
(* what it still sleeps makes up for what is missing to the interval.      *)
(* CheckInv says what has been asked and is known at each await of a       *)
(* revocation check.  VerifiedInv, that what is read from a verified       *)
(* answer was published, is inductive as it stands; that an arriving       *)
(* answer keeps it follows from what a signature covers (DamageKnown) and  *)
(* from the parser reading, but inside the signature, what it would read   *)
(* without it (ReadAsUnsigned).                                            *)
(***************************************************************************)
EXTENDS PeppolQueries, SequenceTheorems, WellFoundedInduction, TLAPS

-----------------------------------------------------------------------------
(* The throttle *)

Stages == {"idle", "lock", "throttled", "answer", "backoff", "done"}

\* Durations are numbers, the lock is free or a search's.
Parameters ==
  /\ Interval \in Nat
  /\ Delays \subseteq Nat
  /\ "free" \notin Searches

\* The client's clock is never ahead of what has passed since the last request.
ClocksKept ==
  /\ since \in Nat /\ quiet \in Nat
  /\ since <= quiet /\ quiet <= Interval

SearchesTyped ==
  /\ stage \in [Searches -> Stages]
  /\ timer \in [Searches -> Nat]

SleeperHolds ==
  \A s \in Searches : stage[s] = "throttled" =>
    holder = s /\ timer[s] + since >= Interval

IInv == ClocksKept /\ SearchesTyped /\ SleeperHolds

\* A new client: nothing is sent or slept.
LEMMA IInvInit == ASSUME Parameters PROVE Init => IInv
BY DEF Parameters, Init, IInv, ClocksKept, SearchesTyped, SleeperHolds, Stages

\* Every step of a search or of the clock keeps the invariant.
LEMMA IInvNext == ASSUME Parameters PROVE IInv /\ [Next]_vars => IInv'
<1> SUFFICES ASSUME IInv, [Next]_vars PROVE IInv'
  OBVIOUS
<1> USE DEF Parameters, IInv, ClocksKept, SearchesTyped, SleeperHolds, Stages
<1>1. ASSUME NEW s \in Searches, Search(s) PROVE IInv'
  BY <1>1 DEF Search, Finish
<1>2. ASSUME NEW s \in Searches, Throttle(s) PROVE IInv'
  <2>1. CASE since < Interval
    <3>1. ClocksKept' /\ SearchesTyped'
      BY <1>2, <2>1 DEF Throttle
    <3>2. \A t \in Searches : stage[t] # "throttled"
      BY <1>2 DEF Throttle
    <3>3. SleeperHolds'
      BY <1>2, <2>1, <3>2 DEF Throttle
    <3>4. QED
      BY <3>1, <3>3
  <2>2. CASE ~(since < Interval)
    <3>1. ClocksKept' /\ SearchesTyped'
      BY <1>2, <2>2 DEF Throttle, Send
    <3>2. \A t \in Searches : stage[t] # "throttled"
      BY <1>2 DEF Throttle
    <3>3. SleeperHolds'
      BY <1>2, <2>2, <3>2 DEF Throttle, Send
    <3>4. QED
      BY <3>1, <3>3
  <2>3. QED
    BY <2>1, <2>2
<1>3. ASSUME NEW s \in Searches, Throttled(s) PROVE IInv'
  <2>1. ClocksKept' /\ SearchesTyped'
    BY <1>3 DEF Throttled, Send
  <2>2. \A t \in Searches \ {s} : stage[t] # "throttled"
    BY <1>3 DEF Throttled
  <2>3. SleeperHolds'
    BY <1>3, <2>2 DEF Throttled, Send
  <2>4. QED
    BY <2>1, <2>3
<1>4. ASSUME NEW s \in Searches, Busy(s) PROVE IInv'
  BY <1>4 DEF Busy
<1>5. ASSUME NEW s \in Searches, Retry(s) PROVE IInv'
  BY <1>5 DEF Retry
<1>6. ASSUME NEW s \in Searches, Answered(s) PROVE IInv'
  BY <1>6 DEF Answered, Finish
<1>7. CASE Tick
  <2>1. ClocksKept'
    BY <1>7 DEF Tick
  <2>2. SearchesTyped'
    BY <1>7 DEF Tick
  <2>3. SleeperHolds'
    <3> SUFFICES ASSUME NEW s \in Searches, stage[s] = "throttled"
                 PROVE  holder = s /\ timer'[s] + since' >= Interval
      BY <1>7 DEF Tick
    <3>1. timer'[s] = IF timer[s] > 0 THEN timer[s] - 1 ELSE 0
      BY <1>7 DEF Tick
    <3>2. since' = IF since < Interval THEN since + 1 ELSE since
      BY <1>7 DEF Tick
    <3>3. timer[s] \in Nat /\ timer[s] + since >= Interval /\ holder = s
      OBVIOUS
    <3>4. QED
      BY <3>1, <3>2, <3>3
  <2>4. QED
    BY <2>1, <2>2, <2>3
<1>8. CASE UNCHANGED vars
  BY <1>8 DEF vars
<1>9. QED
  BY <1>1, <1>2, <1>3, <1>4, <1>5, <1>6, <1>7, <1>8 DEF Next, Run

\* A request is sent from the throttle only, when the interval has passed.
LEMMA SentLate ==
  ASSUME Parameters, IInv, [Next]_vars,
         NEW s \in Searches, stage[s] # "answer", stage'[s] = "answer"
  PROVE  quiet >= Interval
<1> USE DEF Parameters, IInv, ClocksKept, SearchesTyped, SleeperHolds, Stages
<1>1. ASSUME NEW t \in Searches, Throttle(t) PROVE quiet >= Interval
  BY <1>1 DEF Throttle, Send
<1>2. ASSUME NEW t \in Searches, Throttled(t) PROVE quiet >= Interval
  BY <1>2 DEF Throttled, Send
<1>3. ASSUME NEW t \in Searches,
             Search(t) \/ Busy(t) \/ Retry(t) \/ Answered(t)
      PROVE  FALSE
  BY <1>3 DEF Search, Busy, Retry, Answered, Finish
<1>4. QED
  BY <1>1, <1>2, <1>3 DEF Next, Run, Tick, vars

\* Two requests of one client are never closer than the minimum interval, for any
\* number of searches that share the throttle (_throttle, _get_json).
THEOREM RequestsKeepDistance == ASSUME Parameters PROVE Spec => SpacedOut
<1>1. Init => IInv
  BY IInvInit
<1>2. IInv /\ [Next]_vars => IInv'
  BY IInvNext
<1>3. IInv /\ [Next]_vars =>
        [(\E s \in Searches : stage[s] # "answer" /\ stage'[s] = "answer") =>
           quiet >= Interval]_vars
  BY SentLate
<1>4. QED
  BY <1>1, <1>2, <1>3, PTL DEF Spec, SpacedOut

-----------------------------------------------------------------------------
(* The revocation check *)

\* Where a check is, what it has asked, and what it knows.
CheckProgress(v) ==
  /\ phase[v] \in {"metadata", "raised", "vetted"} =>
       check[v] = None /\ asked[v] = {} /\ ~bad[v]
  /\ phase[v] = "ocsp" =>
       check[v] = None /\ asked[v] = {"ocsp"} /\ "ocsp" \in sources
  /\ phase[v] = "crl" =>
       check[v] = None /\ asked[v] = sources
  /\ phase[v] = "done" /\ check[v] # None =>
       IF check[v].checked THEN bad[v] => check[v].revoked \/ vague[v]
       ELSE asked[v] = sources

CheckInv ==
  /\ revoked \in BOOLEAN /\ listed \in BOOLEAN
  /\ listed => revoked
  /\ sources \subseteq {"ocsp", "crl"}
  /\ phase \in [Vettings -> {"metadata", "raised", "vetted", "ocsp", "crl", "done"}]
  /\ DOMAIN check = Vettings /\ DOMAIN asked = Vettings
  /\ bad \in [Vettings -> BOOLEAN] /\ vague \in [Vettings -> BOOLEAN]
  /\ \A v \in Vettings : (bad[v] => listed) /\ CheckProgress(v)

\* No check has begun.
LEMMA CheckInit == Vetting!Init => CheckInv
BY DEF Vetting!Init, CheckInv, CheckProgress

\* Each await of a check leads to the next source or to a result that is true.
LEMMA CheckNext == CheckInv /\ Vetting!Next => CheckInv'
<1> SUFFICES ASSUME CheckInv, Vetting!Next PROVE CheckInv'
  OBVIOUS
<1> USE DEF CheckInv, CheckProgress
<1>1. ASSUME NEW v \in Vettings, Vetting!GetServiceEndpoint(v) PROVE CheckInv'
  BY <1>1 DEF Vetting!GetServiceEndpoint
<1>2. ASSUME NEW v \in Vettings, Vetting!CheckRevocation(v) PROVE CheckInv'
  <2>1. CASE "ocsp" \in sources
    BY <1>2, <2>1 DEF Vetting!CheckRevocation, Vetting!Ask
  <2>2. CASE "ocsp" \notin sources /\ "crl" \in sources
    <3>1. sources = {"crl"}
      BY <2>2
    <3>2. QED
      BY <1>2, <2>2, <3>1 DEF Vetting!CheckRevocation, Vetting!AskCrl, Vetting!Ask
  <2>3. CASE sources = {}
    BY <1>2, <2>3
    DEF Vetting!CheckRevocation, Vetting!AskCrl, Vetting!Answer, Vetting!Unchecked
  <2>4. QED
    BY <2>1, <2>2, <2>3
<1>3. ASSUME NEW v \in Vettings, Vetting!CheckOcsp(v) PROVE CheckInv'
  <2> DEFINE told == IF revoked THEN "revoked" ELSE "good"
  <2>1. PICK answer \in {"failed", "unsuccessful", "unknown", told} :
          /\ IF Vetting!OcspResult(answer) = None THEN Vetting!AskCrl(v)
             ELSE Vetting!Answer(v, Vetting!OcspResult(answer))
          /\ vague' = [vague EXCEPT ![v] = (answer = "unknown")]
    BY <1>3 DEF Vetting!CheckOcsp
  <2>2. /\ phase[v] = "ocsp"
        /\ UNCHANGED <<pki, revoked, listed, sources, service, bad>>
    BY <1>3 DEF Vetting!CheckOcsp
  <2>3. CASE Vetting!OcspResult(answer) = None /\ "crl" \in sources
    <3>1. sources = {"ocsp", "crl"}
      BY <2>2, <2>3
    <3>2. QED
      BY <2>1, <2>2, <2>3, <3>1 DEF Vetting!AskCrl, Vetting!Ask
  <2>4. CASE Vetting!OcspResult(answer) = None /\ "crl" \notin sources
    <3>1. sources = {"ocsp"}
      BY <2>2, <2>4
    <3>2. QED
      BY <2>1, <2>2, <2>4, <3>1 DEF Vetting!AskCrl, Vetting!Answer, Vetting!Unchecked
  <2>5. CASE Vetting!OcspResult(answer) # None
    <3>1. Vetting!OcspResult(answer) =
            [checked |-> TRUE, revoked |-> answer = "revoked", method |-> "ocsp"]
      BY <2>5 DEF Vetting!OcspResult, Vetting!Checked
    <3>2. bad[v] => answer \in {"revoked", "unknown"}
      BY <2>5 DEF Vetting!OcspResult
    <3>3. QED
      BY <2>1, <2>2, <2>5, <3>1, <3>2 DEF Vetting!Answer
  <2>6. QED
    BY <2>3, <2>4, <2>5
<1>4. ASSUME NEW v \in Vettings, Vetting!CheckCrl(v) PROVE CheckInv'
  BY <1>4 DEF Vetting!CheckCrl, Vetting!Answer, Vetting!CrlResult, Vetting!Unchecked,
              Vetting!Checked
<1>5. CASE Vetting!Revoke
  BY <1>5 DEF Vetting!Revoke, Vetting!history
<1>6. CASE Vetting!Publish
  BY <1>6 DEF Vetting!Publish, Vetting!history
<1>7. QED
  BY <1>1, <1>2, <1>3, <1>4, <1>5, <1>6 DEF Vetting!Next

\* A certificate that was revoked and listed when a check began is never reported as
\* not revoked, unless the responder does not know it, and a check without a verdict has
\* asked every source, for any number of vettings (check_revocation).
THEOREM RevocationsTold == QuerySpec => []RevocationTold
<1>1. QueryInit => CheckInv
  BY CheckInit DEF QueryInit
<1>2. CheckInv /\ [QueryNext]_query_vars => CheckInv'
  <2> SUFFICES ASSUME CheckInv, [QueryNext]_query_vars PROVE CheckInv'
    OBVIOUS
  <2>1. CASE Vetting!Next
    BY <2>1, CheckNext
  <2>2. CASE UNCHANGED vetting_vars
    BY <2>2 DEF vetting_vars, CheckInv, CheckProgress
  <2>3. QED
    BY <2>1, <2>2 DEF QueryNext, Searching, query_vars
<1>3. CheckInv => RevocationTold
  BY DEF CheckInv, CheckProgress, RevocationTold, Vetting!RevocationTold
<1>4. QED
  BY <1>1, <1>2, <1>3, PTL DEF QuerySpec

-----------------------------------------------------------------------------
(* The signed metadata *)

Smaller == {ss \in Nat \X Nat : ss[1] < ss[2]}

\* A set of numbers has a least one.
LEMMA LeastOf ==
  ASSUME NEW S \in SUBSET Nat, S # {}
  PROVE  /\ Vetting!FirstOf(S) \in S
         /\ \A j \in S : Vetting!FirstOf(S) <= j
<1>1. IsWellFoundedOn(Smaller, Nat)
  BY NatLessThanWellFounded DEF OpToRel, Smaller
<1>2. PICK i \in S : \A j \in S : ~(<<j, i>> \in Smaller)
  BY <1>1, WFMin
<1>3. ASSUME NEW j \in S PROVE i <= j
  <2>1. i \in Nat /\ j \in Nat /\ ~(<<j, i>> \in Smaller)
    BY <1>2
  <2>2. ~(j < i)
    BY <2>1 DEF Smaller
  <2>3. QED
    BY <2>1, <2>2
<1>4. QED
  BY <1>3 DEF Vetting!FirstOf

\* A bounded one has a greatest.
LEMMA GreatestOf ==
  ASSUME NEW n \in Nat, NEW S \in SUBSET (1..n), S # {}
  PROVE  /\ Vetting!LastOf(S) \in S
         /\ \A j \in S : j <= Vetting!LastOf(S)
<1> DEFINE below == {n - i : i \in S}
<1>1. below \in SUBSET Nat /\ below # {}
  <2>1. \A i \in S : n - i \in Nat
    OBVIOUS
  <2>2. below \in SUBSET Nat
    BY <2>1
  <2>3. PICK i \in S : TRUE
    OBVIOUS
  <2>4. n - i \in below
    OBVIOUS
  <2>5. QED
    BY <2>2, <2>4
<1>2. PICK d \in below : \A e \in below : d <= e
  BY <1>1, LeastOf
<1>3. PICK i \in S : d = n - i
  OBVIOUS
<1>4. \A j \in S : j <= i
  BY <1>2, <1>3
<1>5. QED
  BY <1>4 DEF Vetting!LastOf

\* What is first and last where there is one.
LEMMA Singled ==
  ASSUME NEW n \in Nat
  PROVE  Vetting!FirstOf({n}) = n /\ Vetting!LastOf({n}) = n
BY DEF Vetting!FirstOf, Vetting!LastOf

\* A sequence of whatever elements.
Sequence(doc) == doc \in Seq({doc[i] : i \in DOMAIN doc})

\* The document whose only signature is at k, without it.
LEMMA SignatureOut ==
  ASSUME NEW doc, Sequence(doc), NEW k \in DOMAIN doc, Vetting!At(doc, "Signature") = {k}
  PROVE  /\ Len(Vetting!Unsigned(doc)) = Len(doc) - 1
         /\ DOMAIN Vetting!Unsigned(doc) = 1..(Len(doc) - 1)
         /\ \A i \in 1..(Len(doc) - 1) :
              Vetting!Unsigned(doc)[i] = IF i < k THEN doc[i] ELSE doc[i + 1]
<1> DEFINE E == {doc[i] : i \in DOMAIN doc}
<1> DEFINE before == SubSeq(doc, 1, k - 1)
<1> DEFINE after == SubSeq(doc, k + 1, Len(doc))
<1>1. doc \in Seq(E) /\ DOMAIN doc = 1..Len(doc) /\ Len(doc) \in Nat /\ k \in 1..Len(doc)
  BY DEF Sequence
<1> HIDE DEF E
<1>2. Vetting!Unsigned(doc) = before \o after
  <2>1. Vetting!FirstOf(Vetting!At(doc, "Signature")) = k
    BY <1>1, Singled
  <2>2. QED
    BY <2>1, Zenon DEF Vetting!Unsigned
<1>3. \A i \in 1..Len(doc) : doc[i] \in E
  BY DEF E
<1>4. /\ before \in Seq(E) /\ Len(before) = k - 1
      /\ \A i \in 1..(k - 1) : before[i] = doc[i]
  BY <1>1, <1>3, SubSeqProperties
<1>5. /\ after \in Seq(E) /\ Len(after) = Len(doc) - k
      /\ \A i \in 1..(Len(doc) - k) : after[i] = doc[k + i]
  BY <1>1, <1>3, SubSeqProperties
<1> HIDE DEF before, after
<1>6. /\ before \o after \in Seq(E)
      /\ Len(before \o after) = Len(before) + Len(after)
      /\ \A i \in 1..(Len(before) + Len(after)) :
           (before \o after)[i] =
             IF i <= Len(before) THEN before[i] ELSE after[i - Len(before)]
  BY <1>4, <1>5, ConcatProperties
<1>7. Len(before) + Len(after) = Len(doc) - 1
  BY <1>1, <1>4, <1>5
<1>8. ASSUME NEW i \in 1..(Len(doc) - 1)
      PROVE  (before \o after)[i] = IF i < k THEN doc[i] ELSE doc[i + 1]
  <2>1. CASE i < k
    BY <1>1, <1>4, <1>6, <1>7, <2>1
  <2>2. CASE ~(i < k)
    <3>1. i - Len(before) \in 1..(Len(doc) - k) /\ k + (i - Len(before)) = i + 1
      BY <1>1, <1>4, <2>2
    <3>2. (before \o after)[i] = after[i - Len(before)]
      BY <1>1, <1>4, <1>6, <1>7, <2>2
    <3>3. after[i - Len(before)] = doc[i + 1]
      BY <1>5, <3>1
    <3>4. QED
      BY <2>2, <3>2, <3>3
  <2>3. QED
    BY <2>1, <2>2
<1> DEFINE rest == before \o after
<1>9. Len(rest) = Len(doc) - 1 /\ DOMAIN rest = 1..(Len(doc) - 1)
  <2>1. rest \in Seq(E) /\ Len(rest) = Len(doc) - 1
    BY <1>6, <1>7
  <2> HIDE DEF rest
  <2>2. QED
    BY <2>1
<1>10. \A i \in 1..(Len(doc) - 1) : rest[i] = IF i < k THEN doc[i] ELSE doc[i + 1]
  BY <1>8
<1> HIDE DEF rest
<1>11. Vetting!Unsigned(doc) = rest
  BY <1>2 DEF rest
<1>12. QED
  BY <1>9, <1>10, <1>11

\* The parser finds other elements where it would without the signature.
LEMMA OthersKept ==
  ASSUME NEW doc, Sequence(doc), NEW k \in DOMAIN doc, Vetting!At(doc, "Signature") = {k},
         NEW tag, tag # "Signature"
  PROVE  /\ Vetting!At(doc, tag) = {} <=> Vetting!At(Vetting!Unsigned(doc), tag) = {}
         /\ Vetting!FirstText(doc, tag) = Vetting!FirstText(Vetting!Unsigned(doc), tag)
         /\ Vetting!LastText(doc, tag) = Vetting!LastText(Vetting!Unsigned(doc), tag)
<1> DEFINE rest == Vetting!Unsigned(doc)
<1> DEFINE n == Len(doc)
<1> DEFINE A == Vetting!At(doc, tag)
<1> DEFINE B == Vetting!At(rest, tag)
<1> DEFINE place == [i \in 1..(n - 1) |-> IF i < k THEN i ELSE i + 1]
<1>1. n \in Nat /\ DOMAIN doc = 1..n /\ k \in 1..n
  BY DEF Sequence
<1>2. /\ DOMAIN rest = 1..(n - 1)
      /\ \A i \in 1..(n - 1) : rest[i] = IF i < k THEN doc[i] ELSE doc[i + 1]
  BY SignatureOut
<1> HIDE DEF rest, n
<1>3. \A i \in 1..(n - 1) : rest[i] = doc[place[i]] /\ place[i] \in 1..n
  BY <1>1, <1>2
<1>4. A \subseteq 1..n /\ B \subseteq 1..(n - 1) /\ n - 1 \in Nat
  BY <1>1, <1>2 DEF Vetting!At
<1>5. \A i \in B : place[i] \in A
  BY <1>1, <1>2, <1>3 DEF Vetting!At
<1>6. \A j \in A : \E i \in B : place[i] = j
  <2> SUFFICES ASSUME NEW j \in A PROVE \E i \in B : place[i] = j
    OBVIOUS
  <2>1. j # k /\ j \in 1..n
    BY <1>1, <1>4 DEF Vetting!At
  <2>2. PICK i \in 1..(n - 1) : place[i] = j
    <3>1. CASE j < k
      <4>1. j \in 1..(n - 1) /\ place[j] = j
        BY <1>1, <2>1, <3>1
      <4>2. QED
        BY <4>1
    <3>2. CASE j > k
      <4>1. j - 1 \in 1..(n - 1) /\ place[j - 1] = j
        BY <1>1, <2>1, <3>2
      <4>2. QED
        BY <4>1
    <3>3. QED
      BY <1>1, <2>1, <3>1, <3>2
  <2>3. rest[i] = doc[j]
    BY <1>3, <2>2
  <2>4. QED
    BY <1>2, <2>2, <2>3 DEF Vetting!At
<1>7. \A i, j \in 1..(n - 1) : i <= j <=> place[i] <= place[j]
  BY <1>1
<1> HIDE DEF place
<1>8. A = {} <=> B = {}
  BY <1>5, <1>6
<1>9. ASSUME A # {}
      PROVE  doc[Vetting!FirstOf(A)].text = rest[Vetting!FirstOf(B)].text
  <2> DEFINE a == Vetting!FirstOf(A)
  <2> DEFINE b == Vetting!FirstOf(B)
  <2>1. a \in A /\ (\A j \in A : a <= j) /\ b \in B /\ (\A j \in B : b <= j)
    BY <1>4, <1>8, <1>9, LeastOf
  <2> HIDE DEF a, b, A, B
  <2>2. PICK i \in B : place[i] = a
    BY <1>6, <2>1
  <2>3. place[b] <= place[i] /\ a <= place[b]
    BY <1>4, <1>5, <1>7, <2>1, <2>2
  <2>4. a = place[b]
    BY <1>3, <1>4, <2>1, <2>2, <2>3
  <2>5. rest[b] = doc[a]
    BY <1>3, <1>4, <2>1, <2>4
  <2>6. QED
    BY <2>5 DEF a, b
<1>10. ASSUME A # {}
       PROVE  doc[Vetting!LastOf(A)].text = rest[Vetting!LastOf(B)].text
  <2> DEFINE a == Vetting!LastOf(A)
  <2> DEFINE b == Vetting!LastOf(B)
  <2>1. a \in A /\ (\A j \in A : j <= a) /\ b \in B /\ (\A j \in B : j <= b)
    BY <1>1, <1>4, <1>8, <1>10, GreatestOf
  <2> HIDE DEF a, b, A, B
  <2>2. PICK i \in B : place[i] = a
    BY <1>6, <2>1
  <2>3. place[i] <= place[b] /\ place[b] <= a
    BY <1>4, <1>5, <1>7, <2>1, <2>2
  <2>4. a = place[b]
    BY <1>3, <1>4, <2>1, <2>2, <2>3
  <2>5. rest[b] = doc[a]
    BY <1>3, <1>4, <2>1, <2>4
  <2>6. QED
    BY <2>5 DEF a, b
<1>11. QED
  BY <1>8, <1>9, <1>10 DEF Vetting!FirstText, Vetting!LastText, rest

\* So it reads what it would read without the signature.
LEMMA ReadAsUnsigned ==
  ASSUME NEW doc, Sequence(doc), NEW k \in DOMAIN doc, Vetting!At(doc, "Signature") = {k}
  PROVE  Vetting!ServiceInfo(doc) = Vetting!ServiceInfo(Vetting!Unsigned(doc))
<1>1. \A tag \in {"Redirect", "Address", "Endpoint", "ProcessIdentifier", "Certificate"} :
        /\ Vetting!At(doc, tag) = {} <=> Vetting!At(Vetting!Unsigned(doc), tag) = {}
        /\ Vetting!FirstText(doc, tag) = Vetting!FirstText(Vetting!Unsigned(doc), tag)
        /\ Vetting!LastText(doc, tag) = Vetting!LastText(Vetting!Unsigned(doc), tag)
  BY OthersKept
<1>2. QED
  BY <1>1, ZenonT(30) DEF Vetting!ServiceInfo

\* What SMPs publish is made of elements with a tag and a text, none of them a
\* signature.
Elements(doc) ==
  /\ Sequence(doc) /\ Len(doc) \in Nat \ {0}
  /\ \A i \in 1..Len(doc) :
       doc[i] = [tag |-> doc[i].tag, text |-> doc[i].text] /\ doc[i].tag # "Signature"

LEMMA Joined ==
  ASSUME NEW a, NEW b, Elements(a), Elements(b)
  PROVE  Elements(a \o b)
<1> DEFINE S == {a[i] : i \in DOMAIN a} \cup {b[i] : i \in DOMAIN b}
<1>1. a \in Seq(S) /\ b \in Seq(S)
  BY DEF Elements, Sequence
<1> HIDE DEF S
<1>2. /\ a \o b \in Seq(S) /\ Len(a \o b) = Len(a) + Len(b)
      /\ \A i \in 1..(Len(a) + Len(b)) :
           (a \o b)[i] = IF i <= Len(a) THEN a[i] ELSE b[i - Len(a)]
  BY <1>1, ConcatProperties
<1> DEFINE c == a \o b
<1>3. Sequence(c)
  <2> HIDE DEF c
  <2>1. c \in Seq(S)
    BY <1>2 DEF c
  <2>2. QED
    BY <2>1 DEF Sequence
<1>4. ASSUME NEW i \in 1..Len(c)
      PROVE  c[i] = [tag |-> c[i].tag, text |-> c[i].text] /\ c[i].tag # "Signature"
  <2>1. \/ i \in 1..Len(a) /\ c[i] = a[i]
        \/ i - Len(a) \in 1..Len(b) /\ c[i] = b[i - Len(a)]
    BY <1>1, <1>2
  <2> HIDE DEF c
  <2>2. QED
    BY <2>1 DEF Elements
<1>5. QED
  BY <1>1, <1>2, <1>3, <1>4 DEF Elements

LEMMA OneElement ==
  ASSUME NEW tag, NEW text, tag # "Signature"
  PROVE  Elements(<<Vetting!Element(tag, text)>>)
BY DEF Elements, Sequence, Vetting!Element

LEMMA DescribedElements ==
  ASSUME NEW endpoint
  PROVE  Elements(Vetting!Described(endpoint)) /\ Elements(Vetting!Unaddressed(endpoint))
BY DEF Elements, Sequence, Vetting!Element, Vetting!Described, Vetting!Unaddressed

LEMMA PublishedElements ==
  ASSUME NEW host, NEW doc \in Vetting!MetadataDocs(host) \ {<<>>}
  PROVE  Elements(doc)
BY Joined, OneElement, DescribedElements DEF Vetting!MetadataDocs

\* An element in the place of another.
LEMMA Replaced ==
  ASSUME NEW doc, Sequence(doc), NEW k \in DOMAIN doc, NEW e,
         NEW new, new = [doc EXCEPT ![k] = e]
  PROVE  /\ Sequence(new) /\ DOMAIN new = DOMAIN doc
         /\ \A i \in DOMAIN doc : new[i] = IF i = k THEN e ELSE doc[i]
<1> DEFINE n == Len(doc)
<1>1. n \in Nat /\ DOMAIN doc = 1..n /\ doc = [i \in 1..n |-> doc[i]]
  BY DEF Sequence
<1>2. new = [i \in 1..n |-> new[i]]
  BY <1>1
<1>3. DOMAIN new = 1..n
  BY <1>1
<1>4. \A i \in DOMAIN doc : new[i] = IF i = k THEN e ELSE doc[i]
  OBVIOUS
<1> HIDE DEF n
<1>5. new \in Seq({new[j] : j \in DOMAIN new})
  <2> DEFINE R == {new[j] : j \in 1..n}
  <2>1. \A i \in 1..n : new[i] \in R
    OBVIOUS
  <2> HIDE DEF R
  <2>2. new \in Seq(R)
    BY ONLY <1>1, <1>2, <2>1
  <2>3. QED
    BY <1>3, <2>2 DEF R
<1>6. QED
  BY <1>1, <1>3, <1>4, <1>5 DEF Sequence

\* A signature at one place, over what was published.
SignedOnce(doc, published) ==
  /\ Sequence(doc)
  /\ \E k \in DOMAIN doc : /\ Vetting!At(doc, "Signature") = {k}
                           /\ doc[k].signature.digest.content = published

\* Whatever damages signed metadata leaves no signature or one, over what was
\* published.
LEMMA DamageKnown ==
  ASSUME NEW published, Elements(published), NEW tail,
         NEW doc \in Vetting!DamagedMetadata(Vetting!SignedMetadata(published, tail))
  PROVE  Vetting!At(doc, "Signature") = {} \/ SignedOnce(doc, published)
<1> DEFINE n == Len(published)
<1> DEFINE s == Vetting!Signed(published, "smp", tail)
<1> DEFINE last == [tag |-> "Signature", signature |-> s, inside |-> <<>>]
<1> DEFINE signed == Vetting!SignedMetadata(published, tail)
<1> DEFINE at == Len(signed)
<1>1. n \in Nat \ {0} /\ DOMAIN published = 1..n
  BY DEF Elements, Sequence
<1>2. /\ Sequence(signed) /\ Len(signed) = n + 1 /\ DOMAIN signed = 1..(n + 1)
      /\ signed[n + 1] = last
      /\ \A i \in 1..n : signed[i] = published[i]
  <2> DEFINE S == {published[i] : i \in DOMAIN published} \cup {last}
  <2>1. published \in Seq(S) /\ last \in S
    BY DEF Elements, Sequence
  <2>2. signed = Append(published, last)
    BY DEF Vetting!SignedMetadata
  <2> HIDE DEF S, last, signed
  <2>3. /\ signed \in Seq(S) /\ Len(signed) = n + 1 /\ signed[n + 1] = last
        /\ \A i \in 1..n : signed[i] = published[i]
    BY <2>1, <2>2, AppendProperties
  <2>4. Sequence(signed)
    BY <2>3 DEF Sequence
  <2>5. QED
    BY <2>3, <2>4
<1>3. last.tag = "Signature" /\ last.signature = s /\ s.digest.content = published
  BY DEF Vetting!Signed
<1>4. doc \in {signed, Vetting!Unsigned(signed),
                  <<Vetting!Element("comment", None)>> \o signed,
                  [signed EXCEPT ![at].signature.complete = FALSE],
                  [signed EXCEPT ![at].signature.certificate = None],
                  [signed EXCEPT ![at].signature.certificate = "garbled"],
                  [signed EXCEPT ![at].signature.value.over.tail = TRUE],
                  [signed EXCEPT ![at].inside =
                     <<Vetting!Element("Address", <<None, "elsewhere">>)>>],
                  [signed EXCEPT ![at - 1] = signed[at], ![at] = signed[at - 1]]}
                 \cup {[signed EXCEPT ![i].text = None] : i \in 1..(at - 1)}
  BY Zenon DEF Vetting!DamagedMetadata
<1> HIDE DEF last, signed, n, at
<1>5. /\ at = n + 1 /\ at - 1 = n /\ n \in Nat /\ at \in DOMAIN signed /\ n \in DOMAIN signed
      /\ DOMAIN signed = 1..at /\ signed[at] = last
      /\ \A i \in 1..at : i \in 1..n \/ i = at
      /\ 1..n \subseteq DOMAIN signed
      /\ at \notin 1..n
  BY <1>1, <1>2 DEF at
<1>6. \A i \in 1..n : signed[i].tag # "Signature"
  BY <1>2 DEF Elements, n
<1>7. Vetting!At(signed, "Signature") = {at}
  BY <1>3, <1>5, <1>6 DEF Vetting!At
<1>8. CASE doc = signed
  BY <1>2, <1>3, <1>5, <1>7, <1>8 DEF SignedOnce
<1>9. CASE doc = Vetting!Unsigned(signed)
  <2>1. Len(signed) - 1 = n
    BY <1>5 DEF at
  <2>2. /\ DOMAIN doc = 1..(Len(signed) - 1)
        /\ \A i \in 1..(Len(signed) - 1) :
             doc[i] = IF i < at THEN signed[i] ELSE signed[i + 1]
    BY <1>2, <1>5, <1>7, <1>9, SignatureOut
  <2>3. DOMAIN doc = 1..n /\ \A i \in 1..n : doc[i] = signed[i]
    BY <1>5, <2>1, <2>2
  <2>4. QED
    BY <1>6, <2>3 DEF Vetting!At
<1>10. CASE doc = <<Vetting!Element("comment", None)>> \o signed
  <2> DEFINE comment == Vetting!Element("comment", None)
  <2> DEFINE S == {signed[i] : i \in DOMAIN signed} \cup {comment}
  <2>1. signed \in Seq(S) /\ <<comment>> \in Seq(S) /\ <<comment>>[1] = comment
    BY <1>2 DEF Sequence
  <2>2. comment.tag # "Signature"
    BY DEF Vetting!Element
  <2>3. doc = <<comment>> \o signed
    BY <1>10
  <2> HIDE DEF S, comment
  <2>4. doc \in Seq(S) /\ Len(doc) = n + 2
    BY <1>1, <1>2, <2>1, <2>3, ConcatProperties
  <2>5. doc[1] = comment /\ \A i \in 2..(n + 2) : doc[i] = signed[i - 1]
    BY <1>1, <1>2, <2>1, <2>3, ConcatProperties
  <2>6. DOMAIN doc = 1..(n + 2)
    BY <2>4
  <2>7. Sequence(doc)
    BY <2>4 DEF Sequence
  <2>8. \A i \in 2..(n + 1) : i - 1 \in 1..n /\ doc[i] = signed[i - 1]
    BY <1>1, <2>5
  <2>9. doc[n + 2] = last /\ n + 2 \in DOMAIN doc
    BY <1>1, <1>2, <2>5, <2>6
  <2>10. \A i \in 1..(n + 2) : i = 1 \/ i \in 2..(n + 1) \/ i = n + 2
    BY <1>1
  <2>11. Vetting!At(doc, "Signature") = {n + 2}
    BY <1>3, <1>6, <2>2, <2>5, <2>6, <2>8, <2>9, <2>10 DEF Vetting!At
  <2>12. QED
    BY <1>3, <2>7, <2>9, <2>11 DEF SignedOnce
<1>11. CASE \E e : /\ doc = [signed EXCEPT ![at] = e]
                   /\ e.tag = "Signature" /\ e.signature.digest.content = published
  <2>1. PICK e : /\ doc = [signed EXCEPT ![at] = e]
                 /\ e.tag = "Signature" /\ e.signature.digest.content = published
    BY <1>11
  <2>2. /\ Sequence(doc) /\ DOMAIN doc = DOMAIN signed
        /\ \A i \in DOMAIN signed : doc[i] = IF i = at THEN e ELSE signed[i]
    BY <1>2, <1>5, <2>1, Replaced
  <2>3. Vetting!At(doc, "Signature") = {at}
    BY <1>5, <1>6, <2>1, <2>2 DEF Vetting!At
  <2>4. QED
    BY <1>5, <2>1, <2>2, <2>3 DEF SignedOnce
<1>12. CASE \E i \in 1..n : doc = [signed EXCEPT ![i].text = None]
  <2>1. PICK i \in 1..n : doc = [signed EXCEPT ![i].text = None]
    BY <1>12
  <2> DEFINE e == [signed[i] EXCEPT !.text = None]
  <2>2. e.tag # "Signature"
    <3>1. signed[i] = [tag |-> signed[i].tag, text |-> signed[i].text]
      BY <1>2 DEF Elements, n
    <3>2. e.tag = signed[i].tag
      BY <3>1
    <3>3. QED
      BY <1>6, <3>2
  <2>3. doc = [signed EXCEPT ![i] = e]
    BY <2>1
  <2> HIDE DEF e
  <2>4. /\ Sequence(doc) /\ DOMAIN doc = DOMAIN signed
        /\ \A j \in DOMAIN signed : doc[j] = IF j = i THEN e ELSE signed[j]
    <3>1. i \in DOMAIN signed
      BY <1>5
    <3>2. QED
      BY <1>2, <2>3, <3>1, Replaced
  <2>5. Vetting!At(doc, "Signature") = {at}
    BY <1>3, <1>5, <1>6, <2>2, <2>4 DEF Vetting!At
  <2>6. doc[at].signature.digest.content = published /\ at \in DOMAIN doc
    BY <1>3, <1>5, <2>4
  <2>7. QED
    BY <2>4, <2>5, <2>6 DEF SignedOnce
<1>13. CASE doc = [signed EXCEPT ![at - 1] = signed[at], ![at] = signed[at - 1]]
  <2> DEFINE half == [signed EXCEPT ![n] = last]
  <2>1. doc = [half EXCEPT ![at] = signed[n]]
    BY <1>5, <1>13
  <2>2. half = [signed EXCEPT ![n] = last]
    OBVIOUS
  <2> HIDE DEF half
  <2>3. /\ Sequence(half) /\ DOMAIN half = DOMAIN signed
        /\ \A j \in DOMAIN signed : half[j] = IF j = n THEN last ELSE signed[j]
    BY <1>2, <1>5, <2>2, Replaced
  <2>4. /\ Sequence(doc) /\ DOMAIN doc = DOMAIN half
        /\ \A j \in DOMAIN half : doc[j] = IF j = at THEN signed[n] ELSE half[j]
    BY <1>5, <2>1, <2>3, Replaced
  <2>5. n \in 1..n /\ n # at
    BY <1>1, <1>5
  <2>6. Vetting!At(doc, "Signature") = {n}
    BY <1>3, <1>5, <1>6, <2>3, <2>4, <2>5 DEF Vetting!At
  <2>7. doc[n].signature.digest.content = published /\ n \in DOMAIN doc
    BY <1>3, <1>5, <2>3, <2>4, <2>5
  <2>8. QED
    BY <2>4, <2>6, <2>7 DEF SignedOnce
<1>14. doc \in {[signed EXCEPT ![at].signature.complete = FALSE],
                [signed EXCEPT ![at].signature.certificate = None],
                [signed EXCEPT ![at].signature.certificate = "garbled"],
                [signed EXCEPT ![at].signature.value.over.tail = TRUE],
                [signed EXCEPT ![at].inside =
                   <<Vetting!Element("Address", <<None, "elsewhere">>)>>]}
       => \E e : /\ doc = [signed EXCEPT ![at] = e]
                 /\ e.tag = "Signature" /\ e.signature.digest.content = published
  BY <1>5 DEF last, Vetting!Signed
<1>15. doc \in {[signed EXCEPT ![i].text = None] : i \in 1..(at - 1)} =>
         \E i \in 1..n : doc = [signed EXCEPT ![i].text = None]
  BY <1>5
<1>16. QED
  BY <1>4, <1>8, <1>9, <1>10, <1>11, <1>12, <1>13, <1>14, <1>15

\* What is read from a verified answer, unless its signature holds elements, is what
\* is read from what was published.
LEMMA ReadAsPublished ==
  ASSUME NEW published, Elements(published), NEW tail,
         NEW doc \in Vetting!DamagedMetadata(Vetting!SignedMetadata(published, tail)),
         Vetting!SignatureValid(doc), Vetting!Inside(doc) = <<>>
  PROVE  Vetting!ServiceInfo(Vetting!Iterated(doc)) = Vetting!ServiceInfo(published)
<1>1. SignedOnce(doc, published)
  BY DamageKnown DEF Vetting!SignatureValid
<1>2. PICK k \in DOMAIN doc : /\ Vetting!At(doc, "Signature") = {k}
                              /\ doc[k].signature.digest.content = published
  BY <1>1 DEF SignedOnce
<1>3. Vetting!Signature(doc) = doc[k].signature
  BY <1>1, <1>2, Singled DEF Vetting!Signature, SignedOnce, Sequence
<1>4. Vetting!Unsigned(doc) = published
  BY <1>2, <1>3 DEF Vetting!SignatureValid
<1>5. Vetting!Iterated(doc) = doc
  BY DEF Vetting!Iterated
<1>6. QED
  BY <1>1, <1>2, <1>4, <1>5, ReadAsUnsigned DEF SignedOnce

\* What is read from a verified answer was published.
VerifiedInv ==
  /\ DOMAIN service = Vettings /\ DOMAIN stray = Vettings
  /\ VerifiedAsPublished

\* An answer that arrives keeps it.
LEMMA VerifiedArrives ==
  ASSUME VerifiedInv, NEW v \in Vettings, Vetting!GetServiceEndpoint(v)
  PROVE  VerifiedInv'
<1> USE DEF VerifiedInv, VerifiedAsPublished, Vetting!VerifiedAsPublished
<1>1. CASE UNCHANGED <<service, stray>>
  BY <1>1
<1>2. CASE ~UNCHANGED <<service, stray>>
  <2>1. PICK published \in Vetting!MetadataDocs(Vetting!Host) \ {<<>>}, tail \in BOOLEAN :
        \E doc \in Vetting!DamagedMetadata(Vetting!SignedMetadata(published, tail)) :
          /\ service' = [service EXCEPT ![v] =
               [info |-> Vetting!ServiceInfo(Vetting!Iterated(doc)),
                verified |-> Vetting!VerifySmpSignature(doc, "ca", pki)]]
          /\ stray' = [stray EXCEPT ![v] = (Vetting!Inside(doc) # <<>>)]
    BY <1>2 DEF Vetting!GetServiceEndpoint
  <2>2. PICK doc \in Vetting!DamagedMetadata(Vetting!SignedMetadata(published, tail)) :
          /\ service' = [service EXCEPT ![v] =
               [info |-> Vetting!ServiceInfo(Vetting!Iterated(doc)),
                verified |-> Vetting!VerifySmpSignature(doc, "ca", pki)]]
          /\ stray' = [stray EXCEPT ![v] = (Vetting!Inside(doc) # <<>>)]
    BY <2>1
  <2>3. /\ service'[v].info = Vetting!ServiceInfo(Vetting!Iterated(doc))
        /\ service'[v].verified.valid = Vetting!SignatureValid(doc)
        /\ stray'[v] = (Vetting!Inside(doc) # <<>>)
    BY <2>2 DEF Vetting!VerifySmpSignature
  <2>4. service'[v].verified.valid /\ ~stray'[v] =>
          service'[v].info = Vetting!ServiceInfo(published)
    BY <2>3, PublishedElements, ReadAsPublished
  <2>5. \A w \in Vettings : w # v => service'[w] = service[w] /\ stray'[w] = stray[w]
    BY <2>2
  <2>6. DOMAIN service' = Vettings /\ DOMAIN stray' = Vettings
    BY <2>2
  <2>7. ASSUME NEW w \in Vettings, service'[w].verified.valid, ~stray'[w]
        PROVE  \E d \in Vetting!MetadataDocs(Vetting!Host) :
                 service'[w].info = Vetting!ServiceInfo(d)
    BY <2>4, <2>5, <2>7
  <2>8. QED
    BY <2>6, <2>7
<1>3. QED
  BY <1>1, <1>2

\* What is read from an answer whose signature is valid is what is read from a document
\* the SMP published, of one process or several, whatever the network made of the answer,
\* unless elements are inside the signature, for any number of vettings and any hosts
\* (get_service_endpoint, verify_smp_signature, _parse_service_metadata).
THEOREM VerifiedWasPublished == QuerySpec => []VerifiedAsPublished
<1>1. QueryInit => VerifiedInv
  BY DEF QueryInit, Vetting!Init, Vetting!NotVerified, VerifiedInv, VerifiedAsPublished,
         Vetting!VerifiedAsPublished
<1>2. VerifiedInv /\ [QueryNext]_query_vars => VerifiedInv'
  <2> SUFFICES ASSUME VerifiedInv, [QueryNext]_query_vars PROVE VerifiedInv'
    OBVIOUS
  <2>1. CASE \E v \in Vettings : Vetting!GetServiceEndpoint(v)
    BY <2>1, VerifiedArrives
  <2>2. CASE UNCHANGED <<service, stray>>
    BY <2>2 DEF VerifiedInv, VerifiedAsPublished, Vetting!VerifiedAsPublished
  <2>3. \/ \E v \in Vettings : Vetting!GetServiceEndpoint(v)
        \/ UNCHANGED <<service, stray>>
    BY DEF QueryNext, Vetting!Next, Vetting!CheckRevocation, Vetting!CheckOcsp,
           Vetting!CheckCrl, Vetting!Revoke, Vetting!Publish, Vetting!history, Searching,
           query_vars, vetting_vars
  <2>4. QED
    BY <2>1, <2>2, <2>3
<1>3. VerifiedInv => VerifiedAsPublished
  BY DEF VerifiedInv
<1>4. QED
  BY <1>1, <1>2, <1>3, PTL DEF QuerySpec
=============================================================================
