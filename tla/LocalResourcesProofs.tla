---------------------------- MODULE LocalResourcesProofs ----------------------------
(***************************************************************************)
(* Proofs about what the users of one process or machine have in common,   *)
(* for any number of users.                                                *)
(*                                                                         *)
(* Connections: IInv adds to the property that under "async with" nothing  *)
(* is open while a close is suspended (StructuredTidy), and that a client  *)
(* is open only if it was built (LifeTyped).                               *)
(*                                                                         *)
(* Stylesheets: DownloadInv says that the files a run has come to are as   *)
(* the run must leave them (HandledComplete), and that a file is cut only  *)
(* by the write under way or a run that died (CutExplained).  ReaderInv    *)
(* says that a reader whose file stayed whole has the backend that suits   *)
(* it.                                                                     *)
(*                                                                         *)
(* Code lists: texts of the same width are compared as their numbers are,  *)
(* so the last name is that of the newest release (AlignedInOrder).        *)
(***************************************************************************)
EXTENDS LocalResources, FiniteSetTheorems, SequenceTheorems, TLAPS

-----------------------------------------------------------------------------
(* The order of texts *)

\* How sorted() compares two texts, as sequences of characters.
Less(a, b) ==
  \E i \in DOMAIN b :
    /\ \A j \in 1..(i - 1) : j \in DOMAIN a /\ a[j] = b[j]
    /\ i \notin DOMAIN a \/ a[i] < b[i]

LEMMA LessAsymmetric ==
  ASSUME NEW l \in Nat, NEW m \in Nat, NEW a \in [1..l -> Nat], NEW b \in [1..m -> Nat],
         Less(a, b), Less(b, a)
  PROVE  FALSE
<1>1. PICK i \in DOMAIN b : /\ \A j \in 1..(i - 1) : j \in DOMAIN a /\ a[j] = b[j]
                            /\ i \notin DOMAIN a \/ a[i] < b[i]
  BY DEF Less
<1>2. PICK k \in DOMAIN a : /\ \A j \in 1..(k - 1) : j \in DOMAIN b /\ b[j] = a[j]
                            /\ k \notin DOMAIN b \/ b[k] < a[k]
  BY DEF Less
<1>3. i \in 1..m /\ k \in 1..l
  OBVIOUS
<1>4. CASE i < k
  <2>1. i \in 1..(k - 1) /\ i \in DOMAIN a
    BY <1>3, <1>4
  <2>2. a[i] = b[i]
    BY <1>2, <2>1
  <2>3. QED
    BY <1>1, <1>3, <2>1, <2>2
<1>5. CASE k < i
  <2>1. k \in 1..(i - 1) /\ k \in DOMAIN b
    BY <1>3, <1>5
  <2>2. a[k] = b[k]
    BY <1>1, <2>1
  <2>3. QED
    BY <1>2, <1>3, <2>1, <2>2
<1>6. CASE i = k
  <2>1. a[i] < b[i] /\ b[i] < a[i] /\ a[i] \in Nat /\ b[i] \in Nat
    BY <1>1, <1>2, <1>6
  <2>2. QED
    BY <2>1
<1>7. QED
  BY <1>3, <1>4, <1>5, <1>6

-----------------------------------------------------------------------------
(* Names of code list files *)

Numbers == 0..99
Text(n) == [1..n -> Nat]
Width(n) == IF n < 10 THEN 1 ELSE 2

\* One text after another.
LEMMA Joined ==
  ASSUME NEW l \in Nat, NEW m \in Nat, NEW a \in Text(l), NEW b \in Text(m)
  PROVE  /\ a \o b \in Text(l + m)
         /\ \A i \in 1..l : (a \o b)[i] = a[i]
         /\ \A i \in 1..m : (a \o b)[l + i] = b[i]
<1>1. a \in Seq(Nat) /\ b \in Seq(Nat) /\ Len(a) = l /\ Len(b) = m
  BY DEF Text
<1>2. /\ a \o b \in Seq(Nat) /\ Len(a \o b) = l + m
      /\ \A i \in 1..(l + m) : (a \o b)[i] = IF i <= l THEN a[i] ELSE b[i - l]
  BY <1>1, ConcatProperties
<1> DEFINE c == a \o b
<1> HIDE DEF c
<1>3. c \in Text(l + m)
  <2>1. c \in [1..Len(c) -> Nat] /\ Len(c) = l + m
    BY <1>2, LenProperties DEF c
  <2>2. QED
    BY <2>1 DEF Text
<1>4. \A i \in 1..(l + m) : c[i] = IF i <= l THEN a[i] ELSE b[i - l]
  BY <1>2 DEF c
<1>5. ASSUME NEW i \in 1..l PROVE c[i] = a[i]
  <2>1. i \in 1..(l + m) /\ i <= l
    OBVIOUS
  <2>2. QED
    BY <1>4, <2>1
<1>6. ASSUME NEW i \in 1..m PROVE c[l + i] = b[i]
  <2>1. l + i \in 1..(l + m) /\ ~(l + i <= l) /\ l + i - l = i
    OBVIOUS
  <2>2. QED
    BY <1>4, <2>1
<1>7. QED
  BY <1>3, <1>5, <1>6 DEF c

\* The characters of a number tell it from others.
LEMMA ShownDigits ==
  ASSUME NEW n \in Numbers
  PROVE  LET shown == CodeListFiles!Shown(n)
         IN /\ shown \in Text(Width(n))
            /\ \A i \in 1..Width(n) : shown[i] > 0
            /\ n < 10 => shown[1] = n + 1
            /\ n >= 10 => shown[1] = (n \div 10) + 1 /\ shown[2] = (n % 10) + 1
<1> USE DEF Numbers, CodeListFiles!Shown, CodeListFiles!Digits, Text, Width
<1>1. CASE n < 10
  <2>1. CodeListFiles!Digits(n) = <<n>> /\ DOMAIN <<n>> = 1..1
    BY <1>1
  <2>2. CodeListFiles!Shown(n) = [i \in 1..1 |-> n + 1]
    BY <1>1, <2>1
  <2>3. QED
    BY <1>1, <2>2
<1>2. CASE n >= 10
  <2> DEFINE d == n \div 10
             e == n % 10
             shown == CodeListFiles!Shown(n)
  <2>1. CodeListFiles!Digits(n) = <<d, e>> /\ d \in Nat /\ e \in Nat
    BY <1>2
  <2>2. shown = [i \in DOMAIN <<d, e>> |-> <<d, e>>[i] + 1]
    BY <2>1
  <2> HIDE DEF d, e, shown
  <2>3. shown = [i \in 1..2 |-> IF i = 1 THEN d + 1 ELSE e + 1]
    BY <2>1, <2>2
  <2>4. /\ shown \in [1..2 -> Nat] /\ shown[1] = d + 1 /\ shown[2] = e + 1
        /\ \A i \in 1..2 : shown[i] > 0
    BY <2>1, <2>3
  <2>5. Width(n) = 2 /\ ~(n < 10)
    BY <1>2
  <2>6. shown \in Text(Width(n)) /\ \A i \in 1..Width(n) : shown[i] > 0
    BY <2>4, <2>5
  <2>7. QED
    BY <2>4, <2>5, <2>6 DEF d, e, shown
<1>3. QED
  BY <1>1, <1>2

\* The name of a release: its numbers, with dots after them.
LEMMA NameLayout ==
  ASSUME NEW m \in Numbers, NEW n \in Numbers
  PROVE  LET M == CodeListFiles!Shown(m)
             N == CodeListFiles!Shown(n)
             name == M \o <<0>> \o N \o <<0>>
         IN /\ name \in Text(Width(m) + Width(n) + 2)
            /\ \A i \in 1..Width(m) : name[i] = M[i]
            /\ name[Width(m) + 1] = 0
            /\ \A i \in 1..Width(n) : name[Width(m) + 1 + i] = N[i]
<1> DEFINE M == CodeListFiles!Shown(m)
           N == CodeListFiles!Shown(n)
           v == Width(m)
           w == Width(n)
           x == M \o <<0>>
           y == x \o N
           name == y \o <<0>>
<1>1. M \in Text(v) /\ N \in Text(w) /\ <<0>> \in Text(1) /\ v \in Nat /\ w \in Nat
  <2>1. <<0>> \in Text(1)
    BY DEF Text
  <2>2. QED
    BY <2>1, ShownDigits DEF Width
<1> HIDE DEF M, N, v, w
<1>2. x \in Text(v + 1) /\ x[v + 1] = 0 /\ \A i \in 1..v : x[i] = M[i]
  <2>1. 1 \in Nat /\ <<0>>[1] = 0 /\ 1 \in 1..1
    OBVIOUS
  <2>2. /\ x \in Text(v + 1)
        /\ \A i \in 1..v : x[i] = M[i]
        /\ \A i \in 1..1 : x[v + i] = <<0>>[i]
    BY <1>1, <2>1, Joined
  <2>3. QED
    BY <2>1, <2>2
<1> HIDE DEF x
<1>3. /\ y \in Text(v + 1 + w)
      /\ \A i \in 1..(v + 1) : y[i] = x[i]
      /\ \A i \in 1..w : y[v + 1 + i] = N[i]
  <2>1. v + 1 \in Nat
    BY <1>1
  <2>2. QED
    BY <1>1, <1>2, <2>1, Joined
<1> HIDE DEF y
<1>4. name \in Text(v + 1 + w + 1) /\ \A i \in 1..(v + 1 + w) : name[i] = y[i]
  <2>1. v + 1 + w \in Nat /\ 1 \in Nat
    BY <1>1
  <2>2. QED
    BY <1>1, <1>3, <2>1, Joined
<1> HIDE DEF name
<1>5. name \in Text(v + w + 2)
  <2>1. v + 1 + w + 1 = v + w + 2
    BY <1>1
  <2>2. QED
    BY <1>4, <2>1
<1>6. ASSUME NEW i \in 1..v PROVE name[i] = M[i]
  <2>1. i \in 1..(v + 1) /\ i \in 1..(v + 1 + w)
    BY <1>1
  <2>2. QED
    BY <1>2, <1>3, <1>4, <2>1
<1>7. name[v + 1] = 0
  <2>1. v + 1 \in 1..(v + 1) /\ v + 1 \in 1..(v + 1 + w)
    BY <1>1
  <2>2. QED
    BY <1>2, <1>3, <1>4, <2>1
<1>8. ASSUME NEW i \in 1..w PROVE name[v + 1 + i] = N[i]
  <2>1. v + 1 + i \in 1..(v + 1 + w)
    BY <1>1
  <2>2. QED
    BY <1>3, <1>4, <2>1
<1>9. QED
  BY <1>5, <1>6, <1>7, <1>8 DEF name, y, x, v, w, M, N

Name(m, n) == CodeListFiles!Shown(m) \o <<0>> \o CodeListFiles!Shown(n) \o <<0>>

\* Numbers of the same width are compared as texts as they are as numbers.
LEMMA DigitsOrdered ==
  ASSUME NEW m \in Numbers, NEW n \in Numbers, m < n, Width(m) = Width(n)
  PROVE  \E i \in 1..Width(m) :
           /\ \A j \in 1..(i - 1) : CodeListFiles!Shown(m)[j] = CodeListFiles!Shown(n)[j]
           /\ CodeListFiles!Shown(m)[i] < CodeListFiles!Shown(n)[i]
<1> DEFINE M == CodeListFiles!Shown(m)
           N == CodeListFiles!Shown(n)
<1>1. \A k \in Numbers :
        k \in Nat /\ k \div 10 \in Nat /\ k % 10 \in Nat /\ k = 10 * (k \div 10) + (k % 10)
        /\ k % 10 < 10
  BY DEF Numbers
<1>2. CASE m < 10
  <2>1. n < 10 /\ 1 \in 1..Width(m)
    BY <1>1, <1>2 DEF Width
  <2>2. M[1] = m + 1 /\ N[1] = n + 1
    BY <1>2, <2>1, ShownDigits
  <2>3. M[1] < N[1]
    BY <1>1, <2>2
  <2>4. QED
    BY <2>1, <2>3
<1>3. CASE m >= 10
  <2>1. n >= 10 /\ 1 \in 1..Width(m) /\ 2 \in 1..Width(m)
    BY <1>1, <1>3 DEF Width
  <2>2. /\ M[1] = (m \div 10) + 1 /\ M[2] = (m % 10) + 1
        /\ N[1] = (n \div 10) + 1 /\ N[2] = (n % 10) + 1
    BY <1>3, <2>1, ShownDigits
  <2>3. \/ m \div 10 < n \div 10
        \/ m \div 10 = n \div 10 /\ m % 10 < n % 10
    <3> DEFINE a == m \div 10
               b == m % 10
               c == n \div 10
               d == n % 10
    <3>1. /\ a \in Nat /\ b \in Nat /\ c \in Nat /\ d \in Nat /\ b < 10 /\ d < 10
          /\ m = 10 * a + b /\ n = 10 * c + d
      BY <1>1
    <3> HIDE DEF a, b, c, d
    <3>2. a < c \/ (a = c /\ b < d)
      BY <3>1
    <3>3. QED
      BY <3>2 DEF a, b, c, d
  <2>4. CASE m \div 10 < n \div 10
    <3>1. M[1] < N[1]
      BY <1>1, <2>2, <2>4
    <3>2. QED
      BY <2>1, <3>1
  <2>5. CASE m \div 10 = n \div 10 /\ m % 10 < n % 10
    <3>1. M[1] = N[1] /\ M[2] < N[2]
      BY <1>1, <2>2, <2>5
    <3>2. \A j \in 1..(2 - 1) : j = 1
      OBVIOUS
    <3>3. QED
      BY <2>1, <3>1, <3>2
  <2>6. QED
    BY <2>3, <2>4, <2>5
<1>4. QED
  BY <1>1, <1>2, <1>3

\* The names of two releases come in the order of their numbers, if the one that
\* decides has the same width in both.
LEMMA NamesOrdered ==
  ASSUME NEW m \in Numbers, NEW n \in Numbers, NEW p \in Numbers, NEW q \in Numbers,
         \/ m < p /\ Width(m) = Width(p)
         \/ m = p /\ n < q /\ Width(n) = Width(q)
  PROVE  Less(Name(m, n), Name(p, q))
<1> DEFINE M == CodeListFiles!Shown(m)
           N == CodeListFiles!Shown(n)
           P == CodeListFiles!Shown(p)
           Q == CodeListFiles!Shown(q)
           x == Name(m, n)
           y == Name(p, q)
           a == Width(m)
           b == Width(n)
           c == Width(p)
           d == Width(q)
<1>1. a \in Nat /\ b \in Nat /\ c \in Nat /\ d \in Nat
  BY DEF Width
<1>2. /\ x \in [1..(a + b + 2) -> Nat]
      /\ \A i \in 1..a : x[i] = M[i]
      /\ x[a + 1] = 0
      /\ \A i \in 1..b : x[a + 1 + i] = N[i]
  BY NameLayout DEF Name, Text
<1>3. /\ y \in [1..(c + d + 2) -> Nat]
      /\ \A i \in 1..c : y[i] = P[i]
      /\ y[c + 1] = 0
      /\ \A i \in 1..d : y[c + 1 + i] = Q[i]
  BY NameLayout DEF Name, Text
<1>4. CASE m < p /\ a = c
  <2>1. PICK i \in 1..a : (\A j \in 1..(i - 1) : M[j] = P[j]) /\ M[i] < P[i]
    BY <1>4, DigitsOrdered
  <2> HIDE DEF M, N, P, Q, x, y, a, b, c, d
  <2>2. i \in DOMAIN y /\ x[i] < y[i]
    BY <1>1, <1>2, <1>3, <1>4, <2>1
  <2>3. ASSUME NEW j \in 1..(i - 1) PROVE j \in DOMAIN x /\ x[j] = y[j]
    <3>1. j \in 1..a /\ j \in 1..(a + b + 2)
      BY <1>1
    <3>2. QED
      BY <1>2, <1>3, <1>4, <2>1, <3>1
  <2>4. Less(x, y)
    BY <2>2, <2>3 DEF Less
  <2>5. QED
    BY <2>4 DEF x, y
<1>5. CASE m = p /\ n < q /\ b = d
  <2>1. PICK i \in 1..b : (\A j \in 1..(i - 1) : N[j] = Q[j]) /\ N[i] < Q[i]
    BY <1>5, DigitsOrdered
  <2>2. a = c /\ M = P
    BY <1>5
  <2> HIDE DEF M, N, P, Q, x, y, a, b, c, d
  <2>3. a + 1 + i \in 1..(c + d + 2) /\ a + 1 + i = c + 1 + i /\ i \in 1..d
    BY <1>1, <1>5, <2>2
  <2>4. a + 1 + i \in DOMAIN y /\ x[a + 1 + i] < y[a + 1 + i]
    BY <1>2, <1>3, <2>1, <2>3
  <2>5. ASSUME NEW j \in 1..(a + 1 + i - 1) PROVE j \in DOMAIN x /\ x[j] = y[j]
    <3>1. j \in 1..(a + b + 2)
      BY <1>1
    <3>2. CASE j \in 1..a
      BY <1>2, <1>3, <2>2, <3>1, <3>2
    <3>3. CASE j = a + 1
      BY <1>2, <1>3, <2>2, <3>1, <3>3
    <3>4. CASE j > a + 1
      <4>1. PICK k \in 1..(i - 1) : j = a + 1 + k
        <5>1. j - (a + 1) \in 1..(i - 1) /\ j = a + 1 + (j - (a + 1))
          BY <1>1, <3>4
        <5>2. QED
          BY <5>1
      <4>2. k \in 1..b /\ k \in 1..d /\ N[k] = Q[k]
        BY <1>1, <1>5, <2>1
      <4>3. x[a + 1 + k] = N[k] /\ y[c + 1 + k] = Q[k]
        BY <1>2, <1>3, <4>2
      <4>4. QED
        BY <1>2, <2>2, <3>1, <4>1, <4>2, <4>3
    <3>5. QED
      BY <1>1, <3>2, <3>3, <3>4
  <2>6. Less(x, y)
    <3> DEFINE e == a + 1 + i
    <3>1. e \in DOMAIN y /\ x[e] < y[e]
      BY <2>4
    <3>2. ASSUME NEW j \in 1..(e - 1) PROVE j \in DOMAIN x /\ x[j] = y[j]
      <4>1. j \in 1..(a + 1 + i - 1)
        BY <1>1
      <4> HIDE DEF e
      <4>2. QED
        BY <2>5, <4>1
    <3> HIDE DEF e
    <3>3. QED
      BY <3>1, <3>2 DEF Less
  <2>7. QED
    BY <2>6 DEF x, y
<1>6. QED
  BY <1>4, <1>5

-----------------------------------------------------------------------------
(* Connections *)

USE LifecycleAssumption

LifeTyped ==
  /\ structured \in BOOLEAN
  /\ open \subseteq built /\ built \subseteq Clients
  /\ IsFiniteSet(open)
  /\ closer \in [Closers -> {"new", "closing", "done"}]

Done == {x \in Closers : closer[x] = "done"}

StructuredTidy ==
  structured => /\ open \subseteq {client}
                /\ ~NoneClosing => open = {}

OverlappedBounded == Cardinality(open \ {client}) <= Cardinality(Done)

IInv == LifeTyped /\ StructuredTidy /\ OverlappedBounded

LEMMA DoneFinite == IsFiniteSet(Done) /\ Cardinality(Done) \in Nat
BY FS_Subset, FS_CardinalityType DEF Done

LEMMA IInvInit == Init => IInv
<1> SUFFICES ASSUME Init PROVE IInv
  OBVIOUS
<1>1. open = {} /\ open \ {client} = {}
  BY DEF Init
<1>2. Cardinality(open \ {client}) = 0 /\ IsFiniteSet(open)
  BY <1>1, FS_EmptySet
<1>3. QED
  BY <1>1, <1>2, DoneFinite DEF Init, IInv, LifeTyped, StructuredTidy, OverlappedBounded

\* A request takes the client there is, or a new one that no close knows
\* (_get_client).
LEMMA GetClientKeeps ==
  ASSUME IInv, NEW c \in Calls, GetClient(c) PROVE IInv'
<1> USE DEF IInv, LifeTyped, StructuredTidy, OverlappedBounded, Done
<1>1. CASE client \in open /\ UNCHANGED <<client, open, built>>
  BY <1>1 DEF GetClient, NoneClosing
<1>2. ASSUME NEW new \in Clients \ built, client \notin open, client' = new,
             open' = open \cup {new}, built' = built \cup {new}
      PROVE  IInv'
  <2>1. IsFiniteSet(open')
    BY <1>2, FS_AddElement
  <2>2. LifeTyped'
    BY <1>2, <2>1 DEF GetClient
  <2>3. StructuredTidy'
    BY <1>2 DEF GetClient, NoneClosing
  <2>4. open' \ {client'} = open \ {client}
    BY <1>2
  <2>5. OverlappedBounded'
    BY <2>4 DEF GetClient
  <2>6. QED
    BY <2>2, <2>3, <2>5
<1>3. QED
  BY <1>1, <1>2 DEF GetClient

\* A close takes the client out of the open ones before it suspends (aclose).
LEMMA BeginCloseKeeps ==
  ASSUME IInv, NEW x \in Closers, BeginClose(x) PROVE IInv'
<1> USE DEF IInv, LifeTyped, StructuredTidy, OverlappedBounded, Done
<1>1. IsFiniteSet(open')
  BY FS_RemoveElement DEF BeginClose
<1>2. LifeTyped'
  BY <1>1 DEF BeginClose
<1>3. StructuredTidy'
  BY DEF BeginClose
<1>4. Done' = Done
  BY DEF BeginClose
<1>5. open' \ {client'} = open \ {client}
  BY DEF BeginClose
<1>6. QED
  BY <1>2, <1>3, <1>4, <1>5

\* A close that ends drops one client at most, and is one more that is done.
LEMMA EndCloseKeeps ==
  ASSUME IInv, NEW x \in Closers, EndClose(x) PROVE IInv'
<1> USE DEF IInv, LifeTyped, StructuredTidy, OverlappedBounded
<1>1. LifeTyped'
  BY DEF EndClose
<1>2. StructuredTidy'
  <2> SUFFICES ASSUME structured' PROVE open' = {}
    OBVIOUS
  <2>1. structured /\ open' = open
    BY DEF EndClose
  <2>2. CASE closer[x] = "closing"
    BY <2>1, <2>2 DEF NoneClosing
  <2>3. CASE client \notin open
    BY <2>1, <2>3
  <2>4. QED
    BY <2>2, <2>3 DEF EndClose
<1>3. x \notin Done /\ Done' = Done \cup {x}
  BY DEF EndClose, Done
<1>4. Cardinality(Done') = Cardinality(Done) + 1
  BY <1>3, DoneFinite, FS_AddElement
<1>5. open' \ {client'} = open
  BY DEF EndClose
<1>6. /\ IsFiniteSet(open \ {client})
      /\ Cardinality(open) <= Cardinality(open \ {client}) + 1
      /\ Cardinality(open) \in Nat /\ Cardinality(open \ {client}) \in Nat
  <2>1. IsFiniteSet(open)
    OBVIOUS
  <2>2. /\ IsFiniteSet(open \ {client})
        /\ Cardinality(open \ {client}) =
             IF client \in open THEN Cardinality(open) - 1 ELSE Cardinality(open)
    BY <2>1, FS_RemoveElement
  <2>3. Cardinality(open) \in Nat
    BY <2>1, FS_CardinalityType
  <2>4. Cardinality(open \ {client}) \in Nat
    BY <2>2, FS_CardinalityType
  <2>5. QED
    BY <2>2, <2>3, <2>4
<1>7. OverlappedBounded'
  <2>1. Cardinality(Done) \in Nat
    BY DoneFinite
  <2>2. Cardinality(open \ {client}) <= Cardinality(Done)
    OBVIOUS
  <2>3. Cardinality(open) <= Cardinality(Done')
    BY <1>4, <1>6, <2>1, <2>2
  <2>4. QED
    BY <1>5, <2>3
<1>8. QED
  BY <1>1, <1>2, <1>7

LEMMA IInvNext == IInv /\ [Next]_vars => IInv'
<1> SUFFICES ASSUME IInv, [Next]_vars PROVE IInv'
  OBVIOUS
<1>1. ASSUME NEW c \in Calls, EndRequest(c) PROVE IInv'
  BY <1>1 DEF EndRequest, IInv, LifeTyped, StructuredTidy, OverlappedBounded, Done,
              NoneClosing
<1>2. CASE UNCHANGED vars
  BY <1>2 DEF vars, IInv, LifeTyped, StructuredTidy, OverlappedBounded, Done, NoneClosing
<1>3. QED
  BY <1>1, <1>2, GetClientKeeps, BeginCloseKeeps, EndCloseKeeps DEF Next

LEMMA IInvBounds == IInv => OrphansBounded
<1> SUFFICES ASSUME IInv PROVE OrphansBounded
  OBVIOUS
<1>1. CASE structured
  <2>1. open \ {client} = {}
    BY <1>1 DEF IInv, StructuredTidy
  <2>2. QED
    BY <1>1, <2>1, FS_EmptySet DEF OrphansBounded
<1>2. CASE ~structured
  BY <1>2 DEF IInv, OverlappedBounded, Done, OrphansBounded
<1>3. QED
  BY <1>1, <1>2

\* However calls and closes of one client overlap, each close that is done leaves at
\* most one client open that nobody will close; under "async with" none does
\* (aclose, _get_client, __aexit__).
THEOREM EachCloseOrphansOne == ResourceSpec => []OrphansBounded
<1>1. ResourceInit => IInv
  BY IInvInit DEF ResourceInit
<1>2. IInv /\ [ResourceNext]_resource_vars => IInv'
  <2>1. [ResourceNext]_resource_vars => [Next]_vars
    BY DEF ResourceNext, resource_vars
  <2>2. QED
    BY <2>1, IInvNext
<1>3. IInv => OrphansBounded
  BY IInvBounds
<1>4. QED
  BY <1>1, <1>2, <1>3, PTL DEF ResourceSpec

-----------------------------------------------------------------------------
(* Downloads *)

USE ResourceAssumption

\* The part of the types that the proofs rest on.
FilesTyped ==
  /\ asof \in Nat /\ published \in Nat /\ asof <= published /\ published <= MaxReleases
  /\ file \in [Rules!Downloads ->
                {None, Rules!Cut} \cup {Rules!Whole(n) : n \in 0..MaxReleases}]
  /\ deaths \in Nat
  /\ code = 0 => job = "idle"

\* What the run under way holds.
RunTyped ==
  job # "idle" =>
    /\ queue \in Seq(Rules!Downloads)
    /\ job \in {"next", "write", "writing"}
    /\ job # "next" => queue # <<>> /\ fetched \in Nat /\ asof <= fetched /\ fetched <= published

\* The file of a spec is as a run without errors leaves it.
Complete(f) ==
  /\ file[f] # None
  /\ overwrite \/ deaths = 0 => file[f].whole
  /\ overwrite => file[f].release >= asof

ElementsOf(q) == {q[k] : k \in DOMAIN q}
Left == ElementsOf(queue)

\* A run that has met no error has completed the files it has come to.
HandledComplete ==
  job # "idle" /\ ~failed => \A f \in Rules!Downloads \ Left : Complete(f)

\* Only a write under way, or a run that died, leaves a file cut.
CutExplained ==
  \A f \in Rules!Downloads : file[f] = Rules!Cut =>
    deaths > 0 \/ (job = "writing" /\ f = Head(queue))

DownloadInv ==
  FilesTyped /\ RunTyped /\ HandledComplete /\ CutExplained /\ ZeroMeansComplete

LEMMA DownloadInit == Rules!Init => DownloadInv
<1> SUFFICES ASSUME Rules!Init PROVE DownloadInv
  OBVIOUS
<1> USE DEF Rules!Init
<1>1. FilesTyped /\ RunTyped /\ HandledComplete
  BY DEF FilesTyped, RunTyped, HandledComplete
<1>2. CutExplained
  BY DEF CutExplained
<1>3. ZeroMeansComplete
  BY DEF ZeroMeansComplete, Rules!ZeroMeansComplete
<1>4. QED
  BY <1>1, <1>2, <1>3 DEF DownloadInv

\* What a queue without its head leaves to do.
LEMMA LeftOfTail ==
  ASSUME NEW S, NEW q \in Seq(S), q # <<>>
  PROVE  /\ Tail(q) \in Seq(S) /\ Head(q) \in S
         /\ ElementsOf(q) = {Head(q)} \cup ElementsOf(Tail(q))
<1> USE DEF ElementsOf
<1>1. /\ Tail(q) \in Seq(S) /\ Len(Tail(q)) = Len(q) - 1 /\ Len(q) \in Nat \ {0}
      /\ \A k \in 1..Len(Tail(q)) : Tail(q)[k] = q[k + 1]
      /\ Head(q) = q[1] /\ Head(q) \in S
      /\ DOMAIN q = 1..Len(q) /\ DOMAIN Tail(q) = 1..Len(Tail(q))
  OBVIOUS
<1>2. ASSUME NEW k \in DOMAIN q PROVE q[k] \in {Head(q)} \cup {Tail(q)[j] : j \in DOMAIN Tail(q)}
  <2>1. CASE k = 1
    BY <1>1, <2>1
  <2>2. CASE k # 1
    <3>1. k - 1 \in DOMAIN Tail(q) /\ Tail(q)[k - 1] = q[k]
      BY <1>1, <2>2
    <3>2. QED
      BY <3>1
  <2>3. QED
    BY <2>1, <2>2
<1>3. ASSUME NEW k \in DOMAIN Tail(q) PROVE Tail(q)[k] \in {q[j] : j \in DOMAIN q}
  <2>1. k + 1 \in DOMAIN q /\ Tail(q)[k] = q[k + 1]
    BY <1>1
  <2>2. QED
    BY <2>1
<1>4. Head(q) \in {q[j] : j \in DOMAIN q}
  <2>1. 1 \in DOMAIN q
    BY <1>1
  <2>2. QED
    BY <1>1, <2>1
<1>5. QED
  BY <1>1, <1>2, <1>3, <1>4

\* The run goes on with the rest of the queue.
LEMMA HeadHandled ==
  ASSUME queue \in Seq(Rules!Downloads), queue # <<>>, queue' = Tail(queue)
  PROVE  /\ Head(queue) \in Rules!Downloads /\ queue' \in Seq(Rules!Downloads)
         /\ Left = {Head(queue)} \cup Left'
BY LeftOfTail DEF Left

\* A file that is there and not cut is whole.
LEMMA WholeFile ==
  ASSUME FilesTyped, NEW f \in Rules!Downloads, file[f] # None, file[f] # Rules!Cut
  PROVE  file[f].whole
BY DEF FilesTyped, Rules!Whole

LEMMA RunKeeps == ASSUME DownloadInv, Rules!Run PROVE DownloadInv'
<1> USE DEF Rules!Run, DownloadInv
<1>1. FilesTyped' /\ RunTyped'
  BY DEF FilesTyped, RunTyped
<1>2. HandledComplete'
  <2>1. queue' = Specs
    OBVIOUS
  <2>2. \A f \in Rules!Downloads : f \in Left'
    BY <2>1 DEF Left, ElementsOf, Rules!Downloads
  <2>3. QED
    BY <2>2 DEF HandledComplete
<1>3. CutExplained' /\ ZeroMeansComplete'
  BY DEF CutExplained, ZeroMeansComplete, Rules!ZeroMeansComplete
<1>4. QED
  BY <1>1, <1>2, <1>3

\* A file that is skipped is there, and whole when no run died.
LEMMA SkipKeeps == ASSUME DownloadInv, Rules!Skip PROVE DownloadInv'
<1> USE DEF Rules!Skip, DownloadInv
<1> DEFINE h == Head(queue)
<1>1. /\ queue \in Seq(Rules!Downloads) /\ queue # <<>> /\ job = "next" /\ job' = "next"
      /\ queue' = Tail(queue) /\ file[h] # None /\ overwrite = FALSE
  BY DEF RunTyped, Rules!Skips
<1>2. h \in Rules!Downloads /\ queue' \in Seq(Rules!Downloads) /\ Left = {h} \cup Left'
  BY <1>1, HeadHandled
<1>3. FilesTyped' /\ RunTyped'
  BY <1>1, <1>2 DEF FilesTyped, RunTyped
<1>4. deaths = 0 => file[h].whole
  BY <1>1, <1>2, WholeFile DEF CutExplained, FilesTyped
<1>5. Complete(h)
  BY <1>1, <1>4 DEF Complete
<1>6. HandledComplete'
  BY <1>1, <1>2, <1>5 DEF HandledComplete, Complete
<1>7. CutExplained' /\ ZeroMeansComplete'
  BY <1>1 DEF CutExplained, ZeroMeansComplete, Rules!ZeroMeansComplete
<1>8. QED
  BY <1>3, <1>6, <1>7

LEMMA FetchKeeps == ASSUME DownloadInv, Rules!Fetch PROVE DownloadInv'
<1> USE DEF Rules!Fetch, DownloadInv
<1>1. /\ queue \in Seq(Rules!Downloads) /\ queue # <<>> /\ job = "next"
  BY DEF RunTyped
<1>2. FilesTyped'
  BY <1>1 DEF FilesTyped
<1>3. RunTyped'
  <2>1. queue' = Tail(queue) => queue' \in Seq(Rules!Downloads)
    BY <1>1, HeadHandled
  <2>2. QED
    BY <1>1, <2>1 DEF RunTyped, FilesTyped
<1>4. HandledComplete'
  BY <1>1 DEF HandledComplete, Left, Complete
<1>5. CutExplained' /\ ZeroMeansComplete'
  BY <1>1 DEF CutExplained, ZeroMeansComplete, Rules!ZeroMeansComplete, FilesTyped
<1>6. QED
  BY <1>2, <1>3, <1>4, <1>5

\* The file that is emptied is one the run has not completed.
LEMMA OpenKeeps == ASSUME DownloadInv, Rules!OpenFile PROVE DownloadInv'
<1> USE DEF Rules!OpenFile, DownloadInv
<1> DEFINE h == Head(queue)
<1>1. queue \in Seq(Rules!Downloads) /\ queue # <<>> /\ job = "write" /\ job' = "writing"
  BY DEF RunTyped
<1>2. h \in Rules!Downloads /\ h \in Left
  BY <1>1, LeftOfTail DEF Left, ElementsOf
<1>3. file' = [file EXCEPT ![h] = Rules!Cut]
  OBVIOUS
<1>4. FilesTyped' /\ RunTyped'
  BY <1>1, <1>2, <1>3 DEF FilesTyped, RunTyped
<1>5. HandledComplete'
  BY <1>1, <1>2, <1>3 DEF HandledComplete, Left, Complete, FilesTyped
<1>6. CutExplained'
  BY <1>1, <1>2, <1>3 DEF CutExplained, FilesTyped
<1>7. ZeroMeansComplete'
  BY <1>1 DEF ZeroMeansComplete, Rules!ZeroMeansComplete, FilesTyped
<1>8. QED
  BY <1>4, <1>5, <1>6, <1>7

\* The file that is filled is complete.
LEMMA FillKeeps == ASSUME DownloadInv, Rules!FillFile PROVE DownloadInv'
<1> USE DEF Rules!FillFile, DownloadInv
<1> DEFINE h == Head(queue)
<1>1. /\ queue \in Seq(Rules!Downloads) /\ queue # <<>> /\ job = "writing" /\ job' = "next"
      /\ fetched \in Nat /\ asof <= fetched /\ fetched <= published
  BY DEF RunTyped
<1>2. h \in Rules!Downloads /\ queue' \in Seq(Rules!Downloads) /\ Left = {h} \cup Left'
  BY <1>1, HeadHandled
<1>3. file' = [file EXCEPT ![h] = Rules!Whole(fetched)] /\ fetched \in 0..MaxReleases
  BY <1>1 DEF FilesTyped
<1>4. FilesTyped' /\ RunTyped'
  BY <1>1, <1>2, <1>3 DEF FilesTyped, RunTyped
<1>5. ASSUME NEW f \in Rules!Downloads, f = h PROVE Complete(f)'
  <2>1. file'[f] = Rules!Whole(fetched)
    BY <1>3, <1>5 DEF FilesTyped
  <2>2. Rules!Whole(fetched).whole /\ Rules!Whole(fetched).release = fetched
    BY DEF Rules!Whole
  <2>3. None # Rules!Whole(fetched)
    BY <1>3
  <2>4. asof' = asof
    OBVIOUS
  <2>5. QED
    BY <1>1, <2>1, <2>2, <2>3, <2>4 DEF Complete, FilesTyped
<1>6. ASSUME NEW f \in Rules!Downloads, f # h, Complete(f) PROVE Complete(f)'
  BY <1>3, <1>6 DEF Complete, FilesTyped
<1>7. HandledComplete'
  BY <1>1, <1>2, <1>5, <1>6 DEF HandledComplete
<1>8. CutExplained'
  <2>1. file'[h] # Rules!Cut
    BY <1>2, <1>3 DEF FilesTyped, Rules!Whole, Rules!Cut
  <2>2. QED
    BY <1>1, <1>2, <1>3, <2>1 DEF CutExplained, FilesTyped
<1>9. ZeroMeansComplete'
  BY <1>1 DEF ZeroMeansComplete, Rules!ZeroMeansComplete, FilesTyped
<1>10. QED
  BY <1>4, <1>7, <1>8, <1>9

\* At the end there is nothing left.
LEMMA ReturnKeeps == ASSUME DownloadInv, Rules!Return PROVE DownloadInv'
<1> USE DEF Rules!Return, DownloadInv
<1>1. queue = <<>> /\ job = "next" /\ job' = "idle"
  OBVIOUS
<1>2. FilesTyped' /\ RunTyped' /\ HandledComplete'
  BY <1>1 DEF FilesTyped, RunTyped, HandledComplete
<1>3. CutExplained'
  BY <1>1 DEF CutExplained
<1>4. Left = {}
  BY <1>1 DEF Left, ElementsOf
<1>5. ZeroMeansComplete'
  BY <1>1, <1>4 DEF HandledComplete, Complete, ZeroMeansComplete, Rules!ZeroMeansComplete
<1>6. QED
  BY <1>2, <1>3, <1>5

\* A run that dies returns nothing, and excuses what it leaves.
LEMMA DieKeeps == ASSUME DownloadInv, Rules!Die PROVE DownloadInv'
<1> USE DEF Rules!Die, DownloadInv
<1>1. job # "idle" /\ job' = "idle" /\ deaths' = deaths + 1 /\ deaths \in Nat /\ code' # 0
  BY DEF FilesTyped
<1>2. FilesTyped' /\ RunTyped' /\ HandledComplete' /\ CutExplained'
  BY <1>1 DEF FilesTyped, RunTyped, HandledComplete, CutExplained
<1>3. ZeroMeansComplete'
  BY <1>1 DEF ZeroMeansComplete, Rules!ZeroMeansComplete
<1>4. QED
  BY <1>2, <1>3

LEMMA DownloadNext == DownloadInv /\ [Rules!Next]_rules_vars => DownloadInv'
<1> SUFFICES ASSUME DownloadInv, [Rules!Next]_rules_vars PROVE DownloadInv'
  OBVIOUS
<1>1. CASE Rules!Publish
  BY <1>1 DEF Rules!Publish, Rules!job_vars, DownloadInv, FilesTyped, RunTyped, HandledComplete,
     CutExplained, Left, ElementsOf, Complete, ZeroMeansComplete, Rules!ZeroMeansComplete
<1>2. CASE UNCHANGED <<published, file, job, queue, fetched, failed, overwrite, code, deaths, asof>>
  BY <1>2 DEF DownloadInv, FilesTyped, RunTyped, HandledComplete,
     CutExplained, Left, ElementsOf, Complete, ZeroMeansComplete, Rules!ZeroMeansComplete
<1>3. ASSUME NEW r \in Readers,
             Rules!Call(r) \/ Rules!Probe(r) \/ Rules!Construct(r) \/ Rules!Validate(r)
      PROVE  DownloadInv'
  BY <1>2, <1>3 DEF Rules!Call, Rules!Probe, Rules!Construct, Rules!Validate, Rules!job_vars
<1>4. CASE UNCHANGED rules_vars
  BY <1>2, <1>4 DEF rules_vars
<1>5. QED
  BY <1>1, <1>3, <1>4, RunKeeps, SkipKeeps, FetchKeeps, OpenKeeps, FillKeeps, ReturnKeeps,
     DieKeeps DEF Rules!Next

\* The steps of the other parts leave the stylesheets alone.
LEMMA RulesSteps ==
  [ResourceNext]_resource_vars => [Rules!Next]_rules_vars
BY DEF ResourceNext, resource_vars

\* A download that returns 0 leaves every file there, whole and new, for any number of
\* files, runs, releases and deaths (download_artefacts).
THEOREM ZeroIsComplete == ResourceSpec => []ZeroMeansComplete
<1>1. ResourceInit => DownloadInv
  BY DownloadInit DEF ResourceInit
<1>2. DownloadInv /\ [ResourceNext]_resource_vars => DownloadInv'
  BY DownloadNext, RulesSteps
<1>3. DownloadInv => ZeroMeansComplete
  BY DEF DownloadInv
<1>4. QED
  BY <1>1, <1>2, <1>3, PTL DEF ResourceSpec

-----------------------------------------------------------------------------
(* Readers *)

ReadersTyped ==
  /\ at \in [Readers -> {"idle", "probe", "construct", "validate"}]
  /\ report \in [Readers -> BOOLEAN] /\ disturbed \in [Readers -> BOOLEAN]
  /\ DOMAIN document = Readers /\ DOMAIN validator = Readers /\ DOMAIN outcome = Readers
  /\ DOMAIN blank = Readers

BackendFor(content) == IF Rules!GetXsltVersion(content) = "1.0" THEN "lxml" ELSE "saxon"

\* A reader has no outcome while it is busy; the file of one that is not disturbed is
\* not cut while it loads, and its backend the one for that file.
BusyReaders ==
  \A r \in Readers :
    /\ at[r] # "idle" => outcome[r] = None
    /\ at[r] \in {"probe", "construct"} /\ ~report[r] /\ ~disturbed[r]
         => file[Specs[1]] # Rules!Cut
    /\ at[r] = "construct" /\ (report[r] \/ ~disturbed[r])
         => validator[r].backend = BackendFor(Rules!Stylesheet(r))

ReaderInv == ReadersTyped /\ BusyReaders /\ LoadFailuresExcused /\ ValidMeansConforms

LEMMA FirstFile == Specs[1] \in Rules!Downloads
BY DEF Rules!Downloads

LEMMA ReaderInit == Rules!Init => ReaderInv
BY DEF Rules!Init, ReaderInv, ReadersTyped, BusyReaders, LoadFailuresExcused,
   Rules!LoadFailuresExcused, ValidMeansConforms, Rules!ValidMeansConforms

\* A file is written: the readers that are loading it are disturbed.
LEMMA WriteKeeps ==
  ASSUME ReaderInv, NEW f \in Rules!Downloads, Rules!Disturb(f),
         \A g \in Rules!Downloads \ {f} : file'[g] = file[g],
         UNCHANGED Rules!reader_vars
  PROVE  ReaderInv'
<1> USE DEF ReaderInv, Rules!reader_vars
<1>1. /\ disturbed' \in [Readers -> BOOLEAN]
      /\ \A r \in Readers : disturbed[r] => disturbed'[r]
      /\ \A r \in Readers : at[r] \in {"probe", "construct"} /\ ~report[r] /\ f = Specs[1]
           => disturbed'[r]
  BY DEF Rules!Disturb, Rules!Loading, ReadersTyped
<1>2. ReadersTyped'
  BY <1>1 DEF ReadersTyped
<1>3. file'[Specs[1]] = file[Specs[1]] \/ f = Specs[1]
  BY FirstFile
<1>4. BusyReaders'
  BY <1>1, <1>3 DEF BusyReaders, Rules!Stylesheet, ReadersTyped
<1>5. LoadFailuresExcused' /\ ValidMeansConforms'
  BY <1>1 DEF LoadFailuresExcused, Rules!LoadFailuresExcused, ValidMeansConforms,
     Rules!ValidMeansConforms, ReadersTyped
<1>6. QED
  BY <1>2, <1>4, <1>5

LEMMA CallKeeps == ASSUME ReaderInv, NEW r \in Readers, Rules!Call(r) PROVE ReaderInv'
<1> USE DEF ReaderInv
<1>1. PICK is_report \in BOOLEAN, keeps \in BOOLEAN :
        /\ report' = [report EXCEPT ![r] = is_report]
        /\ document' = [document EXCEPT ![r] = Rules!Flawless]
        /\ blank' = [blank EXCEPT ![r] = FALSE]
        /\ disturbed' = [disturbed EXCEPT ![r] = ~is_report /\ file[Specs[1]] = Rules!Cut]
        /\ \/ is_report /\ Rules!Ends(r, "invalid") /\ UNCHANGED validator
           \/ /\ at' = [at EXCEPT ![r] = IF keeps THEN "validate" ELSE "probe"]
              /\ validator' = IF keeps THEN validator ELSE [validator EXCEPT ![r] = None]
              /\ outcome' = [outcome EXCEPT ![r] = None]
  BY DEF Rules!Call
<1>2. at[r] = "idle" /\ file' = file
  BY DEF Rules!Call
<1>3. /\ report' \in [Readers -> BOOLEAN] /\ disturbed' \in [Readers -> BOOLEAN]
      /\ DOMAIN document' = Readers /\ DOMAIN validator' = Readers /\ DOMAIN blank' = Readers
      /\ report'[r] = is_report /\ disturbed'[r] = (~is_report /\ file[Specs[1]] = Rules!Cut)
      /\ \A q \in Readers \ {r} :
           /\ report'[q] = report[q] /\ disturbed'[q] = disturbed[q]
           /\ document'[q] = document[q] /\ validator'[q] = validator[q] /\ blank'[q] = blank[q]
  BY <1>1 DEF ReadersTyped
<1>4. /\ at' \in [Readers -> {"idle", "probe", "construct", "validate"}]
      /\ DOMAIN outcome' = Readers
      /\ \/ at'[r] = "idle" /\ outcome'[r] = "invalid"
         \/ at'[r] \in {"validate", "probe"} /\ outcome'[r] = None
      /\ \A q \in Readers \ {r} : at'[q] = at[q] /\ outcome'[q] = outcome[q]
  <2>1. PICK where \in {"idle", "validate", "probe"}, what \in {"invalid", None} :
          /\ at' = [at EXCEPT ![r] = where] /\ outcome' = [outcome EXCEPT ![r] = what]
          /\ \/ where = "idle" /\ what = "invalid"
             \/ where \in {"validate", "probe"} /\ what = None
    BY <1>1, Zenon DEF Rules!Ends
  <2>2. QED
    BY <2>1 DEF ReadersTyped
<1>5. ReadersTyped'
  BY <1>3, <1>4 DEF ReadersTyped
<1>6. BusyReaders'
  <2> SUFFICES ASSUME NEW q \in Readers
               PROVE  /\ at'[q] # "idle" => outcome'[q] = None
                      /\ at'[q] \in {"probe", "construct"} /\ ~report'[q] /\ ~disturbed'[q]
                           => file'[Specs[1]] # Rules!Cut
                      /\ at'[q] = "construct" /\ (report'[q] \/ ~disturbed'[q])
                           => validator'[q].backend = BackendFor(Rules!Stylesheet(q)')
    BY DEF BusyReaders, BackendFor, Rules!GetXsltVersion
  <2>1. CASE q = r
    BY <1>2, <1>3, <1>4, <2>1
  <2>2. CASE q # r
    BY <1>2, <1>3, <1>4, <2>2 DEF BusyReaders, Rules!Stylesheet
  <2>3. QED
    BY <2>1, <2>2
<1>7. LoadFailuresExcused'
  BY <1>3, <1>4 DEF LoadFailuresExcused, Rules!LoadFailuresExcused
<1>8. ValidMeansConforms'
  BY <1>3, <1>4, ZenonT(30) DEF ValidMeansConforms, Rules!ValidMeansConforms
<1>9. QED
  BY <1>5, <1>6, <1>7, <1>8

LEMMA ProbeKeeps == ASSUME ReaderInv, NEW r \in Readers, Rules!Probe(r) PROVE ReaderInv'
<1> USE DEF ReaderInv, Rules!Probe
<1>1. ReadersTyped'
  BY DEF ReadersTyped
<1>2. validator'[r].backend = BackendFor(Rules!Stylesheet(r))
  BY DEF ReadersTyped, BackendFor
<1>3. file' = file /\ report' = report
  OBVIOUS
<1>4. BusyReaders'
  BY <1>2, <1>3 DEF BusyReaders, ReadersTyped, Rules!Stylesheet
<1>5. LoadFailuresExcused' /\ ValidMeansConforms'
  BY DEF LoadFailuresExcused, Rules!LoadFailuresExcused, ValidMeansConforms,
     Rules!ValidMeansConforms, ReadersTyped, BusyReaders
<1>6. QED
  BY <1>1, <1>4, <1>5

\* The backend that suits a whole file loads it, unless it is not installed.
LEMMA SuitableLoads ==
  ASSUME NEW content, content # Rules!Cut,
         content \in {None, Rules!Cut} \cup {Rules!Whole(n) : n \in Nat}
  PROVE  Rules!Unloadable(BackendFor(content), saxon, content)
           \in {None, "FileNotFoundError", "ImportError"}
<1>1. CASE content = None
  BY <1>1 DEF Rules!Unloadable
<1>2. CASE content # None
  <2>1. content.whole
    BY <1>2 DEF Rules!Whole
  <2>2. QED
    BY <1>2, <2>1 DEF Rules!Unloadable, BackendFor, Rules!GetXsltVersion, Rules!Level
<1>3. QED
  BY <1>1, <1>2

LEMMA UnloadableErrors ==
  ASSUME NEW backend, NEW content
  PROVE  Rules!Unloadable(backend, saxon, content) \in
           {None, "FileNotFoundError", "ImportError", "ValueError", "XMLSyntaxError"}
BY DEF Rules!Unloadable

LEMMA ConstructKeeps ==
  ASSUME FilesTyped, ReaderInv, NEW r \in Readers, Rules!Construct(r) PROVE ReaderInv'
<1> USE DEF ReaderInv
<1> DEFINE content == Rules!Stylesheet(r)
           raised == Rules!Unloadable(validator[r].backend, saxon, content)
<1>1. /\ at[r] = "construct" /\ outcome[r] = None
      /\ UNCHANGED <<file, document, report, blank, disturbed>>
  BY DEF Rules!Construct, BusyReaders
<1>2. report[r] \/ ~disturbed[r] => raised \in {None, "FileNotFoundError", "ImportError"}
  <2>1. CASE report[r]
    <3>1. content = Rules!Whole(0)
      BY <2>1 DEF Rules!Stylesheet, Rules!BundledRelease
    <3>2. content # Rules!Cut
      BY <3>1 DEF Rules!Whole, Rules!Cut
    <3>3. QED
      BY <1>1, <2>1, <3>1, <3>2, SuitableLoads DEF BusyReaders
  <2>2. CASE ~report[r] /\ ~disturbed[r]
    <3>1. content = file[Specs[1]] /\ content # Rules!Cut
      BY <1>1, <2>2 DEF Rules!Stylesheet, BusyReaders
    <3>2. content \in {None, Rules!Cut} \cup {Rules!Whole(n) : n \in Nat}
      BY <3>1, FirstFile DEF FilesTyped
    <3>3. QED
      BY <1>1, <2>2, <3>1, <3>2, SuitableLoads DEF BusyReaders
  <2>3. QED
    BY <2>1, <2>2 DEF ReadersTyped
<1>3. raised \in {None, "FileNotFoundError", "ImportError", "ValueError", "XMLSyntaxError"}
  BY UnloadableErrors
<1> HIDE DEF content, raised
<1>4. CASE raised # None
  <2>1. /\ outcome' = [outcome EXCEPT ![r] = raised] /\ at' = [at EXCEPT ![r] = "idle"]
        /\ validator' = [validator EXCEPT ![r] = None]
    BY <1>4 DEF Rules!Construct, Rules!Ends, raised, content
  <2>2. ReadersTyped' /\ BusyReaders'
    BY <1>1, <2>1 DEF ReadersTyped, BusyReaders, Rules!Stylesheet
  <2>3. LoadFailuresExcused'
    BY <1>1, <1>2, <1>3, <1>4, <2>1 DEF LoadFailuresExcused, Rules!LoadFailuresExcused, ReadersTyped
  <2>4. ValidMeansConforms'
    BY <1>1, <1>3, <1>4, <2>1 DEF ValidMeansConforms, Rules!ValidMeansConforms, ReadersTyped
  <2>5. QED
    BY <2>2, <2>3, <2>4
<1>5. CASE raised = None
  <2>1. /\ UNCHANGED outcome /\ at' = [at EXCEPT ![r] = "validate"]
        /\ DOMAIN validator' = DOMAIN validator
        /\ \A q \in Readers \ {r} : validator'[q] = validator[q]
    BY <1>5 DEF Rules!Construct, raised, content, ReadersTyped
  <2>2. ReadersTyped' /\ BusyReaders'
    BY <1>1, <2>1 DEF ReadersTyped, BusyReaders, Rules!Stylesheet
  <2>3. LoadFailuresExcused' /\ ValidMeansConforms'
    BY <1>1, <2>1 DEF LoadFailuresExcused, Rules!LoadFailuresExcused, ReadersTyped,
       ValidMeansConforms, Rules!ValidMeansConforms
  <2>4. QED
    BY <2>2, <2>3
<1>6. QED
  BY <1>4, <1>5

\* A valid verdict is about the document and the stylesheet at hand (validate).
LEMMA ValidateKeeps ==
  ASSUME ReaderInv, NEW r \in Readers, Rules!Validate(r) PROVE ReaderInv'
<1> USE DEF ReaderInv
<1>1. PICK d \in {x \in Rules!Documents : report[r] => x.parses /\ x.structured},
           engine \in Rules!Engines :
        /\ document' = [document EXCEPT ![r] = d]
        /\ Rules!Ends(r, Rules!Validated(validator[r].backend, validator[r].release, d, engine))
        /\ blank' = [blank EXCEPT ![r] = engine = "nothing"]
  BY DEF Rules!Validate
<1> DEFINE verdict == Rules!Validated(validator[r].backend, validator[r].release, d, engine)
<1>2. outcome' = [outcome EXCEPT ![r] = verdict] /\ at' = [at EXCEPT ![r] = "idle"]
  BY <1>1 DEF Rules!Ends
<1>3. UNCHANGED <<file, report, validator, disturbed>>
  BY DEF Rules!Validate
<1>4. verdict \in {"valid", "invalid", "XSLTApplyError", "AssertionError"}
  BY DEF Rules!Validated, Rules!Engines
<1>5. verdict = "valid" =>
        /\ d.parses
        /\ \/ {"fatal", "error", None} \cap d.fails[validator[r].release] = {}
           \/ engine = "nothing"
  BY DEF Rules!Validated, Rules!Findings, Rules!Engines
<1> HIDE DEF verdict
<1>6. ReadersTyped' /\ BusyReaders'
  BY <1>1, <1>2, <1>3 DEF ReadersTyped, BusyReaders, Rules!Stylesheet
<1>7. LoadFailuresExcused'
  BY <1>2, <1>3, <1>4 DEF LoadFailuresExcused, Rules!LoadFailuresExcused, ReadersTyped
<1>8. ValidMeansConforms'
  BY <1>1, <1>2, <1>3, <1>5 DEF ValidMeansConforms, Rules!ValidMeansConforms, ReadersTyped
<1>9. QED
  BY <1>6, <1>7, <1>8

LEMMA ReaderNext ==
  DownloadInv /\ ReaderInv /\ [Rules!Next]_rules_vars => ReaderInv'
<1> SUFFICES ASSUME DownloadInv, ReaderInv, [Rules!Next]_rules_vars PROVE ReaderInv'
  OBVIOUS
<1>1. CASE Rules!OpenFile \/ Rules!FillFile
  <2>1. Head(queue) \in Rules!Downloads
    BY <1>1, LeftOfTail DEF DownloadInv, RunTyped, Rules!OpenFile, Rules!FillFile
  <2>2. /\ Rules!Disturb(Head(queue)) /\ UNCHANGED Rules!reader_vars
        /\ \A g \in Rules!Downloads \ {Head(queue)} : file'[g] = file[g]
    BY <1>1 DEF Rules!OpenFile, Rules!FillFile, DownloadInv, FilesTyped
  <2>3. QED
    BY <2>1, <2>2, WriteKeeps
<1>2. CASE UNCHANGED <<file, at, document, report, validator, outcome, blank, disturbed>>
  BY <1>2 DEF ReaderInv, ReadersTyped, BusyReaders, Rules!Stylesheet, LoadFailuresExcused,
     Rules!LoadFailuresExcused, ValidMeansConforms, Rules!ValidMeansConforms
<1>3. CASE \/ Rules!Run \/ Rules!Skip \/ Rules!Fetch \/ Rules!Return \/ Rules!Die
           \/ Rules!Publish \/ UNCHANGED rules_vars
  BY <1>2, <1>3 DEF Rules!Run, Rules!Skip, Rules!Fetch, Rules!Return, Rules!Die,
     Rules!Publish, Rules!reader_vars, rules_vars
<1>4. QED
  BY <1>1, <1>3, CallKeeps, ProbeKeeps, ConstructKeeps, ValidateKeeps DEF Rules!Next, DownloadInv

LEMMA ReaderAlways == ResourceSpec => []ReaderInv
<1>1. ResourceInit => DownloadInv /\ ReaderInv
  BY DownloadInit, ReaderInit DEF ResourceInit
<1>2. DownloadInv /\ ReaderInv /\ [ResourceNext]_resource_vars => DownloadInv' /\ ReaderInv'
  BY DownloadNext, ReaderNext, RulesSteps
<1>3. QED
  BY <1>1, <1>2, PTL DEF ResourceSpec

\* "valid" means that none of the assertions of fatal or error severity of a released
\* stylesheet failed, unless the engine gave no result, and that a report passed its
\* schema, for any number of readers, files and releases (validate).
THEOREM ValidConforms == ResourceSpec => []ValidMeansConforms
<1>1. ReaderInv => ValidMeansConforms
  BY DEF ReaderInv
<1>2. QED
  BY <1>1, ReaderAlways, PTL

\* A validator cannot be loaded only when the file was missing, cut or exchanged while
\* it was loaded (load_schematron_validator).
THEOREM LoadingExcused == ResourceSpec => []LoadFailuresExcused
<1>1. ReaderInv => LoadFailuresExcused
  BY DEF ReaderInv
<1>2. QED
  BY <1>1, ReaderAlways, PTL
-----------------------------------------------------------------------------
(* Code lists *)

Codes == CodeListFiles!Codes
Before(r, s) == CodeListFiles!Before(r, s)
Find(files) == CodeListFiles!FindCodelistFile(files)
Files == [release : Codes, whole : BOOLEAN]

\* The names of releases are texts, and no two are the same.
LEMMA NameOfRelease ==
  ASSUME NEW r \in Codes
  PROVE  /\ r \in Nat
         /\ ListReleases[r][1] \in Numbers /\ ListReleases[r][2] \in Numbers
         /\ CodeListFiles!FileName(r) = Name(ListReleases[r][1], ListReleases[r][2])
         /\ \E l \in Nat : CodeListFiles!FileName(r) \in [1..l -> Nat]
<1>1. r \in DOMAIN ListReleases
  BY DEF Codes, CodeListFiles!Codes
<1>2. r \in Nat /\ ListReleases[r] \in (0..99) \X (0..99)
  <2>1. r \in 1..Len(ListReleases) /\ Len(ListReleases) \in Nat
    BY <1>1, LenProperties
  <2>2. QED
    BY <2>1, ElementOfSeq
<1> DEFINE m == ListReleases[r][1]
           n == ListReleases[r][2]
<1>3. m \in Numbers /\ n \in Numbers
  BY <1>2 DEF Numbers
<1>4. CodeListFiles!FileName(r) = Name(m, n)
  BY DEF CodeListFiles!FileName, CodeListFiles!Dot, Name
<1> HIDE DEF m, n
<1>5. Name(m, n) \in [1..(Width(m) + Width(n) + 2) -> Nat]
  BY <1>3, NameLayout DEF Name, Text
<1>6. Width(m) + Width(n) + 2 \in Nat
  BY DEF Width
<1>7. \E l \in Nat : CodeListFiles!FileName(r) \in [1..l -> Nat]
  BY <1>4, <1>5, <1>6
<1>8. QED
  BY <1>2, <1>3, <1>4, <1>7 DEF m, n

LEMMA BeforeIsLess ==
  ASSUME NEW r \in Codes, NEW s \in Codes
  PROVE  Before(r, s) <=> Less(CodeListFiles!FileName(r), CodeListFiles!FileName(s))
BY DEF Before, CodeListFiles!Before, Less

\* Releases come in the order of their numbers (_find_codelist_file's sorted()), if
\* the number that decides has the same width in both.
LEMMA AlignedInOrder ==
  ASSUME NEW r \in Codes, NEW s \in Codes, r < s, CodeListFiles!Aligned(r, s)
  PROVE  Before(r, s)
<1> DEFINE m == ListReleases[r][1]
           n == ListReleases[r][2]
           p == ListReleases[s][1]
           q == ListReleases[s][2]
<1>1. /\ m \in Numbers /\ n \in Numbers /\ p \in Numbers /\ q \in Numbers
      /\ CodeListFiles!FileName(r) = Name(m, n) /\ CodeListFiles!FileName(s) = Name(p, q)
  BY NameOfRelease
<1>2. m < p \/ (m = p /\ n < q)
  <2>1. r \in DOMAIN ListReleases /\ s \in DOMAIN ListReleases
    BY DEF Codes, CodeListFiles!Codes
  <2>2. \A u, v \in DOMAIN ListReleases : u < v =>
          \/ ListReleases[u][1] < ListReleases[v][1]
          \/ ListReleases[u][1] = ListReleases[v][1] /\ ListReleases[u][2] < ListReleases[v][2]
    BY ResourceAssumption
  <2>3. QED
    BY <2>1, <2>2
<1>3. \A k \in Numbers : CodeListFiles!Width(k) = Width(k)
  BY DEF CodeListFiles!Width, CodeListFiles!Digits, Width
<1>4. CodeListFiles!Width(IF m = p THEN n ELSE m) = CodeListFiles!Width(IF m = p THEN q ELSE p)
  BY DEF CodeListFiles!Aligned
<1> HIDE DEF m, n, p, q
<1>5. IF m = p THEN Width(n) = Width(q) ELSE Width(m) = Width(p)
  BY <1>1, <1>3, <1>4
<1>6. m < p => m # p
  BY <1>1 DEF Numbers
<1>7. Less(Name(m, n), Name(p, q))
  BY <1>1, <1>2, <1>5, <1>6, NamesOrdered
<1>8. QED
  BY <1>1, <1>7, BeforeIsLess

LEMMA BeforeIsAsymmetric ==
  ASSUME NEW r \in Codes, NEW s \in Codes PROVE ~(Before(r, s) /\ Before(s, r))
<1> DEFINE a == CodeListFiles!FileName(r)
           b == CodeListFiles!FileName(s)
<1>1. PICK i \in Nat, j \in Nat : a \in [1..i -> Nat] /\ b \in [1..j -> Nat]
  BY NameOfRelease
<1>2. (Before(r, s) <=> Less(a, b)) /\ (Before(s, r) <=> Less(b, a))
  BY BeforeIsLess
<1> HIDE DEF a, b
<1>3. ~(Less(a, b) /\ Less(b, a))
  BY <1>1, LessAsymmetric
<1>4. QED
  BY <1>2, <1>3

\* The file whose name comes last, which _find_codelist_file takes.
IsLast(f, files) ==
  /\ f \in files
  /\ \A g \in files \ {f} : Before(g.release, f.release)

LEMMA LastIsFound ==
  ASSUME NEW files \in SUBSET Files, NEW f, IsLast(f, files) PROVE Find(files) = f
<1>1. files # {} /\ f \in files /\ f.release \in Codes
  BY DEF IsLast, Files
<1>2. ASSUME NEW g \in files, \A h \in files \ {g} : Before(h.release, g.release) PROVE g = f
  <2>1. g.release \in Codes
    BY DEF Files
  <2>2. g # f => Before(g.release, f.release) /\ Before(f.release, g.release)
    BY <1>1, <1>2 DEF IsLast
  <2>3. QED
    BY <1>1, <2>1, <2>2, BeforeIsAsymmetric
<1>3. \A h \in files \ {f} : Before(h.release, f.release)
  BY DEF IsLast
<1>4. Find(files) = CHOOSE g \in files : \A h \in files \ {g} : Before(h.release, g.release)
  BY <1>1 DEF Find, CodeListFiles!FindCodelistFile, Before
<1>5. QED
  BY <1>1, <1>2, <1>3, <1>4

\* Every release is one file.
ListsTyped ==
  /\ disk \in [Lists -> SUBSET Files]
  /\ \A l \in Lists : \A f, g \in disk[l] : f.release = g.release => f = g

ListsInv == ListsTyped /\ AnswersNewest

LEMMA ListsInit == CodeListFiles!Init => ListsInv
BY DEF CodeListFiles!Init, CodeListFiles!NoAnswer, CodeListFiles!AnswersNewest, ListsInv,
   ListsTyped, AnswersNewest

\* A release that was not there comes to the disk (BeginCopy).
LEMMA BeginCopyKeeps ==
  ASSUME ListsInv, NEW l \in Lists, CodeListFiles!BeginCopy(l) PROVE ListsInv'
<1>1. PICK r \in Codes :
        /\ \A f \in disk[l] : f.release # r
        /\ disk' = [disk EXCEPT ![l] =
             (IF l \in Edec THEN disk[l] ELSE {}) \cup {[release |-> r, whole |-> FALSE]}]
  BY DEF CodeListFiles!BeginCopy, Codes
<1>2. answer' = answer
  BY DEF CodeListFiles!BeginCopy
<1> DEFINE new == [release |-> r, whole |-> FALSE]
<1>3. new \in Files /\ new.release = r
  BY DEF Files
<1> HIDE DEF new
<1>4. PICK kept \in SUBSET disk[l] : disk' = [disk EXCEPT ![l] = kept \cup {new}]
  BY <1>1 DEF new
<1>5. ListsTyped'
  BY <1>1, <1>3, <1>4 DEF ListsInv, ListsTyped
<1>6. AnswersNewest'
  BY <1>2 DEF ListsInv, AnswersNewest, CodeListFiles!AnswersNewest
<1>7. QED
  BY <1>5, <1>6 DEF ListsInv

\* A file that becomes whole keeps its name (EndCopy).
LEMMA EndCopyKeeps ==
  ASSUME ListsInv, NEW l \in Lists, CodeListFiles!EndCopy(l) PROVE ListsInv'
<1> DEFINE Ended(f) == [f EXCEPT !.whole = TRUE]
<1>1. disk' = [disk EXCEPT ![l] = {Ended(f) : f \in disk[l]}] /\ answer' = answer
  BY DEF CodeListFiles!EndCopy
<1>2. \A f \in Files : Ended(f) \in Files /\ Ended(f).release = f.release
  BY DEF Files
<1> HIDE DEF Ended
<1>3. disk[l] \subseteq Files
  BY DEF ListsInv, ListsTyped
<1>4. ASSUME NEW f \in {Ended(h) : h \in disk[l]}, NEW g \in {Ended(h) : h \in disk[l]},
             f.release = g.release
      PROVE  f = g
  <2>1. PICK h \in disk[l], k \in disk[l] : f = Ended(h) /\ g = Ended(k)
    BY <1>4
  <2>2. h.release = k.release
    BY <1>2, <1>3, <1>4, <2>1
  <2>3. QED
    BY <2>1, <2>2 DEF ListsInv, ListsTyped
<1>5. ListsTyped'
  BY <1>1, <1>2, <1>3, <1>4 DEF ListsInv, ListsTyped
<1>6. AnswersNewest'
  BY <1>1 DEF ListsInv, AnswersNewest, CodeListFiles!AnswersNewest
<1>7. QED
  BY <1>5, <1>6 DEF ListsInv

\* A release that is newer than the others on disk, and aligned with them.
StandsOut(newest, releases) ==
  /\ newest \in releases
  /\ \A r \in releases \ {newest} : r < newest /\ CodeListFiles!Aligned(r, newest)

\* Answers are read from the release that stands out, if there is one.
LEMMA LoadedIsNewest ==
  ASSUME ListsInv, NEW l \in Lists, NEW newest,
         StandsOut(newest, {f.release : f \in disk[l]})
  PROVE  CodeListFiles!Loaded(l) = CodeListFiles!Rows(l, newest)
<1>1. disk[l] \in SUBSET Files /\ \A f \in disk[l] : f.release \in Codes
  BY DEF ListsInv, ListsTyped, Files
<1>2. PICK f \in disk[l] : f.release = newest
  BY DEF StandsOut
<1>3. ASSUME NEW g \in disk[l] \ {f} PROVE Before(g.release, f.release)
  <2>1. g.release # newest
    BY <1>2 DEF ListsInv, ListsTyped
  <2>2. g.release < newest /\ CodeListFiles!Aligned(g.release, newest)
    BY <2>1 DEF StandsOut
  <2>3. QED
    BY <1>1, <1>2, <2>2, AlignedInOrder
<1>4. Find(disk[l]) = f
  BY <1>1, <1>3, LastIsFound DEF IsLast
<1>5. QED
  BY <1>2, <1>4 DEF CodeListFiles!Loaded, Find

\* The files stay, and what is said holds of the release that stands out.
LEMMA AnswerKeeps ==
  ASSUME ListsInv, NEW l, NEW sought, NEW said, NEW codes,
         disk' = disk, CodeListFiles!Says(l, sought, said, codes),
         ASSUME NEW newest, l \in Lists, StandsOut(newest, {f.release : f \in disk[l]})
         PROVE  LET rows == CodeListFiles!Rows(l, newest)
                IN /\ said = "rows" =>
                        /\ codes \subseteq CodeListFiles!CodesOf(rows)
                        /\ IF l \in Edec
                           THEN CodeListFiles!CodesOf(CodeListFiles!Active(rows)) \subseteq codes
                           ELSE codes = CodeListFiles!CodesOf(rows)
                   /\ said = "found" => sought \in CodeListFiles!CodesOf(rows)
                   /\ said = "unknown" => sought \notin CodeListFiles!CodesOf(rows),
         l \in Lists \/ said \notin {"rows", "found", "unknown"}
  PROVE  ListsInv'
<1>1. ListsTyped'
  BY DEF ListsInv, ListsTyped
<1>2. /\ answer'.list = l /\ answer'.code = sought /\ answer'.said = said /\ answer'.codes = codes
      /\ answer'.beside \in {{}, {f.release : f \in disk[l]}}
  BY DEF CodeListFiles!Says
<1> DEFINE Fits(newest, c, s, k, t) ==
      LET rows == CodeListFiles!Rows(k, newest)
      IN /\ s = "rows" =>
              /\ t \subseteq CodeListFiles!CodesOf(rows)
              /\ IF k \in Edec
                 THEN CodeListFiles!CodesOf(CodeListFiles!Active(rows)) \subseteq t
                 ELSE t = CodeListFiles!CodesOf(rows)
         /\ s = "found" => c \in CodeListFiles!CodesOf(rows)
         /\ s = "unknown" => c \notin CodeListFiles!CodesOf(rows)
<1>3. ASSUME NEW newest, l \in Lists, StandsOut(newest, {f.release : f \in disk[l]})
      PROVE  Fits(newest, sought, said, l, codes)
  BY <1>3
<1>4. \A newest : said \notin {"rows", "found", "unknown"} => Fits(newest, sought, said, l, codes)
  OBVIOUS
<1>5. AnswersNewest' <=>
        \A newest \in answer'.beside : StandsOut(newest, answer'.beside) =>
          Fits(newest, answer'.code, answer'.said, answer'.list, answer'.codes)
  BY DEF AnswersNewest, CodeListFiles!AnswersNewest, StandsOut
<1> HIDE DEF Fits
<1>6. AnswersNewest'
  BY <1>2, <1>3, <1>4, <1>5
<1>7. QED
  BY <1>1, <1>6 DEF ListsInv

LEMMA FailsKeeps ==
  ASSUME ListsInv, NEW l \in Lists, CodeListFiles!Fails(l) PROVE ListsInv'
<1> DEFINE said == CodeListFiles!Load(l)
<1>1. disk' = disk /\ CodeListFiles!Says(l, None, said, {})
  BY DEF CodeListFiles!Fails
<1>2. said \notin {"rows", "found", "unknown"}
  BY DEF CodeListFiles!Load
<1> HIDE DEF said
<1>3. QED
  BY <1>1, <1>2, AnswerKeeps

LEMMA ListCodesKeeps ==
  ASSUME ListsInv, NEW l \in Lists, CodeListFiles!ListCodes(l) PROVE ListsInv'
<1>1. PICK active_only \in BOOLEAN :
        LET rows == IF l \in Edec /\ active_only
                    THEN CodeListFiles!Active(CodeListFiles!Loaded(l)) ELSE CodeListFiles!Loaded(l)
        IN CodeListFiles!Says(l, None, "rows", CodeListFiles!CodesOf(rows))
  BY DEF CodeListFiles!ListCodes
<1> DEFINE Shown(rows) == IF l \in Edec /\ active_only THEN CodeListFiles!Active(rows) ELSE rows
           codes == CodeListFiles!CodesOf(Shown(CodeListFiles!Loaded(l)))
<1>2. disk' = disk /\ CodeListFiles!Says(l, None, "rows", codes)
  BY <1>1 DEF CodeListFiles!ListCodes
<1>3. ASSUME NEW newest, StandsOut(newest, {f.release : f \in disk[l]})
      PROVE  LET rows == CodeListFiles!Rows(l, newest)
             IN /\ codes \subseteq CodeListFiles!CodesOf(rows)
                /\ IF l \in Edec
                   THEN CodeListFiles!CodesOf(CodeListFiles!Active(rows)) \subseteq codes
                   ELSE codes = CodeListFiles!CodesOf(rows)
  <2> DEFINE rows == CodeListFiles!Rows(l, newest)
  <2>1. codes = CodeListFiles!CodesOf(Shown(rows))
    BY <1>3, LoadedIsNewest
  <2> HIDE DEF rows, codes
  <2>2. CodeListFiles!Active(rows) \subseteq rows
    BY DEF CodeListFiles!Active
  <2>3. \A R, S : R \subseteq S => CodeListFiles!CodesOf(R) \subseteq CodeListFiles!CodesOf(S)
    BY DEF CodeListFiles!CodesOf
  <2>4. /\ codes \subseteq CodeListFiles!CodesOf(rows)
        /\ IF l \in Edec
           THEN CodeListFiles!CodesOf(CodeListFiles!Active(rows)) \subseteq codes
           ELSE codes = CodeListFiles!CodesOf(rows)
    BY <2>1, <2>2, <2>3
  <2>5. QED
    BY <2>4 DEF rows
<1> HIDE DEF codes
<1>4. QED
  BY <1>2, <1>3, AnswerKeeps

LEMMA CheckCodeKeeps ==
  ASSUME ListsInv, NEW l \in Lists, CodeListFiles!CheckCode(l) PROVE ListsInv'
<1>1. PICK sought \in Codes :
        LET found == sought \in CodeListFiles!CodesOf(CodeListFiles!Loaded(l))
        IN CodeListFiles!Says(l, sought, IF found THEN "found" ELSE "unknown",
             {sought} \cap CodeListFiles!CodesOf(CodeListFiles!Loaded(l)))
  BY DEF CodeListFiles!CheckCode, Codes
<1> DEFINE known == CodeListFiles!CodesOf(CodeListFiles!Loaded(l))
           said == IF sought \in known THEN "found" ELSE "unknown"
           codes == {sought} \cap known
<1>2. disk' = disk /\ CodeListFiles!Says(l, sought, said, codes)
  BY <1>1 DEF CodeListFiles!CheckCode
<1>3. ASSUME NEW newest, StandsOut(newest, {f.release : f \in disk[l]})
      PROVE  known = CodeListFiles!CodesOf(CodeListFiles!Rows(l, newest))
  BY <1>3, LoadedIsNewest
<1> HIDE DEF known
<1>4. /\ said # "rows"
      /\ said = "found" => sought \in known
      /\ said = "unknown" => sought \notin known
  OBVIOUS
<1> HIDE DEF said, codes
<1>5. ASSUME NEW newest, l \in Lists, StandsOut(newest, {f.release : f \in disk[l]})
      PROVE  LET rows == CodeListFiles!Rows(l, newest)
             IN /\ said = "rows" =>
                     /\ codes \subseteq CodeListFiles!CodesOf(rows)
                     /\ IF l \in Edec
                        THEN CodeListFiles!CodesOf(CodeListFiles!Active(rows)) \subseteq codes
                        ELSE codes = CodeListFiles!CodesOf(rows)
                /\ said = "found" => sought \in CodeListFiles!CodesOf(rows)
                /\ said = "unknown" => sought \notin CodeListFiles!CodesOf(rows)
  BY <1>3, <1>4, <1>5
<1>6. QED
  BY <1>2, <1>5, AnswerKeeps

LEMMA ListsNext ==
  ASSUME ListsInv, CodeListFiles!Next \/ UNCHANGED lists_vars PROVE ListsInv'
<1>1. CASE UNCHANGED lists_vars
  BY <1>1 DEF lists_vars, ListsInv, ListsTyped, AnswersNewest, CodeListFiles!AnswersNewest
<1>2. ASSUME NEW l \in Lists, CodeListFiles!BeginCopy(l) PROVE ListsInv'
  BY <1>2, BeginCopyKeeps
<1>3. ASSUME NEW l \in Lists, CodeListFiles!EndCopy(l) PROVE ListsInv'
  BY <1>3, EndCopyKeeps
<1>4. ASSUME NEW l \in Lists, CodeListFiles!Fails(l) PROVE ListsInv'
  BY <1>4, FailsKeeps
<1>5. ASSUME NEW l \in Lists, CodeListFiles!ListCodes(l) PROVE ListsInv'
  BY <1>5, ListCodesKeeps
<1>6. ASSUME NEW l \in Lists, CodeListFiles!CheckCode(l) PROVE ListsInv'
  BY <1>6, CheckCodeKeeps
<1>7. CASE CodeListFiles!ReportVersions
  <2>1. PICK said \in {"raised", "versions"} :
          disk' = disk /\ CodeListFiles!Says(None, None, said, {})
    BY <1>7 DEF CodeListFiles!ReportVersions
  <2>2. said \notin {"rows", "found", "unknown"}
    BY <2>1
  <2>3. QED
    BY <2>1, <2>2, AnswerKeeps
<1>8. QED
  BY <1>1, <1>2, <1>3, <1>4, <1>5, <1>6, <1>7 DEF CodeListFiles!Next

\* The tools answer what the newest release on disk says, for any releases with numbers
\* of two digits at most, copied in any order, unless a number of an older one has
\* another width (_find_codelist_file, list_*, check_*).
THEOREM NewestIsAnswered == ResourceSpec => []AnswersNewest
<1>1. ResourceInit => ListsInv
  BY ListsInit DEF ResourceInit
<1>2. ListsInv /\ [ResourceNext]_resource_vars => ListsInv'
  <2>1. ASSUME ListsInv, [ResourceNext]_resource_vars PROVE ListsInv'
    <3>1. CodeListFiles!Next \/ UNCHANGED lists_vars
      BY <2>1 DEF ResourceNext, resource_vars
    <3>2. QED
      BY <2>1, <3>1, ListsNext
  <2>2. QED
    BY <2>1
<1>3. ListsInv => AnswersNewest
  BY DEF ListsInv
<1>4. QED
  BY <1>1, <1>2, <1>3, PTL DEF ResourceSpec
=============================================================================
