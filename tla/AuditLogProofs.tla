----------------------------- MODULE AuditLogProofs -----------------------------
(***************************************************************************)
(* Proofs about the audit log.  TypeOK, AppendOnly and                     *)
(* InnerDeletionDetected hold for any writers, faults and crashes, and so  *)
(* do the two accounts of what faults cost: LossAccounted, of finitely     *)
(* many writers, and BreaksAccounted, of a single one.  The chain itself   *)
(* needs one writer and a file that never fails (OneWriter), and then the  *)
(* file implements ChainedLog.                                             *)
(***************************************************************************)
EXTENDS AuditLogRefinement, SequenceTheorems, FiniteSetTheorems, TLAPS

USE LogAssumption

-----------------------------------------------------------------------------
(* Sequences of lines *)

\* A line that is appended, or swallowed by an unterminated one, leaves a
\* sequence of lines (_write).
LEMMA AppendedType ==
  ASSUME file \in Seq(Line), unterminated => file # <<>>, NEW l \in Line
  PROVE  Appended(l) \in Seq(Line) /\ Appended(l) # <<>>
<1>1. CASE unterminated
  <2>1. Len(file) \in 1..Len(file)
    BY <1>1
  <2>2. [file[Len(file)] EXCEPT !.whole = FALSE] \in Line
    <3>1. file[Len(file)] \in Line
      BY <2>1
    <3>2. QED
      BY <3>1 DEF Line
  <2>3. Appended(l) = [file EXCEPT ![Len(file)] = [@ EXCEPT !.whole = FALSE]]
    BY <1>1 DEF Appended
  <2>4. QED
    BY <2>1, <2>2, <2>3
<1>2. CASE ~unterminated
  BY <1>2 DEF Appended
<1>3. QED
  BY <1>1, <1>2

\* The hash of an entry is a hash (_sha256_of).
LEMMA HashType ==
  ASSUME NEW l \in Line
  PROVE  HashOf(l) \in Hash /\ Len(HashOf(l)) = Len(l.prev_hash) + 1
  BY DEF HashOf, Hash, Line

-----------------------------------------------------------------------------
(* Types *)

\* An empty file and writers that have not started.
LEMMA InitTypeOK == Init => TypeOK
<1> SUFFICES ASSUME Init PROVE TypeOK
  OBVIOUS
<1>1. PICK c \in Contents :
        line = [w \in Writers |-> [content |-> c, prev_hash |-> Genesis, whole |-> TRUE]]
  BY DEF Init
<1>2. Genesis \in Hash
  BY DEF Genesis, Hash
<1>3. line \in [Writers -> Line]
  BY <1>1, <1>2 DEF Line
<1>4. file \in Seq(Line) /\ ~unterminated
  BY DEF Init
<1>5. prev_hash \in [Writers -> Hash]
  BY <1>2 DEF Init
<1>6. state \in [Writers -> {"down", "ready", "writing"}] /\ users \subseteq Writers
  BY DEF Init
<1>7. QED
  BY <1>3, <1>4, <1>5, <1>6 DEF Init, TypeOK

\* Every operation of a writer keeps the types, whatever fails (audit_log.py).
LEMMA NextTypeOK == TypeOK /\ [Next]_vars => TypeOK'
<1> SUFFICES ASSUME TypeOK, [Next]_vars PROVE TypeOK'
  OBVIOUS
<1> USE DEF TypeOK, counters
<1>0. file # <<>> => Last(file) \in Line
  BY DEF Last
<1>1. ASSUME NEW w \in Writers, Start(w) PROVE TypeOK'
  <2>1. TailReadable => HashOf(Last(file)) \in Hash
    BY <1>0, HashType DEF TailReadable
  <2>2. prev_hash' \in [Writers -> Hash]
    BY <1>1, <2>1 DEF Start, Genesis, Hash
  <2>3. QED
    BY <1>1, <2>2 DEF Start
<1>2. ASSUME NEW w \in Writers, StartUnreadable(w) PROVE TypeOK'
  BY <1>2 DEF StartUnreadable, Genesis, Hash
<1>3. ASSUME NEW w \in Writers, NEW c \in Contents, Emit(w, c) PROVE TypeOK'
  <2>1. line'[w] \in Line /\ line' \in [Writers -> Line]
    BY <1>3 DEF Emit, Line
  <2>2. prev_hash' \in [Writers -> Hash]
    BY <1>3, <2>1, HashType DEF Emit
  <2>3. QED
    BY <1>3, <2>1, <2>2 DEF Emit
<1>4. ASSUME NEW w \in Writers, Write(w) PROVE TypeOK'
  BY <1>4, AppendedType DEF Write
<1>5. ASSUME NEW w \in Writers, WriteFails(w) PROVE TypeOK'
  BY <1>5 DEF WriteFails
<1>6. ASSUME NEW w \in Writers, WriteTorn(w) PROVE TypeOK'
  <2>1. PICK whole \in BOOLEAN : file' = Appended([line[w] EXCEPT !.whole = whole])
    BY <1>6 DEF WriteTorn
  <2>2. [line[w] EXCEPT !.whole = whole] \in Line
    BY <2>1 DEF Line
  <2>3. file' \in Seq(Line) /\ file' # <<>>
    BY <2>1, <2>2, AppendedType
  <2>4. QED
    BY <1>6, <2>3 DEF WriteTorn
<1>7. ASSUME NEW w \in Writers, Crash(w) PROVE TypeOK'
  BY <1>7 DEF Crash
<1>8. CASE UNCHANGED vars
  BY <1>8 DEF vars
<1>9. QED
  BY <1>1, <1>2, <1>3, <1>4, <1>5, <1>6, <1>7, <1>8 DEF Next, Step

\* The state of the log always has its types, for any writers and faults.
THEOREM LogTypeCorrect == Spec => []TypeOK
  BY InitTypeOK, NextTypeOK, PTL DEF Spec

-----------------------------------------------------------------------------
(* What any number of writers and faults cannot do *)

\* _write opens the file for appending: it changes at most the line that has
\* no newline yet.
LEMMA AppendedKeeps ==
  ASSUME TypeOK, NEW l \in Line, NEW k \in 1..Len(file), k < Len(file) \/ ~unterminated
  PROVE  k <= Len(Appended(l)) /\ Appended(l)[k] = file[k]
  BY DEF Appended, TypeOK

\* A terminated line never changes, for any number of writers and any faults.
THEOREM NeverRewritten == Spec => AppendOnly
<1> DEFINE Kept == \A k \in 1..Len(file) :
                     (k < Len(file) \/ ~unterminated) => k <= Len(file') /\ file'[k] = file[k]
<1>1. TypeOK /\ [Next]_vars => [Kept]_vars
  <2> SUFFICES ASSUME TypeOK, Next PROVE Kept
    OBVIOUS
  <2>1. ASSUME NEW w \in Writers, Write(w) PROVE Kept
    <3>1. line[w] \in Line
      BY DEF TypeOK
    <3>2. QED
      BY <2>1, <3>1, AppendedKeeps DEF Write
  <2>2. ASSUME NEW w \in Writers, WriteTorn(w) PROVE Kept
    <3>1. PICK whole \in BOOLEAN : file' = Appended([line[w] EXCEPT !.whole = whole])
      BY <2>2 DEF WriteTorn
    <3>2. [line[w] EXCEPT !.whole = whole] \in Line
      BY <3>1 DEF TypeOK, Line
    <3>3. QED
      BY <3>1, <3>2, AppendedKeeps
  <2>3. ASSUME NEW w \in Writers,
               \/ Start(w) \/ StartUnreadable(w) \/ WriteFails(w) \/ Crash(w)
               \/ \E c \in Contents : Emit(w, c)
        PROVE  file' = file
    BY <2>3 DEF Start, StartUnreadable, WriteFails, Crash, Emit
  <2>4. ASSUME file' = file PROVE Kept
    BY <2>4 DEF TypeOK
  <2>5. QED
    BY <2>1, <2>2, <2>3, <2>4 DEF Next, Step
<1>2. QED
  BY <1>1, LogTypeCorrect, PTL DEF Spec, AppendOnly

\* The hash of an entry covers the hash before it: two entries in a row never
\* have the same one, so that the line after a removed one does not fit.
THEOREM DeletionShows == Spec => []InnerDeletionDetected
<1>1. TypeOK => InnerDeletionDetected
  <2> SUFFICES ASSUME TypeOK, Intact(file), NEW k \in 1..(Len(file) - 1),
                      Intact(RemoveAt(file, k))
               PROVE  FALSE
    BY DEF InnerDeletionDetected
  <2> DEFINE rest == RemoveAt(file, k)
  <2>1. /\ Len(file) \in Nat /\ k \in Nat /\ k >= 1 /\ k + 1 <= Len(file)
        /\ \A j \in 1..Len(file) : file[j] \in Line
    BY DEF TypeOK
  <2>2. /\ Len(rest) = Len(file) - 1
        /\ rest[k] = file[k + 1]
        /\ k > 1 => rest[k - 1] = file[k - 1]
    BY <2>1 DEF RemoveAt, TypeOK
  <2>3. /\ file[k + 1].prev_hash = HashOf(file[k])
        /\ file[k].prev_hash = IF k = 1 THEN Genesis ELSE HashOf(file[k - 1])
    BY <2>1 DEF Intact, Linked
  <2>4. file[k + 1].prev_hash = IF k = 1 THEN Genesis ELSE HashOf(file[k - 1])
    BY <2>1, <2>2 DEF Intact, Linked
  <2>5. Len(HashOf(file[k])) = Len(file[k].prev_hash) + 1 /\ Len(file[k].prev_hash) \in Nat
    BY <2>1, HashType DEF Line, Hash
  <2>6. QED
    BY <2>3, <2>4, <2>5
<1>2. QED
  BY <1>1, LogTypeCorrect, PTL

-----------------------------------------------------------------------------
(* The chain of one writer on a file that never fails *)

\* One AuditLog on the path, no fault, no line too long for _read_last_line.
OneWriter(w) == Writers = {w} /\ Faults = {} /\ Long = {}

\* The contents of the first n lines.
Upto(n) == [j \in 1..n |-> file[j].content]

\* Every line is whole and carries the history before it, and the writer knows
\* the history of the file, or of the line it is about to write.
ChainInv(w) ==
  /\ ~unterminated
  /\ \A k \in 1..Len(file) : file[k].whole /\ file[k].prev_hash = Upto(k - 1)
  /\ state[w] = "ready" => prev_hash[w] = Upto(Len(file))
  /\ state[w] = "writing" =>
       /\ line[w].whole
       /\ line[w].prev_hash = Upto(Len(file))
       /\ prev_hash[w] = HashOf(line[w])

\* The hash of a line that carries the history before it is the history after.
LEMMA HashIsHistory ==
  ASSUME TypeOK, NEW k \in 1..Len(file), file[k].prev_hash = Upto(k - 1)
  PROVE  HashOf(file[k]) = Upto(k)
  BY DEF HashOf, Upto, TypeOK, Line, Hash

\* A chain that carries its histories is intact.
LEMMA ChainIsIntact ==
  ASSUME TypeOK, NEW w, ChainInv(w)
  PROVE  ChainIntact
<1> SUFFICES ASSUME NEW k \in 1..Len(file) PROVE Linked(file, k)
  BY DEF ChainIntact, Intact
<1>1. file[k].whole /\ file[k].prev_hash = Upto(k - 1)
  BY DEF ChainInv
<1>2. CASE k = 1
  BY <1>1, <1>2 DEF Linked, Upto, Genesis
<1>3. CASE k > 1
  <2>1. k - 1 \in 1..Len(file)
    BY <1>3 DEF TypeOK
  <2>2. HashOf(file[k - 1]) = Upto(k - 1) /\ file[k - 1].whole
    BY <2>1, HashIsHistory DEF ChainInv
  <2>3. QED
    BY <1>1, <1>3, <2>2 DEF Linked
<1>4. QED
  BY <1>2, <1>3

\* A line written by the only writer extends the file and its history (_write).
LEMMA WriteExtends ==
  ASSUME TypeOK, NEW w \in Writers, ChainInv(w), Write(w)
  PROVE  /\ file' = Append(file, line[w])
         /\ Len(file') = Len(file) + 1
         /\ \A n \in 0..Len(file) : Upto(n)' = Upto(n)
         /\ Upto(Len(file))' = Append(Upto(Len(file)), line[w].content)
<1>1. file' = Append(file, line[w])
  BY DEF Write, Appended, ChainInv
<1>2. /\ Len(file) \in Nat /\ Len(file') = Len(file) + 1
      /\ \A j \in 1..Len(file) : file'[j] = file[j]
      /\ file'[Len(file) + 1] = line[w]
  BY <1>1 DEF TypeOK
<1>3. \A n \in 0..Len(file) : Upto(n)' = Upto(n)
  BY <1>2 DEF Upto
<1>4. Upto(Len(file)) \in Seq(Contents) /\ line[w].content \in Contents
  <2>1. line[w] \in Line /\ \A j \in 1..Len(file) : file[j] \in Line
    BY DEF TypeOK
  <2>2. \A j \in 1..Len(file) : file[j].content \in Contents
    BY <2>1 DEF Line
  <2>3. QED
    BY <1>2, <2>1, <2>2 DEF Upto, Line
<1>5. Upto(Len(file))' = Append(Upto(Len(file)), line[w].content)
  BY <1>2, <1>4 DEF Upto
<1>6. QED
  BY <1>1, <1>2, <1>3, <1>5

\* The only writer keeps the chain, also across crashes and restarts.
LEMMA NextChain ==
  ASSUME NEW w, OneWriter(w), TypeOK, ChainInv(w), [Next]_vars
  PROVE  ChainInv(w)'
<1> USE DEF TypeOK, ChainInv, OneWriter
<1>1. CASE Start(w)
  <2>1. file' = file /\ unterminated' = unterminated /\ line' = line /\ state'[w] = "ready"
    BY <1>1 DEF Start
  <2>2. \A n : Upto(n)' = Upto(n)
    BY <2>1 DEF Upto
  <2>3. CASE file = <<>>
    <3>1. prev_hash'[w] = Genesis
      BY <1>1, <2>3 DEF Start, TailReadable
    <3>2. QED
      BY <2>1, <2>2, <2>3, <3>1 DEF Genesis, Upto
  <2>4. CASE file # <<>>
    <3>1. Len(file) \in 1..Len(file) /\ Last(file) = file[Len(file)]
      BY <2>4 DEF Last
    <3>2. prev_hash'[w] = HashOf(Last(file))
      BY <1>1, <2>4, <3>1 DEF Start, TailReadable
    <3>3. prev_hash'[w] = Upto(Len(file))
      BY <3>1, <3>2, HashIsHistory
    <3>4. QED
      BY <2>1, <2>2, <3>3
  <2>5. QED
    BY <2>3, <2>4
<1>2. ASSUME NEW c \in Contents, Emit(w, c) PROVE ChainInv(w)'
  <2>1. file' = file /\ unterminated' = unterminated /\ state'[w] = "writing" /\ state[w] = "ready"
    BY <1>2 DEF Emit
  <2>2. \A n : Upto(n)' = Upto(n)
    BY <2>1 DEF Upto
  <2>3. line'[w] = [content |-> c, prev_hash |-> prev_hash[w], whole |-> TRUE]
    BY <1>2 DEF Emit
  <2>4. prev_hash'[w] = HashOf(line'[w])
    BY <1>2 DEF Emit
  <2>5. QED
    BY <2>1, <2>2, <2>3, <2>4 DEF HashOf
<1>3. CASE Write(w)
  <2>1. state[w] = "writing" /\ state'[w] = "ready" /\ ~unterminated' /\ prev_hash' = prev_hash
    BY <1>3 DEF Write
  <2>2. /\ file' = Append(file, line[w])
        /\ Len(file') = Len(file) + 1
        /\ \A n \in 0..Len(file) : Upto(n)' = Upto(n)
        /\ Upto(Len(file))' = Append(Upto(Len(file)), line[w].content)
    BY <1>3, WriteExtends
  <2>3. prev_hash'[w] = Upto(Len(file))'
    BY <2>1, <2>2 DEF HashOf
  <2>4. \A k \in 1..Len(file') : file'[k].whole /\ file'[k].prev_hash = Upto(k - 1)'
    <3> SUFFICES ASSUME NEW k \in 1..Len(file')
                 PROVE  file'[k].whole /\ file'[k].prev_hash = Upto(k - 1)'
      OBVIOUS
    <3>1. CASE k <= Len(file)
      BY <2>2, <3>1
    <3>2. CASE k = Len(file) + 1
      BY <2>1, <2>2, <3>2
    <3>3. QED
      BY <2>2, <3>1, <3>2
  <2>5. (state[w] # "writing")'
    BY <2>1
  <2>6. QED
    BY <2>1, <2>3, <2>4, <2>5
<1>4. CASE Crash(w)
  <2>1. file' = file /\ unterminated' = unterminated /\ state'[w] = "down"
    BY <1>4 DEF Crash
  <2>2. QED
    BY <2>1 DEF Upto
<1>5. CASE UNCHANGED vars
  BY <1>5 DEF vars, Upto, HashOf
<1>6. ~ \E v \in Writers : StartUnreadable(v) \/ WriteFails(v) \/ WriteTorn(v)
  BY DEF StartUnreadable, WriteFails, WriteTorn
<1>7. QED
  BY <1>1, <1>2, <1>3, <1>4, <1>5, <1>6 DEF Next, Step

\* An empty file is a chain.
LEMMA InitChain == ASSUME NEW w, OneWriter(w), Init PROVE ChainInv(w)
  BY DEF OneWriter, Init, ChainInv

\* One writer, crashing and restarting at any time, keeps each entry linked to
\* the previous one, for any number of events.
THEOREM OneWriterKeepsChain ==
  ASSUME NEW w, OneWriter(w)
  PROVE  Spec => []ChainIntact
<1>1. Init => TypeOK /\ ChainInv(w)
  BY InitTypeOK, InitChain
<1>2. TypeOK /\ ChainInv(w) /\ [Next]_vars => TypeOK' /\ ChainInv(w)'
  BY NextTypeOK, NextChain
<1>3. TypeOK /\ ChainInv(w) => ChainIntact
  BY ChainIsIntact
<1>4. QED
  BY <1>1, <1>2, <1>3, PTL DEF Spec

-----------------------------------------------------------------------------
(* Refinement: the file of one writer keeps the promise of ChainedLog. *)

\* The log of ChainedLog that a file stands for.
LogOf(f) == [k \in 1..Len(f) |-> [content |-> f[k].content, after |-> f[k].prev_hash]]

\* A write records an event after the history of the file; nothing else
\* changes the file.
LEMMA WriteRecords ==
  ASSUME NEW w \in Writers, TypeOK, ChainInv(w), Write(w)
  PROVE  Trail!Record(line[w].content)
<1>1. file' = Append(file, line[w]) /\ line[w].prev_hash = Upto(Len(file))
  BY WriteExtends DEF Write, ChainInv
<1>2. /\ Len(file) \in Nat /\ Len(file') = Len(file) + 1
      /\ \A j \in 1..Len(file) : file'[j] = file[j]
      /\ file'[Len(file) + 1] = line[w]
  BY <1>1 DEF TypeOK
<1> DEFINE event == [content |-> line[w].content, after |-> Upto(Len(file))]
<1>3. LogOf(file') = Append(LogOf(file), event)
  BY <1>1, <1>2 DEF LogOf
<1>4. Len(LogOf(file)) = Len(file) /\ \A k \in 1..Len(file) : LogOf(file)[k].content = file[k].content
  BY <1>2 DEF LogOf
<1>5. [k \in 1..Len(LogOf(file)) |-> LogOf(file)[k].content] = Upto(Len(file))
  BY <1>4 DEF Upto
<1>6. QED
  BY <1>3, <1>5 DEF Trail!Record, Trail!History, LogOf

\* One writer's file implements ChainedLog, for any number of events and
\* crashes.
THEOREM OneWriterRecordsHistory ==
  ASSUME NEW w, OneWriter(w)
  PROVE  Spec => RecordsHistory
<1> DEFINE events == LogOf(file)
<1>1. Init => Trail!Init
  BY DEF Init, Trail!Init
<1>2. TypeOK /\ ChainInv(w) /\ [Next]_vars => [Trail!Next]_events
  <2> SUFFICES ASSUME TypeOK, ChainInv(w), [Next]_vars PROVE [Trail!Next]_events
    OBVIOUS
  <2>1. CASE Write(w)
    <3>1. w \in Writers /\ line[w].content \in Contents
      BY DEF OneWriter, TypeOK, Line
    <3>2. Trail!Record(line[w].content)
      BY <2>1, <3>1, WriteRecords
    <3>3. QED
      BY <3>1, <3>2 DEF Trail!Next, Trail!Record
  <2>2. CASE file' = file
    BY <2>2 DEF LogOf
  <2>3. \A v \in Writers : v = w /\ ~WriteTorn(v)
    BY DEF OneWriter, WriteTorn
  <2>4. QED
    BY <2>1, <2>2, <2>3 DEF Next, Step, Start, StartUnreadable, Emit, WriteFails, Crash, vars
<1>3. Init => TypeOK /\ ChainInv(w)
  BY InitTypeOK, InitChain
<1>4. TypeOK /\ ChainInv(w) /\ [Next]_vars => TypeOK' /\ ChainInv(w)'
  BY NextTypeOK, NextChain
<1>5. QED
  BY <1>1, <1>2, <1>3, <1>4, PTL DEF Spec, RecordsHistory, Trail!Spec, LogOf

-----------------------------------------------------------------------------
(* What faults and crashes cost *)

LEMMA EntriesFinite ==
  ASSUME TypeOK PROVE IsFiniteSet(Entries) /\ Cardinality(Entries) \in Nat
<1>1. IsFiniteSet(1..Len(file))
  BY FS_Interval DEF TypeOK
<1>2. QED
  BY <1>1, FS_Subset, FS_CardinalityType DEF Entries

\* A write adds a line after a terminated one; after an unterminated one it adds none,
\* and spoils that (_write).
LEMMA AppendedLines ==
  ASSUME TypeOK, NEW l \in Line
  PROVE  /\ ~unterminated =>
              /\ Len(Appended(l)) = Len(file) + 1
              /\ \A k \in 1..Len(file) : Appended(l)[k] = file[k]
              /\ Appended(l)[Len(file) + 1] = l
         /\ unterminated =>
              /\ Len(file) \in 1..Len(file) /\ Last(file) = file[Len(file)]
              /\ Len(Appended(l)) = Len(file)
              /\ \A k \in 1..Len(file) : k # Len(file) => Appended(l)[k] = file[k]
              /\ ~Appended(l)[Len(file)].whole
<1>1. CASE ~unterminated
  BY <1>1 DEF Appended, TypeOK
<1>2. CASE unterminated
  <2>1. file \in Seq(Line) /\ Len(file) \in 1..Len(file) /\ Last(file) = file[Len(file)]
    BY <1>2 DEF TypeOK, Last
  <2> DEFINE spoiled == [file[Len(file)] EXCEPT !.whole = FALSE]
  <2>2. ~spoiled.whole
    BY <2>1 DEF Line
  <2>3. Appended(l) = [file EXCEPT ![Len(file)] = [@ EXCEPT !.whole = FALSE]]
    BY <1>2 DEF Appended
  <2>4. Appended(l) = [file EXCEPT ![Len(file)] = spoiled]
    BY <2>3, Zenon
  <2> HIDE DEF spoiled
  <2>5. /\ Len(Appended(l)) = Len(file)
        /\ \A k \in 1..Len(file) : k # Len(file) => Appended(l)[k] = file[k]
        /\ Appended(l)[Len(file)] = spoiled
    BY <2>1, <2>4
  <2>6. QED
    BY <1>2, <2>1, <2>2, <2>5
<1>3. QED
  BY <1>1, <1>2

\* A write adds an entry, or spoils one.
LEMMA EntriesAppended ==
  ASSUME TypeOK, NEW l \in Line, file' = Appended(l), TypeOK'
  PROVE  /\ ~unterminated => Cardinality(Entries') = Cardinality(Entries) + (IF l.whole THEN 1 ELSE 0)
         /\ unterminated => Cardinality(Entries') = Cardinality(Entries) - (IF Last(file).whole THEN 1 ELSE 0)
<1>1. Len(file) \in Nat
  BY DEF TypeOK
<1>2. CASE ~unterminated
  <2>1. Entries' = Entries \cup {k \in {Len(file) + 1} : l.whole}
    BY <1>1, <1>2, AppendedLines DEF Entries
  <2>2. Len(file) + 1 \notin Entries
    BY <1>1 DEF Entries
  <2>3. CASE l.whole
    <3>1. Entries' = Entries \cup {Len(file) + 1}
      BY <2>1, <2>3
    <3>2. Cardinality(Entries') = Cardinality(Entries) + 1
      BY <2>2, <3>1, EntriesFinite, FS_AddElement
    <3>3. QED
      BY <1>2, <2>3, <3>2
  <2>4. CASE ~l.whole
    <3>1. Entries' = Entries
      BY <2>1, <2>4
    <3>2. QED
      BY <1>2, <2>4, <3>1, EntriesFinite
  <2>5. QED
    BY <2>3, <2>4
<1>3. CASE unterminated
  <2>1. Entries' = Entries \ {Len(file)}
    BY <1>1, <1>3, AppendedLines DEF Entries
  <2>2. Len(file) \in Entries <=> Last(file).whole
    BY <1>3, AppendedLines DEF Entries
  <2>3. Cardinality(Entries') =
          IF Len(file) \in Entries THEN Cardinality(Entries) - 1 ELSE Cardinality(Entries)
    BY <2>1, EntriesFinite, FS_RemoveElement
  <2>4. QED
    BY <1>3, <2>2, <2>3, EntriesFinite
<1>4. QED
  BY <1>2, <1>3

\* An unterminated line costs, when the next one is appended to it, that one and, if
\* it was an entry, itself.
Owed == IF unterminated THEN 1 + (IF Last(file).whole THEN 1 ELSE 0) ELSE 0

\* What a writer is about to write is a whole line.
LinesWhole == \A w \in Writers : line[w].whole

\* No event is lost by itself, nor will one be for what is in the file already.
LossInv ==
  /\ LinesWhole
  /\ emitted + Owed <= Cardinality(Entries) + Cardinality(InFlight) + 2 * faults + crashes

LEMMA InFlightFinite ==
  ASSUME IsFiniteSet(Writers) PROVE IsFiniteSet(InFlight) /\ Cardinality(InFlight) \in Nat
BY FS_Subset, FS_CardinalityType DEF InFlight

\* A writer begins to write, or ends.
LEMMA InFlightMoves ==
  ASSUME IsFiniteSet(Writers), TypeOK, NEW w \in Writers, NEW s,
         state' = [state EXCEPT ![w] = s]
  PROVE  Cardinality(InFlight') =
           Cardinality(InFlight) + (IF s = "writing" THEN 1 ELSE 0) - (IF state[w] = "writing" THEN 1 ELSE 0)
<1>1. InFlight' = IF s = "writing" THEN InFlight \cup {w} ELSE InFlight \ {w}
  BY DEF InFlight, TypeOK
<1>2. w \in InFlight <=> state[w] = "writing"
  BY DEF InFlight
<1>3. /\ Cardinality(InFlight \cup {w}) =
           IF w \in InFlight THEN Cardinality(InFlight) ELSE Cardinality(InFlight) + 1
      /\ Cardinality(InFlight \ {w}) =
           IF w \in InFlight THEN Cardinality(InFlight) - 1 ELSE Cardinality(InFlight)
  BY InFlightFinite, FS_AddElement, FS_RemoveElement
<1>4. QED
  BY <1>1, <1>2, <1>3, InFlightFinite

LEMMA LossNext ==
  ASSUME IsFiniteSet(Writers), TypeOK, LossInv, [Next]_vars, TypeOK'
  PROVE  LossInv'
<1>0. /\ Cardinality(Entries) \in Nat /\ Cardinality(InFlight) \in Nat
      /\ emitted \in Nat /\ faults \in Nat /\ crashes \in Nat
  BY EntriesFinite, InFlightFinite DEF TypeOK
<1>1. ASSUME NEW w \in Writers, Start(w) \/ StartUnreadable(w) PROVE LossInv'
  <2>1. Entries' = Entries /\ Owed' = Owed /\ LinesWhole'
    BY <1>1 DEF Start, StartUnreadable, Entries, Owed, LossInv, LinesWhole
  <2>2. state' = [state EXCEPT ![w] = "ready"] /\ state[w] = "down"
    BY <1>1 DEF Start, StartUnreadable
  <2>3. Cardinality(InFlight') = Cardinality(InFlight)
    <3>1. Cardinality(InFlight') =
            Cardinality(InFlight) + (IF "ready" = "writing" THEN 1 ELSE 0)
              - (IF state[w] = "writing" THEN 1 ELSE 0)
      BY <2>2, InFlightMoves, Zenon
    <3>2. QED
      BY <1>0, <2>2, <3>1
  <2>4. emitted' = emitted /\ crashes' = crashes /\ (faults' = faults \/ faults' = faults + 1)
    BY <1>1 DEF Start, StartUnreadable
  <2>5. Owed \in Nat
    BY DEF Owed
  <2>6. QED
    BY <1>0, <2>1, <2>3, <2>4, <2>5 DEF LossInv
<1>2. ASSUME NEW w \in Writers, NEW c \in Contents, Emit(w, c) PROVE LossInv'
  <2>1. Entries' = Entries /\ Owed' = Owed
    BY <1>2 DEF Emit, Entries, Owed
  <2>2. LinesWhole'
    BY <1>2 DEF Emit, LinesWhole, LossInv, TypeOK
  <2>3. Cardinality(InFlight') = Cardinality(InFlight) + 1
    <3>1. state' = [state EXCEPT ![w] = "writing"] /\ state[w] = "ready"
      BY <1>2 DEF Emit
    <3>2. Cardinality(InFlight') =
            Cardinality(InFlight) + (IF "writing" = "writing" THEN 1 ELSE 0)
              - (IF state[w] = "writing" THEN 1 ELSE 0)
      BY <3>1, InFlightMoves, Zenon
    <3>3. QED
      BY <1>0, <3>1, <3>2
  <2>4. emitted' = emitted + 1 /\ crashes' = crashes /\ faults' = faults /\ Owed \in Nat
    BY <1>2 DEF Emit, Owed
  <2>5. QED
    BY <1>0, <2>1, <2>2, <2>3, <2>4 DEF LossInv
<1>3. ASSUME NEW w \in Writers, NEW l \in Line, file' = Appended(l), UNCHANGED <<line, emitted, crashes>>,
             state[w] = "writing", NEW s \in {"ready", "down"}, state' = [state EXCEPT ![w] = s],
             \/ l.whole /\ ~unterminated' /\ faults' = faults
             \/ unterminated' /\ faults' = faults + 1
      PROVE  LossInv'
  <2>1. Cardinality(InFlight') = Cardinality(InFlight) - 1
    <3>1. Cardinality(InFlight') =
            Cardinality(InFlight) + (IF s = "writing" THEN 1 ELSE 0)
              - (IF state[w] = "writing" THEN 1 ELSE 0)
      BY <1>3, InFlightMoves, Zenon
    <3>2. QED
      BY <1>0, <1>3, <3>1
  <2>2. /\ ~unterminated => Cardinality(Entries') = Cardinality(Entries) + (IF l.whole THEN 1 ELSE 0)
        /\ unterminated => Cardinality(Entries') = Cardinality(Entries) - (IF Last(file).whole THEN 1 ELSE 0)
    BY <1>3, EntriesAppended
  <2>3. LinesWhole'
    BY <1>3 DEF LossInv, LinesWhole
  <2>4. unterminated' => (Last(file').whole <=> ~unterminated /\ l.whole)
    <3>1. Last(file') = file'[Len(file')] /\ Len(file) \in Nat
      BY DEF Last, TypeOK
    <3>2. CASE unterminated
      BY <1>3, <3>1, <3>2, AppendedLines
    <3>3. CASE ~unterminated
      BY <1>3, <3>1, <3>3, AppendedLines
    <3>4. QED
      BY <3>2, <3>3
  <2>5. /\ Owed' = IF unterminated' THEN 1 + (IF ~unterminated /\ l.whole THEN 1 ELSE 0) ELSE 0
        /\ Owed = IF unterminated THEN 1 + (IF Last(file).whole THEN 1 ELSE 0) ELSE 0
    BY <2>4 DEF Owed
  <2>6. emitted' + Owed' <= Cardinality(Entries') + Cardinality(InFlight') + 2 * faults' + crashes'
    BY <1>0, <1>3, <2>1, <2>2, <2>5 DEF LossInv
  <2>7. QED
    BY <2>3, <2>6 DEF LossInv
<1>4. ASSUME NEW w \in Writers, Write(w) PROVE LossInv'
  <2>1. line[w] \in Line /\ line[w].whole
    BY DEF TypeOK, LossInv, LinesWhole
  <2>2. QED
    BY <1>3, <1>4, <2>1 DEF Write, counters
<1>5. ASSUME NEW w \in Writers, WriteTorn(w) PROVE LossInv'
  <2>1. PICK whole \in BOOLEAN : file' = Appended([line[w] EXCEPT !.whole = whole])
    BY <1>5 DEF WriteTorn
  <2>2. [line[w] EXCEPT !.whole = whole] \in Line
    BY DEF TypeOK, Line
  <2>3. QED
    BY <1>3, <1>5, <2>1, <2>2 DEF WriteTorn
<1>6. ASSUME NEW w \in Writers, WriteFails(w) \/ Crash(w) PROVE LossInv'
  <2>1. Entries' = Entries /\ Owed' = Owed /\ LinesWhole'
    BY <1>6 DEF WriteFails, Crash, Entries, Owed, LossInv, LinesWhole
  <2>2. PICK s \in {"ready", "down"} : state' = [state EXCEPT ![w] = s]
    BY <1>6 DEF WriteFails, Crash
  <2>3. Cardinality(InFlight') = Cardinality(InFlight) - (IF state[w] = "writing" THEN 1 ELSE 0)
    <3>1. Cardinality(InFlight') =
            Cardinality(InFlight) + (IF s = "writing" THEN 1 ELSE 0)
              - (IF state[w] = "writing" THEN 1 ELSE 0)
      BY <2>2, InFlightMoves, Zenon
    <3>2. QED
      BY <1>0, <2>2, <3>1
  <2>4. emitted' = emitted /\ 2 * faults' + crashes' >= 2 * faults + crashes + 1 /\ Owed \in Nat
        /\ faults' \in Nat /\ crashes' \in Nat
    BY <1>0, <1>6 DEF WriteFails, Crash, Owed
  <2>5. Cardinality(InFlight') \in Int /\ Cardinality(InFlight') >= Cardinality(InFlight) - 1
    BY <1>0, <2>3
  <2>6. emitted' + Owed' <= Cardinality(Entries') + Cardinality(InFlight') + 2 * faults' + crashes'
    <3>1. emitted + Owed <= Cardinality(Entries) + Cardinality(InFlight) + 2 * faults + crashes
      BY DEF LossInv
    <3>2. CASE faults' = faults + 1 /\ crashes' = crashes
      BY <1>0, <2>1, <2>4, <2>5, <3>1, <3>2
    <3>3. CASE faults' = faults /\ crashes' = crashes + 1
      BY <1>0, <2>1, <2>4, <2>5, <3>1, <3>3
    <3>4. QED
      BY <1>6, <3>2, <3>3 DEF WriteFails, Crash
  <2>7. QED
    BY <2>1, <2>6 DEF LossInv
<1>7. CASE UNCHANGED vars
  BY <1>7 DEF vars, counters, LossInv, LinesWhole, Owed, Entries, InFlight
<1>8. QED
  BY <1>1, <1>2, <1>4, <1>5, <1>6, <1>7 DEF Next, Step

\* Every emitted event is in the file, on its way there, or accounted for by a crash or
\* a fault, two per fault, for any number of writers, events, faults and crashes (emit,
\* _write).
THEOREM LossesAccounted == ASSUME IsFiniteSet(Writers) PROVE Spec => []LossAccounted
<1>1. Init => TypeOK /\ LossInv
  <2> SUFFICES ASSUME Init PROVE LossInv
    BY InitTypeOK
  <2>1. Owed = 0 /\ emitted = 0 /\ faults = 0 /\ crashes = 0 /\ LinesWhole
    BY DEF Init, Owed, LinesWhole
  <2>2. Cardinality(Entries) \in Nat /\ Cardinality(InFlight) \in Nat
    BY InitTypeOK, EntriesFinite, InFlightFinite
  <2>3. QED
    BY <2>1, <2>2 DEF LossInv
<1>2. TypeOK /\ LossInv /\ [Next]_vars => TypeOK' /\ LossInv'
  BY NextTypeOK, LossNext
<1>3. TypeOK /\ LossInv => LossAccounted
  <2> SUFFICES ASSUME TypeOK, LossInv PROVE LossAccounted
    OBVIOUS
  <2>1. /\ Cardinality(Entries) \in Nat /\ Cardinality(InFlight) \in Nat
        /\ emitted \in Nat /\ faults \in Nat /\ crashes \in Nat /\ Owed \in Nat
    BY EntriesFinite, InFlightFinite DEF TypeOK, Owed
  <2>2. QED
    BY <2>1 DEF LossInv, LossAccounted
<1>4. QED
  BY <1>1, <1>2, <1>3, PTL DEF Spec

-----------------------------------------------------------------------------
(* What faults cost the chain of one writer *)

\* The hash the next line must carry.
TailHash == IF file = <<>> THEN Genesis ELSE HashOf(Last(file))

\* The last line is no entry, or will not be one.
Spoiled == file # <<>> /\ (unterminated \/ ~Last(file).whole)

\* The next line of w will not be linked to the last.
NextBreaks(w) ==
  \/ Spoiled
  \/ state[w] = "ready" /\ prev_hash[w] # TailHash
  \/ state[w] = "writing" /\ line[w].prev_hash # TailHash

\* The bad links that are still to come: an unterminated entry will be spoiled, and the
\* next line may not be linked.
Debt(w) ==
  (IF unterminated /\ Last(file).whole THEN 1 ELSE 0) + (IF NextBreaks(w) THEN 1 ELSE 0)

BreakInv ==
  /\ LinesWhole
  /\ IsFiniteSet(users)
  /\ \A v \in Writers : state[v] # "down" => v \in users
  /\ \A v \in Writers : state[v] = "writing" => prev_hash[v] = HashOf(line[v])
  /\ users = {} => file = <<>> /\ ~unterminated
  /\ \A w \in Writers : users = {w} => Cardinality(Breaks) + Debt(w) <= 2 * faults

LEMMA BreaksFinite ==
  ASSUME TypeOK PROVE IsFiniteSet(Breaks) /\ Cardinality(Breaks) \in Nat
<1>1. IsFiniteSet(1..Len(file))
  BY FS_Interval DEF TypeOK
<1>2. QED
  BY <1>1, FS_Subset, FS_CardinalityType DEF Breaks

LEMMA BreaksFiniteNext ==
  ASSUME TypeOK' PROVE IsFiniteSet(Breaks') /\ Cardinality(Breaks') \in Nat
<1>1. IsFiniteSet(1..Len(file'))
  BY FS_Interval DEF TypeOK
<1>2. QED
  BY <1>1, FS_Subset, FS_CardinalityType DEF Breaks

LEMMA FewerBreaks ==
  ASSUME TypeOK, TypeOK'
  PROVE  /\ Breaks' \subseteq Breaks => Cardinality(Breaks') <= Cardinality(Breaks)
         /\ \A k : Breaks' \subseteq Breaks \cup {k} =>
              Cardinality(Breaks') <= Cardinality(Breaks) + 1
<1>1. Breaks' \subseteq Breaks => Cardinality(Breaks') <= Cardinality(Breaks)
  BY BreaksFinite, FS_Subset
<1>2. ASSUME NEW k, Breaks' \subseteq Breaks \cup {k}
      PROVE  Cardinality(Breaks') <= Cardinality(Breaks) + 1
  <2>1. /\ IsFiniteSet(Breaks \cup {k})
        /\ Cardinality(Breaks \cup {k}) =
             IF k \in Breaks THEN Cardinality(Breaks) ELSE Cardinality(Breaks) + 1
    BY BreaksFinite, FS_AddElement
  <2>2. Cardinality(Breaks') <= Cardinality(Breaks \cup {k})
    BY <1>2, <2>1, FS_Subset
  <2>3. IsFiniteSet(Breaks') /\ Cardinality(Breaks') \in Nat
    BY <1>2, <2>1, FS_Subset, FS_CardinalityType
  <2>4. QED
    BY <2>1, <2>2, <2>3, BreaksFinite
<1>3. QED
  BY <1>1, <1>2

\* What a write does to the end of the file.
LEMMA TailAppended ==
  ASSUME TypeOK, NEW l \in Line, file' = Appended(l), TypeOK'
  PROVE  /\ file' # <<>>
         /\ ~unterminated => Last(file') = l
         /\ unterminated => ~Last(file').whole
<1>1. Last(file') = file'[Len(file')] /\ Len(file) \in Nat
  BY DEF Last, TypeOK
<1>2. file' # <<>>
  BY <1>1, AppendedLines DEF TypeOK
<1>3. QED
  BY <1>1, <1>2, AppendedLines

\* A write can break the link of the line it adds, or of the line it spoils.
LEMMA BreaksAppended ==
  ASSUME TypeOK, NEW l \in Line, file' = Appended(l), TypeOK'
  PROVE  /\ Cardinality(Breaks') <= Cardinality(Breaks) + 1
         /\ ~unterminated /\ l.whole /\ l.prev_hash = TailHash /\ ~Spoiled =>
              Cardinality(Breaks') <= Cardinality(Breaks)
         /\ unterminated /\ ~Last(file).whole =>
              Cardinality(Breaks') <= Cardinality(Breaks)
<1>0. Len(file) \in Nat /\ Len(file') \in Nat
  BY DEF TypeOK
<1>1. CASE ~unterminated
  <2>1. /\ Len(file') = Len(file) + 1
        /\ \A k \in 1..Len(file) : file'[k] = file[k]
        /\ file'[Len(file) + 1] = l
    BY <1>1, AppendedLines
  <2>2. \A k \in 1..Len(file) : Linked(file', k) = Linked(file, k)
    BY <1>0, <2>1 DEF Linked
  <2>3. Breaks' \subseteq Breaks \cup {Len(file) + 1}
    BY <1>0, <2>1, <2>2 DEF Breaks
  <2>4. ASSUME l.whole, l.prev_hash = TailHash, ~Spoiled PROVE Breaks' \subseteq Breaks
    <3>1. CASE file = <<>>
      BY <1>0, <2>1, <2>3, <2>4, <3>1 DEF Breaks, Linked, TailHash
    <3>2. CASE file # <<>>
      <4>1. Last(file) = file[Len(file)] /\ Len(file) \in 1..Len(file) /\ Last(file).whole
        BY <1>0, <2>4, <3>2 DEF Last, TypeOK, Spoiled
      <4>2. l.prev_hash = HashOf(file[Len(file)])
        BY <2>4, <3>2, <4>1 DEF TailHash
      <4>3. Linked(file', Len(file) + 1)
        BY <1>0, <2>1, <2>4, <4>1, <4>2 DEF Linked
      <4>4. QED
        BY <2>3, <4>3 DEF Breaks
    <3>3. QED
      BY <3>1, <3>2
  <2>5. QED
    BY <1>1, <2>3, <2>4, FewerBreaks
<1>2. CASE unterminated
  <2>1. /\ Len(file) \in 1..Len(file) /\ Last(file) = file[Len(file)]
        /\ Len(file') = Len(file)
        /\ \A k \in 1..Len(file) : k # Len(file) => file'[k] = file[k]
    BY <1>2, AppendedLines
  <2>2. \A k \in 1..Len(file) : k # Len(file) => Linked(file', k) = Linked(file, k)
    BY <1>0, <2>1 DEF Linked
  <2>3. Breaks' \subseteq Breaks \cup {Len(file)}
    BY <1>0, <2>1, <2>2 DEF Breaks
  <2>4. ASSUME ~Last(file).whole PROVE Breaks' \subseteq Breaks
    BY <2>1, <2>3, <2>4 DEF Breaks, Linked
  <2>5. QED
    BY <1>2, <2>3, <2>4, FewerBreaks
<1>3. QED
  BY <1>1, <1>2

\* When the file stays, so do its bad links, and only the next link can worsen.
LEMMA DebtStays ==
  ASSUME TypeOK, UNCHANGED <<file, unterminated>>, NEW w \in Writers
  PROVE  /\ Breaks' = Breaks
         /\ Debt(w) \in 0..2 /\ Debt(w)' \in 0..2
         /\ Debt(w)' <= Debt(w) + 1
         /\ (NextBreaks(w)' => NextBreaks(w)) => Debt(w)' <= Debt(w)
<1>1. Breaks' = Breaks
  BY DEF Breaks, Linked
<1>2. (unterminated /\ Last(file).whole)' <=> (unterminated /\ Last(file).whole)
  BY DEF Last
<1>3. QED
  BY <1>1, <1>2 DEF Debt

\* What a terminated write of w leaves: the new line is linked unless it was to
\* break, and the next will be linked unless the line was swallowed.
LEMMA WriteKeepsBreaks ==
  ASSUME TypeOK, TypeOK', LinesWhole, NEW w \in Writers, Write(w),
         prev_hash[w] = HashOf(line[w]),
         Cardinality(Breaks) + Debt(w) <= 2 * faults
  PROVE  Cardinality(Breaks') + Debt(w)' <= 2 * faults'
<1>1. /\ line[w] \in Line /\ line[w].whole /\ file' = Appended(line[w])
      /\ unterminated' = FALSE /\ faults' = faults /\ faults \in Nat
      /\ state[w] = "writing" /\ state'[w] = "ready" /\ prev_hash' = prev_hash
  <2>1. w \in Writers /\ state[w] = "writing" /\ line[w] \in Line
    BY DEF TypeOK, Write
  <2>2. line[w].whole
    BY <2>1 DEF LinesWhole
  <2>3. state'[w] = "ready"
    BY DEF TypeOK, Write
  <2>4. QED
    BY <2>1, <2>2, <2>3 DEF TypeOK, Write, counters
<1>2. /\ Cardinality(Breaks) \in Nat /\ Cardinality(Breaks') \in Nat
  BY BreaksFinite, BreaksFiniteNext
<1>3. /\ Cardinality(Breaks') <= Cardinality(Breaks) + 1
      /\ ~unterminated /\ ~NextBreaks(w) => Cardinality(Breaks') <= Cardinality(Breaks)
      /\ unterminated /\ ~Last(file).whole => Cardinality(Breaks') <= Cardinality(Breaks)
  BY <1>1, BreaksAppended DEF NextBreaks
<1>4. CASE ~unterminated
  <2>1. Last(file') = line[w] /\ file' # <<>>
    BY <1>1, <1>4, TailAppended
  <2>2. ~NextBreaks(w)'
    BY <1>1, <2>1 DEF NextBreaks, Spoiled, TailHash
  <2>3. Debt(w)' = 0
    BY <1>1, <2>2 DEF Debt
  <2>4. Debt(w) = IF NextBreaks(w) THEN 1 ELSE 0
    BY <1>4 DEF Debt
  <2>5. QED
    BY <1>1, <1>2, <1>3, <1>4, <2>3, <2>4
<1>5. CASE unterminated
  <2>1. Debt(w)' \in {0, 1}
    BY <1>1 DEF Debt
  <2>2. NextBreaks(w)
    BY <1>5 DEF NextBreaks, Spoiled, TypeOK
  <2>3. Debt(w) = IF Last(file).whole THEN 2 ELSE 1
    BY <1>5, <2>2 DEF Debt
  <2>4. QED
    BY <1>1, <1>2, <1>3, <1>5, <2>1, <2>3
<1>6. QED
  BY <1>4, <1>5

\* A torn write leaves at most two bad links more, those to come included.
LEMMA TornKeepsBreaks ==
  ASSUME TypeOK, TypeOK', LinesWhole, NEW w \in Writers, WriteTorn(w),
         Cardinality(Breaks) + Debt(w) <= 2 * faults
  PROVE  Cardinality(Breaks') + Debt(w)' <= 2 * faults'
<1>1. PICK whole \in BOOLEAN : file' = Appended([line[w] EXCEPT !.whole = whole])
  BY DEF WriteTorn
<1> DEFINE l == [line[w] EXCEPT !.whole = whole]
<1>2. /\ l \in Line /\ l.whole = whole /\ l.prev_hash = line[w].prev_hash
      /\ unterminated' = TRUE /\ faults' = faults + 1 /\ faults \in Nat
      /\ state[w] = "writing"
  <2>1. line[w] \in Line
    BY DEF TypeOK
  <2>2. l \in Line /\ l.whole = whole /\ l.prev_hash = line[w].prev_hash
    BY <2>1 DEF Line
  <2>3. QED
    BY <2>2 DEF TypeOK, WriteTorn
<1>3. /\ Cardinality(Breaks) \in Nat /\ Cardinality(Breaks') \in Nat
  BY BreaksFinite, BreaksFiniteNext
<1>4. file' = Appended(l)
  BY <1>1
<1> HIDE DEF l
<1>5. /\ Cardinality(Breaks') <= Cardinality(Breaks) + 1
      /\ ~unterminated /\ l.whole /\ ~NextBreaks(w) =>
           Cardinality(Breaks') <= Cardinality(Breaks)
      /\ unterminated /\ ~Last(file).whole => Cardinality(Breaks') <= Cardinality(Breaks)
  BY <1>2, <1>4, BreaksAppended DEF NextBreaks
<1>6. /\ ~unterminated => Last(file') = l
      /\ unterminated => ~Last(file').whole
  BY <1>2, <1>4, TailAppended
<1>7. Debt(w)' \in {0, 1, 2} /\ (~Last(file').whole => Debt(w)' \in {0, 1})
  BY DEF Debt
<1>8. CASE ~unterminated
  <2>1. Debt(w) = IF NextBreaks(w) THEN 1 ELSE 0
    BY <1>8 DEF Debt
  <2>2. CASE l.whole
    BY <1>2, <1>3, <1>5, <1>7, <1>8, <2>1, <2>2
  <2>3. CASE ~l.whole
    BY <1>2, <1>3, <1>5, <1>6, <1>7, <1>8, <2>1, <2>3
  <2>4. QED
    BY <2>2, <2>3
<1>9. CASE unterminated
  <2>1. NextBreaks(w)
    BY <1>9 DEF NextBreaks, Spoiled, TypeOK
  <2>2. Debt(w) = IF Last(file).whole THEN 2 ELSE 1
    BY <1>9, <2>1 DEF Debt
  <2>3. QED
    BY <1>2, <1>3, <1>5, <1>6, <1>7, <1>9, <2>2
<1>10. QED
  BY <1>8, <1>9

\* The parts of the invariant that count nothing.
LEMMA BreakFrame ==
  ASSUME TypeOK, TypeOK', BreakInv, NEW v \in Writers, Step(v)
  PROVE  /\ LinesWhole'
         /\ IsFiniteSet(users')
         /\ \A u \in Writers : state'[u] # "down" => u \in users'
         /\ \A u \in Writers : state'[u] = "writing" => prev_hash'[u] = HashOf(line'[u])
         /\ v \in users' /\ users' \in {users, users \cup {v}}
<1>1. IsFiniteSet(users \cup {v})
  BY FS_AddElement DEF BreakInv
<1>2. CASE Start(v) \/ StartUnreadable(v)
  <2>1. /\ users' = users \cup {v} /\ line' = line
        /\ state' = [state EXCEPT ![v] = "ready"]
        /\ \A u \in Writers : u # v => prev_hash'[u] = prev_hash[u]
    BY <1>2 DEF Start, StartUnreadable, TypeOK
  <2>2. QED
    BY <1>1, <2>1 DEF BreakInv, LinesWhole, TypeOK
<1>3. CASE \E c \in Contents : Emit(v, c)
  <2>1. /\ users' = users /\ state[v] = "ready"
        /\ state' = [state EXCEPT ![v] = "writing"]
        /\ line'[v].whole /\ prev_hash'[v] = HashOf(line'[v])
        /\ \A u \in Writers : u # v => prev_hash'[u] = prev_hash[u] /\ line'[u] = line[u]
    BY <1>3 DEF Emit, TypeOK
  <2>2. QED
    BY <2>1 DEF BreakInv, LinesWhole, TypeOK
<1>4. CASE Write(v) \/ WriteFails(v) \/ WriteTorn(v) \/ Crash(v)
  <2>1. /\ users' = users /\ state[v] # "down" /\ line' = line /\ prev_hash' = prev_hash
        /\ \E s \in {"ready", "down"} : state' = [state EXCEPT ![v] = s]
    BY <1>4 DEF Write, WriteFails, WriteTorn, Crash
  <2>2. QED
    BY <2>1 DEF BreakInv, LinesWhole, TypeOK
<1>5. QED
  BY <1>2, <1>3, <1>4 DEF Step

\* A single writer's file breaks no more links than its faults account for.
LEMMA BreakStep ==
  ASSUME TypeOK, TypeOK', BreakInv, NEW w \in Writers, Step(w), users = {w}
  PROVE  Cardinality(Breaks') + Debt(w)' <= 2 * faults'
<1>1. /\ Cardinality(Breaks) \in Nat /\ faults \in Nat
      /\ Cardinality(Breaks) + Debt(w) <= 2 * faults
  BY BreaksFinite DEF BreakInv, TypeOK
<1>2. LinesWhole
  BY DEF BreakInv
<1>3. CASE Start(w)
  <2>1. /\ UNCHANGED <<file, unterminated>> /\ faults' \in {faults, faults + 1}
        /\ state'[w] = "ready"
    BY <1>3 DEF Start, TypeOK
  <2>2. CASE faults' = faults
    <3>1. prev_hash'[w] = TailHash \/ Spoiled
      <4>1. prev_hash'[w] = IF TailReadable THEN HashOf(Last(file)) ELSE Genesis
        BY <1>3 DEF Start, TypeOK
      <4>2. ~(file # <<>> /\ Last(file).whole /\ Last(file).content \in Long)
        BY <1>1, <1>3, <2>2 DEF Start
      <4>3. QED
        BY <4>1, <4>2 DEF TailReadable, TailHash, Spoiled
    <3>2. TailHash' = TailHash /\ (Spoiled' <=> Spoiled)
      BY <2>1 DEF TailHash, Spoiled
    <3>3. NextBreaks(w)' => NextBreaks(w)
      BY <2>1, <3>1, <3>2 DEF NextBreaks
    <3>4. QED
      BY <1>1, <2>1, <2>2, <3>3, DebtStays
  <2>3. CASE faults' = faults + 1
    BY <1>1, <2>1, <2>3, DebtStays
  <2>4. QED
    BY <2>1, <2>2, <2>3
<1>4. CASE StartUnreadable(w) \/ WriteFails(w)
  <2>1. UNCHANGED <<file, unterminated>> /\ faults' = faults + 1
    BY <1>4 DEF StartUnreadable, WriteFails
  <2>2. QED
    BY <1>1, <2>1, DebtStays
<1>5. CASE \E c \in Contents : Emit(w, c)
  <2>1. /\ UNCHANGED <<file, unterminated>> /\ faults' = faults
        /\ state[w] = "ready" /\ state'[w] = "writing"
        /\ line'[w].prev_hash = prev_hash[w]
    BY <1>5 DEF Emit, TypeOK
  <2>2. TailHash' = TailHash /\ (Spoiled' <=> Spoiled)
    BY <2>1 DEF TailHash, Spoiled
  <2>3. NextBreaks(w)' => NextBreaks(w)
    BY <2>1, <2>2 DEF NextBreaks
  <2>4. QED
    BY <1>1, <2>1, <2>3, DebtStays
<1>6. CASE Write(w)
  <2>1. prev_hash[w] = HashOf(line[w])
    BY <1>6 DEF Write, BreakInv
  <2>2. QED
    BY <1>1, <1>2, <1>6, <2>1, WriteKeepsBreaks
<1>7. CASE WriteTorn(w)
  BY <1>1, <1>2, <1>7, TornKeepsBreaks
<1>8. CASE Crash(w)
  <2>1. UNCHANGED <<file, unterminated>> /\ faults' = faults /\ state'[w] = "down"
    BY <1>8 DEF Crash, TypeOK
  <2>2. Spoiled' <=> Spoiled
    BY <2>1 DEF Spoiled
  <2>3. NextBreaks(w)' => NextBreaks(w)
    BY <2>1, <2>2 DEF NextBreaks
  <2>4. QED
    BY <1>1, <2>1, <2>3, DebtStays
<1>9. QED
  BY <1>3, <1>4, <1>5, <1>6, <1>7, <1>8 DEF Step

\* The first writer finds an empty file, or none.
LEMMA FirstStart ==
  ASSUME TypeOK, TypeOK', BreakInv, NEW w \in Writers, Step(w), users = {}
  PROVE  Cardinality(Breaks') + Debt(w)' <= 2 * faults'
<1>1. file = <<>> /\ ~unterminated /\ state[w] = "down"
  BY DEF BreakInv
<1>2. Start(w)
  BY <1>1 DEF Step, StartUnreadable, Emit, Write, WriteFails, WriteTorn, Crash
<1>3. /\ file' = <<>> /\ ~unterminated' /\ state'[w] = "ready" /\ prev_hash'[w] = Genesis
  BY <1>1, <1>2 DEF Start, TailReadable, TypeOK
<1>4. Breaks' = {}
  BY <1>3 DEF Breaks
<1>5. Debt(w)' = 0
  BY <1>3 DEF Debt, NextBreaks, Spoiled, TailHash
<1>6. Cardinality(Breaks') = 0
  BY <1>4, FS_EmptySet
<1>7. faults' \in Nat
  BY DEF TypeOK
<1>8. 0 + 0 <= 2 * faults'
  <2>1. \A n \in Nat : 0 + 0 <= 2 * n
    OBVIOUS
  <2>2. QED
    BY <1>7, <2>1, Zenon
<1>9. QED
  BY <1>5, <1>6, <1>8, Zenon

LEMMA BreakNext == TypeOK /\ TypeOK' /\ BreakInv /\ [Next]_vars => BreakInv'
<1> SUFFICES ASSUME TypeOK, TypeOK', BreakInv, [Next]_vars PROVE BreakInv'
  OBVIOUS
<1>1. ASSUME NEW v \in Writers, Step(v) PROVE BreakInv'
  <2>1. /\ LinesWhole' /\ IsFiniteSet(users')
        /\ \A u \in Writers : state'[u] # "down" => u \in users'
        /\ \A u \in Writers : state'[u] = "writing" => prev_hash'[u] = HashOf(line'[u])
        /\ v \in users' /\ users' \in {users, users \cup {v}}
    BY <1>1, BreakFrame
  <2>2. ASSUME NEW w \in Writers, users' = {w}
        PROVE  Cardinality(Breaks') + Debt(w)' <= 2 * faults'
    <3>1. v = w /\ (users = {} \/ users = {w})
      BY <2>1, <2>2
    <3>2. QED
      BY <1>1, <3>1, BreakStep, FirstStart
  <2>3. users' # {}
    BY <2>1
  <2>4. QED
    BY <2>1, <2>2, <2>3 DEF BreakInv
<1>2. CASE UNCHANGED vars
  <2>1. /\ UNCHANGED <<file, unterminated, state, prev_hash, line, users>>
        /\ faults' = faults /\ faults \in Nat
    BY <1>2 DEF vars, counters, TypeOK
  <2>2. ASSUME NEW w \in Writers, users' = {w}
        PROVE  Cardinality(Breaks') + Debt(w)' <= 2 * faults'
    <3>1. NextBreaks(w)' => NextBreaks(w)
      BY <2>1 DEF NextBreaks, Spoiled, TailHash
    <3>2. Breaks' = Breaks /\ Debt(w) \in 0..2 /\ Debt(w)' \in 0..2 /\ Debt(w)' <= Debt(w)
      BY <2>1, <3>1, DebtStays
    <3>3. Cardinality(Breaks) + Debt(w) <= 2 * faults
      BY <2>1, <2>2 DEF BreakInv
    <3>4. QED
      BY <2>1, <3>2, <3>3, BreaksFinite
  <2>3. LinesWhole' /\ IsFiniteSet(users')
    BY <2>1 DEF BreakInv, LinesWhole
  <2>4. \A u \in Writers : state'[u] = "writing" => prev_hash'[u] = HashOf(line'[u])
    BY <2>1 DEF BreakInv
  <2>5. QED
    BY <2>1, <2>2, <2>3, <2>4 DEF BreakInv
<1>3. QED
  BY <1>1, <1>2 DEF Next

\* BreaksAccounted, of the _load_tail, emit and _write of one writer: every failed,
\* torn or unreadable file operation accounts for at most two bad links of the
\* chain, through any number of crashes and restarts.
THEOREM ChainBreaksByFaultsOnly == Spec => []BreaksAccounted
<1>1. Init => BreakInv
  <2> SUFFICES ASSUME Init PROVE BreakInv
    OBVIOUS
  <2>1. IsFiniteSet({}) /\ users = {}
    BY FS_EmptySet DEF Init
  <2>2. QED
    BY <2>1 DEF Init, BreakInv, LinesWhole
<1>2. TypeOK /\ BreakInv => BreaksAccounted
  <2> SUFFICES ASSUME TypeOK, BreakInv, Cardinality(users) <= 1
               PROVE  Cardinality(Breaks) <= 2 * faults
    BY DEF BreaksAccounted
  <2>1. IsFiniteSet(users) /\ Cardinality(users) \in Nat
    BY FS_CardinalityType DEF BreakInv
  <2>2. CASE users = {}
    <3>1. Breaks = {}
      BY <2>2 DEF BreakInv, Breaks
    <3>2. QED
      BY <3>1, FS_EmptySet DEF TypeOK
  <2>3. CASE users # {}
    <3>1. Cardinality(users) = 1
      BY <2>1, <2>3, FS_EmptySet
    <3>2. PICK w : users = {w}
      BY <2>1, <3>1, FS_Singleton
    <3>3. w \in Writers /\ Debt(w) \in 0..2
      BY <3>2 DEF TypeOK, Debt
    <3>4. QED
      BY <3>2, <3>3, BreaksFinite DEF BreakInv, TypeOK
  <2>4. QED
    BY <2>2, <2>3
<1>3. QED
  BY <1>1, <1>2, BreakNext, LogTypeCorrect, PTL DEF Spec
=============================================================================
