-------------------------------- MODULE AuditLog --------------------------------
(***************************************************************************)
(* The hash-chained audit trail of audit_log.py: AuditLog objects          *)
(* (writers) that append lines to one file, crash, and start again from    *)
(* the file's tail.                                                        *)
(*                                                                         *)
(* SHA-256 is modelled as injective: the hash of an entry is the sequence  *)
(* of the contents it covers, GENESIS the empty one.  emit() holds the     *)
(* writer's own lock, so one writer's emits do not overlap; the state is   *)
(* changed in two places in it, the chain before the file.                 *)
(***************************************************************************)
EXTENDS SequencesExt

CONSTANTS
  Writers,     \* AuditLog objects on one path, in one process or several
  Contents,    \* what an event says, its prev_hash left out
  Long,        \* contents whose line exceeds the 4096 bytes _read_last_line reads
  Faults,      \* which of "oserror" and "torn" may happen
  MaxEvents,   \* bound on emitted events
  MaxFaults,   \* bound on faults
  MaxCrashes   \* bound on crashes

ASSUME LogAssumption ==
  /\ Long \subseteq Contents
  /\ Faults \subseteq {"oserror", "torn"}
  /\ MaxEvents \in Nat /\ MaxFaults \in Nat /\ MaxCrashes \in Nat

VARIABLES
  file,          \* the lines of the log file
  unterminated,  \* the last line has no newline
  state,         \* of each writer
  prev_hash,     \* _prev_hash of each writer
  line,          \* the line each writer is about to write
  users,         \* history: writers that have opened the file
  emitted,       \* history: events emitted
  faults,        \* history: faults so far
  crashes        \* history: crashes so far

counters == <<emitted, faults, crashes>>
vars == <<file, unterminated, state, prev_hash, line, users, counters>>

Hash == Seq(Contents)
Genesis == <<>>
Line == [content : Contents, prev_hash : Hash, whole : BOOLEAN]

\* Mutant of HashOf: the hash does not cover prev_hash.
Bug_HashOfContent(entry) == <<entry.content>>

HashOf(entry) == Append(entry.prev_hash, entry.content)

TypeOK ==
  /\ file \in Seq(Line)
  /\ unterminated \in BOOLEAN
  /\ unterminated => file # <<>>
  /\ state \in [Writers -> {"down", "ready", "writing"}]
  /\ prev_hash \in [Writers -> Hash]
  /\ line \in [Writers -> Line]
  /\ users \subseteq Writers
  /\ emitted \in Nat /\ faults \in Nat /\ crashes \in Nat

Init ==
  /\ file = <<>>
  /\ unterminated = FALSE
  /\ state = [w \in Writers |-> "down"]
  /\ prev_hash = [w \in Writers |-> Genesis]
  /\ line \in {[w \in Writers |-> [content |-> c, prev_hash |-> Genesis, whole |-> TRUE]] : c \in Contents}
  /\ users = {}
  /\ emitted = 0 /\ faults = 0 /\ crashes = 0

-----------------------------------------------------------------------------
\* The last line parses: it is a whole entry, and within the chunk read.
TailReadable == file # <<>> /\ Last(file).whole /\ Last(file).content \notin Long

\* Mutant of Start: the tail of an existing file is not read.
Bug_StartAtGenesis(w) ==
  /\ state[w] = "down"
  /\ state' = [state EXCEPT ![w] = "ready"]
  /\ prev_hash' = [prev_hash EXCEPT ![w] = Genesis]
  /\ users' = users \cup {w}
  /\ UNCHANGED <<file, unterminated, line, counters>>

\* The constructor: _load_tail falls back on GENESIS when it cannot parse.
Start(w) ==
  /\ state[w] = "down"
  /\ state' = [state EXCEPT ![w] = "ready"]
  /\ prev_hash' = [prev_hash EXCEPT ![w] = IF TailReadable THEN HashOf(Last(file)) ELSE Genesis]
  /\ faults' = IF file # <<>> /\ Last(file).whole /\ Last(file).content \in Long
                 THEN faults + 1 ELSE faults
  /\ users' = users \cup {w}
  /\ UNCHANGED <<file, unterminated, line, emitted, crashes>>

\* ... or when it cannot read the file at all.
StartUnreadable(w) ==
  /\ "oserror" \in Faults /\ faults < MaxFaults
  /\ state[w] = "down"
  /\ file # <<>>
  /\ state' = [state EXCEPT ![w] = "ready"]
  /\ prev_hash' = [prev_hash EXCEPT ![w] = Genesis]
  /\ faults' = faults + 1
  /\ users' = users \cup {w}
  /\ UNCHANGED <<file, unterminated, line, emitted, crashes>>

\* Mutant of Emit: the chain does not move on.
Bug_EmitStays(w, content) ==
  /\ emitted < MaxEvents
  /\ state[w] = "ready"
  /\ state' = [state EXCEPT ![w] = "writing"]
  /\ line' = [line EXCEPT ![w] =
                [content |-> content, prev_hash |-> prev_hash[w], whole |-> TRUE]]
  /\ emitted' = emitted + 1
  /\ UNCHANGED <<file, unterminated, prev_hash, users, faults, crashes>>

\* emit, up to the call of _write: the entry is chained, and the chain moves on.
Emit(w, content) ==
  /\ emitted < MaxEvents
  /\ state[w] = "ready"
  /\ state' = [state EXCEPT ![w] = "writing"]
  /\ line' = [line EXCEPT ![w] =
                [content |-> content, prev_hash |-> prev_hash[w], whole |-> TRUE]]
  /\ prev_hash' = [prev_hash EXCEPT ![w] = HashOf(line'[w])]
  /\ emitted' = emitted + 1
  /\ UNCHANGED <<file, unterminated, users, faults, crashes>>

\* Mutants of Appended: the file is opened for writing instead of appending,
\* or the newline is written before the next line only.
Bug_Truncates(l) == <<l>>
Bug_NoNewline(l) ==
  IF file # <<>> THEN [file EXCEPT ![Len(file)] = [@ EXCEPT !.whole = FALSE]] ELSE <<l>>

\* The file after l is appended to it: a line without newline swallows l.
Appended(l) ==
  IF unterminated
    THEN [file EXCEPT ![Len(file)] = [@ EXCEPT !.whole = FALSE]]
    ELSE Append(file, l)

Write(w) ==
  /\ state[w] = "writing"
  /\ file' = Appended(line[w])
  /\ unterminated' = FALSE
  /\ state' = [state EXCEPT ![w] = "ready"]
  /\ UNCHANGED <<prev_hash, line, users, counters>>

\* _write logs an OSError and returns: nothing reached the file.
WriteFails(w) ==
  /\ "oserror" \in Faults /\ faults < MaxFaults
  /\ state[w] = "writing"
  /\ state' = [state EXCEPT ![w] = "ready"]
  /\ faults' = faults + 1
  /\ UNCHANGED <<file, unterminated, prev_hash, line, users, emitted, crashes>>

\* The disk fills up, or the process dies, within the write: a part of the
\* line is in the file, perhaps all of it but its newline.
WriteTorn(w) ==
  /\ "torn" \in Faults /\ faults < MaxFaults
  /\ state[w] = "writing"
  /\ \E whole \in BOOLEAN : file' = Appended([line[w] EXCEPT !.whole = whole])
  /\ unterminated' = TRUE
  /\ \E s \in {"ready", "down"} : state' = [state EXCEPT ![w] = s]
  /\ faults' = faults + 1
  /\ UNCHANGED <<prev_hash, line, users, emitted, crashes>>

\* The process dies between two file operations.
Crash(w) ==
  /\ crashes < MaxCrashes
  /\ state[w] # "down"
  /\ state' = [state EXCEPT ![w] = "down"]
  /\ crashes' = crashes + 1
  /\ UNCHANGED <<file, unterminated, prev_hash, line, users, emitted, faults>>

Step(w) ==
  \/ Start(w)
  \/ StartUnreadable(w)
  \/ \E c \in Contents : Emit(w, c)
  \/ Write(w)
  \/ WriteFails(w)
  \/ WriteTorn(w)
  \/ Crash(w)

Next == \E w \in Writers : Step(w)

Spec == Init /\ [][Next]_vars
-----------------------------------------------------------------------------
(* What a verifier of the file sees *)

\* Line k is an entry and carries the hash of the line before it.
Linked(f, k) ==
  /\ f[k].whole
  /\ f[k].prev_hash = IF k = 1 THEN Genesis ELSE HashOf(f[k - 1])
  /\ k > 1 => f[k - 1].whole

Intact(f) == \A k \in 1..Len(f) : Linked(f, k)

Breaks == {k \in 1..Len(file) : ~Linked(file, k)}
Entries == {k \in 1..Len(file) : file[k].whole}
InFlight == {w \in Writers : state[w] = "writing"}

-----------------------------------------------------------------------------
(* Properties *)

\* Each entry carries the hash of the previous one, the first that of GENESIS,
\* across crashes between any two file operations and restarts from the tail.
\* It needs a single writer and writes that neither fail nor tear.
ChainIntact == Intact(file)

\* An entry removed from an intact file, other than from its end, is missed by
\* its successor: the remaining lines do not verify.
InnerDeletionDetected ==
  Intact(file) => \A k \in 1..(Len(file) - 1) : ~Intact(RemoveAt(file, k))

\* As long as one writer has used the file, the chain does not break by itself:
\* every failed, torn or unreadable file operation accounts for at most two bad
\* links, whatever crashes and restarts happen in between.
BreaksAccounted == Cardinality(users) <= 1 => Cardinality(Breaks) <= 2 * faults

\* No event is lost by itself: an emitted event is in the file as an entry of
\* its own, on its way there, or accounted for by a crash, or by a fault,
\* which costs at most two events (its own, and the one that is appended to
\* the same line).
LossAccounted ==
  emitted <= Cardinality(Entries) + Cardinality(InFlight) + 2 * faults + crashes

\* A terminated line never changes again and never disappears.
AppendOnly ==
  [][\A k \in 1..Len(file) :
       (k < Len(file) \/ ~unterminated) => k <= Len(file') /\ file'[k] = file[k]]_vars
=============================================================================
