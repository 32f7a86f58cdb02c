--------------------------------- MODULE CodeLists ---------------------------------
(***************************************************************************)
(* Code lists that a deployer copies to disk, release after release, and   *)
(* the tools that read them anew for every answer: the eDEC lists of       *)
(* peppol/codelists.py, one file per release, and the EN 16931 lists of    *)
(* en16931_codelists.py, whose one file is overwritten.                    *)
(***************************************************************************)
EXTENDS Naturals, Sequences, FiniteSets

CONSTANTS
  Lists,     \* names of code lists, EN 16931 ones and eDEC ones
  Edec,      \* the eDEC ones among them
  Releases,  \* in the order they come out, <<major, minor>>
  None

Codes == DOMAIN Releases
-----------------------------------------------------------------------------
(* Names and contents of files *)

\* The characters of "v9.10.gc": the dot is before the digits.
Digits(n) == IF n < 10 THEN <<n>> ELSE <<n \div 10, n % 10>>
Dot == 0
Shown(n) == [i \in DOMAIN Digits(n) |-> Digits(n)[i] + 1]
FileName(r) == Shown(Releases[r][1]) \o <<Dot>> \o Shown(Releases[r][2]) \o <<Dot>>

\* The order in which sorted() puts two names.
Before(r, s) ==
  LET a == FileName(r) b == FileName(s)
  IN \E i \in DOMAIN b :
       /\ \A j \in 1..(i - 1) : j \in DOMAIN a /\ a[j] = b[j]
       /\ i \notin DOMAIN a \/ a[i] < b[i]

\* Mutant of FindCodelistFile: the first of the names.
Bug_FindCodelistFile(files) ==
  IF files = {} THEN None
  ELSE CHOOSE f \in files : \A g \in files \ {f} : Before(f.release, g.release)

\* _find_codelist_file: the last of the names, or the only one.
FindCodelistFile(files) ==
  IF files = {} THEN None
  ELSE CHOOSE f \in files : \A g \in files \ {f} : Before(g.release, f.release)

\* What a release of a list says of codes (external): each brings one, and two
\* releases later it is "removed" in an eDEC list and gone from an EN 16931 one,
\* which has no states.
Rows(l, r) ==
  IF l \in Edec
  THEN {[code |-> c, state |-> IF r < c + 2 THEN "active" ELSE "removed"] : c \in 1..r}
  ELSE {[code |-> c, state |-> None] : c \in {d \in 1..r : r < d + 2}}

CodesOf(rows) == {row.code : row \in rows}
Active(rows) == {row \in rows : row.state = "active"}
-----------------------------------------------------------------------------
VARIABLES
  configured,  \* the environment variables name a directory
  disk,        \* the files of each list
  answer       \* the last answer: the list, what was asked and said, the codes shown
               \* and, as history, the releases that were on disk

vars == <<configured, disk, answer>>

NoAnswer == [list |-> None, code |-> None, said |-> "none", codes |-> {}, beside |-> {}]

TypeOK ==
  /\ configured \in BOOLEAN
  /\ disk \in [Lists -> SUBSET [release : Codes, whole : BOOLEAN]]
  /\ answer.said \in {"none", "rows", "found", "unknown", "unconfigured", "raised", "versions"}

Init ==
  /\ configured \in BOOLEAN
  /\ disk = [l \in Lists |-> {}]
  /\ answer = NoAnswer
-----------------------------------------------------------------------------
(* The deployer (external) *)

\* A release is copied, in whatever order: its file is there before it is whole.
BeginCopy(l) ==
  /\ \A f \in disk[l] : f.whole
  /\ \E r \in Codes :
       /\ \A f \in disk[l] : f.release # r
       /\ disk' = [disk EXCEPT ![l] =
            (IF l \in Edec THEN disk[l] ELSE {}) \cup {[release |-> r, whole |-> FALSE]}]
  /\ UNCHANGED <<configured, answer>>
EndCopy(l) ==
  /\ \E f \in disk[l] : ~f.whole
  /\ disk' = [disk EXCEPT ![l] = {[f EXCEPT !.whole = TRUE] : f \in disk[l]}]
  /\ UNCHANGED <<configured, answer>>
-----------------------------------------------------------------------------
(* The tools *)

\* load_codelist: the file, "raised" when it is no XML yet.
Load(l) ==
  LET file == FindCodelistFile(disk[l])
  IN IF ~configured \/ file = None THEN "unconfigured"
     ELSE IF file.whole THEN "loaded" ELSE "raised"
Loaded(l) == Rows(l, FindCodelistFile(disk[l]).release)

\* An answer of a tool.
Says(l, code, said, codes) ==
  answer' = [list |-> l, code |-> code, said |-> said, codes |-> codes,
             beside |-> IF l = None THEN {} ELSE {f.release : f \in disk[l]}]

\* Not configured, which the tools report, or not parsed, which they do not catch.
Fails(l) ==
  /\ Load(l) # "loaded"
  /\ Says(l, None, Load(l), {})
  /\ UNCHANGED <<configured, disk>>

\* list_*: the rows, of an eDEC list only the active ones if asked for.
ListCodes(l) ==
  /\ Load(l) = "loaded"
  /\ \E active_only \in BOOLEAN :
       LET rows == IF l \in Edec /\ active_only THEN Active(Loaded(l)) ELSE Loaded(l)
       IN Says(l, None, "rows", CodesOf(rows))
  /\ UNCHANGED <<configured, disk>>

\* check_*: whether there is a row, of whatever state.
CheckCode(l) ==
  /\ Load(l) = "loaded"
  /\ \E code \in Codes :
       LET found == code \in CodesOf(Loaded(l))
       IN Says(l, code, IF found THEN "found" ELSE "unknown", {code} \cap CodesOf(Loaded(l)))
  /\ UNCHANGED <<configured, disk>>

\* get_peppol_codelist_version: only what is not configured becomes an error entry.
ReportVersions ==
  /\ LET raises == \E l \in Edec : Load(l) = "raised"
     IN Says(None, None, IF raises THEN "raised" ELSE "versions", {})
  /\ UNCHANGED <<configured, disk>>

Next ==
  \/ \E l \in Lists : BeginCopy(l) \/ EndCopy(l) \/ Fails(l) \/ ListCodes(l) \/ CheckCode(l)
  \/ ReportVersions

Spec == Init /\ [][Next]_vars
-----------------------------------------------------------------------------
(* Properties *)

\* The number in which two releases differ first has as many digits in the one as in
\* the other.
Width(n) == Len(Digits(n))
Aligned(r, s) ==
  LET i == IF Releases[r][1] = Releases[s][1] THEN 2 ELSE 1
  IN Width(Releases[r][i]) = Width(Releases[s][i])

\* What the tools answer is what the newest release on disk says, in whatever order
\* releases were copied, although file names are compared as text: unless a number of
\* an older one is written with fewer or more digits.
AnswersNewest ==
  \A newest \in answer.beside :
    LET rows == Rows(answer.list, newest)
    IN (\A r \in answer.beside \ {newest} : r < newest /\ Aligned(r, newest)) =>
         /\ answer.said = "rows" =>
              /\ answer.codes \subseteq CodesOf(rows)
              /\ IF answer.list \in Edec THEN CodesOf(Active(rows)) \subseteq answer.codes
                                         ELSE answer.codes = CodesOf(rows)
         /\ answer.said = "found" => answer.code \in CodesOf(rows)
         /\ answer.said = "unknown" => answer.code \notin CodesOf(rows)

\* Without the excuse: violated, v9.10 is sorted before v9.9.
NewestIsFound ==
  answer.said = "unknown" =>
    \A r \in answer.beside : answer.code \notin CodesOf(Active(Rows(answer.list, r)))

\* "for each list that is missing or unreadable" an error entry: violated, a file that
\* is not parsed makes the report raise.
VersionReportTotal == answer.said = "raised" => answer.list # None
=============================================================================
