--------------------------------- MODULE RuleFiles ---------------------------------
(***************************************************************************)
(* Schematron stylesheets on disk: download_artefacts (download_rules.py)  *)
(* fetches them, writes them in place and may die while it does; tool      *)
(* calls load them with load_schematron_validator (schematron.py), reading *)
(* the file twice, keep the validator or not, and validate documents.      *)
(*                                                                         *)
(* A stylesheet is the number of its release; the odd ones are XSLT 1.0,   *)
(* the even ones XSLT 2.0.  What a file holds while it is written, or      *)
(* after a run that died, is no XML.  The stylesheet of the Peppol reports *)
(* comes with the package: XSLT 2.0, and no run writes it.                 *)
(***************************************************************************)
EXTENDS Naturals, Sequences, FiniteSets

CONSTANTS
  Specs,        \* the DownloadSpecs, a sequence of file names
  Readers,      \* tool calls that validate with the first of them
  MaxReleases,  \* bound: releases of the stylesheets
  MaxRuns,      \* bound: runs of the download command
  None

Releases == 1..MaxReleases
Downloads == {Specs[i] : i \in DOMAIN Specs}
BundledRelease == 0
Stylesheets == Releases \cup {BundledRelease}
-----------------------------------------------------------------------------
(* Stylesheets and validators *)

Cut == [release |-> None, whole |-> FALSE]
Whole(release) == [release |-> release, whole |-> TRUE]

Level(release) == IF release % 2 = 1 THEN "1.0" ELSE "2.0"

\* Mutant of GetXsltVersion: the version is not found in any stylesheet.
Bug_GetXsltVersion(content) == "1.0"

\* get_xslt_version: 1.0 too where the file cannot be read.
GetXsltVersion(content) ==
  IF content # None /\ content.whole THEN Level(content.release) ELSE "1.0"

\* SchematronValidator and SaxonSchematronValidator: what constructing them raises.
Unloadable(backend, saxon, content) ==
  IF content = None THEN "FileNotFoundError"
  ELSE IF backend = "saxon"
  THEN IF ~saxon THEN "ImportError" ELSE IF content.whole THEN None ELSE "ValueError"
  ELSE IF ~content.whole THEN "XMLSyntaxError"
  ELSE IF Level(content.release) = "2.0" THEN "ValueError" ELSE None

\* Mutant of Findings: an assertion without flag counts as a warning.
Bug_Findings(fired) == fired \cap {"fatal", "error"}

\* _extract_svrl_findings: the flags that make a document invalid; an assertion
\* without one is an error.
Findings(fired) == fired \cap {"fatal", "error", None}

\* A document: XML or not, structured as its schema says or not, and the flags of
\* the assertions it fails by stylesheet (at most one of them, here).
Flawless ==
  [parses |-> TRUE, structured |-> TRUE, fails |-> [n \in Stylesheets |-> {}]]
Documents ==
  {[Flawless EXCEPT !.fails[n] = {flag}] :
     n \in Stylesheets, flag \in {"fatal", "error", "warning", None}}
    \cup {Flawless, [Flawless EXCEPT !.parses = FALSE],
          [Flawless EXCEPT !.structured = FALSE]}

\* What an engine makes of a document (external): SVRL, which says what failed, an
\* exception, or no result.
Engines == {"svrl", "raises", "nothing"}

\* validate(): never valid when the document is no XML.  Only Saxon's validator makes
\* findings of exceptions; and what it takes of no result is that nothing failed.
Validated(backend, release, document, engine) ==
  CASE ~document.parses -> "invalid"
    [] document.parses /\ engine = "svrl" ->
         IF Findings(document.fails[release]) = {} THEN "valid" ELSE "invalid"
    [] document.parses /\ engine = "raises" ->
         IF backend = "lxml" THEN "XSLTApplyError" ELSE "invalid"
    [] document.parses /\ engine = "nothing" ->
         IF backend = "lxml" THEN "AssertionError" ELSE "valid"
-----------------------------------------------------------------------------
VARIABLES
  published,  \* the release the source serves
  file,       \* the files on disk
  job,        \* where the download run is
  queue,      \* the specs it has not come to
  fetched,    \* the content it holds
  failed,     \* it has met an error
  overwrite,  \* its option
  code,       \* what the last run returned, None when it died or is under way
  runs,       \* runs begun
  deaths,     \* history: runs that died
  asof,       \* history: the release served when the run began
  saxon,      \* saxonche is installed
  at,         \* where each reader is
  document,   \* what it validates
  report,     \* it is a Peppol report: validated by XSD first
  validator,  \* backend and release it has, None before
  outcome,    \* the verdict, or the exception
  blank,      \* history: its engine gave no result
  disturbed   \* history: its file was not whole, or was exchanged, while it loaded

job_vars == <<job, queue, fetched, failed, overwrite, code, runs, deaths, asof>>
reader_vars == <<at, document, report, validator, outcome, blank>>
vars == <<published, file, job_vars, saxon, reader_vars, disturbed>>

TypeOK ==
  /\ published \in Releases /\ asof \in Releases
  /\ file \in [Downloads -> {None, Cut} \cup {Whole(n) : n \in Releases}]
  /\ job \in {"idle", "next", "write", "writing"}
  /\ code \in {None, 0, 1}
  /\ at \in [Readers -> {"idle", "probe", "construct", "validate"}]
  /\ \A r \in Readers : at[r] = "validate" => validator[r].release \in Stylesheets

Init ==
  /\ published = 1 /\ asof = 1
  /\ file = [f \in Downloads |-> None]
  /\ job = "idle" /\ queue = <<>> /\ fetched = None
  /\ failed = FALSE /\ overwrite = FALSE /\ code = None
  /\ runs = 0 /\ deaths = 0
  /\ saxon \in BOOLEAN
  /\ at = [r \in Readers |-> "idle"]
  /\ document = [r \in Readers |-> Flawless]
  /\ report = [r \in Readers |-> FALSE]
  /\ validator = [r \in Readers |-> None]
  /\ outcome = [r \in Readers |-> None]
  /\ blank = [r \in Readers |-> FALSE]
  /\ disturbed = [r \in Readers |-> FALSE]
-----------------------------------------------------------------------------
(* download_artefacts *)

Run ==
  /\ job = "idle" /\ runs < MaxRuns
  /\ job' = "next" /\ queue' = Specs /\ failed' = FALSE
  /\ overwrite' \in BOOLEAN
  /\ code' = None /\ runs' = runs + 1 /\ asof' = published
  /\ UNCHANGED <<published, file, fetched, deaths, saxon, reader_vars, disturbed>>

Skips(f) == file[f] # None /\ ~overwrite

Skip ==
  /\ job = "next" /\ queue # <<>> /\ Skips(Head(queue))
  /\ queue' = Tail(queue)
  /\ UNCHANGED <<published, file, job, fetched, failed, overwrite, code, runs, deaths, asof,
                 saxon, reader_vars, disturbed>>

\* Mutant of Fetch: what cannot be extracted from the archive is no error.
Bug_Fetch ==
  /\ job = "next" /\ queue # <<>> /\ ~Skips(Head(queue))
  /\ \/ /\ fetched' = published
        /\ job' = "write" /\ UNCHANGED <<queue, failed>>
     \/ /\ queue' = Tail(queue)
        /\ UNCHANGED <<failed, job, fetched>>
  /\ UNCHANGED <<published, file, overwrite, code, runs, deaths, asof, saxon,
                 reader_vars, disturbed>>

\* The file is fetched and taken out of its archive; either may fail, and the run
\* goes on with the next.
Fetch ==
  /\ job = "next" /\ queue # <<>> /\ ~Skips(Head(queue))
  /\ \/ /\ fetched' = published
        /\ job' = "write" /\ UNCHANGED <<queue, failed>>
     \/ /\ failed' = TRUE /\ queue' = Tail(queue)
        /\ UNCHANGED <<job, fetched>>
  /\ UNCHANGED <<published, file, overwrite, code, runs, deaths, asof, saxon,
                 reader_vars, disturbed>>

\* The file a reader loads.
Stylesheet(r) == IF report[r] THEN Whole(BundledRelease) ELSE file[Specs[1]]
Loading(r) == at[r] \in {"probe", "construct"} /\ ~report[r]

\* A write is seen by the readers that are loading.
Disturb(f) ==
  disturbed' = [r \in Readers |-> disturbed[r] \/ (f = Specs[1] /\ Loading(r))]

\* write_bytes opens the file, which empties it, and fills it.
OpenFile ==
  /\ job = "write"
  /\ file' = [file EXCEPT ![Head(queue)] = Cut]
  /\ Disturb(Head(queue))
  /\ job' = "writing"
  /\ UNCHANGED <<published, queue, fetched, failed, overwrite, code, runs, deaths, asof,
                 saxon, reader_vars>>

FillFile ==
  /\ job = "writing"
  /\ file' = [file EXCEPT ![Head(queue)] = Whole(fetched)]
  /\ Disturb(Head(queue))
  /\ queue' = Tail(queue) /\ job' = "next"
  /\ UNCHANGED <<published, fetched, failed, overwrite, code, runs, deaths, asof,
                 saxon, reader_vars>>

\* The exit code.
Return ==
  /\ job = "next" /\ queue = <<>>
  /\ job' = "idle" /\ code' = IF failed THEN 1 ELSE 0
  /\ UNCHANGED <<published, file, queue, fetched, failed, overwrite, runs, deaths, asof,
                 saxon, reader_vars, disturbed>>

\* The process is killed, or a write raises.
Die ==
  /\ job # "idle"
  /\ job' = "idle" /\ deaths' = deaths + 1
  /\ UNCHANGED <<published, file, queue, fetched, failed, overwrite, code, runs, asof,
                 saxon, reader_vars, disturbed>>

\* A new release is served (external).
Publish ==
  /\ published < MaxReleases
  /\ published' = published + 1
  /\ UNCHANGED <<file, job_vars, saxon, reader_vars, disturbed>>
-----------------------------------------------------------------------------
(* Validation *)

Ends(r, what) ==
  /\ outcome' = [outcome EXCEPT ![r] = what]
  /\ at' = [at EXCEPT ![r] = "idle"]

\* A tool is called: a report goes through its schema first; a country package may
\* keep its validator from an earlier call.  The document is otherwise looked at
\* only by validate().
Call(r) ==
  /\ at[r] = "idle"
  /\ \E is_report \in BOOLEAN, keeps \in BOOLEAN :
       /\ keeps => validator[r] # None /\ ~is_report
       /\ report' = [report EXCEPT ![r] = is_report]
       /\ document' = [document EXCEPT ![r] = Flawless]
       /\ blank' = [blank EXCEPT ![r] = FALSE]
       /\ disturbed' = [disturbed EXCEPT ![r] = ~is_report /\ file[Specs[1]] = Cut]
       /\ \/ is_report /\ Ends(r, "invalid") /\ UNCHANGED validator
          \/ /\ at' = [at EXCEPT ![r] = IF keeps THEN "validate" ELSE "probe"]
             /\ validator' = IF keeps THEN validator ELSE [validator EXCEPT ![r] = None]
             /\ outcome' = [outcome EXCEPT ![r] = None]
  /\ UNCHANGED <<published, file, job_vars, saxon>>

\* load_schematron_validator chooses the backend...
Probe(r) ==
  /\ at[r] = "probe"
  /\ LET level == GetXsltVersion(Stylesheet(r))
     IN validator' = [validator EXCEPT ![r] =
          [backend |-> IF level = "1.0" THEN "lxml" ELSE "saxon", release |-> None]]
  /\ at' = [at EXCEPT ![r] = "construct"]
  /\ UNCHANGED <<published, file, job_vars, saxon, document, report, outcome, blank, disturbed>>

\* ...and constructs it from the file.
Construct(r) ==
  /\ at[r] = "construct"
  /\ LET content == Stylesheet(r)
         raised == Unloadable(validator[r].backend, saxon, content)
     IN IF raised # None
        THEN Ends(r, raised) /\ validator' = [validator EXCEPT ![r] = None]
        ELSE /\ validator' = [validator EXCEPT ![r].release = content.release]
             /\ at' = [at EXCEPT ![r] = "validate"]
             /\ UNCHANGED outcome
  /\ UNCHANGED <<published, file, job_vars, saxon, document, report, blank, disturbed>>

Validate(r) ==
  /\ at[r] = "validate"
  /\ \E d \in {x \in Documents : report[r] => x.parses /\ x.structured} :
       /\ document' = [document EXCEPT ![r] = d]
       /\ \E engine \in Engines :
            /\ Ends(r, Validated(validator[r].backend, validator[r].release, d, engine))
            /\ blank' = [blank EXCEPT ![r] = engine = "nothing"]
  /\ UNCHANGED <<published, file, job_vars, saxon, report, validator, disturbed>>

Next ==
  \/ Run \/ Skip \/ Fetch \/ OpenFile \/ FillFile \/ Return \/ Die \/ Publish
  \/ \E r \in Readers : Call(r) \/ Probe(r) \/ Construct(r) \/ Validate(r)

Spec == Init /\ [][Next]_vars
-----------------------------------------------------------------------------
(* Properties *)

\* A download run that returns 0 leaves every file present; whole, unless an earlier
\* run died, or if it was told to overwrite; and then as new as what was served when
\* it began.
ZeroMeansComplete ==
  code = 0 => \A f \in Downloads :
    /\ file[f] # None
    /\ overwrite \/ deaths = 0 => file[f].whole
    /\ overwrite => file[f].release >= asof

\* "0 on full success, 1 if any download failed": violated, a plain run after one
\* that died skips the file that one left cut.
ZeroMeansWhole == code = 0 => \A f \in Downloads : file[f] # None /\ file[f].whole

\* "valid" means that all assertions of a released stylesheet were evaluated and
\* none of fatal or error severity failed, unless the engine gave no result, and that
\* a report passed its schema, whatever downloads write meanwhile and wherever the
\* validator was kept.
ValidMeansConforms ==
  \A r \in Readers : outcome[r] = "valid" =>
    /\ document[r].parses
    /\ report[r] => document[r].structured
    /\ {"fatal", "error", None} \cap document[r].fails[validator[r].release] = {} \/ blank[r]

\* "valid" means that the assertions were evaluated: violated, no result of Saxon is
\* taken for a result without findings.
ValidWasEvaluated == \A r \in Readers : outcome[r] = "valid" => ~blank[r]

\* A validator cannot be loaded only when the file was missing or cut, or exchanged
\* between its two reads: with whole files the backend always suits the stylesheet.
LoadFailuresExcused ==
  \A r \in Readers : outcome[r] \in {"ValueError", "XMLSyntaxError"} => disturbed[r]

\* "FileNotFoundError, ImportError, ValueError": violated, a cut file raises an
\* XMLSyntaxError.
LoadRaisesDocumented == \A r \in Readers : outcome[r] # "XMLSyntaxError"
=============================================================================
