------------------------------- MODULE LocalResources -------------------------------
(***************************************************************************)
(* What the users of one process, or of one machine, have in common: the   *)
(* connections of a client, stylesheets and code lists on disk.  These     *)
(* share no state with one another: a behaviour is of one kind.            *)
(***************************************************************************)
EXTENDS HttpClientLifecycle, Sequences

CONSTANTS
  Specs, Readers, MaxReleases, MaxRuns,  \* RuleFiles
  Lists, Edec, ListReleases              \* CodeLists

VARIABLES
  kind,  \* "connections", "rules" or "lists"
  published, file, job, queue, fetched, failed, overwrite, code, runs, deaths, asof,
  saxon, at, document, report, validator, outcome, blank, disturbed,
  configured, disk, answer

Rules == INSTANCE RuleFiles
CodeListFiles == INSTANCE CodeLists WITH Releases <- ListReleases

\* There are files to download; None is no stylesheet, no exit code and no verdict.
\* The releases of code lists have greater and greater numbers, of two digits at most.
ASSUME ResourceAssumption ==
  /\ Specs \in Seq(Rules!Downloads) /\ Specs # <<>>
  /\ MaxReleases \in Nat \ {0}
  /\ None \notin {Rules!Cut} \cup {Rules!Whole(n) : n \in 0..MaxReleases}
  /\ None \notin {0, "valid", "ValueError", "XMLSyntaxError"}
  /\ ListReleases \in Seq((0..99) \X (0..99))
  /\ \A r, s \in DOMAIN ListReleases : r < s =>
       \/ ListReleases[r][1] < ListReleases[s][1]
       \/ ListReleases[r][1] = ListReleases[s][1] /\ ListReleases[r][2] < ListReleases[s][2]

rules_vars ==
  <<published, file, job, queue, fetched, failed, overwrite, code, runs, deaths, asof,
    saxon, at, document, report, validator, outcome, blank, disturbed>>
lists_vars == <<configured, disk, answer>>
resource_vars == <<kind, vars, rules_vars, lists_vars>>

\* Only the part of the behaviour's kind begins in more than one way.
ResourceInit ==
  /\ kind \in {"connections", "rules", "lists"}
  /\ Init /\ (kind = "connections" \/ ~structured)
  /\ Rules!Init /\ (kind = "rules" \/ saxon)
  /\ CodeListFiles!Init /\ (kind = "lists" \/ configured)

ResourceNext ==
  /\ \/ kind = "connections" /\ Next /\ UNCHANGED <<rules_vars, lists_vars>>
     \/ kind = "rules" /\ Rules!Next /\ UNCHANGED <<vars, lists_vars>>
     \/ kind = "lists" /\ CodeListFiles!Next /\ UNCHANGED <<vars, rules_vars>>
  /\ UNCHANGED kind

ResourceSpec == ResourceInit /\ [][ResourceNext]_resource_vars

ZeroMeansComplete == Rules!ZeroMeansComplete
ValidMeansConforms == Rules!ValidMeansConforms
LoadFailuresExcused == Rules!LoadFailuresExcused
AnswersNewest == CodeListFiles!AnswersNewest
=============================================================================
