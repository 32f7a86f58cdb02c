------------------------------- MODULE PeppolQueries -------------------------------
(***************************************************************************)
(* Searches of the Directory and vettings of endpoints.  They share no     *)
(* state, so what interleaves is the steps of one kind: a behaviour has    *)
(* either.                                                                 *)
(***************************************************************************)
EXTENDS DirectoryClient

CONSTANTS Allowed, None, Vettings  \* EndpointVetting

VARIABLES
  kind,  \* "vetting" or "search"
  pki, revoked, listed, sources, phase, service, check, asked, bad, vague, stray

Vetting == INSTANCE EndpointVetting

vetting_vars == <<pki, revoked, listed, sources, phase, service, check, asked, bad, vague,
                  stray>>
query_vars == <<kind, vars, vetting_vars>>

Searching(Step) == kind = "search" /\ Step /\ UNCHANGED <<kind, vetting_vars>>

QueryInit ==
  /\ kind \in {"vetting", "search"}
  /\ Vetting!Init
  /\ Init
QueryNext ==
  \/ kind = "vetting" /\ Vetting!Next /\ UNCHANGED <<kind, vars>>
  \/ Searching(Next)

\* Fairness is that of DirectoryClient.
QuerySpec ==
  /\ QueryInit /\ [][QueryNext]_query_vars
  /\ WF_query_vars(Searching(Tick))
  /\ \A s \in Searches :
       WF_query_vars(Searching(Run(s))) /\ SF_query_vars(Searching(Throttle(s)))

VerifiedAsPublished == Vetting!VerifiedAsPublished
RevocationTold == Vetting!RevocationTold
=============================================================================
