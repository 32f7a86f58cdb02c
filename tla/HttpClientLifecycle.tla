-------------------------- MODULE HttpClientLifecycle --------------------------
(***************************************************************************)
(* The long-lived httpx.AsyncClient of a BaseEInvoicingClient              *)
(* (http_client.py): built on first use by _get_client, kept by a call     *)
(* across its awaits and sleeps, closed by aclose, built again on reuse.   *)
(*                                                                         *)
(* httpx (external) marks a client closed when its aclose() begins, and    *)
(* suspends while the transport shuts down; BaseEInvoicingClient.aclose    *)
(* drops its reference only after that.                                    *)
(***************************************************************************)
EXTENDS Naturals, FiniteSets

CONSTANTS
  Calls,       \* tasks in request()
  Closers,     \* tasks in aclose(), each run once
  Clients,     \* httpx.AsyncClient objects
  None         \* _client is None

\* The objects are not None, and finitely many tasks close the client.
ASSUME LifecycleAssumption == None \notin Clients /\ IsFiniteSet(Closers)

VARIABLES
  structured, \* the client is used with "async with": no call overlaps an aclose()
  client,   \* _client
  open,     \* clients that are not closed
  built,    \* history: clients built so far
  held,     \* the client each call holds, None when it runs no request
  closer    \* where each aclose() is

vars == <<structured, client, open, built, held, closer>>

TypeOK ==
  /\ structured \in BOOLEAN
  /\ client \in Clients \cup {None}
  /\ open \subseteq built
  /\ built \subseteq Clients
  /\ held \in [Calls -> built \cup {None}]
  /\ closer \in [Closers -> {"new", "closing", "done"}]

Init ==
  /\ structured \in BOOLEAN
  /\ client = None
  /\ open = {}
  /\ built = {}
  /\ held = [c \in Calls |-> None]
  /\ closer = [x \in Closers |-> "new"]

Quiet == \A c \in Calls : held[c] = None

NoneClosing == \A x \in Closers : closer[x] # "closing"

\* Mutant of GetClient: a client is built for every request.
Bug_AlwaysBuilds(c) ==
  /\ structured => NoneClosing
  /\ \E new \in Clients \ built :
       /\ client' = new
       /\ open' = open \cup {new}
       /\ built' = built \cup {new}
       /\ held' = [held EXCEPT ![c] = new]
  /\ UNCHANGED <<structured, closer>>

\* _get_client: the client there is, or a new one when there is none or it was
\* closed.  A request begins with it, and the retry after a 401 does again.
GetClient(c) ==
  /\ structured => NoneClosing
  /\ \/ /\ client \in open
        /\ held' = [held EXCEPT ![c] = client]
        /\ UNCHANGED <<client, open, built>>
     \/ /\ client \notin open
        /\ \E new \in Clients \ built :
             /\ client' = new
             /\ open' = open \cup {new}
             /\ built' = built \cup {new}
             /\ held' = [held EXCEPT ![c] = new]
  /\ UNCHANGED <<structured, closer>>

\* The request returns or raises; on a closed client it always raises.
EndRequest(c) ==
  /\ held[c] # None
  /\ held' = [held EXCEPT ![c] = None]
  /\ UNCHANGED <<structured, client, open, built, closer>>

\* aclose finds an open client and awaits its closing.
BeginClose(x) ==
  /\ closer[x] = "new" /\ client \in open
  /\ structured => Quiet /\ NoneClosing
  /\ open' = open \ {client}
  /\ closer' = [closer EXCEPT ![x] = "closing"]
  /\ UNCHANGED <<structured, client, built, held>>

\* aclose has nothing to close, or has waited: it drops whatever _client is.
EndClose(x) ==
  /\ closer[x] = "closing" \/ (closer[x] = "new" /\ client \notin open)
  /\ client' = None
  /\ closer' = [closer EXCEPT ![x] = "done"]
  /\ UNCHANGED <<structured, open, built, held>>

Next ==
  \/ \E c \in Calls : GetClient(c) \/ EndRequest(c)
  \/ \E x \in Closers : BeginClose(x) \/ EndClose(x)

Spec == Init /\ [][Next]_vars
-----------------------------------------------------------------------------
(* Properties *)

\* Used with "async with", the only open client is the one the next aclose() will
\* close, however calls build and rebuild it; otherwise, however calls and closes
\* overlap, each close orphans at most one client.
OrphansBounded ==
  Cardinality(open \ {client}) <=
    IF structured THEN 0 ELSE Cardinality({x \in Closers : closer[x] = "done"})

\* "Close the underlying AsyncClient and release all connections": violated, a
\* client that a call builds while an aclose() is suspended is dropped open.
NoOrphan == open \subseteq {client}
=============================================================================
