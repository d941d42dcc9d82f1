----------------------------- MODULE NewestOwner -----------------------------
(***************************************************************************)
(* What the agent's supervisor promises about an output resource, in the   *)
(* abstract: at most one request owns it, and that is the newest; a request *)
(* that was replaced, halted, ended or refused never owns it again; no     *)
(* owner takes over from another before that one has lost the resource;    *)
(* and a request is told to stop only when it has lost it.  Nothing is     *)
(* said of leases, outputs, threads or what a request is for.              *)
(***************************************************************************)
CONSTANTS
    Resource,       \* what can be owned
    Claimant,       \* everything that asks for a resource, once
    ResourceOf,     \* the resource a request asks for
    Nobody          \* no request

VARIABLES
    wanted,     \* the newest request for each resource, or Nobody
    owner,      \* the request that owns each resource, or Nobody
    spent,      \* the requests whose time is over
    told        \* the requests that were told to stop

vars == <<wanted, owner, spent, told>>

Init ==
    /\ wanted = [r \in Resource |-> Nobody]
    /\ owner = [r \in Resource |-> Nobody]
    /\ spent = {}
    /\ told = {}

\* What becomes of one resource in a step: nothing;
Keeps(r) == wanted'[r] = wanted[r] /\ owner'[r] = owner[r]

\* a new request is made for it, which owns it at once if nobody did;
Asks(r) ==
    /\ wanted'[r] \in {a \in Claimant \ spent : ResourceOf[a] = r /\ a # wanted[r]}
    /\ owner'[r] = Nobody \/ (owner[r] = Nobody /\ owner'[r] = wanted'[r])

\* the newest request's turn comes;
Takes(r) ==
    /\ wanted[r] # Nobody /\ wanted'[r] = wanted[r]
    /\ owner[r] = Nobody /\ owner'[r] = wanted[r]

\* or there is no use for it any more.
Yields(r) == wanted'[r] = Nobody /\ owner'[r] = Nobody

\* The requests that are not the newest any more
Replaced == {wanted[r] : r \in {q \in Resource : wanted'[q] # wanted[q]}} \ {Nobody}

\* A request may be refused for which there was no older one to be replaced.
Refusable ==
    {a \in Claimant \ spent : wanted[ResourceOf[a]] = Nobody /\ wanted'[ResourceOf[a]] = Nobody}

Next ==
    /\ \A r \in Resource : Keeps(r) \/ Asks(r) \/ Takes(r) \/ Yields(r)
    /\ \E refused \in SUBSET Refusable : spent' = spent \cup Replaced \cup refused
    /\ told \subseteq told' /\ told' \subseteq spent'

Spec == Init /\ [][Next]_vars

\* What it comes to: a resource has no owner but its newest request, whose time is
\* not over; and whoever was told to stop has had his.
Promise ==
    /\ \A r \in Resource :
         /\ owner[r] \in {Nobody, wanted[r]}
         /\ wanted[r] # Nobody =>
              wanted[r] \in Claimant \ spent /\ ResourceOf[wanted[r]] = r
    /\ told \subseteq spent
=============================================================================
