--------------------------- MODULE SessionServer ---------------------------
(***************************************************************************)
(* What the apps see of the API's sessions: pairs of an access and a       *)
(* refresh token.  AuthSessions has the statements behind it; two          *)
(* refreshes that overlap on the server may both succeed there, so a       *)
(* refresh is a check and a rotation here.                                 *)
(***************************************************************************)
EXTENDS Accounts, Naturals

CONSTANT
    MaxPairs        \* bound: how many pairs are issued

ASSUME ServerAssumption == MaxPairs \in Nat \ {0}

VARIABLES
    owner,          \* pair -> whom it was issued to
    live,           \* pairs whose refresh token is not revoked
    fresh           \* pairs whose access token has not expired

serverVars == <<owner, live, fresh>>

Pairs == 1..MaxPairs
NoPair == 0

ServerTypeOK ==
    /\ owner \in [Pairs -> Users \cup {Nobody}]
    /\ live \subseteq Pairs
    /\ fresh \subseteq Pairs

ServerInit ==
    /\ owner = [p \in Pairs |-> Nobody]
    /\ live = {}
    /\ fresh = {}

Unused(p) == owner[p] = Nobody /\ \A q \in 1..(p - 1) : owner[q] # Nobody

\* A login is answered with pair p.
Issue(u, p) ==
    /\ Unused(p)
    /\ owner' = [owner EXCEPT ![p] = u]
    /\ live' = live \cup {p}
    /\ fresh' = fresh \cup {p}

\* A refresh with pair r, past its check, is answered with pair p.
Rotate(r, p) ==
    /\ Unused(p)
    /\ owner' = [owner EXCEPT ![p] = owner[r]]
    /\ live' = (live \ {r}) \cup {p}
    /\ fresh' = fresh \cup {p}
=============================================================================
