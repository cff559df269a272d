--------------------------- MODULE MCAuthSessions ---------------------------
(* AuthSessions on small instances *)
EXTENDS AuthSessions, TLC

\* users, sessions, passwords and request slots are only compared for equality
Symmetry ==
  { [x \in User \cup Session \cup Password \cup Request |->
       IF x \in User THEN u[x] ELSE IF x \in Session THEN s[x]
       ELSE IF x \in Password THEN p[x] ELSE r[x]] :
    u \in Permutations(User), s \in Permutations(Session),
    p \in Permutations(Password), r \in Permutations(Request) }
=============================================================================
