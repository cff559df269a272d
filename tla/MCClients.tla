----------------------------- MODULE MCClients -----------------------------
EXTENDS Clients, TLC

\* Users are interchangeable, and calls are, and changes of the setting.
Symmetry == Permutations(Users) \cup Permutations(Calls) \cup Permutations(Saves)

\* A history variable that has turned never turns back.  States of which nothing is
\* promised any more are not explored further; of the mobile app that takes two turns.
StillPromised == ~(crossed /\ torn) /\ steady /\ ~untidy /\ quiet
=============================================================================
