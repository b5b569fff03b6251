-------------------------- MODULE MCRefreshSessions --------------------------
EXTENDS RefreshSessions, TLC

Alike == Permutations(Sids) \cup Permutations(Tasks) \cup Permutations(Instances)

\* Bounds the run with Redis: one outage or one handler that stops half-way.
OneFault == outages + failures <= 1
=============================================================================
