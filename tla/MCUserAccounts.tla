--------------------------- MODULE MCUserAccounts ---------------------------
\* Instances of UserAccounts for TLC.
EXTENDS UserAccounts, TLC

CONSTANTS u1, u2, u3, u4, u5, t1, t2, k1, k2

FiveUids == {u1, u2, u3, u4, u5}
TwoTokens == {t1, t2}
OneClient == {k1}
TwoClients == {k1, k2}
=============================================================================
