----------------------------- MODULE MCElection -----------------------------
\* Three instances: one to lose the lease, one to take it, and one to profit
\* when the key of the second is taken away.
EXTENDS Election
=============================================================================
