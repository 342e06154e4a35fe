------------------------------- MODULE MCAuth -------------------------------
EXTENDS Auth, TLC

\* Secrets are told apart only by being equal or not.
Symmetric == Permutations(Secrets)
=============================================================================
