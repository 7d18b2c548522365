------------------------------ MODULE MCSources ------------------------------
\* Sources on a small instance: two requests at a time on one handle.  Requests have no
\* order among them, so the clients are symmetric.
EXTENDS Sources, TLC

ClientSymmetry == Permutations(Clients)
=============================================================================
