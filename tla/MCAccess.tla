------------------------------ MODULE MCAccess ------------------------------
\* Access with interchangeable users, organizations, rows and requests.
EXTENDS Access, TLC

Symmetry == Permutations(Users) \cup Permutations(Orgs)
       \cup Permutations(Rows) \cup Permutations(Requests)
=============================================================================
