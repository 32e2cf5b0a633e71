------------------------------ MODULE MCSignIn ------------------------------
EXTENDS SignIn, TLC

\* Tabs and accounts differ in nothing but their names.
Symmetry == Permutations(Tabs) \cup Permutations(Emails)
=============================================================================
