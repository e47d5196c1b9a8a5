------------------------- MODULE MCCLIAuthentication -------------------------
EXTENDS CLIAuthentication, TLC

Symmetric == Permutations(Processes) \cup Permutations(Users)
=============================================================================
