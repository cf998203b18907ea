------------------------------- MODULE MCTables -------------------------------
EXTENDS Tables, TLC

\* Identifiers are only compared.
Identifiers == Permutations(Id)
===============================================================================
