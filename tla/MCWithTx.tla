------------------------------ MODULE MCWithTx ------------------------------
EXTENDS WithTx, TLC

\* Clients and connections are interchangeable.
Symmetry == Permutations(Client) \cup Permutations(Conn)
=============================================================================
