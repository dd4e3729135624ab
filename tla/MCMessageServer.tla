--------------------------- MODULE MCMessageServer ---------------------------
(* The message server on small instances. *)
EXTENDS MessageServer, TLC

\* Uninitialised ints: the index of an entry, or a value that is none.
MCStackInts == {0, 7}

\* Clients and addresses are only compared with each other.
Symmetry == Permutations(ClientIds) \cup Permutations(Addrs)
=============================================================================
