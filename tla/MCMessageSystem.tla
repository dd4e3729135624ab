--------------------------- MODULE MCMessageSystem ---------------------------
(* The messaging system on small instances. *)
EXTENDS MessageSystem

\* Uninitialised ints: the index of an entry, or a value that is none.
MCStackInts == {0, 7}

\* Clients' addresses are only compared with each other.
Symmetry == Permutations(Addrs)
=============================================================================
