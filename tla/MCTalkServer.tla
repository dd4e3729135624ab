---------------------------- MODULE MCTalkServer ----------------------------
(* The talk server on small instances. *)
EXTENDS TalkServer

\* Addresses are only compared with each other, and so are identifiers, the
\* server's excepted.
Symmetry == Permutations(Addrs) \cup Permutations(UserIds \ {SERVER_ID})
=============================================================================
