---------------------------- MODULE MCTalkSystem ----------------------------
(* The talk system on small instances. *)
EXTENDS TalkSystem

CONSTANTS a1, a2, ann, ben

\* Every client has a user of its own.
OwnNames == (a1 :> {ann}) @@ (a2 :> {ben})

\* Either user may sit down at either client.
SharedNames == [c \in Addrs |-> {ann, ben}]

Typed2 == [c \in Addrs |-> 2]

Typed21 == (a1 :> 2) @@ (a2 :> 1)

Typed31 == (a1 :> 3) @@ (a2 :> 1)
=============================================================================
