------------------------------- MODULE Mailbox -------------------------------
(***************************************************************************)
(* What the UDP messaging server promises about stored mail, with no       *)
(* users, sockets or indices: every client identifier owns one mailbox, a  *)
(* message enters it at the end, unread, and is never dropped, reordered   *)
(* or altered afterwards; the only other change is that a whole mailbox is *)
(* marked read.  MessageServer is shown to implement this specification.   *)
(***************************************************************************)
EXTENDS Sequences

CONSTANTS
    ClientIds,      \* identifiers a client may log in with or address
    Texts,          \* message bodies
    NEW_MESSAGE, OLD_MESSAGE        \* the two states of a stored message

VARIABLE box        \* box[id]: the mail stored for id, oldest first

-----------------------------------------------------------------------------

\* A stored message: who wrote it, what it says, whether it has been viewed.
Mail == [messageType : {NEW_MESSAGE, OLD_MESSAGE}, senderId : ClientIds, message : Texts]

Fresh(s, t) == [messageType |-> NEW_MESSAGE, senderId |-> s, message |-> t]

Init == box = [id \in ClientIds |-> <<>>]

Store(id, s, t) == box' = [box EXCEPT ![id] = Append(@, Fresh(s, t))]

MarkRead(id) ==
    box' = [box EXCEPT ![id] =
               [k \in DOMAIN @ |-> [@[k] EXCEPT !.messageType = OLD_MESSAGE]]]

Next == \E id \in ClientIds :
            \/ \E s \in ClientIds, t \in Texts : Store(id, s, t)
            \/ MarkRead(id)

Spec == Init /\ [][Next]_box
=============================================================================
