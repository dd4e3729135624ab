------------------------------ MODULE Presence ------------------------------
(***************************************************************************)
(* What the talk server promises about who is logged in, with no table and *)
(* no answers: a user is offline or logged in at one address.  A session   *)
(* starts with a login, at the address the login came from, when the user  *)
(* has none; it ends with a logout of the same user.  Nothing else moves,  *)
(* starts or ends one.  TalkServer is shown to implement this              *)
(* specification, and so is the system of server and clients.              *)
(***************************************************************************)
EXTENDS Sequences

CONSTANTS
    UserIds,        \* identifiers of users
    Addrs,          \* addresses a user can be logged in at
    Offline,        \* of a user who is not logged in
    Login, Logout   \* the types of the two requests

VARIABLES
    at,             \* at[id]: where user id is logged in
    requests        \* what has come to the server, the oldest first

-----------------------------------------------------------------------------

Init ==
    /\ at = [id \in UserIds |-> Offline]
    /\ requests = <<>>

\* The oldest request, a datagram of that type for user id, is taken.
Handles(type, id) ==
    /\ requests # <<>>
    /\ Head(requests).data.type = type
    /\ Head(requests).data.senderID = id
    /\ requests' = Tail(requests)

Enter(id, a) ==
    /\ Handles(Login, id)
    /\ Head(requests).from = a
    /\ at[id] = Offline
    /\ at' = [at EXCEPT ![id] = a]

Leave(id) ==
    /\ Handles(Logout, id)
    /\ at[id] # Offline
    /\ at' = [at EXCEPT ![id] = Offline]

Next == \E id \in UserIds : Leave(id) \/ \E a \in Addrs : Enter(id, a)

\* Requests come, get lost and are handled in steps that leave at alone.
Spec == Init /\ [][Next]_at
=============================================================================
