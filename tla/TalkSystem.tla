------------------------------ MODULE TalkSystem ------------------------------
(***************************************************************************)
(* The whole of the second project: the server of TalkServer and its       *)
(* clients (Projects/2_project/TCP_Client).  A client is up to three kinds *)
(* of process over a page of shared memory:                                *)
(*   - the parent runs the menus, asks the server, and in talk mode sends  *)
(*     what the user types to the partner;                                 *)
(*   - the child reads talk requests and notifications from the UDP socket *)
(*     it shares with the parent;                                          *)
(*   - a receiver, forked at each login, listens on the TCP port of the    *)
(*     user and displays what a partner says.                              *)
(*                                                                         *)
(* A client is named by the address of its UDP socket.  Port 20000 + id of *)
(* the one machine all of this runs on (addresses are INADDR_ANY, the      *)
(* server is 127.0.0.1) is named by the user id, so receiver[id] is the    *)
(* process that holds that port.                                           *)
(*                                                                         *)
(* A step of a client's process reads or writes one queue, or one variable *)
(* in shared memory.  To look at a datagram (MSG_PEEK) and to take one are *)
(* two steps: what is taken is what stands first by then, and another      *)
(* datagram if the other process has been faster.                          *)
(*                                                                         *)
(* The request buffer of a parent is no variable: its fields are set anew, *)
(* or follow the last login, or (theOtherAddress) are zeros for ever.      *)
(* Operators whose comment begins with Fault are mistakes the definitions  *)
(* after them must not make.                                               *)
(***************************************************************************)
EXTENDS TalkServer

CONSTANTS
    Names,              \* Names[c]: identifiers the user of c logs in with
    Ephemeral,          \* a TCP port the kernel chose: nobody listens there
    Lossy,              \* the network may lose datagrams
    MaxTyped            \* bound: requests and lines the user of c types

ASSUME TalkSystemAssumption ==
    /\ Names \in [Addrs -> SUBSET UserIds]
    /\ Ephemeral \notin TcpAddrs
    /\ Lossy \in BOOLEAN
    /\ MaxTyped \in [Addrs -> Nat]

VARIABLES
    place,              \* place[c]: where the parent is
    theServerAddress,   \* where the parent of c sends its requests
    incoming,           \* the datagram the parent of c has read last
    userID,             \* who the user of c last logged in as
    cmd,                \* whom the user of c wants to talk to
    line,               \* line[c]: the call the parent of c speaks on, or 0
    typed,              \* requests and lines typed at c
    isTalking, talkRequest, otherID, targetUDPAddress, targetTCPAddress,
                        \* the memory the processes of c share
    child,              \* child[c]: where the child is
    held,               \* held[c]: the datagram the child has read last
    forked,             \* forked[c]: receivers that have no port yet
    receiver,           \* receiver[id]: who listens on the port of id
    calls               \* the TCP connections, in the order they were made

ownVars == <<userID, cmd, line, typed>>
bufferVars == <<theServerAddress, incoming>>
parentVars == <<place, bufferVars, ownVars>>
targetVars == <<otherID, targetUDPAddress, targetTCPAddress>>
sharedVars == <<isTalking, talkRequest, targetVars>>
childVars == <<child, held>>
tcpVars == <<forked, receiver, calls>>
procVars == <<childVars, tcpVars>>
restVars == <<sharedVars, procVars>>
clientVars == <<parentVars, restVars>>
serverVars == <<users, userLimit, outgoing, up>>
systemVars == <<vars, clientVars>>

-----------------------------------------------------------------------------
(* Places and datagrams. *)

Places ==
    {"loggedOut", "loggingIn", "takingAnswer", "listing", "takingList",
     "top", "menu", "askingWho", "takingWho", "askingServer",
     "takingReply", "serverHeard", "naming", "requesting", "askingUser",
     "takingResponse", "userHeard", "agreed", "prompt", "confirmed",
     "confirming", "refusing", "connecting", "talking", "dead", "exited"}

ChildPlaces ==
    {"peeking", "takingRequest", "takingNotice", "testingTalk",
     "testingRequest", "naming", "addressing", "flagging", "busy",
     "refusing", "dead"}

Listener ==
    [owner : Addrs \cup {NoAddr},
     place : {"none", "accepting", "testing", "receiving"},
     call : Nat, backlog : Seq(Nat)]

NoListener ==
    [owner |-> NoAddr, place |-> "none", call |-> 0, backlog |-> <<>>]

\* A connection: how many lines went in and came out, and whether the side
\* that was called still has its end.
Call ==
    [caller : Addrs, callee : UserIds, sent : Nat, shown : Nat, open : BOOLEAN]

\* A buffer of zeros, and any buffer whose content is not used again.
NoMessage ==
    [from |-> ServerAddr, type |-> TAG_LOGOUT, senderID |-> SERVER_ID,
     confirm |-> FALSE, data |-> SERVER_ID, theAddress |-> NoAddr,
     theOtherAddress |-> NoAddr]

\* Fault: the sender is named by its address.
DatagramOfAddress(c, id, type, yes, about) ==
    [from |-> c, type |-> type, senderID |-> c, confirm |-> yes,
     data |-> about, theAddress |-> id, theOtherAddress |-> NoAddr]

\* What the parent of c sends when it is logged in, or logs in, as id.
Datagram(c, id, type, yes, about) ==
    [from |-> c, type |-> type, senderID |-> id, confirm |-> yes,
     data |-> about, theAddress |-> id, theOtherAddress |-> NoAddr]

\* sendto() of m to address a, with the clients' queues as in boxes.
Post(boxes, a, m) ==
    \/ /\ a = ServerAddr
       /\ inbox' = Append(inbox, [from |-> m.from,
                                  data |-> [type |-> m.type,
                                            senderID |-> m.senderID,
                                            data |-> m.data]])
       /\ outbox' = boxes
    \/ /\ a \in Addrs
       /\ outbox' = [boxes EXCEPT ![a] = Append(@, m)]
       /\ UNCHANGED inbox

Taken(c) == [outbox EXCEPT ![c] = Tail(@)]

\* The parent of c goes from one place to another.
Goes(c, from, to) ==
    /\ place[c] = from
    /\ place' = [place EXCEPT ![c] = to]

Types(c) ==
    /\ typed[c] < MaxTyped[c]
    /\ typed' = [typed EXCEPT ![c] = @ + 1]

-----------------------------------------------------------------------------
(* The menus of the parent. *)

\* "1 to log-in" and a legal identifier.
LogIn(c) ==
    /\ Goes(c, "loggedOut", "loggingIn")
    /\ Types(c)
    /\ \E id \in Names[c] :
           /\ userID' = [userID EXCEPT ![c] = id]
           /\ Post(outbox, theServerAddress[c],
                   Datagram(c, id, TAG_LOGIN, TRUE, id))
    /\ UNCHANGED <<serverVars, bufferVars, cmd, line, restVars>>

\* "2 to exit", or "5 to exit" when logged in: kill() ends every process of
\* the client, and nothing is sent.
Exit(c) ==
    /\ place[c] \in {"loggedOut", "menu"}
    /\ place' = [place EXCEPT ![c] = "exited"]
    /\ child' = [child EXCEPT ![c] = "dead"]
    /\ receiver' = [id \in UserIds |->
           IF receiver[id].owner = c THEN NoListener ELSE receiver[id]]
    /\ calls' = [n \in DOMAIN calls |->
           IF receiver[calls[n].callee].owner = c
           THEN [calls[n] EXCEPT !.open = FALSE] ELSE calls[n]]
    /\ held' = [held EXCEPT ![c] = NoMessage]
    /\ forked' = [forked EXCEPT ![c] = 0]
    /\ outbox' = [outbox EXCEPT ![c] = <<>>]
    /\ UNCHANGED <<serverVars, inbox, bufferVars, ownVars, sharedVars>>

\* "1 to view users".
Who(c) ==
    /\ Goes(c, "menu", "askingWho")
    /\ Types(c)
    /\ Post(outbox, theServerAddress[c],
            Datagram(c, userID[c], TAG_WHO, TRUE, userID[c]))
    /\ UNCHANGED <<serverVars, bufferVars, userID, cmd, line, restVars>>

\* "2 to start talking" and the user to talk to.
Ask(c) ==
    /\ Goes(c, "menu", "askingServer")
    /\ Types(c)
    /\ \E id \in UserIds :
           /\ cmd' = [cmd EXCEPT ![c] = id]
           /\ Post(outbox, theServerAddress[c],
                   Datagram(c, userID[c], TAG_TALK_REQ, TRUE, id))
    /\ UNCHANGED <<serverVars, bufferVars, userID, line, restVars>>

\* "3 to logout": no answer is awaited; the receiver stays.
LogOut(c) ==
    /\ Goes(c, "menu", "loggedOut")
    /\ Post(outbox, theServerAddress[c],
            Datagram(c, userID[c], TAG_LOGOUT, TRUE, userID[c]))
    /\ UNCHANGED <<serverVars, bufferVars, ownVars, restVars>>

\* "4 to respond to talk requests", or no command: the loop starts again, and
\* only so does the parent notice a request that came while it was in the menu.
Look(c) ==
    /\ Goes(c, "menu", "top")
    /\ UNCHANGED <<vars, bufferVars, ownVars, restVars>>

\* The user confirms or refuses a talk request.  isTalking is set first, and
\* talkRequest reset in a step of its own.
Confirm(c) ==
    /\ Goes(c, "prompt", "confirmed")
    /\ isTalking' = [isTalking EXCEPT ![c] = TRUE]
    /\ UNCHANGED <<vars, bufferVars, ownVars, talkRequest, targetVars,
                   procVars>>

Refuse(c) ==
    /\ Goes(c, "prompt", "refusing")
    /\ talkRequest' = [talkRequest EXCEPT ![c] = FALSE]
    /\ UNCHANGED <<vars, bufferVars, ownVars, isTalking, targetVars,
                   procVars>>

\* A line typed in talk mode.  On a connection the other side has closed, or
\* that never was one, send() raises SIGPIPE, though the first may pass.
Say(c) ==
    /\ place[c] = "talking"
    /\ Types(c)
    /\ LET n == line[c]
       IN  \/ /\ n # 0 /\ calls[n].open
              /\ calls' = [calls EXCEPT ![n].sent = @ + 1]
              /\ UNCHANGED place
           \/ /\ n # 0 /\ ~calls[n].open
              /\ UNCHANGED <<calls, place>>
           \/ /\ n = 0 \/ ~calls[n].open
              /\ place' = [place EXCEPT ![c] = "dead"]
              /\ UNCHANGED calls
    /\ UNCHANGED <<vars, bufferVars, userID, cmd, line, sharedVars,
                   childVars, forked, receiver>>

\* ":q": the socket is not closed.
Quit(c) ==
    /\ Goes(c, "talking", "top")
    /\ isTalking' = [isTalking EXCEPT ![c] = FALSE]
    /\ line' = [line EXCEPT ![c] = 0]
    /\ UNCHANGED <<vars, bufferVars, userID, cmd, typed, talkRequest,
                   targetVars, procVars>>

User(c) ==
    \/ LogIn(c)
    \/ Exit(c)
    \/ Who(c)
    \/ Ask(c)
    \/ LogOut(c)
    \/ Look(c)
    \/ Confirm(c)
    \/ Refuse(c)
    \/ Say(c)
    \/ Quit(c)

-----------------------------------------------------------------------------
(* What the parent does between menus.  Where it waits it looks at the first *)
(* datagram again and again, and each look stores the sender in              *)
(* theServerAddress, or in targetUDPAddress.                                 *)

Is(c, type) == Head(outbox[c]).type = type

\* The parent, in one of the places from, reads the first datagram.
Reads(c, from) ==
    /\ outbox[c] # <<>>
    /\ place[c] \in from
    /\ theServerAddress' = [theServerAddress EXCEPT ![c] = Head(outbox[c]).from]

Keeps(c) == incoming' = [incoming EXCEPT ![c] = Head(outbox[c])]

Drops(c) == incoming' = [incoming EXCEPT ![c] = NoMessage]

\* Fault: whose login it is does not matter.
IsAnyLogin(c) == Is(c, TAG_LOGIN)

IsLoginAnswer(c) == Is(c, TAG_LOGIN) /\ Head(outbox[c]).senderID = userID[c]

\* Waiting for the answer to a login: not the datagram, another look ...
LoginPeek(c) ==
    /\ Reads(c, {"loggingIn"})
    /\ ~IsLoginAnswer(c)
    /\ UNCHANGED <<vars, place, incoming, ownVars, restVars>>

\* ... or the answer ...
LoginSeen(c) ==
    /\ Reads(c, {"loggingIn"})
    /\ IsLoginAnswer(c)
    /\ Keeps(c)
    /\ place' = [place EXCEPT ![c] = "takingAnswer"]
    /\ UNCHANGED <<vars, ownVars, restVars>>

\* ... which is taken, or whatever stands first by then.
TakeAnswer(c) ==
    /\ Reads(c, {"takingAnswer"})
    /\ outbox' = Taken(c)
    /\ Drops(c)
    /\ place' = [place EXCEPT ![c] = IF Head(outbox[c]).confirm
                                     THEN "listing" ELSE "loggedOut"]
    /\ UNCHANGED <<serverVars, inbox, ownVars, restVars>>

\* Reading a list of users, after a login or a WHO request.
ListPeek(c) ==
    /\ Reads(c, {"listing", "askingWho"})
    /\ ~Is(c, TAG_WHO)
    /\ UNCHANGED <<vars, place, incoming, ownVars, restVars>>

LineSeen(c) ==
    /\ Reads(c, {"listing", "askingWho"})
    /\ Is(c, TAG_WHO)
    /\ Keeps(c)
    /\ place' = [place EXCEPT ![c] = IF @ = "listing" THEN "takingList"
                                     ELSE "takingWho"]
    /\ UNCHANGED <<vars, ownVars, restVars>>

\* Fault: every line is the last.
IsLine(c) == Is(c, TAG_WHO)

IsLastLine(c) == ~Head(outbox[c]).confirm

TakeLine(c) ==
    /\ Reads(c, {"takingList", "takingWho"})
    /\ ~IsLastLine(c)
    /\ outbox' = Taken(c)
    /\ Drops(c)
    /\ place' = [place EXCEPT ![c] = IF @ = "takingList" THEN "listing"
                                     ELSE "askingWho"]
    /\ UNCHANGED <<serverVars, inbox, ownVars, restVars>>

\* After the list that follows a login a receiver is forked.
TakeLastLine(c) ==
    /\ Reads(c, {"takingList", "takingWho"})
    /\ IsLastLine(c)
    /\ outbox' = Taken(c)
    /\ Drops(c)
    /\ place' = [place EXCEPT ![c] = "top"]
    /\ forked' = IF place[c] = "takingList"
                 THEN [forked EXCEPT ![c] = @ + 1] ELSE forked
    /\ UNCHANGED <<serverVars, inbox, ownVars, sharedVars, childVars, receiver,
                   calls>>

\* The head of the loop for a user who is logged in.  Nobody but the parent
\* writes isTalking.
Top(c) ==
    /\ Goes(c, "top", CASE talkRequest[c] -> "prompt"
                        [] ~talkRequest[c] /\ isTalking[c] -> "connecting"
                        [] OTHER -> "menu")
    /\ UNCHANGED <<vars, bufferVars, ownVars, restVars>>

\* The break of the two loops that wait for a talk response stands behind the
\* if: the parent looks once, and whatever it sees is the answer.  Only a
\* TALK_RES makes it take a datagram from the queue.
LookForReply(c) ==
    /\ Reads(c, {"askingServer"})
    /\ Keeps(c)
    /\ place' = [place EXCEPT ![c] = IF Is(c, TAG_TALK_RES) THEN "takingReply"
                                     ELSE "serverHeard"]
    /\ UNCHANGED <<vars, ownVars, restVars>>

TakeReply(c) ==
    /\ Reads(c, {"takingReply"})
    /\ outbox' = Taken(c)
    /\ Keeps(c)
    /\ place' = [place EXCEPT ![c] = "serverHeard"]
    /\ UNCHANGED <<serverVars, inbox, ownVars, restVars>>

\* The user is unavailable, or has refused.
Denied(c) ==
    /\ place[c] \in {"serverHeard", "userHeard"}
    /\ ~incoming[c].confirm
    /\ Drops(c)
    /\ place' = [place EXCEPT ![c] = "top"]
    /\ UNCHANGED <<vars, theServerAddress, ownVars, restVars>>

StoreTarget(c) ==
    /\ Goes(c, "serverHeard", "naming")
    /\ incoming[c].confirm
    /\ targetUDPAddress' =
           [targetUDPAddress EXCEPT ![c] = incoming[c].theOtherAddress]
    /\ UNCHANGED <<vars, bufferVars, ownVars, isTalking, talkRequest, otherID,
                   targetTCPAddress, procVars>>

NameOther(c) ==
    /\ Goes(c, "naming", "requesting")
    /\ otherID' = [otherID EXCEPT ![c] = cmd[c]]
    /\ UNCHANGED <<vars, bufferVars, ownVars, isTalking, talkRequest,
                   targetUDPAddress, targetTCPAddress, procVars>>

\* The user is asked at the address received.  sendto() refuses an address of
\* zeros, and the parent dies.
SendRequest(c) ==
    /\ place[c] = "requesting"
    /\ LET a == incoming[c].theOtherAddress
       IN  \/ /\ a # NoAddr
              /\ Post(outbox, a,
                      Datagram(c, userID[c], TAG_TALK_REQ, TRUE, cmd[c]))
              /\ place' = [place EXCEPT ![c] = "askingUser"]
           \/ /\ a = NoAddr
              /\ place' = [place EXCEPT ![c] = "dead"]
              /\ UNCHANGED <<inbox, outbox>>
    /\ Drops(c)
    /\ UNCHANGED <<serverVars, theServerAddress, ownVars, restVars>>

\* The answer of the other user, or what is taken for it.
ReadsResponse(c, from) ==
    /\ place[c] = from
    /\ outbox[c] # <<>>
    /\ Keeps(c)
    /\ targetUDPAddress' = [targetUDPAddress EXCEPT ![c] = Head(outbox[c]).from]
    /\ UNCHANGED <<serverVars, inbox, theServerAddress, ownVars, isTalking,
                   talkRequest, otherID, targetTCPAddress, procVars>>

LookForResponse(c) ==
    /\ ReadsResponse(c, "askingUser")
    /\ place' = [place EXCEPT ![c] = IF Is(c, TAG_TALK_RES)
                                     THEN "takingResponse" ELSE "userHeard"]
    /\ UNCHANGED outbox

TakeResponse(c) ==
    /\ ReadsResponse(c, "takingResponse")
    /\ place' = [place EXCEPT ![c] = "userHeard"]
    /\ outbox' = Taken(c)

\* Where the conversation will be is stored before isTalking is set.
UserAgrees(c) ==
    /\ Goes(c, "userHeard", "agreed")
    /\ incoming[c].confirm
    /\ targetTCPAddress' = [targetTCPAddress EXCEPT ![c] = incoming[c].theAddress]
    /\ Drops(c)
    /\ UNCHANGED <<vars, theServerAddress, ownVars, isTalking, talkRequest,
                   otherID, targetUDPAddress, procVars>>

Agree(c) ==
    /\ Goes(c, "agreed", "top")
    /\ isTalking' = [isTalking EXCEPT ![c] = TRUE]
    /\ UNCHANGED <<vars, bufferVars, ownVars, talkRequest, targetVars, procVars>>

\* The request the user has confirmed is no longer pending.
Settle(c) ==
    /\ Goes(c, "confirmed", "confirming")
    /\ talkRequest' = [talkRequest EXCEPT ![c] = FALSE]
    /\ UNCHANGED <<vars, bufferVars, ownVars, isTalking, targetVars, procVars>>

\* Fault: the other of the two addresses.
AnswerToServer(c) == theServerAddress[c]

AnswerTo(c) == targetUDPAddress[c]

\* A talk request is answered, at the address last stored.
Respond(c) ==
    /\ place[c] \in {"confirming", "refusing"}
    /\ \/ /\ AnswerTo(c) # NoAddr
          /\ Post(outbox, AnswerTo(c),
                  Datagram(c, userID[c], TAG_TALK_RES,
                           place[c] = "confirming", userID[c]))
          /\ place' = [place EXCEPT ![c] = "top"]
       \/ /\ AnswerTo(c) = NoAddr
          /\ place' = [place EXCEPT ![c] = "dead"]
          /\ UNCHANGED <<inbox, outbox>>
    /\ UNCHANGED <<serverVars, bufferVars, ownVars, restVars>>

Listening(id) == receiver[id].place # "none"

\* Talk mode begins with a connection to targetTCPAddress.  connect() to an
\* address of zeros succeeds on some systems, without a connection.
Connect(c) ==
    /\ place[c] = "connecting"
    /\ LET id == targetTCPAddress[c]
       IN  \/ /\ id \in UserIds /\ Listening(id)
              /\ calls' = Append(calls, [caller |-> c, callee |-> id,
                                         sent |-> 0, shown |-> 0,
                                         open |-> TRUE])
              /\ receiver' = [receiver EXCEPT ![id].backlog =
                                  Append(@, Len(calls'))]
              /\ line' = [line EXCEPT ![c] = Len(calls')]
              /\ place' = [place EXCEPT ![c] = "talking"]
           \/ /\ ~(id \in UserIds /\ Listening(id))
              /\ place' = [place EXCEPT ![c] = "dead"]
              /\ UNCHANGED <<line, receiver, calls>>
           \/ /\ id = NoAddr
              /\ place' = [place EXCEPT ![c] = "talking"]
              /\ UNCHANGED <<line, receiver, calls>>
    /\ UNCHANGED <<vars, bufferVars, userID, cmd, typed, sharedVars,
                   childVars, forked>>

Parent(c) ==
    \/ LoginPeek(c)
    \/ LoginSeen(c)
    \/ TakeAnswer(c)
    \/ ListPeek(c)
    \/ LineSeen(c)
    \/ TakeLine(c)
    \/ TakeLastLine(c)
    \/ Top(c)
    \/ LookForReply(c)
    \/ TakeReply(c)
    \/ Denied(c)
    \/ StoreTarget(c)
    \/ NameOther(c)
    \/ SendRequest(c)
    \/ LookForResponse(c)
    \/ TakeResponse(c)
    \/ UserAgrees(c)
    \/ Agree(c)
    \/ Settle(c)
    \/ Respond(c)
    \/ Connect(c)

-----------------------------------------------------------------------------
(* The child. *)

ChildGoes(c, from, to) ==
    /\ child[c] = from
    /\ child' = [child EXCEPT ![c] = to]

\* Fault: whose login or logout it is does not matter.
IsAnyNews(c) == Is(c, TAG_LOGIN) \/ Is(c, TAG_LOGOUT)

\* Fault: departures are not read.
IsArrival(c) == Is(c, TAG_LOGIN) /\ Head(outbox[c]).senderID = SERVER_ID

IsNotice(c) ==
    /\ Is(c, TAG_LOGIN) \/ Is(c, TAG_LOGOUT)
    /\ Head(outbox[c]).senderID = SERVER_ID

\* A look at a datagram that is for the child.
ChildPeek(c) ==
    /\ outbox[c] # <<>>
    /\ \/ Is(c, TAG_TALK_REQ) /\ ChildGoes(c, "peeking", "takingRequest")
       \/ IsNotice(c) /\ ChildGoes(c, "peeking", "takingNotice")
    /\ held' = [held EXCEPT ![c] = Head(outbox[c])]
    /\ UNCHANGED <<vars, parentVars, sharedVars, tcpVars>>

\* "User %s has logged in", and out.
TakeNotice(c) ==
    /\ outbox[c] # <<>>
    /\ ChildGoes(c, "takingNotice", "peeking")
    /\ outbox' = Taken(c)
    /\ held' = [held EXCEPT ![c] = NoMessage]
    /\ UNCHANGED <<serverVars, inbox, parentVars, sharedVars, tcpVars>>

\* A talk request: its sender is stored before anything is tested.
TakeRequest(c) ==
    /\ outbox[c] # <<>>
    /\ ChildGoes(c, "takingRequest", "testingTalk")
    /\ outbox' = Taken(c)
    /\ held' = [held EXCEPT ![c] = Head(outbox[c])]
    /\ targetUDPAddress' = [targetUDPAddress EXCEPT ![c] = Head(outbox[c]).from]
    /\ UNCHANGED <<serverVars, inbox, parentVars, isTalking, talkRequest,
                   otherID, targetTCPAddress, tcpVars>>

\* The two flags are read one after the other.
TestTalking(c) ==
    /\ ChildGoes(c, "testingTalk",
                 IF isTalking[c] THEN "busy" ELSE "testingRequest")
    /\ UNCHANGED <<vars, parentVars, sharedVars, held, tcpVars>>

\* Fault: only a user who talks is busy.
NeverPending(c) == FALSE

Pending(c) == talkRequest[c]

TestRequest(c) ==
    /\ ChildGoes(c, "testingRequest", IF Pending(c) THEN "busy" ELSE "naming")
    /\ UNCHANGED <<vars, parentVars, sharedVars, held, tcpVars>>

\* The user is free: the request is published, its flag last.
NameRequester(c) ==
    /\ ChildGoes(c, "naming", "addressing")
    /\ otherID' = [otherID EXCEPT ![c] = held[c].senderID]
    /\ UNCHANGED <<vars, parentVars, isTalking, talkRequest, targetUDPAddress,
                   targetTCPAddress, held, tcpVars>>

StoreRequester(c) ==
    /\ ChildGoes(c, "addressing", "flagging")
    /\ targetTCPAddress' = [targetTCPAddress EXCEPT ![c] = held[c].theAddress]
    /\ held' = [held EXCEPT ![c] = NoMessage]
    /\ UNCHANGED <<vars, parentVars, isTalking, talkRequest, otherID,
                   targetUDPAddress, tcpVars>>

FlagRequest(c) ==
    /\ ChildGoes(c, "flagging", "peeking")
    /\ talkRequest' = [talkRequest EXCEPT ![c] = TRUE]
    /\ UNCHANGED <<vars, parentVars, isTalking, targetVars, held, tcpVars>>

\* The user is busy: the refusal is to go to the request's theOtherAddress,
\* which no client sets ...
ForgetRequester(c) ==
    /\ ChildGoes(c, "busy", "refusing")
    /\ targetUDPAddress' =
           [targetUDPAddress EXCEPT ![c] = held[c].theOtherAddress]
    /\ held' = [held EXCEPT ![c] = NoMessage]
    /\ UNCHANGED <<vars, parentVars, isTalking, talkRequest, otherID,
                   targetTCPAddress, tcpVars>>

\* ... so sendto() fails and the child dies, unless the parent has stored an
\* address in between: the refusal goes there, from nobody.
RefuseRequest(c) ==
    /\ \/ /\ targetUDPAddress[c] # NoAddr
          /\ ChildGoes(c, "refusing", "peeking")
          /\ Post(outbox, targetUDPAddress[c],
                  [NoMessage EXCEPT !.from = c, !.type = TAG_TALK_RES])
       \/ /\ targetUDPAddress[c] = NoAddr
          /\ ChildGoes(c, "refusing", "dead")
          /\ UNCHANGED <<inbox, outbox>>
    /\ UNCHANGED <<serverVars, parentVars, sharedVars, held, tcpVars>>

Child(c) ==
    \/ ChildPeek(c)
    \/ TakeNotice(c)
    \/ TakeRequest(c)
    \/ TestTalking(c)
    \/ TestRequest(c)
    \/ NameRequester(c)
    \/ StoreRequester(c)
    \/ FlagRequest(c)
    \/ ForgetRequester(c)
    \/ RefuseRequest(c)

-----------------------------------------------------------------------------
(* The receivers. *)

\* A receiver takes the port its client's user has by now, and listens.  When
\* another receiver has that port it ends at once.
Bind(c) ==
    /\ forked[c] > 0
    /\ forked' = [forked EXCEPT ![c] = @ - 1]
    /\ receiver' =
           IF Listening(userID[c]) THEN receiver
           ELSE [receiver EXCEPT ![userID[c]] =
                     [NoListener EXCEPT !.owner = c, !.place = "accepting"]]
    /\ UNCHANGED <<vars, parentVars, sharedVars, childVars, calls>>

\* The receiver on the port of id goes from one place to another.
At(id, from, to) ==
    /\ receiver[id].place = from
    /\ receiver' = [receiver EXCEPT ![id].place = to]

\* accept() stores where the call comes from, a port the kernel chose, in the
\* targetTCPAddress that parent and child use.
Accept(id) ==
    LET r == receiver[id]
    IN  /\ r.place = "accepting" /\ r.backlog # <<>>
        /\ receiver' = [receiver EXCEPT ![id] =
               [r EXCEPT !.place = "testing", !.call = Head(r.backlog),
                         !.backlog = Tail(r.backlog)]]
        /\ targetTCPAddress' = [targetTCPAddress EXCEPT ![r.owner] = Ephemeral]
        /\ UNCHANGED <<vars, parentVars, isTalking, talkRequest, otherID,
                       targetUDPAddress, childVars, forked, calls>>

\* The loop condition: back to accept(), for another call, or on with this one.
Test(id) ==
    /\ At(id, "testing", IF isTalking[receiver[id].owner]
                         THEN "receiving" ELSE "accepting")
    /\ UNCHANGED <<vars, parentVars, sharedVars, childVars, forked, calls>>

\* What has come in is displayed, several lines at once perhaps.
Display(id) ==
    /\ At(id, "receiving", "testing")
    /\ LET n == receiver[id].call
       IN  \E k \in calls[n].shown + 1 .. calls[n].sent :
               calls' = [calls EXCEPT ![n].shown = k]
    /\ UNCHANGED <<vars, parentVars, sharedVars, childVars, forked>>

Ended(c) == place[c] \in {"dead", "exited"}

\* Everything is read and the caller's process has ended: the receiver dies.
EndOfCall(id) ==
    LET n == receiver[id].call
    IN  /\ receiver[id].place = "receiving"
        /\ calls[n].shown = calls[n].sent
        /\ Ended(calls[n].caller)
        /\ receiver' = [receiver EXCEPT ![id] = NoListener]
        /\ calls' = [k \in DOMAIN calls |->
               IF calls[k].callee = id
               THEN [calls[k] EXCEPT !.open = FALSE] ELSE calls[k]]
        /\ UNCHANGED <<vars, parentVars, sharedVars, childVars, forked>>

Receiver(id) ==
    \/ Accept(id)
    \/ Test(id)
    \/ Display(id)
    \/ EndOfCall(id)

-----------------------------------------------------------------------------
(* The network. *)

ParentTakes(c) ==
    place[c] \in {"takingAnswer", "takingList", "takingWho",
                  "takingReply", "takingResponse"}

ChildTakes(c) == child[c] \in {"takingRequest", "takingNotice"}

First(c, m) == outbox[c] # <<>> /\ Head(outbox[c]) = m

\* A process of c has seen the first datagram of the queue and not taken it.
Seen(c) ==
    \/ ParentTakes(c) /\ First(c, incoming[c])
    \/ ChildTakes(c) /\ First(c, held[c])

\* A datagram is lost, though none that has been seen.
Loss ==
    /\ Lossy
    /\ Network
    /\ \A c \in Addrs : Seen(c) => /\ outbox'[c] # <<>>
                                   /\ Head(outbox'[c]) = Head(outbox[c])
    /\ UNCHANGED clientVars

-----------------------------------------------------------------------------

ClientInit ==
    /\ place = [c \in Addrs |-> "loggedOut"]
    /\ theServerAddress = [c \in Addrs |-> ServerAddr]
    /\ incoming = [c \in Addrs |-> NoMessage]
    /\ userID = [c \in Addrs |-> SERVER_ID]
    /\ cmd = [c \in Addrs |-> SERVER_ID]
    /\ line = [c \in Addrs |-> 0]
    /\ typed = [c \in Addrs |-> 0]
    /\ isTalking = [c \in Addrs |-> FALSE]
    /\ talkRequest = [c \in Addrs |-> FALSE]
    /\ otherID = [c \in Addrs |-> SERVER_ID]
    /\ targetUDPAddress = [c \in Addrs |-> NoAddr]
    /\ targetTCPAddress = [c \in Addrs |-> NoAddr]
    /\ child = [c \in Addrs |-> "peeking"]
    /\ held = [c \in Addrs |-> NoMessage]
    /\ forked = [c \in Addrs |-> 0]
    /\ receiver = [id \in UserIds |-> NoListener]
    /\ calls = <<>>

SystemInit == Init /\ ClientInit

SystemNext ==
    \/ Serve /\ UNCHANGED clientVars
    \/ \E c \in Addrs : User(c)
    \/ \E c \in Addrs : Parent(c)
    \/ \E c \in Addrs : Child(c)
    \/ \E c \in Addrs : Bind(c)
    \/ \E id \in UserIds : Receiver(id)
    \/ Loss

\* Every process runs as long as it can; users owe nothing.
Fairness ==
    /\ WF_systemVars(Serve /\ UNCHANGED clientVars)
    /\ \A c \in Addrs : /\ WF_systemVars(Parent(c))
                        /\ WF_systemVars(Child(c))
                        /\ WF_systemVars(Bind(c))
    /\ \A id \in UserIds : WF_systemVars(Receiver(id))

SystemSpec == SystemInit /\ [][SystemNext]_systemVars

FairSystemSpec == SystemSpec /\ Fairness

-----------------------------------------------------------------------------
(* Safety. *)

\* The variables keep their types.
SystemTypeOK ==
    /\ TypeOK
    /\ place \in [Addrs -> Places]
    /\ theServerAddress \in [Addrs -> Addrs \cup {ServerAddr}]
    /\ incoming \in [Addrs -> Message]
    /\ userID \in [Addrs -> UserIds]
    /\ cmd \in [Addrs -> UserIds]
    /\ line \in [Addrs -> 0..Len(calls)]
    /\ typed \in [Addrs -> Nat]
    /\ isTalking \in [Addrs -> BOOLEAN]
    /\ talkRequest \in [Addrs -> BOOLEAN]
    /\ otherID \in [Addrs -> UserIds]
    /\ targetUDPAddress \in [Addrs -> UdpAddrs \cup {ServerAddr}]
    /\ targetTCPAddress \in [Addrs -> TcpAddrs \cup {Ephemeral}]
    /\ child \in [Addrs -> ChildPlaces]
    /\ held \in [Addrs -> Message]
    /\ forked \in [Addrs -> Nat]
    /\ receiver \in [UserIds -> Listener]
    /\ calls \in Seq(Call)

\* The clients that never log in as the server's identifier, user 0.  For the
\* others a notification looks like the answer to a login: parent and child
\* both take it, and may take each other's datagrams.
Ordinary == {c \in Addrs : SERVER_ID \notin Names[c]}

\* Every client logs in as one user, and nobody else as this one.
OneUserEach ==
    \A b, c \in Addrs : \A i \in Names[b], j \in Names[c] : i = j <=> b = c

\* The parent of c has a session, as far as it knows.
InSession(c) ==
    place[c] \notin {"loggedOut", "loggingIn", "takingAnswer", "dead", "exited"}

\* What a client believes the server knows: when every client has one user, of
\* its own and not user 0, then whoever has been let in and has not left is
\* logged in at the server, at its own address, although the confirmation and
\* the logout travel on their own and carry no number.  (With two users at one
\* client an old logout of the one can follow the login of the other, by way of
\* another client.)
BeliefBacked ==
    OneUserEach /\ Ordinary = Addrs =>
        \A c \in Addrs : InSession(c) => SessionOf(userID[c]) = c

\* The parent reads the answer of the server to a login or to WHO.
Awaits(c) ==
    place[c] \in {"loggingIn", "takingAnswer", "listing", "takingList",
                  "askingWho", "takingWho"}

RequestsOf(c, tag) ==
    {k \in DOMAIN inbox : inbox[k].from = c /\ inbox[k].data.type = tag}

\* Answers to a login name nobody, notifications do.
LoginAnswers(c) ==
    {k \in DOMAIN outbox[c] : /\ outbox[c][k].type = TAG_LOGIN
                              /\ outbox[c][k].from = ServerAddr
                              /\ outbox[c][k].data = NoAddr}

ListLines(c) ==
    {k \in DOMAIN outbox[c] : /\ outbox[c][k].type = TAG_WHO
                              /\ outbox[c][k].from = ServerAddr}

EndMarks(c) == {k \in ListLines(c) : ~outbox[c][k].confirm}

\* Answers carry no number, and a list is read up to its end mark.  So nothing
\* of an answer may outlive its reader: a parent that awaits none has neither a
\* request nor any part of an answer on the way, and one that awaits a list has
\* one end mark coming at most, behind all lines of it.
ListsAwaited ==
    \A c \in Ordinary :
        /\ ~Awaits(c) => /\ RequestsOf(c, TAG_LOGIN) = {}
                         /\ RequestsOf(c, TAG_WHO) = {}
                         /\ LoginAnswers(c) = {}
                         /\ ListLines(c) = {}
        /\ Cardinality(RequestsOf(c, TAG_LOGIN))
               + Cardinality(LoginAnswers(c)) <= 1
        /\ Cardinality(RequestsOf(c, TAG_WHO)) + Cardinality(EndMarks(c)) <= 1
        /\ \A k \in ListLines(c), j \in EndMarks(c) : k <= j

\* Two processes look at one socket, and to look and to take are two steps.
\* Still a process finds the datagram it has seen when it takes it: each takes
\* only such as the other does not, as long as nobody logs in as user 0.
SeenIsTaken ==
    \A c \in Ordinary : /\ ParentTakes(c) => First(c, incoming[c])
                        /\ ChildTakes(c) => First(c, held[c])

\* Parent and child share the flags without a lock, and each test of one is a
\* step of its own.  Still the child has no request to publish while one is
\* pending, so that only the parent, which asks somebody itself, can name another
\* user then; and from the prompt that shows who asks to the user's decision
\* neither the name nor the flag changes.
OneRequestAtATime ==
    [][\A c \in Addrs :
          /\ talkRequest[c] =>
                 /\ child'[c] \notin {"naming", "addressing", "flagging"}
                 /\ otherID'[c] # otherID[c] => place[c] = "naming"
          /\ place[c] = "prompt" /\ place'[c] = "prompt" =>
                 otherID'[c] = otherID[c] /\ talkRequest[c] /\ talkRequest'[c]
      ]_systemVars

\* A request for the server is in the queue of a client: its sender had last
\* looked at a datagram of that client, and sent to where it came from.
Astray ==
    \E b \in Addrs : \E k \in DOMAIN outbox[b] :
        /\ outbox[b][k].from \in Addrs
        /\ outbox[b][k].type \in {TAG_LOGIN, TAG_LOGOUT, TAG_WHO}

\* As long as no request goes astray, and nobody logs in as user 0, one
\* identifier is one client: two clients never both believe that they are logged
\* in as the same user, whatever is lost and however their logins, logouts and
\* answers cross.
OneClientPerUser ==
    Ordinary = Addrs /\ []~Astray =>
        [](\A b, c \in Addrs :
               InSession(b) /\ InSession(c) /\ userID[b] = userID[c] => b = c)

\* The server looks for ever at a datagram it never takes.
Wedged == inbox # <<>> /\ Head(inbox).data.type = TAG_TALK_RES

\* The parent waits for a talk response, of the server or of a user, and has
\* read something else.
Misled(c) ==
    LET m == incoming[c]
    IN  \/ /\ place[c] \in {"takingReply", "serverHeard"}
           /\ ~(m.type = TAG_TALK_RES /\ m.from = ServerAddr)
        \/ /\ place[c] \in {"takingResponse", "userHeard"}
           /\ ~(m.type = TAG_TALK_RES /\ m.from # ServerAddr)

\* The addresses a client keeps are overwritten by whatever it reads, and
\* shared by two processes.  As long as nobody logs in as user 0 and no parent
\* reads something else where it waits for a talk response, nothing that a
\* client sends goes to the server instead of a client, or to a client instead
\* of the server: the menu talks to the server, no request goes astray, and no
\* answer to a user blocks the server.  (Which client is another matter: a
\* parent that asks somebody itself overwrites the address of the one who has
\* asked it.)
HandshakeSound ==
    Ordinary = Addrs /\ [](\A c \in Addrs : ~Misled(c)) =>
        [](/\ ~Wedged
           /\ ~Astray
           /\ \A c \in Addrs :
                  place[c] = "menu" => theServerAddress[c] = ServerAddr)

-----------------------------------------------------------------------------
(* Liveness. *)

\* Some process of c takes the first datagram in its present place.
Takable(c) ==
    \/ child[c] # "dead" /\ Is(c, TAG_TALK_REQ)
    \/ /\ child[c] # "dead"
       /\ Is(c, TAG_LOGIN) \/ Is(c, TAG_LOGOUT)
       /\ Head(outbox[c]).senderID = SERVER_ID
    \/ place[c] = "loggingIn" /\ IsLoginAnswer(c)
    \/ place[c] \in {"listing", "askingWho"} /\ Is(c, TAG_WHO)
    \/ place[c] \in {"takingAnswer", "takingList", "takingWho"}

Stuck(c) == Awaits(c) /\ outbox[c] # <<>> /\ ~Takable(c)

\* A login and a WHO come to an end, unless a datagram that no process of the
\* client takes is in front of the answer, a request went astray, or the server
\* is dead or looks at a datagram it never takes: there is no other way to wait
\* for ever, in spite of two processes on one socket.
AnswersCome ==
    [](up /\ ~Wedged /\ ~Astray /\ \A c \in Addrs : ~Stuck(c)) =>
        \A c \in Addrs : Awaits(c) ~> ~Awaits(c)

-----------------------------------------------------------------------------
(* What the comments of the program say, and the program does not do. *)

\* "everything that the user sends in talk mode is displayed on the other
\* client's screen" (Client.c:608): what is said on a connection goes to a
\* receiver that reads it, or will accept it.
Heard(n) ==
    LET r == receiver[calls[n].callee]
    IN  \/ r.call = n /\ r.place \in {"testing", "receiving"}
        \/ n \in Range(r.backlog)

SaidIsHeard ==
    [][\A n \in DOMAIN calls :
          calls'[n].sent > calls[n].sent => Heard(n)]_systemVars

\* The parent connects to "the other address" (Client.c:44): it does not die of
\* it while the other user's receiver is listening.
OtherCanBeCalled ==
    [][\A c \in Addrs :
          place[c] = "connecting" /\ place'[c] = "dead" =>
              ~Listening(otherID[c])]_systemVars
=============================================================================
