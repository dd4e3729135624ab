---------------------------- MODULE MessageSystem ----------------------------
(***************************************************************************)
(* The whole of the first project: the server of MessageServer and its     *)
(* clients (Projects/1_project/UDP_Client).  A client is two processes     *)
(* that share one UDP socket: the parent runs the menu and, after a        *)
(* request, reads the answer; the child reads notifications.  Both look at *)
(* the head of the queue and each takes only its own kinds of datagram.    *)
(*                                                                         *)
(* A client is named by the address of its socket.  Its user may choose    *)
(* any menu entry at any time and is under no obligation to choose one.    *)
(***************************************************************************)
EXTENDS MessageServer

CONSTANTS
    Lossy,              \* the network may lose datagrams
    NotSet              \* the first word of a buffer before it is set

ASSUME SystemAssumption ==
    /\ Lossy \in BOOLEAN
    /\ NotSet \notin ClientIds
    /\ Texts # {}

VARIABLES
    loggedIn,           \* loggedIn[c]: what the parent believes, unset at start
    userID,             \* userID[c]: unset until the first login
    outbound,           \* outbound[c]: the message buffer's senderId, kept
                        \* between requests
    pc                  \* pc[c]: where the parent is

clientVars == <<loggedIn, userID, outbound, pc>>
systemVars == <<vars, clientVars>>

-----------------------------------------------------------------------------

\* A parent waits in its menu, reads the answer to one of two requests, or
\* has ended.
Places == {"menu", "viewing", "saving", "ended"}

NoticeToServer(c, kind, id) ==
    ClientSends(c, [type |-> NOTIFYMSG_TAG, messageType |-> kind,
                    clientID |-> id])

AtMenu(c, in) == pc[c] = "menu" /\ loggedIn[c] = in

\* "1 to log-in": the user types an identifier; no answer is awaited.
LogIn(c, id) ==
    /\ AtMenu(c, FALSE)
    /\ NoticeToServer(c, LOGIN, id)
    /\ loggedIn' = [loggedIn EXCEPT ![c] = TRUE]
    /\ userID' = [userID EXCEPT ![c] = id]
    /\ UNCHANGED <<outbound, pc>>

\* "2 to exit" before login: the child is killed and nothing is sent.
ExitLoggedOut(c) ==
    /\ AtMenu(c, FALSE)
    /\ pc' = [pc EXCEPT ![c] = "ended"]
    /\ UNCHANGED <<vars, loggedIn, userID, outbound>>

\* A client message.  The server reads the recipient and the text of a SEND
\* only, so those of the other kinds are fixed.
Message(kind, from, to, text) ==
    [type |-> CLIENTMSG_TAG, messageType |-> kind, senderId |-> from,
     recipientId |-> to, message |-> text]

Request(kind, from) == Message(kind, from, from, CHOOSE t \in Texts : TRUE)

\* "1 to send message": the buffer is cleared and filled.
SendMessage(c, to, text) ==
    /\ AtMenu(c, TRUE)
    /\ ClientSends(c, Message(SEND, userID[c], to, text))
    /\ outbound' = [outbound EXCEPT ![c] = userID[c]]
    /\ UNCHANGED <<loggedIn, userID, pc>>

\* "2 to view messages": the buffer is cleared and filled.
ViewMessages(c) ==
    /\ AtMenu(c, TRUE)
    /\ ClientSends(c, Request(VIEW, userID[c]))
    /\ outbound' = [outbound EXCEPT ![c] = userID[c]]
    /\ pc' = [pc EXCEPT ![c] = "viewing"]
    /\ UNCHANGED <<loggedIn, userID>>

\* Fault: the type is set with the messageType, the sender is not.
SaveRequestTyped(c) == Request(PRINT, outbound[c])

\* What "3 to save messages" sends: the buffer as the last request left it,
\* only its messageType set.  Before any request the buffer was never written;
\* what is on the stack there is taken to be no tag.
SaveRequest(c) ==
    IF outbound[c] = NotSet
    THEN [type |-> OTHER_TAG]
    ELSE Request(PRINT, outbound[c])

SaveMessages(c) ==
    /\ AtMenu(c, TRUE)
    /\ ClientSends(c, SaveRequest(c))
    /\ pc' = [pc EXCEPT ![c] = "saving"]
    /\ UNCHANGED <<loggedIn, userID, outbound>>

\* "4 to logout".
LogOut(c) ==
    /\ AtMenu(c, TRUE)
    /\ NoticeToServer(c, LOGOUT, userID[c])
    /\ loggedIn' = [loggedIn EXCEPT ![c] = FALSE]
    /\ UNCHANGED <<userID, outbound, pc>>

\* "5 to exit": a LOGOUT is sent, then the child is killed.
ExitLoggedIn(c) ==
    /\ AtMenu(c, TRUE)
    /\ NoticeToServer(c, LOGOUT, userID[c])
    /\ loggedIn' = [loggedIn EXCEPT ![c] = FALSE]
    /\ pc' = [pc EXCEPT ![c] = "ended"]
    /\ UNCHANGED <<userID, outbound>>

Menu(c) ==
    \/ \E id \in ClientIds : LogIn(c, id)
    \/ ExitLoggedOut(c)
    \/ \E to \in ClientIds, text \in Texts : SendMessage(c, to, text)
    \/ ViewMessages(c)
    \/ SaveMessages(c)
    \/ LogOut(c)
    \/ ExitLoggedIn(c)

\* The parent is in the loop that reads an answer.
AwaitsAnswer(c) == pc[c] \in {"viewing", "saving"}

\* Fault: the parent leaves the loop with the first message.
ListOne(c) ==
    /\ AwaitsAnswer(c)
    /\ outbox[c] # <<>>
    /\ Head(outbox[c]).type = SERVERMSG_TAG
    /\ ClientReads(c)
    /\ pc' = [pc EXCEPT ![c] = "menu"]
    /\ UNCHANGED <<loggedIn, userID, outbound>>

\* It takes a message off the queue ...
ListMessage(c) ==
    /\ AwaitsAnswer(c)
    /\ outbox[c] # <<>>
    /\ Head(outbox[c]).type = SERVERMSG_TAG
    /\ ClientReads(c)
    /\ UNCHANGED clientVars

\* ... and leaves the loop with the end mark.
EndOfList(c) ==
    /\ AwaitsAnswer(c)
    /\ outbox[c] # <<>>
    /\ Head(outbox[c]).type = VERIFYMSG_TAG
    /\ ClientReads(c)
    /\ pc' = [pc EXCEPT ![c] = "menu"]
    /\ UNCHANGED <<loggedIn, userID, outbound>>

Parent(c) == ListMessage(c) \/ EndOfList(c)

\* Fault: the child reads only while its user is logged in.
ChildWhileLoggedIn(c) ==
    /\ pc[c] # "ended"
    /\ loggedIn[c]
    /\ outbox[c] # <<>>
    /\ Head(outbox[c]).type = NOTIFYMSG_TAG
    /\ ClientReads(c)
    /\ UNCHANGED clientVars

\* The child takes notifications and leaves everything else on the queue.
Child(c) ==
    /\ pc[c] # "ended"
    /\ outbox[c] # <<>>
    /\ Head(outbox[c]).type = NOTIFYMSG_TAG
    /\ ClientReads(c)
    /\ UNCHANGED clientVars

ClientInit ==
    /\ loggedIn \in [Addrs -> BOOLEAN]
    /\ userID \in [Addrs -> ClientIds]
    /\ outbound = [c \in Addrs |-> NotSet]
    /\ pc = [c \in Addrs |-> "menu"]

-----------------------------------------------------------------------------

SystemInit == Init /\ ClientInit

SystemNext ==
    \/ (Serve \/ OperatorExit) /\ UNCHANGED clientVars
    \/ \E c \in Addrs : Menu(c)
    \/ \E c \in Addrs : Parent(c)
    \/ \E c \in Addrs : Child(c)
    \/ Lossy /\ Network /\ UNCHANGED clientVars

\* The server's loop, a parent reading an answer and a child are never
\* descheduled for ever; users and the operator owe nothing.
Fairness ==
    /\ WF_systemVars(Serve /\ UNCHANGED clientVars)
    /\ \A c \in Addrs : WF_systemVars(Parent(c)) /\ WF_systemVars(Child(c))

SystemSpec == SystemInit /\ [][SystemNext]_systemVars

FairSystemSpec == SystemSpec /\ Fairness

-----------------------------------------------------------------------------
(* Safety. *)

\* The clients' variables keep their types, and so do the server's.
SystemTypeOK ==
    /\ TypeOK
    /\ loggedIn \in [Addrs -> BOOLEAN]
    /\ userID \in [Addrs -> ClientIds]
    /\ outbound \in [Addrs -> ClientIds \cup {NotSet}]
    /\ pc \in [Addrs -> Places]

\* The requests of c still unanswered and the end marks c has not read.
RequestsOf(c) ==
    {k \in DOMAIN inbox : /\ inbox[k].from = c
                          /\ inbox[k].data.type = CLIENTMSG_TAG
                          /\ inbox[k].data.messageType \in {VIEW, PRINT}}

EndMarksOf(c) ==
    {k \in DOMAIN outbox[c] : outbox[c][k].type = VERIFYMSG_TAG}

MessagesFor(c) ==
    {k \in DOMAIN outbox[c] : outbox[c][k].type = SERVERMSG_TAG}

\* Nothing but the order on the socket ties an answer to its request, so an
\* answer must never outlive its request: a parent that awaits none has
\* neither a request, nor a message, nor an end mark on the way, and one that
\* awaits an answer has at most one, whose messages all precede its end mark.
AnswersMatchRequests ==
    \A c \in Addrs :
        /\ Cardinality(RequestsOf(c)) + Cardinality(EndMarksOf(c)) <= 1
        /\ MessagesFor(c) # {} => RequestsOf(c) = {}
        /\ \A k \in MessagesFor(c), j \in EndMarksOf(c) : k < j
        /\ ~AwaitsAnswer(c) =>
               RequestsOf(c) = {} /\ EndMarksOf(c) = {} /\ MessagesFor(c) = {}

-----------------------------------------------------------------------------
(* Liveness. *)

\* The first datagram is one that no handler of the server ever takes: the
\* server peeks at it for ever and the datagrams behind it wait for ever.
Wedged == inbox # <<>> /\ Head(inbox).data.type = OTHER_TAG

\* While the server runs and is not wedged and nothing is lost, a parent
\* that waits for an answer comes back to its menu.
AnswerArrives ==
    [](up /\ ~Wedged) =>
        \A c \in Addrs : AwaitsAnswer(c) ~> ~AwaitsAnswer(c)

\* Two processes read one socket and neither takes the other's datagrams;
\* still no datagram blocks the socket of a running client for good.
SocketKeepsMoving ==
    \A c \in Addrs :
        \/ []<>(outbox[c] = <<>> \/ pc[c] = "ended")
        \/ []<><<outbox[c] # <<>> /\ outbox'[c] = Tail(outbox[c])>>_outbox

-----------------------------------------------------------------------------
(* What the comments of the program say, and the program does not do. *)

\* A client that sends a request "waits for server response" (Client.c:164):
\* as long as the server runs, the response comes.
RequestIsAnswered ==
    []up => \A c \in Addrs : pc[c] = "viewing" ~> pc[c] # "viewing"
=============================================================================
