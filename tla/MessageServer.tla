---------------------------- MODULE MessageServer ----------------------------
(***************************************************************************)
(* The server of the first project (Projects/1_project/UDP_Server): one    *)
(* process reads datagrams from one UDP socket in an endless loop and      *)
(* keeps, for every client identifier it has heard of, an entry with the   *)
(* address the client logged in from and the messages stored for it.       *)
(*                                                                         *)
(* The loop handles one datagram at a time and touches nothing but its own *)
(* memory and the sockets' queues, so one handler is one action.  Indices  *)
(* are the C ones: users[userIndex] of the program is users[userIndex + 1] *)
(* here, and getUserIndex answers -1 for a miss.  An access through an     *)
(* index that is no entry (-1, or the uninitialised userIndex) either      *)
(* reads as an entry without messages and writes outside the array, or     *)
(* kills the process.                                                      *)
(*                                                                         *)
(* Clients are an environment here: they may send any datagram of the      *)
(* protocol at any time.  MessageSystem replaces them by the real client.  *)
(*                                                                         *)
(* An operator whose comment begins with Fault is no part of the           *)
(* specification: it is a mistake the definition after it must not make.   *)
(***************************************************************************)
EXTENDS Integers, Sequences, FiniteSetsExt, SequencesExt

CONSTANTS
    ClientIds,          \* client identifiers (unsigned int in the code)
    Addrs,              \* socket addresses of the clients
    NoAddr,             \* an address field filled with zeros
    Texts,              \* message bodies
    InitialUserLimit,   \* entries allocated at start (10 in the code)
    INCREMENT_USERS,    \* entries added when the array is full
    INCREMENT_MESSAGE,  \* messages a mailbox starts with and grows by
    StackInts,          \* what an uninitialised int can hold
    MaxInbox,           \* bound: datagrams waiting at the server
    MaxOutbox,          \* bound: datagrams waiting at a client
    MaxStored           \* bound: no mailbox is longer when a SEND is sent

ASSUME SizesAssumption ==
    /\ InitialUserLimit \in Nat \ {0}
    /\ INCREMENT_USERS \in Nat \ {0}
    /\ INCREMENT_MESSAGE \in Nat \ {0}
    /\ MaxInbox \in Nat /\ MaxOutbox \in Nat /\ MaxStored \in Nat

ASSUME NamesAssumption ==
    /\ NoAddr \notin Addrs
    /\ StackInts \subseteq Int

VARIABLES
    users,              \* the data structure with users, numUsers = Len(users)
    userLimit,          \* entries there is memory for
    userIndex,          \* kept from one datagram to the next
    incomingSenderId,   \* incoming.senderId, kept likewise
    up,                 \* the receiving process is alive
    inbox,              \* the queue of the server's socket
    outbox              \* outbox[a]: the queue of the socket at a

memory == <<users, userLimit, userIndex, incomingSenderId>>
vars == <<users, userLimit, userIndex, incomingSenderId, up, inbox, outbox>>

-----------------------------------------------------------------------------
(* The datagrams (UtilsUDP.h). *)

NOTIFYMSG_TAG == "N"
SERVERMSG_TAG == "S"
CLIENTMSG_TAG == "C"
VERIFYMSG_TAG == "V"
OTHER_TAG == "?"        \* a first word that is none of the tags

LOGIN == "LOGIN"
NOTIFY == "NOTIFY"
LOGOUT == "LOGOUT"
SEND == "SEND"
VIEW == "VIEW"
PRINT == "PRINT"
NEW_MESSAGE == "NEW"
OLD_MESSAGE == "OLD"
YES == "YES"

NotifyMessage ==
    [type : {NOTIFYMSG_TAG}, messageType : {LOGIN, NOTIFY, LOGOUT},
     clientID : ClientIds]

ClientMessage ==
    [type : {CLIENTMSG_TAG}, messageType : {SEND, VIEW, PRINT},
     senderId : ClientIds, recipientId : ClientIds, message : Texts]

ServerMessage ==
    [type : {SERVERMSG_TAG}, messageType : {NEW_MESSAGE, OLD_MESSAGE},
     senderId : ClientIds, recipientId : ClientIds, message : Texts]

VerifyMessage == [type : {VERIFYMSG_TAG}, messageType : {YES}]

\* Sent when the first word of the client's buffer was never set.
OtherMessage == [type : {OTHER_TAG}]

\* What arrives at the server, with the address recvfrom() reports.
Packet ==
    [from : Addrs, data : NotifyMessage \cup ClientMessage \cup OtherMessage]

\* What arrives at a client; the sender is always the server.
Reply == ServerMessage \cup VerifyMessage \cup NotifyMessage

\* One entry of the data structure; numMessages = Len(messages).
Client ==
    [clientID : ClientIds, address : Addrs \cup {NoAddr},
     isLoggedIn : BOOLEAN, hasNewMessages : BOOLEAN,
     messageLimit : Nat, messages : Seq(ServerMessage)]

-----------------------------------------------------------------------------
(* Helpers. *)

\* Positions of the entries for id.
Entries(id) == {k \in DOMAIN users : users[k].clientID = id}

\* Fault: the scan stops before the last entry.
IndexWithoutLast(id) ==
    LET seen == Entries(id) \ {Len(users)}
    IN  IF seen = {} THEN -1 ELSE Min(seen) - 1

getUserIndex(id) == IF Entries(id) = {} THEN -1 ELSE Min(Entries(id)) - 1

\* An index is the index of an entry.
IsEntry(index) == index \in 0..(Len(users) - 1)

\* Fault: sender and recipient are swapped.
SwappedMessage(m) ==
    [type |-> SERVERMSG_TAG, messageType |-> NEW_MESSAGE, senderId |-> m.recipientId,
     recipientId |-> m.senderId, message |-> m.message]

storeMessage(m) ==
    [type |-> SERVERMSG_TAG, messageType |-> NEW_MESSAGE, senderId |-> m.senderId,
     recipientId |-> m.recipientId, message |-> m.message]

\* Fault: grown one element too late.
GrownLate(count, limit, increment) ==
    IF count > limit THEN limit + increment ELSE limit

\* The limit of an array that is about to receive one more element.
Grown(count, limit, increment) ==
    IF count = limit THEN limit + increment ELSE limit

\* The entry made at the first login of a client that nobody wrote to yet.
LoggedInEntry(id, a) ==
    [clientID |-> id, address |-> a, isLoggedIn |-> TRUE,
     hasNewMessages |-> FALSE, messageLimit |-> INCREMENT_MESSAGE,
     messages |-> <<>>]

\* Fault: the lines of the first login are reused, and the flag with them.
AwaitedAsLoggedIn(m) ==
    [clientID |-> m.recipientId, address |-> NoAddr, isLoggedIn |-> TRUE,
     hasNewMessages |-> TRUE, messageLimit |-> INCREMENT_MESSAGE,
     messages |-> <<storeMessage(m)>>]

\* The entry made for a recipient who has not logged in yet.
AwaitedEntry(m) ==
    [clientID |-> m.recipientId, address |-> NoAddr, isLoggedIn |-> FALSE,
     hasNewMessages |-> TRUE, messageLimit |-> INCREMENT_MESSAGE,
     messages |-> <<storeMessage(m)>>]

\* Fault: a full mailbox is allocated anew instead of grown.
WithMessageAfresh(u, m) ==
    [u EXCEPT !.messages = Append(IF Len(@) = u.messageLimit THEN <<>> ELSE @,
                                  storeMessage(m)),
              !.messageLimit = Grown(Len(u.messages), @, INCREMENT_MESSAGE),
              !.hasNewMessages = TRUE]

\* The entry u once the message m is stored in it.
WithMessage(u, m) ==
    [u EXCEPT !.messages = Append(@, storeMessage(m)),
              !.messageLimit = Grown(Len(u.messages), @, INCREMENT_MESSAGE),
              !.hasNewMessages = TRUE]

\* Fault: the flag is not reset.
ViewedFlagKept(u) ==
    [u EXCEPT !.messages =
                  [k \in DOMAIN @ |-> [@[k] EXCEPT !.messageType = OLD_MESSAGE]]]

\* The entry u once all its messages have been viewed.
Viewed(u) ==
    [u EXCEPT !.messages =
                  [k \in DOMAIN @ |-> [@[k] EXCEPT !.messageType = OLD_MESSAGE]],
              !.hasNewMessages = FALSE]

\* Fault: the notification carries the index instead of the identifier.
NoticeOfIndex(id) ==
    [type |-> NOTIFYMSG_TAG, messageType |-> NOTIFY, clientID |-> getUserIndex(id)]

Notice(id) ==
    [type |-> NOTIFYMSG_TAG, messageType |-> NOTIFY, clientID |-> id]

EndOfMessages == [type |-> VERIFYMSG_TAG, messageType |-> YES]

\* The clients' queues after sendto() of the datagrams ds to address a.
Sent(a, ds) == [b \in Addrs |-> IF b = a THEN outbox[b] \o ds ELSE outbox[b]]

\* dieWithError(), or the system's answer to a wild write.
Die == up' = FALSE /\ UNCHANGED outbox

\* Fault: the notification goes back to whoever sent the datagram.
NoticeToSender(u) ==
    /\ outbox' = Sent(Head(inbox).from, <<Notice(u.clientID)>>)
    /\ UNCHANGED up

\* Tell the client of entry u that it has mail.  sendto() refuses an address
\* of zeros, and the server then dies.
SendNotice(u) ==
    /\ outbox' = Sent(u.address, <<Notice(u.clientID)>>)
    /\ up' = (u.address # NoAddr)

-----------------------------------------------------------------------------
(* The receive loop: one handler per kind of datagram. *)

\* The process peeks at the first word, then takes the datagram.
Receive(tag) ==
    /\ up
    /\ inbox # <<>>
    /\ Head(inbox).data.type = tag
    /\ inbox' = Tail(inbox)

\* case NOTIFY: nothing is done.
ReceiveNotify ==
    /\ Receive(NOTIFYMSG_TAG)
    /\ Head(inbox).data.messageType = NOTIFY
    /\ UNCHANGED <<users, userLimit, userIndex, incomingSenderId, up, outbox>>

\* case LOGIN of a client that has an entry.
LoginKnown(id, a) ==
    LET u == [users[getUserIndex(id) + 1] EXCEPT !.isLoggedIn = TRUE,
                                                 !.address = a]
    IN  /\ IsEntry(getUserIndex(id))
        /\ userIndex' = getUserIndex(id)
        /\ users' = [users EXCEPT ![getUserIndex(id) + 1] = u]
        /\ IF u.hasNewMessages
           THEN SendNotice(u)
           ELSE UNCHANGED <<up, outbox>>
        /\ UNCHANGED userLimit

\* case LOGIN of a client nobody has heard of.
LoginNew(id, a) ==
    /\ getUserIndex(id) = -1
    /\ userIndex' = Len(users)
    /\ userLimit' = Grown(Len(users), userLimit, INCREMENT_USERS)
    /\ users' = Append(users, LoggedInEntry(id, a))
    /\ UNCHANGED <<up, outbox>>

ReceiveLogin ==
    /\ Receive(NOTIFYMSG_TAG)
    /\ Head(inbox).data.messageType = LOGIN
    /\ LET id == Head(inbox).data.clientID
           a == Head(inbox).from
       IN  LoginKnown(id, a) \/ LoginNew(id, a)
    /\ UNCHANGED incomingSenderId

\* The sender of a LOGOUT as the handler sees it: not the datagram's
\* clientID but the senderId of the last client message received.
LogoutId(d) == incomingSenderId

\* case LOGOUT.
ReceiveLogout ==
    /\ Receive(NOTIFYMSG_TAG)
    /\ Head(inbox).data.messageType = LOGOUT
    /\ LET index == getUserIndex(LogoutId(Head(inbox).data))
       IN  /\ userIndex' = index
           /\ \/ /\ IsEntry(index)
                 /\ users' = [users EXCEPT ![index + 1].isLoggedIn = FALSE,
                                           ![index + 1].address = NoAddr]
                 /\ UNCHANGED <<up, outbox>>
              \/ /\ ~IsEntry(index)
                 /\ UNCHANGED users
                 /\ (UNCHANGED <<up, outbox>> \/ Die)
    /\ UNCHANGED <<userLimit, incomingSenderId>>

\* case SEND to a recipient that has an entry.
SendKnown(m) ==
    LET u == WithMessage(users[getUserIndex(m.recipientId) + 1], m)
    IN  /\ IsEntry(getUserIndex(m.recipientId))
        /\ users' = [users EXCEPT ![getUserIndex(m.recipientId) + 1] = u]
        /\ IF u.isLoggedIn
           THEN SendNotice(u)
           ELSE UNCHANGED <<up, outbox>>
        /\ UNCHANGED userLimit

\* case SEND to a recipient nobody has heard of.
SendNew(m) ==
    /\ getUserIndex(m.recipientId) = -1
    /\ userLimit' = Grown(Len(users), userLimit, INCREMENT_USERS)
    /\ users' = Append(users, AwaitedEntry(m))
    /\ UNCHANGED <<up, outbox>>

\* A client message; the buffer incoming now holds it.
ReceiveClientMessage(kind) ==
    /\ Receive(CLIENTMSG_TAG)
    /\ Head(inbox).data.messageType = kind
    /\ incomingSenderId' = Head(inbox).data.senderId

ReceiveSend ==
    /\ ReceiveClientMessage(SEND)
    /\ LET m == Head(inbox).data
       IN  /\ userIndex' = getUserIndex(m.recipientId)
           /\ SendKnown(m) \/ SendNew(m)

\* The index VIEW and PRINT work on: whatever the handlers before left.
RequestIndex(m) == userIndex

\* Fault: the end mark is forgotten.
AnswerWithoutEnd(index) == users[index + 1].messages

\* The answer to VIEW and PRINT: the entry's messages and an end mark.
Answer(index) == users[index + 1].messages \o <<EndOfMessages>>

\* The answer when the index is no entry's.
WildAnswer(a) == (outbox' = Sent(a, <<EndOfMessages>>) /\ UNCHANGED up) \/ Die

\* case VIEW: the messages are sent as they are, then marked.
ReceiveView ==
    /\ ReceiveClientMessage(VIEW)
    /\ LET index == RequestIndex(Head(inbox).data)
           a == Head(inbox).from
       IN  \/ /\ IsEntry(index)
              /\ outbox' = Sent(a, Answer(index))
              /\ users' = [users EXCEPT ![index + 1] = Viewed(@)]
              /\ UNCHANGED up
           \/ /\ ~IsEntry(index)
              /\ WildAnswer(a)
              /\ UNCHANGED users
    /\ UNCHANGED <<userLimit, userIndex>>

\* case PRINT: the same answer, and nothing is marked.
ReceivePrint ==
    /\ ReceiveClientMessage(PRINT)
    /\ LET index == RequestIndex(Head(inbox).data)
           a == Head(inbox).from
       IN  \/ /\ IsEntry(index)
              /\ outbox' = Sent(a, Answer(index))
              /\ UNCHANGED up
           \/ /\ ~IsEntry(index)
              /\ WildAnswer(a)
    /\ UNCHANGED <<users, userLimit, userIndex>>

\* The child process reads "exit" or "logout" and kills the process group.
OperatorExit ==
    /\ up
    /\ up' = FALSE
    /\ UNCHANGED <<memory, inbox, outbox>>

Serve ==
    \/ ReceiveNotify
    \/ ReceiveLogin
    \/ ReceiveLogout
    \/ ReceiveSend
    \/ ReceiveView
    \/ ReceivePrint

-----------------------------------------------------------------------------
(* The environment: clients and the network. *)

\* A client's sendto().  A SEND waits for mailboxes shorter than MaxStored.
ClientSends(a, d) ==
    /\ Len(inbox) < MaxInbox
    /\ \A b \in Addrs : Len(outbox[b]) < MaxOutbox
    /\ (d.type = CLIENTMSG_TAG /\ d.messageType = SEND) =>
           \A k \in DOMAIN users : Len(users[k].messages) < MaxStored
    /\ inbox' = Append(inbox, [from |-> a, data |-> d])
    /\ UNCHANGED <<memory, up, outbox>>

\* A client's recvfrom().
ClientReads(a) ==
    /\ outbox[a] # <<>>
    /\ outbox' = [outbox EXCEPT ![a] = Tail(@)]
    /\ UNCHANGED <<memory, up, inbox>>

\* UDP: a datagram is lost on the way or does not fit a socket's buffer.
RequestLost ==
    /\ \E k \in DOMAIN inbox : inbox' = RemoveAt(inbox, k)
    /\ UNCHANGED <<memory, up, outbox>>

ReplyLost(a) ==
    /\ \E k \in DOMAIN outbox[a] :
           outbox' = [outbox EXCEPT ![a] = RemoveAt(@, k)]
    /\ UNCHANGED <<memory, up, inbox>>

Network == RequestLost \/ \E a \in Addrs : ReplyLost(a)

Environment ==
    \/ \E a \in Addrs, d \in NotifyMessage \cup ClientMessage \cup OtherMessage :
           ClientSends(a, d)
    \/ \E a \in Addrs : ClientReads(a)

-----------------------------------------------------------------------------

ServerInit ==
    /\ users = <<>>
    /\ userLimit = InitialUserLimit
    /\ userIndex \in StackInts
    /\ incomingSenderId \in ClientIds
    /\ up = TRUE

Init ==
    /\ ServerInit
    /\ inbox = <<>>
    /\ outbox = [a \in Addrs |-> <<>>]

Next == Serve \/ OperatorExit \/ Environment \/ Network

Spec == Init /\ [][Next]_vars

-----------------------------------------------------------------------------
(* Safety. *)

\* The variables keep their types.
TypeOK ==
    /\ users \in Seq(Client)
    /\ userLimit \in Nat
    /\ userIndex \in Int
    /\ incomingSenderId \in ClientIds
    /\ up \in BOOLEAN
    /\ inbox \in Seq(Packet)
    /\ outbox \in [Addrs -> Seq(Reply)]

\* A client identifier has at most one entry, although entries are made in
\* two places (first login, first message to a stranger): otherwise mail
\* would be stored in one entry and looked for in another.
UniqueIds ==
    \A j, k \in DOMAIN users : users[j].clientID = users[k].clientID => j = k

\* No handler writes behind the array of entries or behind an entry's array
\* of messages: both are grown before they are full, never after.
WithinLimits ==
    /\ Len(users) <= userLimit
    /\ \A k \in DOMAIN users : Len(users[k].messages) <= users[k].messageLimit

\* The server has an address for exactly the clients it believes logged in,
\* so that it never dies of a notification to an address of zeros.
LoggedInHasAddress ==
    \A k \in DOMAIN users : users[k].isLoggedIn <=> users[k].address # NoAddr

\* The flag that decides on a notification at login says exactly whether the
\* mailbox holds a message that was never viewed.
NewFlagExact ==
    \A k \in DOMAIN users :
        users[k].hasNewMessages <=>
            \E j \in DOMAIN users[k].messages :
                users[k].messages[j].messageType = NEW_MESSAGE

\* Every stored message is stored with the client it is addressed to.
MailboxesOwned ==
    \A k \in DOMAIN users : \A j \in DOMAIN users[k].messages :
        users[k].messages[j].recipientId = users[k].clientID

\* Stored messages as the abstract specification sees them.
Contents(stored) ==
    [k \in DOMAIN stored |-> [messageType |-> stored[k].messageType,
                              senderId |-> stored[k].senderId,
                              message |-> stored[k].message]]

\* The mail that the program keeps for id.
MailOf(id) ==
    IF Entries(id) = {}
    THEN <<>>
    ELSE Contents(users[CHOOSE k \in Entries(id) : TRUE].messages)

Mail == INSTANCE Mailbox WITH box <- [id \in ClientIds |-> MailOf(id)]

\* Stored mail is append-only and only ever goes from unread to read, one
\* whole mailbox at a time, whatever is sent, lost or answered.
ImplementsMailbox == Mail!Spec

\* The client id is logged in at a and has mail it has not viewed.
WaitingAt(id, a) ==
    \E k \in DOMAIN users : /\ users[k].clientID = id
                            /\ users[k].isLoggedIn
                            /\ users[k].address = a
                            /\ users[k].hasNewMessages

\* Whenever a client comes to be logged in at an address with unviewed mail,
\* by a login there or by the arrival of a message, the same step sends a
\* notification to that address.
MailIsAnnounced ==
    [][\A id \in ClientIds, a \in Addrs :
          (~WaitingAt(id, a) /\ WaitingAt(id, a)') =>
              outbox'[a] = Append(outbox[a], Notice(id))]_vars

-----------------------------------------------------------------------------
(* What the comments of the program say, and the program does not do. *)

\* "sends all of the messages to the user" (Server.c:242), the user being
\* the one who "has requested to see their messages" (Server.c:241): a VIEW
\* is answered with mail of the client that asked, never of another one.
ViewShowsOwnMail ==
    [][ReceiveView =>
          LET p == Head(inbox)
          IN  \A k \in DOMAIN outbox'[p.from] :
                  (k > Len(outbox[p.from])
                   /\ outbox'[p.from][k].type = SERVERMSG_TAG) =>
                      outbox'[p.from][k].recipientId = p.data.senderId]_vars

\* "User %d has logged out" (Server.c:161): once the LOGOUT of a client has
\* been handled and the server lives, that client is not logged in.
LogoutLogsOut ==
    [][(ReceiveLogout /\ up') =>
          \A k \in DOMAIN users' :
              users'[k].clientID = Head(inbox).data.clientID =>
                  ~users'[k].isLoggedIn]_vars

=============================================================================
