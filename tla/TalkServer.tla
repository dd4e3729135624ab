----------------------------- MODULE TalkServer -----------------------------
(***************************************************************************)
(* The server of the second project (Projects/2_project/TCP_Server): over  *)
(* one UDP socket it keeps the table of users, tells everyone who comes    *)
(* and goes, lists who is logged in, and gives a user the address of the   *)
(* one it wants to talk to.  The conversation itself does not pass through *)
(* it.  One process runs the endless receive loop; one handler is one      *)
(* action.                                                                 *)
(*                                                                         *)
(* users holds the first numUsers elements of the array.  The array is     *)
(* allocated with zeros, and grows into memory at the end of the heap that *)
(* nothing used before.  So an element that is counted before it is        *)
(* written is an EmptyEntry, whose clientID is that of the server.  An     *)
(* index is the C one: users[userIndex] is users[userIndex + 1] here.      *)
(* Behind the userLimit elements there is memory all the same: it is taken *)
(* to read as zeros, and an access to it may also kill the process.        *)
(*                                                                         *)
(* The clients are an environment here.  An operator whose comment begins  *)
(* with Fault is no part of the specification: it is a mistake the         *)
(* definition after it must not make.                                      *)
(***************************************************************************)
EXTENDS Integers, Sequences, FiniteSetsExt, SequencesExt

CONSTANTS
    UserIds,            \* identifiers of users (0 to 9999 in the client)
    SERVER_ID,          \* the server's identifier, and that of a zeroed entry
    Addrs,              \* addresses of the clients' UDP sockets
    ServerAddr,         \* address of the server's UDP socket
    NoAddr,             \* an address field filled with zeros
    InitialUserLimit,   \* entries allocated at start (10 in the code)
    INCREMENT_USERS,    \* entries added when the array is full
    MaxInbox,           \* bound: datagrams waiting at the server
    MaxOutbox,          \* bound: datagrams waiting at a client
    MaxUsers            \* bound: logins answered with a new element counted

ASSUME TalkServerAssumption ==
    /\ SERVER_ID \in UserIds
    /\ NoAddr \notin Addrs
    /\ NoAddr \notin UserIds
    /\ ServerAddr \notin Addrs \cup {NoAddr}
    /\ InitialUserLimit \in Nat \ {0}
    /\ INCREMENT_USERS \in Nat \ {0}
    /\ MaxInbox \in Nat /\ MaxOutbox \in Nat /\ MaxUsers \in Nat

VARIABLES
    users,      \* the table, numUsers = Len(users)
    userLimit,  \* elements there is memory for
    outgoing,   \* the two address fields of the reply buffer, never cleared
    up,         \* the process that runs the loop is alive
    inbox,      \* the queue of the server's socket
    outbox      \* outbox[a]: the queue of the UDP socket at a

vars == <<users, userLimit, outgoing, up, inbox, outbox>>

-----------------------------------------------------------------------------
(* The datagrams (UtilsTCP.h). *)

TAG_LOGIN == "L"
TAG_LOGOUT == "O"
TAG_WHO == "W"
TAG_TALK_REQ == "T"
TAG_TALK_RES == "R"

Tags == {TAG_LOGIN, TAG_LOGOUT, TAG_WHO, TAG_TALK_REQ, TAG_TALK_RES}

\* A client's TCP address is port 20000 + userID, so it is named by the user.
TcpAddrs == UserIds \cup {NoAddr}

UdpAddrs == Addrs \cup {NoAddr}

\* What a client sends: data is the user a TALK_REQ asks for.
Request == [type : Tags, senderID : UserIds, data : UserIds]

Packet == [from : Addrs, data : Request]

\* What waits at a client's socket, with its sender: data is the user a
\* notification or a line of a WHO answer is about, and NoAddr where no
\* receiver reads it.
Message ==
    [from : Addrs \cup {ServerAddr}, type : Tags, senderID : UserIds,
     confirm : BOOLEAN, data : UserIds \cup {NoAddr},
     theAddress : TcpAddrs, theOtherAddress : UdpAddrs]

Client ==
    [clientID : UserIds, theUDPAddress : UdpAddrs, theTCPAddress : TcpAddrs,
     isLoggedIn : BOOLEAN]

\* An element of the array that was counted and never written.
EmptyEntry ==
    [clientID |-> SERVER_ID, theUDPAddress |-> NoAddr,
     theTCPAddress |-> NoAddr, isLoggedIn |-> FALSE]

-----------------------------------------------------------------------------
(* Helpers. *)

Entries(id) == {k \in DOMAIN users : users[k].clientID = id}

\* Fault: the scan stops before the last entry.
IndexWithoutLast(id) ==
    LET seen == Entries(id) \ {Len(users)}
    IN  IF seen = {} THEN -1 ELSE Min(seen) - 1

\* The first entry of id; zeroed entries may be more than one.
getUserIndex(id) == IF Entries(id) = {} THEN -1 ELSE Min(Entries(id)) - 1

\* The reply buffer once the fields a handler sets are set.
Reply(type, sender, confirm, data) ==
    [from |-> ServerAddr, type |-> type, senderID |-> sender,
     confirm |-> confirm, data |-> data,
     theAddress |-> outgoing.theAddress,
     theOtherAddress |-> outgoing.theOtherAddress]

\* The elements of s at the indices in K: what a loop over s comes to whose
\* body runs for these elements only.
Selected(s, K) ==
    LET chosen[n \in 0..Len(s)] ==
            IF n = 0 THEN <<>>
            ELSE IF n \in K THEN Append(chosen[n - 1], s[n])
                 ELSE chosen[n - 1]
    IN  chosen[Len(s)]

\* The loop bodies of the handlers run for the logged-in entries of the table
\* us, in its order; most skip the user id who caused the datagram.
LoggedIn(us) == Selected(us, {k \in DOMAIN us : us[k].isLoggedIn})

OtherIndices(us, id) ==
    {k \in DOMAIN us : us[k].isLoggedIn /\ us[k].clientID # id}

\* Fault: the loop stops before the last entry.
OthersWithoutLast(us, id) ==
    Selected(us, OtherIndices(us, id) \ {Len(us)})

\* Fault: the user id is not skipped.
OthersAndSelf(us, id) == LoggedIn(us)

Others(us, id) == Selected(us, OtherIndices(us, id))

\* What a loop that sends m to each entry of us leaves in the queue of a.
Copies(us, a, m) ==
    LET there == Selected(us, {k \in DOMAIN us : us[k].theUDPAddress = a})
    IN  [k \in DOMAIN there |-> m]

\* Fault: the loop variable is sent instead of the identifier.
WhoListOfIndices(us) ==
    [k \in DOMAIN us |-> Reply(TAG_WHO, SERVER_ID, TRUE, k)]
        \o <<Reply(TAG_WHO, SERVER_ID, FALSE, NoAddr)>>

\* The answer to WHO: one message per entry of us, then an end mark.
WhoList(us) ==
    [k \in DOMAIN us |-> Reply(TAG_WHO, SERVER_ID, TRUE, us[k].clientID)]
        \o <<Reply(TAG_WHO, SERVER_ID, FALSE, NoAddr)>>

\* sendto() refuses the address of an entry without one; the server then dies.
Addressed(us) == \A k \in DOMAIN us : us[k].theUDPAddress # NoAddr

To(a, ds) == [b \in Addrs |-> IF b = a THEN ds ELSE <<>>]

-----------------------------------------------------------------------------
(* The receive loop: one handler per type of datagram. *)

Receive(tag) ==
    /\ up
    /\ inbox # <<>>
    /\ Head(inbox).data.type = tag
    /\ inbox' = Tail(inbox)

\* The entry of a user who logs in from a.
Entry(id, a) ==
    [clientID |-> id, theUDPAddress |-> a, theTCPAddress |-> id,
     isLoggedIn |-> TRUE]

\* Fault: only a new entry is given an address.
AdmittedFlagOnly(id, a) ==
    LET k == getUserIndex(id) + 1
    IN  IF k = 0
        THEN Append(users, Entry(id, a))
        ELSE Append([users EXCEPT ![k].isLoggedIn = TRUE], EmptyEntry)

\* The table after an accepted login.  The count grows in either case, so a
\* user who returns leaves an element behind that nobody wrote.
Admitted(id, a) ==
    LET k == getUserIndex(id) + 1
    IN  IF k = 0
        THEN Append(users, Entry(id, a))
        ELSE Append([users EXCEPT ![k] = Entry(id, a)], EmptyEntry)

\* Fault: index 0 is taken for a miss.
RefusedButFirst(id) ==
    LET k == getUserIndex(id) + 1
    IN  k > 1 /\ users[k].isLoggedIn

\* A login of a user who is logged in already.
Refused(id) ==
    LET k == getUserIndex(id) + 1
    IN  k # 0 /\ users[k].isLoggedIn

LoginRefused(id, a) ==
    /\ Refused(id)
    /\ outbox' = [b \in Addrs |->
           outbox[b] \o To(a, <<Reply(TAG_LOGIN, id, FALSE, NoAddr)>>)[b]]
    /\ UNCHANGED <<users, userLimit, up>>

\* A confirmation, a notification to everyone logged in, the table, and the
\* list of the others for the user who came.
LoginAccepted(id, a) ==
    /\ ~Refused(id)
    /\ users' = Admitted(id, a)
    /\ userLimit' = IF getUserIndex(id) = -1 /\ Len(users) = userLimit
                    THEN userLimit + INCREMENT_USERS
                    ELSE userLimit
    /\ up' = Addressed(LoggedIn(users))
    /\ outbox' = [b \in Addrs |->
           outbox[b]
             \o To(a, <<Reply(TAG_LOGIN, id, TRUE, NoAddr)>>)[b]
             \o Copies(LoggedIn(users), b, Reply(TAG_LOGIN, SERVER_ID, TRUE, id))
             \o To(a, WhoList(Others(Admitted(id, a), id)))[b]]

ReceiveLogin ==
    /\ Receive(TAG_LOGIN)
    /\ LET id == Head(inbox).data.senderID
           a == Head(inbox).from
       IN  LoginRefused(id, a) \/ LoginAccepted(id, a)
    /\ UNCHANGED outgoing

\* The others are told, then the entry is changed.  users[-1] is written for
\* a user without an entry: a byte of the allocator's, which may be fatal.
ReceiveLogout ==
    /\ Receive(TAG_LOGOUT)
    /\ LET id == Head(inbox).data.senderID
           k == getUserIndex(id) + 1
           told == Addressed(Others(users, id))
       IN  /\ outbox' = [b \in Addrs |->
                  outbox[b] \o Copies(Others(users, id), b,
                                      Reply(TAG_LOGOUT, SERVER_ID, TRUE, id))]
           /\ \/ /\ k # 0
                 /\ users' = [users EXCEPT ![k].isLoggedIn = FALSE]
                 /\ up' = told
              \/ /\ k = 0
                 /\ users' = users
                 /\ up' \in {told, FALSE}
    /\ UNCHANGED <<userLimit, outgoing>>

ReceiveWho ==
    /\ Receive(TAG_WHO)
    /\ LET id == Head(inbox).data.senderID
           a == Head(inbox).from
       IN  outbox' = [b \in Addrs |->
               outbox[b] \o To(a, WhoList(Others(users, id)))[b]]
    /\ UNCHANGED <<users, userLimit, outgoing, up>>

\* A user found in the table, unless it is the one who asks, is handed out
\* with both addresses, logged in or not.
Found(d) ==
    LET k == getUserIndex(d.data) + 1
    IN  k # 0 /\ users[k].clientID # d.senderID

ReceiveTalkReq ==
    /\ Receive(TAG_TALK_REQ)
    /\ LET d == Head(inbox).data
           k == getUserIndex(d.data) + 1
           a == Head(inbox).from
       IN  /\ outgoing' = IF Found(d)
                          THEN [theAddress |-> users[k].theTCPAddress,
                                theOtherAddress |-> users[k].theUDPAddress]
                          ELSE outgoing
           /\ outbox' = [b \in Addrs |->
                  outbox[b] \o To(a, <<[from |-> ServerAddr,
                                        type |-> TAG_TALK_RES,
                                        senderID |-> SERVER_ID,
                                        confirm |-> Found(d),
                                        data |-> NoAddr,
                                        theAddress |-> outgoing'.theAddress,
                                        theOtherAddress |->
                                            outgoing'.theOtherAddress]>>)[b]]
    /\ UNCHANGED <<users, userLimit, up>>

\* The loops run over numUsers elements, and so leave the array when more are
\* counted than there is memory for.
WildAccess ==
    /\ up
    /\ inbox # <<>>
    /\ Len(users) > userLimit
    /\ up' = FALSE
    /\ UNCHANGED <<users, userLimit, outgoing, inbox, outbox>>

\* The process that reads commands gets "exit" or "logout".
OperatorExit ==
    /\ up
    /\ up' = FALSE
    /\ UNCHANGED <<users, userLimit, outgoing, inbox, outbox>>

Serve ==
    \/ ReceiveLogin
    \/ ReceiveLogout
    \/ ReceiveWho
    \/ ReceiveTalkReq
    \/ WildAccess

-----------------------------------------------------------------------------
(* The environment: clients and the network. *)

\* A client's sendto(); MaxUsers bounds the logins.
ClientSends(a, d) ==
    /\ Len(inbox) < MaxInbox
    /\ \A b \in Addrs : Len(outbox[b]) < MaxOutbox
    /\ d.type = TAG_LOGIN => Len(users) + Len(inbox) < MaxUsers
    /\ inbox' = Append(inbox, [from |-> a, data |-> d])
    /\ UNCHANGED <<users, userLimit, outgoing, up, outbox>>

ClientReads(a) ==
    /\ outbox[a] # <<>>
    /\ outbox' = [outbox EXCEPT ![a] = Tail(@)]
    /\ UNCHANGED <<users, userLimit, outgoing, up, inbox>>

\* UDP: a datagram is lost on the way or does not fit a socket's buffer.
RequestLost ==
    /\ \E k \in DOMAIN inbox : inbox' = RemoveAt(inbox, k)
    /\ UNCHANGED <<users, userLimit, outgoing, up, outbox>>

ReplyLost(a) ==
    /\ \E k \in DOMAIN outbox[a] :
           outbox' = [outbox EXCEPT ![a] = RemoveAt(@, k)]
    /\ UNCHANGED <<users, userLimit, outgoing, up, inbox>>

Network == RequestLost \/ \E a \in Addrs : ReplyLost(a)

Environment ==
    \/ \E a \in Addrs, d \in Request : ClientSends(a, d)
    \/ \E a \in Addrs : ClientReads(a)

-----------------------------------------------------------------------------

Init ==
    /\ users = <<>>
    /\ userLimit = InitialUserLimit
    /\ outgoing = [theAddress |-> NoAddr, theOtherAddress |-> NoAddr]
    /\ up = TRUE
    /\ inbox = <<>>
    /\ outbox = [a \in Addrs |-> <<>>]

Next == Serve \/ OperatorExit \/ Environment \/ Network

Spec == Init /\ [][Next]_vars

-----------------------------------------------------------------------------
(* Safety. *)

\* The variables keep their types.
TypeOK ==
    /\ users \in Seq(Client)
    /\ userLimit \in Nat
    /\ outgoing \in [theAddress : TcpAddrs, theOtherAddress : UdpAddrs]
    /\ up \in BOOLEAN
    /\ inbox \in Seq(Packet)
    /\ outbox \in [Addrs -> Seq(Message)]

\* A user is logged in through one entry only, even user 0, whose identifier
\* the elements that were counted and never written carry too: a second entry
\* would outlive the user's logout.
OneSessionPerUser ==
    \A j, k \in DOMAIN users :
        users[j].isLoggedIn /\ users[k].isLoggedIn
            /\ users[j].clientID = users[k].clientID => j = k

\* Everyone who is logged in can be told so: the loops that notify never meet
\* an address of zeros, which would kill the server.
LoggedInReachable ==
    \A k \in DOMAIN users :
        users[k].isLoggedIn => users[k].theUDPAddress # NoAddr

\* The session of id as the abstract specification sees it.
SessionOf(id) ==
    LET sessions == {k \in Entries(id) : users[k].isLoggedIn}
    IN  IF sessions = {} THEN NoAddr
        ELSE users[CHOOSE k \in sessions : TRUE].theUDPAddress

Sessions == INSTANCE Presence
    WITH Offline <- NoAddr, Login <- TAG_LOGIN, Logout <- TAG_LOGOUT,
         at <- [id \in UserIds |-> SessionOf(id)], requests <- inbox

\* A user's session starts with a login, at the address the login came from,
\* and only a logout of the same user ends it, whatever elements the table has
\* collected.
ImplementsPresence == Sessions!Spec

Online == {id \in UserIds : SessionOf(id) # NoAddr}

\* The messages the step appends to the queue of a.
News(a) == SubSeq(outbox'[a], Len(outbox[a]) + 1, Len(outbox'[a]))

\* The users the messages ds of type tag tell about.
ToldOf(ds, tag) ==
    {ds[k].data : k \in {j \in DOMAIN ds : /\ ds[j].type = tag
                                           /\ ds[j].senderID = SERVER_ID
                                           /\ ds[j].data # NoAddr}}

\* Whoever stays logged in is told, in the same step, of every user who came
\* or went: the lists the clients keep on their screens never miss a change.
\* (They may be told of a departure that was none: a logout of a user who is
\* not logged in is announced too.)
ChangesAnnounced ==
    [][up' => \A id \in Online :
          SessionOf(id)' = SessionOf(id) =>
              /\ Online' \ Online \subseteq ToldOf(News(SessionOf(id)), TAG_LOGIN)
              /\ Online \ Online' \subseteq ToldOf(News(SessionOf(id)), TAG_LOGOUT)
      ]_vars

\* The messages ds end with a list: one line for each of the users in others,
\* then the end mark.  Nothing before belongs to a list.
EndsWithList(ds, others) ==
    LET first == Len(ds) - Cardinality(others)
        names == SubSeq(ds, first, Len(ds) - 1)
    IN  /\ \A k \in DOMAIN ds : ds[k].type = TAG_WHO <=> k >= first
        /\ \A k \in DOMAIN names : names[k].confirm
        /\ ToldOf(names, TAG_WHO) = others
        /\ ~Last(ds).confirm

\* A request to list the users, and the login of a user who has no session, are
\* answered with a list that names every other user who is logged in, each one
\* once.  With the notifications the newcomer gets from now on it misses nobody.
WhoListsOthersOnce ==
    [][LET p == Head(inbox)
           id == p.data.senderID
       IN  ReceiveWho \/ (ReceiveLogin /\ id \notin Online) =>
               EndsWithList(News(p.from), Online' \ {id})]_vars
=============================================================================
