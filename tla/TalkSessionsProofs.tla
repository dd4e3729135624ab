------------------------- MODULE TalkSessionsProofs -------------------------
(***************************************************************************)
(* What a client of the talk system may rely on, for every set of clients  *)
(* and users, with or without loss: nothing of an answer outlives its      *)
(* reader, and whoever believes to be logged in is.  Answers carry no      *)
(* number, so both rest on the order of the queues: of one client there is *)
(* one request on the way that is answered, and it is on the way only      *)
(* while nothing of an answer is (Orderly, LInv).  What ends a wait is the *)
(* datagram that was seen, so all of it is about clients whose users are   *)
(* not user 0 (PInv).                                                      *)
(***************************************************************************)
EXTENDS TalkSocketProofs

-----------------------------------------------------------------------------
(* What a client does. *)

\* The parent takes a datagram that may end its wait.
TakesEnd(c) ==
    /\ Awaits(c)
    /\ outbox[c] # <<>>
    /\ outbox'[c] = Tail(outbox[c])
    /\ Head(outbox[c]).type \in {TAG_LOGIN, TAG_WHO}
    /\ ~Head(outbox[c]).confirm
    /\ theServerAddress'[c] = Head(outbox[c]).from

\* It takes a datagram for the confirmation of its login.
TakesConfirmation(c) ==
    /\ place[c] = "takingAnswer" /\ place'[c] = "listing"
    /\ outbox[c] # <<>>
    /\ Head(outbox[c]).type = TAG_LOGIN
    /\ Head(outbox[c]).confirm
    /\ Head(outbox[c]).senderID = userID[c]

\* c moves so when it sends a datagram of this type to a as the user id.
MaySend(c, a, type, id) ==
    /\ type = TAG_LOGIN => /\ place[c] = "loggedOut" /\ place'[c] = "loggingIn"
                           /\ a = theServerAddress[c] /\ id = userID'[c]
    /\ type = TAG_LOGOUT => /\ place[c] = "menu" /\ place'[c] = "loggedOut"
                            /\ a = theServerAddress[c] /\ id = userID[c]
    /\ type = TAG_WHO => place[c] = "menu" /\ place'[c] = "askingWho"

\* The queues after a step of c: what it sends is added to one of them.
MovesQueues(c) ==
    /\ \A b \in Addrs : outbox'[b] \in Seq(Message) /\ Kept(outbox[b], outbox'[b])
    /\ \A b \in Addrs : \A k \in DOMAIN outbox'[b] :
           \/ \E j \in DOMAIN outbox[b] : outbox[b][j] = outbox'[b][k]
           \/ /\ outbox'[b][k].from = c
              /\ MaySend(c, b, outbox'[b][k].type, outbox'[b][k].senderID)
    /\ \/ inbox' = inbox
       \/ \E p \in Packet :
              /\ inbox' = Append(inbox, p)
              /\ p.from = c
              /\ MaySend(c, ServerAddr, p.data.type, p.data.senderID)

\* Where a client is from its login until it has the list.
LoginPlaces == {"loggingIn", "takingAnswer", "listing", "takingList"}

\* Where its parent goes: a wait ends with a refusal or an end mark, and a
\* session begins with a confirmation.
MovesPlace(c) ==
    /\ Awaits(c) => Awaits(c)' \/ TakesEnd(c)
    /\ InSession(c)' => /\ userID'[c] = userID[c]
                        /\ InSession(c) \/ TakesConfirmation(c)
    /\ place[c] \in LoginPlaces => place'[c] \in LoginPlaces \/ TakesEnd(c)
    /\ place[c] = "loggedOut" => place'[c] \in {"loggedOut", "loggingIn", "exited"}
    /\ place[c] = "exited" => place'[c] = "exited"
    /\ place'[c] = "loggedOut" =>
           \/ /\ place[c] \in {"menu", "loggedOut"}
              /\ theServerAddress'[c] = theServerAddress[c]
           \/ TakesEnd(c)
    /\ IF place[c] = "loggedOut" /\ place'[c] = "loggingIn"
       THEN userID'[c] \in Names[c] ELSE userID'[c] = userID[c]

\* The other clients stay where they are.
MovesAlone(c) ==
    \A b \in Addrs \ {c} : /\ place'[b] = place[b] /\ userID'[b] = userID[b]
                           /\ theServerAddress'[b] = theServerAddress[b]

Moves(c) ==
    /\ users' = users
    /\ MovesQueues(c)
    /\ MovesAlone(c)
    /\ c \in Ordinary => MovesPlace(c)

LEMMA WithinElements ==
    ASSUME NEW q, NEW r, Within(r, q)
    PROVE  \A k \in DOMAIN r : \E j \in DOMAIN q : q[j] = r[k]
BY DEF Within

\* Nothing is sent, and of the queue of c something may be taken.
LEMMA QueuesTaken ==
    ASSUME TypeOK, NEW c \in Addrs, inbox' = inbox,
           NEW q \in Seq(Message), Within(q, outbox[c]),
           outbox' = [outbox EXCEPT ![c] = q]
    PROVE  MovesQueues(c)
<1>1. ASSUME NEW b \in Addrs
      PROVE  /\ outbox'[b] \in Seq(Message) /\ outbox[b] \in Seq(Message)
             /\ Within(outbox'[b], outbox[b])
  BY SameWithin DEF TypeOK
<1>2. ASSUME NEW b \in Addrs
      PROVE  /\ Kept(outbox[b], outbox'[b])
             /\ \A k \in DOMAIN outbox'[b] :
                    \E j \in DOMAIN outbox[b] : outbox[b][j] = outbox'[b][k]
  BY <1>1, WithinKept, WithinElements
<1> QED
  BY <1>1, <1>2 DEF MovesQueues

\* Nothing is sent, and nothing is taken.
LEMMA QueuesSame ==
    ASSUME TypeOK, NEW c \in Addrs, UNCHANGED <<inbox, outbox>>
    PROVE  MovesQueues(c)
<1>1. outbox' = [outbox EXCEPT ![c] = outbox[c]] /\ outbox[c] \in Seq(Message)
  BY DEF TypeOK
<1> QED
  BY <1>1, QueuesTaken, SameWithin

\* The first datagram of c is taken.
LEMMA QueuesTail ==
    ASSUME TypeOK, NEW c \in Addrs, outbox[c] # <<>>, inbox' = inbox,
           outbox' = Taken(c)
    PROVE  MovesQueues(c)
<1>1. outbox' = [outbox EXCEPT ![c] = Tail(outbox[c])]
  BY DEF Taken
<1>2. outbox[c] \in Seq(Message) /\ Tail(outbox[c]) \in Seq(Message)
  BY DEF TypeOK
<1> QED
  BY <1>1, <1>2, QueuesTaken, TailWithin

\* A datagram is sent.
LEMMA QueuesPosted ==
    ASSUME TypeOK, NEW c \in Addrs, NEW a, NEW m \in Message, m.from = c,
           m.type \in {TAG_LOGIN, TAG_WHO} => m.confirm,
           m.senderID \in UserIds, m.data \in UserIds,
           MaySend(c, a, m.type, m.senderID),
           Post(outbox, a, m)
    PROVE  MovesQueues(c)
<1> DEFINE p == [from |-> m.from, data |-> [type |-> m.type, senderID |-> m.senderID,
                                            data |-> m.data]]
<1>1. m.type \in Tags
  BY DEF Message
<1>2. /\ p \in Packet /\ p.from = c
      /\ p.data.type = m.type /\ p.data.senderID = m.senderID
  BY <1>1 DEF Packet, Request
<1>3. \/ /\ a = ServerAddr
         /\ inbox' = Append(inbox, p) /\ outbox' = outbox
      \/ /\ a \in Addrs /\ inbox' = inbox
         /\ outbox' = [outbox EXCEPT ![a] = Append(outbox[a], m)]
  BY DEF Post
<1> HIDE DEF p
<1>4. ASSUME NEW b \in Addrs
      PROVE  /\ outbox[b] \in Seq(Message)
             /\ Kept(outbox[b], outbox[b])
  BY WithinKept, SameWithin DEF TypeOK
<1>5. CASE a = ServerAddr /\ inbox' = Append(inbox, p) /\ outbox' = outbox
  BY <1>2, <1>4, <1>5 DEF MovesQueues
<1>6. CASE /\ a \in Addrs /\ inbox' = inbox
           /\ outbox' = [outbox EXCEPT ![a] = Append(outbox[a], m)]
  <2> DEFINE q == Append(outbox[a], m)
  <2>1. q \in Seq(Message) /\ Kept(outbox[a], q)
    BY <1>4, <1>6, SentKept
  <2>2. \A k \in DOMAIN q : (k \in DOMAIN outbox[a] /\ q[k] = outbox[a][k]) \/ q[k] = m
    BY <1>4, <1>6
  <2>3. \A b \in Addrs : outbox'[b] = IF b = a THEN q ELSE outbox[b]
    BY <1>6 DEF TypeOK
  <2> HIDE DEF q
  <2>4. ASSUME NEW b \in Addrs
        PROVE  /\ outbox'[b] \in Seq(Message) /\ Kept(outbox[b], outbox'[b])
               /\ \A k \in DOMAIN outbox'[b] :
                      \/ \E j \in DOMAIN outbox[b] : outbox[b][j] = outbox'[b][k]
                      \/ b = a /\ outbox'[b][k] = m
    BY <1>4, <2>1, <2>2, <2>3
  <2> QED
    BY <1>6, <2>4 DEF MovesQueues
<1> QED
  BY <1>3, <1>5, <1>6

\* A parent sends a datagram.
LEMMA DatagramPosted ==
    ASSUME TypeOK, NEW c \in Addrs, NEW a, NEW id \in UserIds,
           NEW type \in Tags, NEW yes \in BOOLEAN, NEW about \in UserIds,
           type \in {TAG_LOGIN, TAG_WHO} => yes,
           MaySend(c, a, type, id),
           Post(outbox, a, Datagram(c, id, type, yes, about))
    PROVE  MovesQueues(c)
<1> DEFINE m == Datagram(c, id, type, yes, about)
<1>1. m \in Message
  BY DatagramType
<1>2. /\ m.from = c /\ m.type = type /\ m.senderID = id
      /\ m.confirm = yes /\ m.data = about
  BY DEF Datagram
<1> HIDE DEF m
<1>3. Post(outbox, a, m)
  BY DEF m
<1> QED
  BY <1>1, <1>2, <1>3, QueuesPosted

\* A client that stays where it is, whatever its parent has looked at.
LEMMA PlaceStays ==
    ASSUME NEW c \in Addrs, UNCHANGED <<place, userID>>,
           \/ UNCHANGED theServerAddress
           \/ /\ \A b \in Addrs \ {c} : theServerAddress'[b] = theServerAddress[b]
              /\ place[c] # "loggedOut"
    PROVE  MovesAlone(c) /\ MovesPlace(c)
BY DEF MovesAlone, MovesPlace, Awaits, InSession

\* It goes from a place in which it is not waiting for an answer to another,
\* into a session only if it had one.
LEMMA PlaceChanges ==
    ASSUME OwnTypes, NEW c \in Addrs, NEW to \in Places,
           place' = [place EXCEPT ![c] = to],
           userID' = userID,
           \/ UNCHANGED theServerAddress
           \/ /\ \A b \in Addrs \ {c} : theServerAddress'[b] = theServerAddress[b]
              /\ to # "loggedOut",
           place[c] \notin LoginPlaces \cup {"askingWho", "takingWho", "exited"},
           place[c] = "loggedOut" => to = "exited",
           to = "loggedOut" => place[c] = "menu",
           to \notin LoginPlaces,
           place[c] = "dead" => to \in {"dead", "exited"}
    PROVE  MovesAlone(c) /\ MovesPlace(c)
<1>1. place'[c] = to /\ \A b \in Addrs \ {c} : place'[b] = place[b]
  BY DEF OwnTypes
<1> QED
  BY <1>1 DEF MovesAlone, MovesPlace, Awaits, InSession, LoginPlaces

\* It has seen what it waits for, or there is more to come.
LEMMA PlaceWaits ==
    ASSUME OwnTypes, NEW c \in Addrs, NEW to,
           place' = [place EXCEPT ![c] = to],
           userID' = userID,
           \A b \in Addrs \ {c} : theServerAddress'[b] = theServerAddress[b],
           \/ place[c] = "loggingIn" /\ to = "takingAnswer"
           \/ place[c] \in {"listing", "takingList"}
                  /\ to \in {"listing", "takingList"}
           \/ place[c] \in {"askingWho", "takingWho"}
                  /\ to \in {"askingWho", "takingWho"}
    PROVE  MovesAlone(c) /\ MovesPlace(c)
<1>1. place'[c] = to /\ \A b \in Addrs \ {c} : place'[b] = place[b]
  BY DEF OwnTypes
<1> QED
  BY <1>1 DEF MovesAlone, MovesPlace, Awaits, InSession, LoginPlaces

\* It takes the answer to its login, or the last line of a list.
LEMMA AnswerTaken ==
    ASSUME TypeOK, OwnTypes, NEW c \in Addrs, TakeAnswer(c),
           c \in Ordinary => SocketOK(c)
    PROVE  MovesAlone(c) /\ (c \in Ordinary => MovesPlace(c))
<1>1. /\ outbox[c] # <<>> /\ place[c] = "takingAnswer"
      /\ outbox'[c] = Tail(outbox[c])
      /\ theServerAddress'[c] = Head(outbox[c]).from
      /\ place'[c] = IF Head(outbox[c]).confirm THEN "listing" ELSE "loggedOut"
      /\ userID' = userID
  BY DEF TakeAnswer, Reads, Taken, OwnTypes, TypeOK, ownVars
<1>2. MovesAlone(c)
  BY DEF MovesAlone, TakeAnswer, Reads, OwnTypes, ownVars
<1>3. ASSUME c \in Ordinary PROVE MovesPlace(c)
  <2>1. /\ Head(outbox[c]).type = TAG_LOGIN
        /\ Head(outbox[c]).senderID = userID[c]
    BY <1>1, <1>3 DEF SocketOK, ParentHas, ParentTakes, First
  <2>2. CASE Head(outbox[c]).confirm
    <3>1. TakesConfirmation(c)
      BY <1>1, <2>1, <2>2 DEF TakesConfirmation
    <3>2. place'[c] = "listing"
      BY <1>1, <2>2
    <3> QED
      BY <1>1, <3>1, <3>2 DEF MovesPlace, Awaits, InSession, LoginPlaces
  <2>3. CASE ~Head(outbox[c]).confirm
    <3>1. TakesEnd(c)
      BY <1>1, <2>1, <2>3 DEF TakesEnd, Awaits
    <3>2. place'[c] = "loggedOut"
      BY <1>1, <2>3
    <3> QED
      BY <1>1, <3>1, <3>2 DEF MovesPlace, InSession
  <2> QED
    BY <2>2, <2>3
<1> QED
  BY <1>2, <1>3

LEMMA LastLineTaken ==
    ASSUME TypeOK, OwnTypes, NEW c \in Addrs, TakeLastLine(c),
           c \in Ordinary => SocketOK(c)
    PROVE  MovesAlone(c) /\ (c \in Ordinary => MovesPlace(c))
<1>1. /\ outbox[c] # <<>> /\ place[c] \in {"takingList", "takingWho"}
      /\ outbox'[c] = Tail(outbox[c])
      /\ theServerAddress'[c] = Head(outbox[c]).from
      /\ place'[c] = "top" /\ ~Head(outbox[c]).confirm
      /\ userID' = userID
  BY DEF TakeLastLine, IsLastLine, Reads, Taken, OwnTypes, TypeOK, ownVars
<1>2. MovesAlone(c)
  BY DEF MovesAlone, TakeLastLine, Reads, OwnTypes, ownVars
<1>3. ASSUME c \in Ordinary PROVE MovesPlace(c)
  <2>1. Head(outbox[c]).type = TAG_WHO
    BY <1>1, <1>3 DEF SocketOK, ParentHas, ParentTakes, First
  <2>2. TakesEnd(c)
    BY <1>1, <2>1 DEF TakesEnd, Awaits
  <2> QED
    BY <1>1, <2>2 DEF MovesPlace, InSession
<1> QED
  BY <1>2, <1>3

LEMMA UserMoves ==
    ASSUME TypeOK, OwnTypes, NEW c \in Addrs, User(c)
    PROVE  Moves(c)
<1> USE DEF serverVars, vars, ownVars, bufferVars, Goes, Tags, LoginPlaces
<1>0. userID[c] \in UserIds
  BY DEF OwnTypes
<1>1. CASE LogIn(c)
  <2>1. PICK id \in Names[c] :
            /\ userID' = [userID EXCEPT ![c] = id]
            /\ Post(outbox, theServerAddress[c],
                    Datagram(c, id, TAG_LOGIN, TRUE, id))
    BY <1>1 DEF LogIn
  <2>2. /\ place[c] = "loggedOut" /\ place' = [place EXCEPT ![c] = "loggingIn"]
        /\ UNCHANGED <<users, theServerAddress>>
    BY <1>1 DEF LogIn
  <2>3. id \in UserIds
    BY TalkSystemAssumption
  <2>4. /\ place'[c] = "loggingIn" /\ userID'[c] = id
        /\ \A b \in Addrs \ {c} : place'[b] = place[b] /\ userID'[b] = userID[b]
    BY <2>1, <2>2 DEF OwnTypes
  <2>5. MaySend(c, theServerAddress[c], TAG_LOGIN, id)
    BY <2>2, <2>4 DEF MaySend, TAG_LOGIN, TAG_LOGOUT, TAG_WHO
  <2>6. MovesQueues(c)
    BY <2>1, <2>3, <2>5, DatagramPosted
  <2>7. MovesAlone(c) /\ MovesPlace(c)
    BY <2>2, <2>4 DEF MovesAlone, MovesPlace, Awaits, InSession
  <2> QED
    BY <2>2, <2>6, <2>7 DEF Moves
<1>2. CASE Exit(c)
  <2>1. /\ users' = users /\ inbox' = inbox
        /\ outbox' = [outbox EXCEPT ![c] = <<>>]
        /\ place[c] \in {"loggedOut", "menu"}
        /\ place' = [place EXCEPT ![c] = "exited"]
        /\ UNCHANGED <<userID, theServerAddress>>
    BY <1>2 DEF Exit
  <2>2. <<>> \in Seq(Message) /\ Within(<<>>, outbox[c])
    BY EmptyWithin
  <2>3. MovesQueues(c)
    BY <2>1, <2>2, QueuesTaken
  <2>4. MovesAlone(c) /\ MovesPlace(c)
    BY <2>1, PlaceChanges DEF Places
  <2> QED
    BY <2>1, <2>3, <2>4 DEF Moves
<1>3. CASE Who(c)
  <2>1. /\ Post(outbox, theServerAddress[c],
                Datagram(c, userID[c], TAG_WHO, TRUE, userID[c]))
        /\ place[c] = "menu" /\ place' = [place EXCEPT ![c] = "askingWho"]
        /\ UNCHANGED <<users, theServerAddress, userID>>
    BY <1>3 DEF Who
  <2>2. MaySend(c, theServerAddress[c], TAG_WHO, userID[c])
    BY <2>1 DEF MaySend, TAG_LOGIN, TAG_LOGOUT, TAG_WHO, OwnTypes
  <2>3. MovesQueues(c)
    BY <1>0, <2>1, <2>2, DatagramPosted
  <2>4. MovesAlone(c) /\ MovesPlace(c)
    BY <2>1, PlaceChanges DEF Places
  <2> QED
    BY <2>1, <2>3, <2>4 DEF Moves
<1>4. CASE Ask(c)
  <2>1. PICK id \in UserIds :
            Post(outbox, theServerAddress[c],
                 Datagram(c, userID[c], TAG_TALK_REQ, TRUE, id))
    BY <1>4 DEF Ask
  <2>2. /\ place[c] = "menu" /\ place' = [place EXCEPT ![c] = "askingServer"]
        /\ UNCHANGED <<users, theServerAddress, userID>>
    BY <1>4 DEF Ask
  <2>3. MaySend(c, theServerAddress[c], TAG_TALK_REQ, userID[c])
    BY DEF MaySend, TAG_LOGIN, TAG_LOGOUT, TAG_WHO, TAG_TALK_REQ
  <2>4. MovesQueues(c)
    BY <1>0, <2>1, <2>3, DatagramPosted
    DEF TAG_LOGIN, TAG_WHO, TAG_TALK_REQ
  <2>5. MovesAlone(c) /\ MovesPlace(c)
    BY <2>2, PlaceChanges DEF Places
  <2> QED
    BY <2>2, <2>4, <2>5 DEF Moves
<1>5. CASE LogOut(c)
  <2>1. /\ Post(outbox, theServerAddress[c],
                Datagram(c, userID[c], TAG_LOGOUT, TRUE, userID[c]))
        /\ place[c] = "menu" /\ place' = [place EXCEPT ![c] = "loggedOut"]
        /\ UNCHANGED <<users, theServerAddress, userID>>
    BY <1>5 DEF LogOut
  <2>2. MaySend(c, theServerAddress[c], TAG_LOGOUT, userID[c])
    BY <2>1 DEF MaySend, TAG_LOGIN, TAG_LOGOUT, TAG_WHO, OwnTypes
  <2>3. MovesQueues(c)
    BY <1>0, <2>1, <2>2, DatagramPosted DEF TAG_LOGIN, TAG_LOGOUT, TAG_WHO
  <2>4. MovesAlone(c) /\ MovesPlace(c)
    BY <2>1, PlaceChanges DEF Places
  <2> QED
    BY <2>1, <2>3, <2>4 DEF Moves
<1>6. CASE Look(c) \/ Confirm(c) \/ Refuse(c) \/ Quit(c)
  <2>1. PICK to \in {"top", "confirmed", "refusing"} :
            /\ place[c] \in {"menu", "prompt", "talking"}
            /\ place' = [place EXCEPT ![c] = to]
    BY <1>6 DEF Look, Confirm, Refuse, Quit
  <2>2. UNCHANGED <<users, theServerAddress, userID, inbox, outbox>>
    BY <1>6 DEF Look, Confirm, Refuse, Quit
  <2>3. MovesAlone(c) /\ MovesPlace(c)
    BY <2>1, <2>2, PlaceChanges DEF Places
  <2> QED
    BY <2>2, <2>3, QueuesSame DEF Moves
<1>7. CASE Say(c)
  <2>1. /\ UNCHANGED <<users, theServerAddress, userID, inbox, outbox>>
        /\ place[c] = "talking"
        /\ UNCHANGED place \/ place' = [place EXCEPT ![c] = "dead"]
    BY <1>7 DEF Say
  <2>2. MovesAlone(c) /\ MovesPlace(c)
    BY <2>1, PlaceStays, PlaceChanges DEF Places
  <2> QED
    BY <2>1, <2>2, QueuesSame DEF Moves
<1> QED
  BY <1>1, <1>2, <1>3, <1>4, <1>5, <1>6, <1>7 DEF User

LEMMA ParentSteps ==
    ASSUME TypeOK, OwnTypes, NEW c \in Addrs, Parent(c),
           c \in Ordinary => SocketOK(c)
    PROVE  Moves(c)
<1> USE DEF serverVars, vars, ownVars, bufferVars, restVars, sharedVars, Goes
<1>0. userID[c] \in UserIds /\ cmd[c] \in UserIds /\ place[c] \in Places
  BY DEF OwnTypes
<1>1. CASE LoginPeek(c) \/ ListPeek(c)
  <2>1. UNCHANGED <<users, inbox, outbox, place, userID>>
    BY <1>1 DEF LoginPeek, ListPeek
  <2>2. /\ place[c] # "loggedOut"
        /\ \A b \in Addrs \ {c} : theServerAddress'[b] = theServerAddress[b]
    BY <1>1 DEF LoginPeek, ListPeek, Reads, OwnTypes
  <2> QED
    BY <2>1, <2>2, PlaceStays, QueuesSame DEF Moves
<1>2. CASE LoginSeen(c) \/ LineSeen(c)
  <2>1. UNCHANGED <<users, inbox, outbox, userID>>
    BY <1>2 DEF LoginSeen, LineSeen
  <2>2. \A b \in Addrs \ {c} : theServerAddress'[b] = theServerAddress[b]
    BY <1>2 DEF LoginSeen, LineSeen, Reads, OwnTypes
  <2>3. PICK to : /\ place' = [place EXCEPT ![c] = to]
                  /\ \/ place[c] = "loggingIn" /\ to = "takingAnswer"
                     \/ place[c] = "listing" /\ to = "takingList"
                     \/ place[c] = "askingWho" /\ to = "takingWho"
    BY <1>2 DEF LoginSeen, LineSeen, Reads
  <2> QED
    BY <2>1, <2>2, <2>3, PlaceWaits, QueuesSame DEF Moves
<1>3. CASE TakeLine(c)
  <2>1. UNCHANGED <<users, inbox, userID>> /\ outbox' = Taken(c)
    BY <1>3 DEF TakeLine
  <2>2. /\ \A b \in Addrs \ {c} : theServerAddress'[b] = theServerAddress[b]
        /\ outbox[c] # <<>>
    BY <1>3 DEF TakeLine, Reads, OwnTypes
  <2>3. PICK to : /\ place' = [place EXCEPT ![c] = to]
                  /\ \/ place[c] = "takingList" /\ to = "listing"
                     \/ place[c] = "takingWho" /\ to = "askingWho"
    BY <1>3 DEF TakeLine, Reads
  <2> QED
    BY <2>1, <2>2, <2>3, PlaceWaits, QueuesTail DEF Moves
<1>4. CASE TakeAnswer(c) \/ TakeLastLine(c)
  <2>1. /\ UNCHANGED <<users, inbox>> /\ outbox' = Taken(c)
        /\ outbox[c] # <<>>
    BY <1>4 DEF TakeAnswer, TakeLastLine, Reads
  <2> QED
    BY <1>4, <2>1, AnswerTaken, LastLineTaken, QueuesTail DEF Moves
<1>5. CASE \/ Top(c) \/ Denied(c) \/ StoreTarget(c) \/ NameOther(c)
           \/ UserAgrees(c) \/ Agree(c) \/ Settle(c) \/ Connect(c)
           \/ LookForResponse(c) \/ TakeResponse(c)
  <2>1. PICK to \in {"prompt", "connecting", "menu", "top", "naming",
                     "requesting", "agreed", "confirming", "talking", "dead",
                     "takingResponse", "userHeard"} :
            place' = [place EXCEPT ![c] = to]
    BY <1>5 DEF Top, Denied, StoreTarget, NameOther, UserAgrees, Agree, Settle,
                Connect, LookForResponse, TakeResponse
  <2>2. /\ place[c] \in {"top", "serverHeard", "userHeard", "naming", "agreed",
                         "confirmed", "connecting", "askingUser",
                         "takingResponse"}
        /\ UNCHANGED <<users, inbox, userID, theServerAddress>>
    BY <1>5 DEF Top, Denied, StoreTarget, NameOther, UserAgrees, Agree, Settle,
                Connect, LookForResponse, TakeResponse, ReadsResponse
  <2>3. MovesAlone(c) /\ MovesPlace(c)
    BY <2>1, <2>2, PlaceChanges DEF Places, LoginPlaces
  <2>4. outbox' = outbox \/ (outbox[c] # <<>> /\ outbox' = Taken(c))
    BY <1>5 DEF Top, Denied, StoreTarget, NameOther, UserAgrees, Agree, Settle,
                Connect, LookForResponse, TakeResponse, ReadsResponse
  <2> QED
    BY <2>2, <2>3, <2>4, QueuesSame, QueuesTail DEF Moves
<1>6. CASE LookForReply(c) \/ TakeReply(c)
  <2>1. PICK to \in {"takingReply", "serverHeard"} :
            place' = [place EXCEPT ![c] = to]
    BY <1>6 DEF LookForReply, TakeReply
  <2>2. /\ place[c] \in {"askingServer", "takingReply"} /\ outbox[c] # <<>>
        /\ UNCHANGED <<users, inbox, userID>>
        /\ \A b \in Addrs \ {c} : theServerAddress'[b] = theServerAddress[b]
        /\ outbox' = outbox \/ outbox' = Taken(c)
    BY <1>6 DEF LookForReply, TakeReply, Reads, OwnTypes
  <2>3. MovesAlone(c) /\ MovesPlace(c)
    BY <2>1, <2>2, PlaceChanges DEF Places, LoginPlaces
  <2> QED
    BY <2>2, <2>3, QueuesSame, QueuesTail DEF Moves
<1>7. CASE SendRequest(c)
  <2> DEFINE a == incoming[c].theOtherAddress
  <2>1. /\ place[c] = "requesting"
        /\ UNCHANGED <<users, userID, theServerAddress>>
        /\ \/ /\ place' = [place EXCEPT ![c] = "askingUser"]
              /\ Post(outbox, a,
                      Datagram(c, userID[c], TAG_TALK_REQ, TRUE, cmd[c]))
           \/ /\ place' = [place EXCEPT ![c] = "dead"]
              /\ outbox' = outbox /\ inbox' = inbox
    BY <1>7 DEF SendRequest
  <2>2. MovesAlone(c) /\ MovesPlace(c)
    BY <2>1, PlaceChanges DEF Places, LoginPlaces
  <2>3. MaySend(c, a, TAG_TALK_REQ, userID[c]) /\ TAG_TALK_REQ \in Tags
    BY DEF MaySend, TAG_LOGIN, TAG_LOGOUT, TAG_WHO, TAG_TALK_REQ, Tags
  <2>4. TAG_TALK_REQ \notin {TAG_LOGIN, TAG_WHO}
    BY DEF TAG_LOGIN, TAG_WHO, TAG_TALK_REQ
  <2> HIDE DEF a
  <2>5. MovesQueues(c)
    BY <1>0, <2>1, <2>3, <2>4, DatagramPosted, QueuesSame
  <2> QED
    BY <2>1, <2>2, <2>5 DEF Moves
<1>8. CASE Respond(c)
  <2>1. /\ place[c] \in {"confirming", "refusing"}
        /\ UNCHANGED <<users, userID, theServerAddress>>
        /\ \/ /\ place' = [place EXCEPT ![c] = "top"]
              /\ Post(outbox, AnswerTo(c),
                      Datagram(c, userID[c], TAG_TALK_RES,
                               place[c] = "confirming", userID[c]))
           \/ /\ place' = [place EXCEPT ![c] = "dead"]
              /\ outbox' = outbox /\ inbox' = inbox
    BY <1>8 DEF Respond
  <2>2. MovesAlone(c) /\ MovesPlace(c)
    BY <2>1, PlaceChanges DEF Places, LoginPlaces
  <2>3. MaySend(c, AnswerTo(c), TAG_TALK_RES, userID[c]) /\ TAG_TALK_RES \in Tags
    BY DEF MaySend, TAG_LOGIN, TAG_LOGOUT, TAG_WHO, TAG_TALK_RES, Tags
  <2>4. TAG_TALK_RES \notin {TAG_LOGIN, TAG_WHO}
    BY DEF TAG_LOGIN, TAG_WHO, TAG_TALK_RES
  <2>5. MovesQueues(c)
    BY <1>0, <2>1, <2>3, <2>4, DatagramPosted, QueuesSame
  <2> QED
    BY <2>1, <2>2, <2>5 DEF Moves
<1> QED
  BY <1>1, <1>2, <1>3, <1>4, <1>5, <1>6, <1>7, <1>8 DEF Parent

\* The child takes datagrams, and sends a refusal.
LEMMA ChildSteps ==
    ASSUME TypeOK, NEW c \in Addrs, Child(c)
    PROVE  Moves(c)
<1> USE DEF serverVars, vars, parentVars, ownVars, bufferVars
<1>1. UNCHANGED <<users, place, userID, theServerAddress>>
  BY DEF Child, ChildPeek, TakeNotice, TakeRequest, TestTalking, TestRequest,
         NameRequester, StoreRequester, FlagRequest, ForgetRequester,
         RefuseRequest
<1>2. MovesAlone(c) /\ MovesPlace(c)
  BY <1>1, PlaceStays
<1>3. CASE RefuseRequest(c)
  <2> DEFINE m == [NoMessage EXCEPT !.from = c, !.type = TAG_TALK_RES]
  <2>1. UNCHANGED <<inbox, outbox>> \/ Post(outbox, targetUDPAddress[c], m)
    BY <1>3 DEF RefuseRequest
  <2>2. /\ m \in Message /\ m.from = c /\ m.type = TAG_TALK_RES
        /\ m.senderID = SERVER_ID /\ m.data = SERVER_ID
    BY RefusalType DEF NoMessage
  <2>3. /\ m.type \notin {TAG_LOGIN, TAG_WHO}
        /\ MaySend(c, targetUDPAddress[c], m.type, m.senderID)
    BY <2>2 DEF MaySend, TAG_LOGIN, TAG_LOGOUT, TAG_WHO, TAG_TALK_RES
  <2> HIDE DEF m
  <2>4. MovesQueues(c)
    BY <2>1, <2>2, <2>3, QueuesPosted, QueuesSame, TalkServerAssumption
  <2> QED
    BY <1>1, <1>2, <2>4 DEF Moves
<1>4. CASE ~RefuseRequest(c)
  <2>1. /\ inbox' = inbox
        /\ outbox' = outbox \/ (outbox[c] # <<>> /\ outbox' = Taken(c))
    BY <1>4 DEF Child, ChildPeek, TakeNotice, TakeRequest, TestTalking,
                TestRequest, NameRequester, StoreRequester, FlagRequest,
                ForgetRequester
  <2> QED
    BY <1>1, <1>2, <2>1, QueuesSame, QueuesTail DEF Moves
<1> QED
  BY <1>3, <1>4

-----------------------------------------------------------------------------
(* The steps of the system, as far as sessions are concerned. *)

\* Nothing happens, or datagrams are lost.
Loses ==
    /\ UNCHANGED <<users, place, userID, theServerAddress>>
    /\ inbox' \in Seq(Packet) /\ Within(inbox', inbox)
    /\ \A b \in Addrs :
           outbox'[b] \in Seq(Message) /\ Within(outbox'[b], outbox[b])

\* The server serves the first request.
Answers ==
    /\ UNCHANGED <<place, userID, theServerAddress>>
    /\ inbox # <<>>
    /\ inbox' = Tail(inbox)
    /\ \A b \in Addrs : \E q : outbox'[b] = outbox[b] \o q /\ Sent(q, b)
    /\ \A i \in UserIds :
           \/ SessionIn(users, i) = NoAddr
           \/ SessionIn(users', i) = SessionIn(users, i)
           \/ /\ Head(inbox).data.type = TAG_LOGOUT
              /\ Head(inbox).data.senderID = i

LEMMA NothingLost ==
    ASSUME TypeOK, UNCHANGED <<users, inbox, outbox, place, userID,
                               theServerAddress>>
    PROVE  Loses
BY SameWithin DEF Loses, TypeOK

LEMMA NetworkLoses ==
    ASSUME TypeOK, Network, UNCHANGED clientVars
    PROVE  Loses
<1>0. UNCHANGED <<users, place, userID, theServerAddress>>
  BY DEF Network, RequestLost, ReplyLost, clientVars, parentVars, bufferVars,
         ownVars
<1>1. CASE RequestLost
  <2>1. PICK k \in DOMAIN inbox : inbox' = RemoveAt(inbox, k)
    BY <1>1 DEF RequestLost
  <2>2. inbox' \in Seq(Packet) /\ Within(inbox', inbox)
    BY <2>1, RemovedWithin, RemoveAtType DEF TypeOK
  <2>3. outbox' = outbox
    BY <1>1 DEF RequestLost
  <2> QED
    BY <1>0, <2>2, <2>3, SameWithin DEF Loses, TypeOK
<1>2. ASSUME NEW a \in Addrs, ReplyLost(a) PROVE Loses
  <2>1. PICK k \in DOMAIN outbox[a] :
            outbox' = [outbox EXCEPT ![a] = RemoveAt(outbox[a], k)]
    BY <1>2 DEF ReplyLost
  <2>2. /\ RemoveAt(outbox[a], k) \in Seq(Message)
        /\ Within(RemoveAt(outbox[a], k), outbox[a])
    BY RemovedWithin, RemoveAtType DEF TypeOK
  <2>3. inbox' = inbox
    BY <1>2 DEF ReplyLost
  <2> QED
    BY <1>0, <2>1, <2>2, <2>3, SameWithin DEF Loses, TypeOK
<1> QED
  BY <1>1, <1>2 DEF Network

LEMMA ServeAnswers ==
    ASSUME TypeOK, IInv, Serve, UNCHANGED clientVars
    PROVE  Answers \/ Loses
<1>0. UNCHANGED <<place, userID, theServerAddress>>
  BY DEF clientVars, parentVars, bufferVars, ownVars
<1>1. CASE UNCHANGED <<inbox, outbox, users>>
  BY <1>0, <1>1, NothingLost
<1>2. CASE /\ inbox # <<>>
           /\ inbox' = Tail(inbox)
           /\ \E s : /\ outbox' = [b \in Addrs |-> outbox[b] \o s[b]]
                     /\ \A b \in Addrs : Sent(s[b], b)
  <2>1. \A b \in Addrs : \E q : outbox'[b] = outbox[b] \o q /\ Sent(q, b)
    BY <1>2
  <2>2. \A i \in UserIds :
            \/ SessionIn(users, i) = NoAddr
            \/ SessionIn(users', i) = SessionIn(users, i)
            \/ /\ Head(inbox).data.type = TAG_LOGOUT
               /\ Head(inbox).data.senderID = i
    BY ServeSessions
  <2> QED
    BY <1>0, <1>2, <2>1, <2>2 DEF Answers
<1> QED
  BY <1>1, <1>2, ServeSends

\* Every step of the system is one of these, or one of a client.
LEMMA StepKinds ==
    TypesOK /\ IInv /\ PInv /\ [SystemNext]_systemVars =>
        Answers \/ Loses \/ \E c \in Addrs : Moves(c)
<1> SUFFICES ASSUME TypesOK, IInv, PInv, [SystemNext]_systemVars
             PROVE  Answers \/ Loses \/ \E c \in Addrs : Moves(c)
  OBVIOUS
<1>0. TypeOK /\ OwnTypes /\ \A c \in Ordinary : SocketOK(c)
  BY DEF TypesOK, PInv
<1>1. CASE \/ \E c \in Addrs : Bind(c)
           \/ \E id \in UserIds : Receiver(id)
           \/ UNCHANGED systemVars
  <2>1. UNCHANGED <<users, inbox, outbox, place, userID, theServerAddress>>
    BY <1>1 DEF Bind, Receiver, Accept, Test, Display, EndOfCall, systemVars,
                vars, clientVars, parentVars, bufferVars, ownVars
  <2> QED
    BY <1>0, <2>1, NothingLost
<1>2. Loss => Loses
  BY <1>0, NetworkLoses DEF Loss
<1>3. Serve /\ UNCHANGED clientVars => Answers \/ Loses
  BY <1>0, ServeAnswers
<1>4. ASSUME NEW c \in Addrs, User(c) \/ Parent(c) \/ Child(c) PROVE Moves(c)
  BY <1>0, <1>4, UserMoves, ParentSteps, ChildSteps
<1> QED
  BY <1>1, <1>2, <1>3, <1>4 DEF SystemNext

-----------------------------------------------------------------------------
(* The requests of one client in the queue of the server. *)

NoAsk(q, c) == \A k \in DOMAIN q : ~AskOf(q[k], c)

NoOut(q, c) == \A k \in DOMAIN q : ~OutOf(q[k], c)

\* One request at most that is answered.
OneAsk(q, c) == \A i, j \in DOMAIN q : AskOf(q[i], c) /\ AskOf(q[j], c) => i = j

\* One logout at most, and it comes first.
OutFirst(q, c) ==
    \A i, j \in DOMAIN q :
        /\ OutOf(q[i], c) /\ OutOf(q[j], c) => i = j
        /\ OutOf(q[i], c) /\ AskOf(q[j], c) => i < j

\* r has no request of c that is not in q, and they are as few and as ordered.
Fewer(q, r, c) ==
    /\ NoAsk(q, c) => NoAsk(r, c)
    /\ NoOut(q, c) => NoOut(r, c)
    /\ OneAsk(q, c) => OneAsk(r, c)
    /\ OutFirst(q, c) => OutFirst(r, c)
    /\ \A k \in DOMAIN r : r[k].from = c => \E j \in DOMAIN q : q[j] = r[k]

LEMMA WithinFewer ==
    ASSUME NEW q \in Seq(Packet), NEW r \in Seq(Packet), Within(r, q), NEW c
    PROVE  Fewer(q, r, c)
<1>1. PICK f \in [DOMAIN r -> DOMAIN q] :
          \A i, j \in DOMAIN r : r[i] = q[f[i]] /\ (i < j => f[i] < f[j])
  BY DEF Within
<1>2. DOMAIN q \subseteq Int /\ DOMAIN r \subseteq Int
  OBVIOUS
<1>3. ASSUME NEW i \in DOMAIN r, NEW j \in DOMAIN r
      PROVE  /\ f[i] \in DOMAIN q /\ f[j] \in DOMAIN q
             /\ r[i] = q[f[i]] /\ r[j] = q[f[j]]
             /\ f[i] = f[j] => i = j
             /\ f[i] < f[j] => i < j
  <2>1. i < j => f[i] < f[j]
    BY <1>1
  <2>2. j < i => f[j] < f[i]
    BY <1>1
  <2>3. i \in Int /\ j \in Int /\ f[i] \in Int /\ f[j] \in Int
    BY <1>1, <1>2
  <2> QED
    BY <1>1, <2>1, <2>2, <2>3
<1>4. NoAsk(q, c) => NoAsk(r, c)
  BY <1>3 DEF NoAsk
<1>5. NoOut(q, c) => NoOut(r, c)
  BY <1>3 DEF NoOut
<1>6. OneAsk(q, c) => OneAsk(r, c)
  BY <1>3 DEF OneAsk
<1>7. OutFirst(q, c) => OutFirst(r, c)
  <2> SUFFICES ASSUME OutFirst(q, c), NEW i \in DOMAIN r, NEW j \in DOMAIN r
               PROVE  /\ OutOf(r[i], c) /\ OutOf(r[j], c) => i = j
                      /\ OutOf(r[i], c) /\ AskOf(r[j], c) => i < j
    BY DEF OutFirst
  <2>1. /\ OutOf(q[f[i]], c) /\ OutOf(q[f[j]], c) => f[i] = f[j]
        /\ OutOf(q[f[i]], c) /\ AskOf(q[f[j]], c) => f[i] < f[j]
    BY <1>3 DEF OutFirst
  <2> QED
    BY <1>3, <2>1
<1>8. \A k \in DOMAIN r : \E j \in DOMAIN q : q[j] = r[k]
  BY <1>1
<1> QED
  BY <1>4, <1>5, <1>6, <1>7, <1>8 DEF Fewer

\* The server takes the first request.
LEMMA FirstTaken ==
    ASSUME NEW q \in Seq(Packet), q # <<>>, NEW c
    PROVE  /\ Tail(q) \in Seq(Packet)
           /\ Fewer(q, Tail(q), c)
           /\ AskOf(Head(q), c) => ~NoAsk(q, c)
           /\ AskOf(Head(q), c) /\ OneAsk(q, c) => NoAsk(Tail(q), c)
           /\ OutOf(Head(q), c) => ~NoOut(q, c)
           /\ OutOf(Head(q), c) /\ OutFirst(q, c) => NoOut(Tail(q), c)
           /\ AskOf(Head(q), c) /\ OutFirst(q, c) => NoOut(q, c)
<1>1. /\ Tail(q) \in Seq(Packet) /\ Head(q) = q[1]
      /\ 1 \in DOMAIN q /\ DOMAIN q \subseteq Nat \ {0}
      /\ \A k \in DOMAIN Tail(q) : k + 1 \in DOMAIN q /\ Tail(q)[k] = q[k + 1]
                                   /\ k + 1 # 1
  OBVIOUS
<1>2. Fewer(q, Tail(q), c)
  BY <1>1, TailWithin, WithinFewer
<1>3. /\ AskOf(Head(q), c) => ~NoAsk(q, c)
      /\ OutOf(Head(q), c) => ~NoOut(q, c)
  BY <1>1 DEF NoAsk, NoOut
<1>4. AskOf(Head(q), c) /\ OneAsk(q, c) => NoAsk(Tail(q), c)
  BY <1>1 DEF OneAsk, NoAsk
<1>5. OutOf(Head(q), c) /\ OutFirst(q, c) => NoOut(Tail(q), c)
  BY <1>1 DEF OutFirst, NoOut
<1>6. AskOf(Head(q), c) /\ OutFirst(q, c) => NoOut(q, c)
  BY <1>1 DEF OutFirst, NoOut
<1> QED
  BY <1>1, <1>2, <1>3, <1>4, <1>5, <1>6

\* A request is added.
LEMMA RequestAdded ==
    ASSUME NEW q \in Seq(Packet), NEW p \in Packet, NEW c
    PROVE  LET r == Append(q, p)
           IN  /\ ~AskOf(p, c) =>
                      /\ NoAsk(q, c) => NoAsk(r, c)
                      /\ OneAsk(q, c) => OneAsk(r, c)
               /\ ~OutOf(p, c) =>
                      /\ NoOut(q, c) => NoOut(r, c)
                      /\ OutFirst(q, c) => OutFirst(r, c)
               /\ NoAsk(q, c) => OneAsk(r, c)
               /\ NoAsk(q, c) /\ NoOut(q, c) => OutFirst(r, c)
               /\ \A k \in DOMAIN r :
                      r[k] = p \/ \E j \in DOMAIN q : q[j] = r[k]
<1> DEFINE r == Append(q, p)
           n == Len(q) + 1
<1>1. /\ DOMAIN r = DOMAIN q \cup {n}
      /\ r[n] = p
      /\ \A k \in DOMAIN q : r[k] = q[k] /\ k < n
  OBVIOUS
<1>2. ~(AskOf(p, c) /\ OutOf(p, c))
  BY DEF AskOf, OutOf, TAG_LOGIN, TAG_LOGOUT, TAG_WHO
<1> HIDE DEF r, n
<1>3. ~AskOf(p, c) => /\ NoAsk(q, c) => NoAsk(r, c)
                      /\ OneAsk(q, c) => OneAsk(r, c)
  BY <1>1 DEF NoAsk, OneAsk
<1>4. ~OutOf(p, c) => /\ NoOut(q, c) => NoOut(r, c)
                      /\ OutFirst(q, c) => OutFirst(r, c)
  BY <1>1 DEF NoOut, OutFirst
<1>5. NoAsk(q, c) => OneAsk(r, c)
  BY <1>1 DEF NoAsk, OneAsk
<1>6. NoAsk(q, c) /\ NoOut(q, c) => OutFirst(r, c)
  BY <1>1, <1>2 DEF NoAsk, NoOut, OutFirst
<1>7. \A k \in DOMAIN r : r[k] = p \/ \E j \in DOMAIN q : q[j] = r[k]
  BY <1>1
<1> QED
  BY <1>3, <1>4, <1>5, <1>6, <1>7 DEF r

-----------------------------------------------------------------------------
(* Nothing of an answer outlives its reader. *)

\* A request that is answered is on the way only while its client waits and no
\* part of an answer is on the way; what has come of answers is in order.
AnswersOrdered(c) ==
    /\ OneAsk(inbox, c)
    /\ NoAsk(inbox, c) \/ Quiet(outbox[c])
    /\ Awaits(c) \/ (NoAsk(inbox, c) /\ Quiet(outbox[c]))
    /\ Orderly(outbox[c])
    /\ Genuine(outbox[c])

LInv == \A c \in Ordinary : AnswersOrdered(c)

\* A refusal and an end mark come from the server, and are the last of an
\* answer.
LEMMA EndIsLast ==
    ASSUME NEW q \in Seq(Message), q # <<>>, Orderly(q), Genuine(q),
           Head(q).type \in {TAG_LOGIN, TAG_WHO}, ~Head(q).confirm
    PROVE  /\ Head(q).from = ServerAddr
           /\ ~Quiet(q)
           /\ Quiet(Tail(q))
<1>1. /\ Head(q) = q[1] /\ 1 \in DOMAIN q /\ DOMAIN q \subseteq Nat \ {0}
      /\ \A k \in DOMAIN Tail(q) : k + 1 \in DOMAIN q /\ Tail(q)[k] = q[k + 1]
                                   /\ ~(k + 1 <= 1)
  OBVIOUS
<1>2. IsAnswer(q[1]) \/ IsListLine(q[1])
  BY <1>1 DEF Genuine, IsGenuine
<1>3. q[1].from = ServerAddr /\ ~q[1].confirm
  BY <1>1, <1>2 DEF IsAnswer, IsListLine
<1>4. \A k \in DOMAIN q : IsAnswer(q[k]) \/ IsListLine(q[k]) => k <= 1
  <2> SUFFICES ASSUME NEW k \in DOMAIN q, IsAnswer(q[k]) \/ IsListLine(q[k])
               PROVE  k <= 1
    OBVIOUS
  <2>1. /\ IsAnswer(q[1]) /\ IsAnswer(q[k]) => 1 = k
        /\ IsAnswer(q[1]) /\ IsListLine(q[k]) => q[1].confirm
        /\ IsListLine(q[k]) /\ IsListLine(q[1]) /\ ~q[1].confirm => k <= 1
        /\ IsAnswer(q[k]) /\ IsListLine(q[1]) => k < 1
    BY <1>1 DEF Orderly
  <2>2. k \in Nat
    BY <1>1
  <2> QED
    BY <1>2, <1>3, <2>1, <2>2
<1>5. ~Quiet(q)
  BY <1>1, <1>2 DEF Quiet
<1>6. Quiet(Tail(q))
  BY <1>1, <1>4 DEF Quiet
<1> QED
  BY <1>1, <1>3, <1>5, <1>6

LEMMA LosesKeepsOrder ==
    ASSUME TypeOK, Loses, NEW c \in Addrs, AnswersOrdered(c)
    PROVE  AnswersOrdered(c)'
<1>1. Fewer(inbox, inbox', c) /\ Kept(outbox[c], outbox'[c])
  BY WithinFewer, WithinKept DEF Loses, TypeOK
<1>2. Awaits(c)' = Awaits(c)
  BY DEF Loses, Awaits
<1> QED
  BY <1>1, <1>2 DEF AnswersOrdered, Fewer, Kept

\* The server answers who asked, and nothing of an answer was there before.
LEMMA AnswersKeepsOrder ==
    ASSUME TypeOK, Answers, NEW c \in Addrs, AnswersOrdered(c)
    PROVE  AnswersOrdered(c)'
<1>1. inbox # <<>> /\ inbox' = Tail(inbox) /\ Awaits(c)' = Awaits(c)
  BY DEF Answers, Awaits
<1>2. PICK q : outbox'[c] = outbox[c] \o q /\ Sent(q, c)
  BY DEF Answers
<1>3. /\ Fewer(inbox, inbox', c)
      /\ AskOf(Head(inbox), c) => ~NoAsk(inbox, c)
      /\ AskOf(Head(inbox), c) /\ OneAsk(inbox, c) => NoAsk(inbox', c)
  BY <1>1, FirstTaken DEF TypeOK
<1>4. /\ outbox[c] \in Seq(Message) /\ q \in Seq(Message)
      /\ Orderly(q) /\ Genuine(q)
      /\ ~Quiet(q) => AskOf(Head(inbox), c)
  BY <1>2 DEF TypeOK, Sent, Served, IsServed, Genuine
<1>5. Quiet(q) \/ Quiet(outbox[c])
  BY <1>3, <1>4 DEF AnswersOrdered
<1>6. Orderly(outbox'[c]) /\ Genuine(outbox'[c])
  BY <1>2, <1>4, <1>5, JoinedOrderly, QuietJoins, GenuineConcat
  DEF AnswersOrdered
<1>7. Quiet(q) /\ Quiet(outbox[c]) => Quiet(outbox'[c])
  BY <1>2, <1>4, QuietConcat
<1> QED
  BY <1>1, <1>3, <1>4, <1>6, <1>7 DEF AnswersOrdered, Fewer

\* What c receives, and of the requests those of c, when some client b moves.
LEMMA MovesRequests ==
    ASSUME TypeOK, NEW b \in Addrs, MovesQueues(b), NEW c
    PROVE  /\ \/ inbox' = inbox
              \/ \E p \in Packet :
                     /\ inbox' = Append(inbox, p)
                     /\ p.from = b
                     /\ MaySend(b, ServerAddr, p.data.type, p.data.senderID)
           /\ b # c => Fewer(inbox, inbox', c)
<1>1. CASE inbox' = inbox
  BY <1>1 DEF Fewer
<1>2. ASSUME NEW p \in Packet, inbox' = Append(inbox, p), p.from = b, b # c
      PROVE  Fewer(inbox, inbox', c)
  <2>1. ~AskOf(p, c) /\ ~OutOf(p, c) /\ p.from # c
    BY <1>2 DEF AskOf, OutOf
  <2> QED
    BY <1>2, <2>1, RequestAdded DEF Fewer, TypeOK
<1> QED
  BY <1>1, <1>2 DEF MovesQueues

LEMMA MovesKeepsOrder ==
    ASSUME TypeOK, NEW b \in Addrs, Moves(b), NEW c \in Addrs, c \in Ordinary,
           AnswersOrdered(c)
    PROVE  AnswersOrdered(c)'
<1>1. Kept(outbox[c], outbox'[c]) /\ outbox[c] \in Seq(Message)
  BY DEF Moves, MovesQueues, TypeOK
<1>2. /\ \/ inbox' = inbox
         \/ \E p \in Packet :
                /\ inbox' = Append(inbox, p)
                /\ p.from = b
                /\ MaySend(b, ServerAddr, p.data.type, p.data.senderID)
      /\ b # c => Fewer(inbox, inbox', c)
  BY MovesRequests DEF Moves
<1>3. Orderly(outbox'[c]) /\ Genuine(outbox'[c])
  BY <1>1 DEF AnswersOrdered, Kept
<1>4. CASE b # c
  <2>1. Awaits(c)' = Awaits(c)
    BY <1>4 DEF Moves, MovesAlone, Awaits
  <2> QED
    BY <1>1, <1>2, <1>3, <1>4, <2>1 DEF AnswersOrdered, Fewer, Kept
<1>5. CASE b = c
  <2>1. \/ /\ NoAsk(inbox, c) => NoAsk(inbox', c)
           /\ OneAsk(inbox, c) => OneAsk(inbox', c)
        \/ /\ ~Awaits(c) /\ Awaits(c)'
           /\ NoAsk(inbox, c) => OneAsk(inbox', c)
    <3>1. CASE inbox' = inbox
      BY <3>1
    <3>2. ASSUME NEW p \in Packet, inbox' = Append(inbox, p),
                 MaySend(b, ServerAddr, p.data.type, p.data.senderID)
          PROVE  \/ /\ NoAsk(inbox, c) => NoAsk(inbox', c)
                    /\ OneAsk(inbox, c) => OneAsk(inbox', c)
                 \/ /\ ~Awaits(c) /\ Awaits(c)'
                    /\ NoAsk(inbox, c) => OneAsk(inbox', c)
      <4>1. AskOf(p, c) => ~Awaits(c) /\ Awaits(c)'
        BY <1>5, <3>2 DEF AskOf, MaySend, Awaits
      <4> QED
        BY <3>2, <4>1, RequestAdded DEF TypeOK
    <3> QED
      BY <1>2, <3>1, <3>2
  <2>2. Awaits(c) => Awaits(c)' \/ TakesEnd(c)
    BY <1>5 DEF Moves, MovesPlace
  <2>3. TakesEnd(c) => ~Quiet(outbox[c]) /\ Quiet(outbox'[c])
    BY <1>1, EndIsLast DEF TakesEnd, AnswersOrdered
  <2> QED
    BY <1>1, <1>3, <2>1, <2>2, <2>3 DEF AnswersOrdered, Fewer, Kept
<1> QED
  BY <1>4, <1>5

LEMMA StepKeepsOrder ==
    TypesOK /\ IInv /\ PInv /\ LInv /\ [SystemNext]_systemVars => LInv'
<1> SUFFICES ASSUME TypesOK, IInv, PInv, LInv, [SystemNext]_systemVars,
                    NEW c \in Ordinary
             PROVE  AnswersOrdered(c)'
  BY DEF LInv
<1>1. TypeOK /\ c \in Addrs /\ AnswersOrdered(c)
  BY DEF TypesOK, LInv, Ordinary
<1> QED
  BY <1>1, StepKinds, LosesKeepsOrder, AnswersKeepsOrder, MovesKeepsOrder

LEMMA InitOrder == SystemInit => LInv
BY DEF SystemInit, Init, ClientInit, LInv, Ordinary, AnswersOrdered, OneAsk,
       NoAsk, Quiet, Orderly, Genuine

LEMMA OrderInvariance == SystemSpec => [](TypesOK /\ IInv /\ PInv /\ LInv)
BY InitOrder, StepKeepsOrder, SocketInvariance, PTL DEF SystemSpec

\* A set of naturals with no two elements has one at most.
LEMMA AtMostOne ==
    ASSUME NEW S, \A x, y \in S : x = y
    PROVE  /\ Cardinality(S) \in {0, 1}
           /\ Cardinality(S) = 0 <=> S = {}
<1>1. CASE S = {}
  BY <1>1, FS_EmptySet
<1>2. ASSUME NEW x \in S PROVE Cardinality(S) = 1
  <2>1. S = {x}
    OBVIOUS
  <2> QED
    BY <2>1, FS_Singleton
<1> QED
  BY <1>1, <1>2

LEMMA OrderImplies ==
    ASSUME TypesOK, LInv
    PROVE  ListsAwaited
<1> SUFFICES ASSUME NEW c \in Ordinary
             PROVE  /\ ~Awaits(c) => /\ RequestsOf(c, TAG_LOGIN) = {}
                                     /\ RequestsOf(c, TAG_WHO) = {}
                                     /\ LoginAnswers(c) = {}
                                     /\ ListLines(c) = {}
                    /\ Cardinality(RequestsOf(c, TAG_LOGIN))
                           + Cardinality(LoginAnswers(c)) <= 1
                    /\ Cardinality(RequestsOf(c, TAG_WHO))
                           + Cardinality(EndMarks(c)) <= 1
                    /\ \A k \in ListLines(c), j \in EndMarks(c) : k <= j
  BY DEF ListsAwaited
<1>1. c \in Addrs /\ AnswersOrdered(c)
  BY DEF LInv, Ordinary
<1>2. /\ LoginAnswers(c) = {k \in DOMAIN outbox[c] : IsAnswer(outbox[c][k])}
      /\ ListLines(c) = {k \in DOMAIN outbox[c] : IsListLine(outbox[c][k])}
      /\ EndMarks(c) = {k \in ListLines(c) : ~outbox[c][k].confirm}
  BY DEF LoginAnswers, ListLines, EndMarks, IsAnswer, IsListLine
<1>3. DOMAIN outbox[c] \subseteq Nat
  BY <1>1 DEF TypesOK, TypeOK
<1>4. NoAsk(inbox, c) <=> /\ RequestsOf(c, TAG_LOGIN) = {}
                          /\ RequestsOf(c, TAG_WHO) = {}
  BY DEF NoAsk, AskOf, RequestsOf
<1>5. Quiet(outbox[c]) <=> LoginAnswers(c) = {} /\ ListLines(c) = {}
  BY <1>2 DEF Quiet
<1>6. /\ \A j, k \in RequestsOf(c, TAG_LOGIN) : j = k
      /\ \A j, k \in RequestsOf(c, TAG_WHO) : j = k
  BY <1>1 DEF AnswersOrdered, OneAsk, AskOf, RequestsOf
<1>7. \A j, k \in LoginAnswers(c) : j = k
  BY <1>1, <1>2 DEF AnswersOrdered, Orderly
<1>8. \A k \in ListLines(c), j \in EndMarks(c) : k <= j
  BY <1>1, <1>2 DEF AnswersOrdered, Orderly
<1>9. \A j, k \in EndMarks(c) : j = k
  <2>1. \A k \in EndMarks(c) : k \in ListLines(c) /\ k \in Nat
    BY <1>2, <1>3
  <2>2. \A j, k \in EndMarks(c) : k <= j /\ j <= k
    BY <1>8, <2>1
  <2> QED
    BY <2>1, <2>2
<1>10. EndMarks(c) # {} => ListLines(c) # {}
  BY <1>2
<1>11. ASSUME NEW S, NEW T, \A j, k \in S : j = k, \A j, k \in T : j = k,
              S = {} \/ T = {}
       PROVE  Cardinality(S) + Cardinality(T) <= 1
  BY <1>11, AtMostOne
<1>12. /\ RequestsOf(c, TAG_LOGIN) = {} \/ LoginAnswers(c) = {}
       /\ RequestsOf(c, TAG_WHO) = {} \/ EndMarks(c) = {}
  BY <1>1, <1>4, <1>5, <1>10 DEF AnswersOrdered
<1>13. /\ Cardinality(RequestsOf(c, TAG_LOGIN)) + Cardinality(LoginAnswers(c)) <= 1
       /\ Cardinality(RequestsOf(c, TAG_WHO)) + Cardinality(EndMarks(c)) <= 1
  BY <1>6, <1>7, <1>9, <1>11, <1>12
<1>14. ~Awaits(c) => NoAsk(inbox, c) /\ Quiet(outbox[c])
  BY <1>1 DEF AnswersOrdered
<1> QED
  BY <1>4, <1>5, <1>8, <1>13, <1>14

\* Nothing of an answer outlives its reader, although answers carry no number:
\* for every set of clients and users, with or without loss, at every client
\* whose users are not user 0.
THEOREM AnswersAwaited == SystemSpec => []ListsAwaited
BY OrderInvariance, OrderImplies, PTL

-----------------------------------------------------------------------------
(* Whoever believes to be logged in is. *)

\* Where a client is from its logout until it has the next list.
Outside == LoginPlaces \cup {"loggedOut", "exited"}

\* The server has a session of c for whom c believes to be, for whom a
\* confirmation for c is on the way, and for whom c has asked to be logged out;
\* and a logout is served before anything is asked or confirmed again.
Held(c) ==
    /\ OutFirst(inbox, c)
    /\ NoOut(inbox, c) \/ (Quiet(outbox[c]) /\ place[c] \in Outside)
    /\ InSession(c) /\ userID[c] # SERVER_ID =>
           SessionIn(users, userID[c]) = c /\ NoOut(inbox, c)
    /\ \A k \in DOMAIN inbox :
           LET id == inbox[k].data.senderID
           IN  OutOf(inbox[k], c) /\ id # SERVER_ID => SessionIn(users, id) = c
    /\ \A k \in DOMAIN outbox[c] :
           LET m == outbox[c][k]
           IN  IsAnswer(m) /\ m.confirm /\ m.senderID # SERVER_ID =>
                   SessionIn(users, m.senderID) = c

BInv == \A c \in Addrs : Held(c)

\* If c takes a login for its confirmation that is not from the server, it has
\* the session it believes in all the same.
ForgedHarmless(c) ==
    TakesConfirmation(c) /\ Head(outbox[c]).from \in Addrs
        /\ userID[c] # SERVER_ID =>
            SessionIn(users, userID[c]) = c /\ NoOut(inbox, c)

LEMMA LosesKeepsHeld ==
    ASSUME TypeOK, Loses, NEW c \in Addrs, Held(c)
    PROVE  Held(c)'
<1>1. Fewer(inbox, inbox', c) /\ Kept(outbox[c], outbox'[c])
  BY WithinFewer, WithinKept DEF Loses, TypeOK
<1>2. UNCHANGED <<users, place, userID>> /\ InSession(c)' = InSession(c)
  BY DEF Loses, InSession
<1>3. \A k \in DOMAIN inbox' :
          LET id == inbox'[k].data.senderID
          IN  OutOf(inbox'[k], c) /\ id # SERVER_ID => SessionIn(users', id) = c
  BY <1>1, <1>2 DEF Held, Fewer, OutOf
<1>4. \A k \in DOMAIN outbox'[c] :
          LET m == outbox'[c][k]
          IN  IsAnswer(m) /\ m.confirm /\ m.senderID # SERVER_ID =>
                  SessionIn(users', m.senderID) = c
  BY <1>1, <1>2 DEF Held, Kept
<1>5. OutFirst(inbox', c) /\ (NoOut(inbox, c) => NoOut(inbox', c))
      /\ (Quiet(outbox[c]) => Quiet(outbox'[c]))
  BY <1>1 DEF Held, Fewer, Kept
<1> QED
  BY <1>2, <1>3, <1>4, <1>5 DEF Held

\* The server ends a session only for the logout of the client who has it.
LEMMA SessionKept ==
    ASSUME TypeOK, BInv, Answers, NEW c \in Addrs,
           NEW i \in UserIds, i # SERVER_ID, SessionIn(users, i) = c
    PROVE  SessionIn(users', i) = c \/ OutOf(Head(inbox), c)
<1> SUFFICES ASSUME SessionIn(users', i) # c
             PROVE  OutOf(Head(inbox), c)
  OBVIOUS
<1>1. /\ inbox # <<>>
      /\ Head(inbox).data.type = TAG_LOGOUT /\ Head(inbox).data.senderID = i
  BY TalkServerAssumption DEF Answers
<1>2. /\ 1 \in DOMAIN inbox /\ inbox[1] = Head(inbox)
      /\ Head(inbox) \in Packet
  BY <1>1 DEF TypeOK
<1> DEFINE b == Head(inbox).from
<1>3. b \in Addrs /\ OutOf(Head(inbox), b)
  BY <1>1, <1>2 DEF Packet, OutOf
<1>4. SessionIn(users, i) = b
  BY <1>1, <1>2, <1>3 DEF BInv, Held
<1> QED
  BY <1>3, <1>4

LEMMA AnswersKeepsHeld ==
    ASSUME TypeOK, OwnTypes, BInv, Answers, NEW c \in Addrs
    PROVE  Held(c)'
<1>0. Held(c)
  BY DEF BInv
<1>1. /\ inbox # <<>> /\ inbox' = Tail(inbox)
      /\ UNCHANGED <<place, userID>> /\ InSession(c)' = InSession(c)
  BY DEF Answers, InSession
<1>2. PICK q : outbox'[c] = outbox[c] \o q /\ Sent(q, c)
  BY DEF Answers
<1>3. /\ Fewer(inbox, inbox', c)
      /\ OutOf(Head(inbox), c) => ~NoOut(inbox, c)
      /\ OutOf(Head(inbox), c) => NoOut(inbox', c)
      /\ AskOf(Head(inbox), c) => NoOut(inbox, c)
  BY <1>0, <1>1, FirstTaken DEF TypeOK, Held
<1>4. /\ outbox[c] \in Seq(Message) /\ q \in Seq(Message)
      /\ ~Quiet(q) => AskOf(Head(inbox), c)
      /\ \A k \in DOMAIN q : IsAnswer(q[k]) /\ q[k].confirm =>
             SessionIn(users', q[k].senderID) = c
  BY <1>2 DEF TypeOK, Sent
<1>5. OutFirst(inbox', c) /\ (NoOut(inbox, c) => NoOut(inbox', c))
  BY <1>0, <1>3 DEF Held, Fewer
<1>6. NoOut(inbox', c) \/ (Quiet(outbox'[c]) /\ place'[c] \in Outside)
  BY <1>0, <1>1, <1>2, <1>3, <1>4, <1>5, QuietConcat DEF Held
<1>7. InSession(c)' /\ userID'[c] # SERVER_ID =>
          SessionIn(users', userID'[c]) = c /\ NoOut(inbox', c)
  <2> SUFFICES ASSUME InSession(c), userID[c] # SERVER_ID
               PROVE  SessionIn(users', userID[c]) = c /\ NoOut(inbox', c)
    BY <1>1
  <2>0. userID[c] \in UserIds
    BY DEF OwnTypes
  <2>1. SessionIn(users, userID[c]) = c /\ NoOut(inbox, c)
    BY <1>0 DEF Held
  <2> QED
    BY <1>3, <1>5, <2>0, <2>1, SessionKept
<1>8. \A k \in DOMAIN inbox' :
          LET id == inbox'[k].data.senderID
          IN  OutOf(inbox'[k], c) /\ id # SERVER_ID => SessionIn(users', id) = c
  <2> SUFFICES ASSUME NEW k \in DOMAIN inbox', OutOf(inbox'[k], c),
                      inbox'[k].data.senderID # SERVER_ID
               PROVE  SessionIn(users', inbox'[k].data.senderID) = c
    OBVIOUS
  <2>1. PICK j \in DOMAIN inbox : inbox[j] = inbox'[k]
    BY <1>3 DEF Fewer, OutOf
  <2>2. SessionIn(users, inbox[j].data.senderID) = c
    BY <1>0, <2>1 DEF Held
  <2>3. inbox[j].data.senderID \in UserIds
    <3>1. inbox[j] \in Packet
      BY DEF TypeOK
    <3> QED
      BY <3>1 DEF Packet, Request
  <2>4. ~NoOut(inbox', c)
    BY DEF NoOut
  <2> QED
    BY <1>3, <2>1, <2>2, <2>3, <2>4, SessionKept
<1>9. \A k \in DOMAIN outbox'[c] :
          LET m == outbox'[c][k]
          IN  IsAnswer(m) /\ m.confirm /\ m.senderID # SERVER_ID =>
                  SessionIn(users', m.senderID) = c
  <2> DEFINE r == outbox[c] \o q
  <2>1. ASSUME NEW k \in DOMAIN outbox[c], NEW m, m = outbox[c][k],
               IsAnswer(m), m.confirm, m.senderID # SERVER_ID
        PROVE  SessionIn(users', m.senderID) = c
    <3>1. SessionIn(users, m.senderID) = c
      BY <1>0, <2>1 DEF Held
    <3>2. m.senderID \in UserIds
      <4>1. m \in Message
        BY <1>4, <2>1
      <4> QED
        BY <4>1 DEF Message
    <3>3. ~Quiet(outbox[c])
      BY <2>1 DEF Quiet
    <3>4. ~OutOf(Head(inbox), c)
      BY <1>0, <1>3, <3>3 DEF Held
    <3> QED
      BY <2>1, <3>1, <3>2, <3>4, SessionKept
  <2>2. ASSUME NEW k \in DOMAIN r
        PROVE  \/ \E j \in DOMAIN outbox[c] : r[k] = outbox[c][j]
               \/ \E j \in DOMAIN q : r[k] = q[j]
    BY <1>4, ConcatElements
  <2>3. outbox'[c] = r
    BY <1>2
  <2> HIDE DEF r
  <2> QED
    BY <1>4, <2>1, <2>2, <2>3
<1> QED
  BY <1>5, <1>6, <1>7, <1>8, <1>9 DEF Held

\* A step of c itself.
LEMMA OwnKeepsHeld ==
    ASSUME TypeOK, NEW c \in Addrs, c \in Ordinary, Moves(c), AnswersOrdered(c),
           Held(c), ForgedHarmless(c)
    PROVE  Held(c)'
<1>1. /\ users' = users
      /\ Kept(outbox[c], outbox'[c])
      /\ outbox[c] \in Seq(Message) /\ outbox'[c] \in Seq(Message)
  BY DEF Moves, MovesQueues, TypeOK
<1>2. /\ Awaits(c) => Awaits(c)' \/ TakesEnd(c)
      /\ InSession(c)' => /\ userID'[c] = userID[c]
                          /\ InSession(c) \/ TakesConfirmation(c)
      /\ place[c] \in Outside => place'[c] \in Outside \/ TakesEnd(c)
  BY DEF Moves, MovesPlace, Outside, LoginPlaces
<1>3. TakesEnd(c) => ~Quiet(outbox[c])
  BY <1>1, EndIsLast DEF TakesEnd, AnswersOrdered
<1>4. InSession(c)' /\ userID'[c] # SERVER_ID =>
          SessionIn(users, userID[c]) = c /\ NoOut(inbox, c)
  <2>1. ASSUME TakesConfirmation(c), Head(outbox[c]).from \notin Addrs,
               userID[c] # SERVER_ID
        PROVE  SessionIn(users, userID[c]) = c /\ NoOut(inbox, c)
    <3> DEFINE m == Head(outbox[c])
    <3>1. m \in Message /\ 1 \in DOMAIN outbox[c] /\ outbox[c][1] = m
      BY <1>1, <2>1 DEF TakesConfirmation
    <3>2. m.from = ServerAddr
      BY <2>1, <3>1 DEF Message
    <3>3. m.confirm /\ m.type = TAG_LOGIN /\ m.senderID = userID[c]
      BY <2>1 DEF TakesConfirmation
    <3> HIDE DEF m
    <3>4. IsAnswer(m)
      BY <2>1, <3>1, <3>2, <3>3 DEF AnswersOrdered, Genuine, IsGenuine
    <3>5. SessionIn(users, userID[c]) = c
      BY <2>1, <3>1, <3>3, <3>4 DEF Held
    <3>6. ~Quiet(outbox[c])
      BY <3>1, <3>4 DEF Quiet
    <3> QED
      BY <3>5, <3>6 DEF Held
  <2> QED
    BY <1>2, <2>1 DEF Held, ForgedHarmless
<1>5. \A k \in DOMAIN outbox'[c] :
          LET m == outbox'[c][k]
          IN  IsAnswer(m) /\ m.confirm /\ m.senderID # SERVER_ID =>
                  SessionIn(users', m.senderID) = c
  BY <1>1 DEF Held, Kept
<1>6. ASSUME NoOut(inbox, c) => NoOut(inbox', c), OutFirst(inbox', c),
             \A k \in DOMAIN inbox' :
                 OutOf(inbox'[k], c) => \E j \in DOMAIN inbox : inbox[j] = inbox'[k]
      PROVE  Held(c)'
  <2>1. NoOut(inbox', c) \/ (Quiet(outbox'[c]) /\ place'[c] \in Outside)
    BY <1>1, <1>2, <1>3, <1>6 DEF Held, Kept
  <2>2. InSession(c)' /\ userID'[c] # SERVER_ID =>
            SessionIn(users', userID'[c]) = c /\ NoOut(inbox', c)
    BY <1>1, <1>2, <1>4, <1>6
  <2>3. \A k \in DOMAIN inbox' :
            LET id == inbox'[k].data.senderID
            IN  OutOf(inbox'[k], c) /\ id # SERVER_ID => SessionIn(users', id) = c
    BY <1>1, <1>6 DEF Held
  <2> QED
    BY <1>5, <1>6, <2>1, <2>2, <2>3 DEF Held
<1>7. CASE inbox' = inbox
  BY <1>6, <1>7 DEF Held
<1>8. ASSUME NEW p \in Packet, inbox' = Append(inbox, p), ~OutOf(p, c)
      PROVE  Held(c)'
  <2>1. /\ NoOut(inbox, c) => NoOut(inbox', c)
        /\ OutFirst(inbox', c)
        /\ \A k \in DOMAIN inbox' :
               inbox'[k] = p \/ \E j \in DOMAIN inbox : inbox[j] = inbox'[k]
    BY <1>8, RequestAdded DEF TypeOK, Held
  <2> QED
    BY <1>6, <1>8, <2>1
<1>9. ASSUME NEW p \in Packet, inbox' = Append(inbox, p), OutOf(p, c),
             MaySend(c, ServerAddr, p.data.type, p.data.senderID)
      PROVE  Held(c)'
  <2>1. place[c] = "menu" /\ place'[c] = "loggedOut" /\ p.data.senderID = userID[c]
    BY <1>9 DEF OutOf, MaySend
  <2>2. /\ InSession(c) /\ ~Awaits(c) /\ place[c] \notin Outside
        /\ ~InSession(c)' /\ place'[c] \in Outside
    BY <2>1 DEF InSession, Awaits, Outside, LoginPlaces
  <2>3. NoAsk(inbox, c) /\ Quiet(outbox[c]) /\ NoOut(inbox, c)
    BY <2>2 DEF AnswersOrdered, Held
  <2>4. /\ OutFirst(inbox', c)
        /\ \A k \in DOMAIN inbox' :
               inbox'[k] = p \/ \E j \in DOMAIN inbox : inbox[j] = inbox'[k]
    BY <1>9, <2>3, RequestAdded DEF TypeOK
  <2>5. \A k \in DOMAIN inbox' : OutOf(inbox'[k], c) => inbox'[k] = p
    BY <2>3, <2>4 DEF NoOut
  <2>6. p.data.senderID # SERVER_ID => SessionIn(users', p.data.senderID) = c
    BY <1>1, <2>1, <2>2 DEF Held
  <2>7. Quiet(outbox'[c])
    BY <1>1, <2>3 DEF Kept
  <2> QED
    BY <1>5, <2>2, <2>4, <2>5, <2>6, <2>7 DEF Held
<1> QED
  BY <1>7, <1>8, <1>9, MovesRequests DEF Moves

\* A step of another client.
LEMMA OtherKeepsHeld ==
    ASSUME TypeOK, NEW b \in Addrs, Moves(b), NEW c \in Addrs, b # c, Held(c)
    PROVE  Held(c)'
<1>1. /\ Kept(outbox[c], outbox'[c]) /\ Fewer(inbox, inbox', c)
      /\ users' = users
  BY MovesRequests DEF Moves, MovesQueues
<1>2. place'[c] = place[c] /\ userID'[c] = userID[c] /\ InSession(c)' = InSession(c)
  BY DEF Moves, MovesAlone, InSession
<1>3. \A k \in DOMAIN inbox' :
          LET id == inbox'[k].data.senderID
          IN  OutOf(inbox'[k], c) /\ id # SERVER_ID => SessionIn(users', id) = c
  BY <1>1 DEF Held, Fewer, OutOf
<1>4. \A k \in DOMAIN outbox'[c] :
          LET m == outbox'[c][k]
          IN  IsAnswer(m) /\ m.confirm /\ m.senderID # SERVER_ID =>
                  SessionIn(users', m.senderID) = c
  BY <1>1 DEF Held, Kept
<1>5. /\ OutFirst(inbox', c)
      /\ NoOut(inbox, c) => NoOut(inbox', c)
      /\ Quiet(outbox[c]) => Quiet(outbox'[c])
  BY <1>1 DEF Held, Fewer, Kept
<1> QED
  BY <1>1, <1>2, <1>3, <1>4, <1>5 DEF Held

\* Every step keeps what is held, if no forged confirmation does harm.
LEMMA StepKeepsHeld ==
    ASSUME Ordinary = Addrs
    PROVE  TypesOK /\ IInv /\ PInv /\ LInv /\ BInv
               /\ (\A c \in Addrs : ForgedHarmless(c))
               /\ [SystemNext]_systemVars => BInv'
<1>1. TypesOK => TypeOK /\ OwnTypes
  BY DEF TypesOK
<1>2. BInv' <=> \A c \in Addrs : Held(c)'
  BY DEF BInv
<1>3. BInv <=> \A c \in Addrs : Held(c)
  BY DEF BInv
<1>4. LInv => \A c \in Addrs : AnswersOrdered(c)
  BY DEF LInv
<1> QED
  BY <1>1, <1>2, <1>3, <1>4, StepKinds, LosesKeepsHeld, AnswersKeepsHeld,
     OwnKeepsHeld, OtherKeepsHeld

LEMMA InitHeld == SystemInit => BInv
BY DEF SystemInit, Init, ClientInit, BInv, Held, OutFirst, NoOut, InSession

\* As long as no request goes astray, a login from a client is in no queue of a
\* client, and so is taken for no confirmation.
LEMMA NoneForged ==
    ASSUME TypeOK, ~Astray, NEW c \in Addrs
    PROVE  ForgedHarmless(c)
<1> SUFFICES ASSUME TakesConfirmation(c), Head(outbox[c]).from \in Addrs
             PROVE  FALSE
  BY DEF ForgedHarmless
<1>1. 1 \in DOMAIN outbox[c] /\ outbox[c][1] = Head(outbox[c])
  BY DEF TypeOK, TakesConfirmation
<1> QED
  BY <1>1 DEF Astray, TakesConfirmation

\* Where nobody logs in as user 0, nobody has a session as user 0.
LEMMA NobodyIsZero ==
    ASSUME Ordinary = Addrs, PInv, NEW c \in Addrs, InSession(c)
    PROVE  userID[c] # SERVER_ID
<1>1. userID[c] \in Names[c]
  BY DEF PInv, SocketOK, Named, InSession
<1> QED
  BY <1>1 DEF Ordinary

\* While no request goes astray and nobody logs in as user 0, one identifier is
\* one client: for every set of clients and users, with or without loss.
THEOREM OneClient == SystemSpec => OneClientPerUser
<1> DEFINE OneEach ==
        \A b, c \in Addrs :
            InSession(b) /\ InSession(c) /\ userID[b] = userID[c] => b = c
<1> SUFFICES ASSUME Ordinary = Addrs
             PROVE  SystemSpec /\ []~Astray => []OneEach
  BY DEF OneClientPerUser
<1>1. TypesOK /\ IInv /\ PInv /\ LInv /\ BInv /\ ~Astray /\ [SystemNext]_systemVars
          => BInv'
  BY StepKeepsHeld, NoneForged DEF TypesOK
<1>2. PInv => \A c \in Addrs : InSession(c) => userID[c] # SERVER_ID
  BY NobodyIsZero
<1>3. PInv /\ BInv => OneEach
  BY <1>2 DEF BInv, Held
<1> HIDE DEF OneEach
<1> QED
  BY <1>1, <1>3, InitHeld, OrderInvariance, PTL DEF SystemSpec

-----------------------------------------------------------------------------
(* Requests that go astray, where every client has a user of its own. *)

IsStray(m, c) == m.type = TAG_LOGIN /\ m.from = c

\* A login goes astray only after a logout did: the server still has the session
\* of c, and has nothing to do for c.
Strays(c) ==
    /\ \A b \in Addrs : \A k \in DOMAIN outbox[b] :
           IsStray(outbox[b][k], c) =>
               /\ outbox[b][k].senderID = userID[c]
               /\ place[c] \in LoginPlaces
               /\ NoAsk(inbox, c) /\ NoOut(inbox, c) /\ Quiet(outbox[c])
               /\ userID[c] # SERVER_ID => SessionIn(users, userID[c]) = c
    /\ place[c] = "loggedOut" /\ theServerAddress[c] # ServerAddr =>
           /\ NoOut(inbox, c)
           /\ \A i \in Names[c] : i # SERVER_ID => SessionIn(users, i) = c
    /\ \/ userID[c] \in Names[c]
       \/ place[c] = "loggedOut" /\ theServerAddress[c] = ServerAddr
       \/ place[c] = "exited"

StrayInv == \A c \in Addrs : Strays(c)

LEMMA LosesKeepsStrays ==
    ASSUME TypeOK, Loses, NEW c \in Addrs, Strays(c)
    PROVE  Strays(c)'
<1>1. Fewer(inbox, inbox', c) /\ Kept(outbox[c], outbox'[c])
  BY WithinFewer, WithinKept DEF Loses, TypeOK
<1>2. UNCHANGED <<users, place, userID, theServerAddress>>
  BY DEF Loses
<1>3. \A b \in Addrs : \A k \in DOMAIN outbox'[b] :
          \E j \in DOMAIN outbox[b] : outbox[b][j] = outbox'[b][k]
  BY WithinElements DEF Loses
<1>4. /\ NoAsk(inbox, c) => NoAsk(inbox', c)
      /\ NoOut(inbox, c) => NoOut(inbox', c)
      /\ Quiet(outbox[c]) => Quiet(outbox'[c])
  BY <1>1 DEF Fewer, Kept
<1> QED
  BY <1>2, <1>3, <1>4 DEF Strays

LEMMA AnswersKeepsStrays ==
    ASSUME TypeOK, OwnTypes, BInv, Answers, NEW c \in Addrs, Strays(c)
    PROVE  Strays(c)'
<1>1. /\ inbox # <<>> /\ inbox' = Tail(inbox)
      /\ UNCHANGED <<place, userID, theServerAddress>>
  BY DEF Answers
<1>2. /\ Fewer(inbox, inbox', c)
      /\ OutOf(Head(inbox), c) => ~NoOut(inbox, c)
      /\ AskOf(Head(inbox), c) => ~NoAsk(inbox, c)
  BY <1>1, FirstTaken DEF TypeOK
<1>3. ASSUME NEW b \in Addrs, NEW k \in DOMAIN outbox'[b],
             IsStray(outbox'[b][k], c)
      PROVE  \E j \in DOMAIN outbox[b] : outbox[b][j] = outbox'[b][k]
  <2>1. PICK q : outbox'[b] = outbox[b] \o q /\ Sent(q, b)
    BY DEF Answers
  <2>2. outbox[b] \in Seq(Message) /\ q \in Seq(Message)
    BY <2>1 DEF TypeOK, Sent
  <2>3. \/ \E j \in DOMAIN outbox[b] : outbox'[b][k] = outbox[b][j]
        \/ \E j \in DOMAIN q : outbox'[b][k] = q[j]
    <3> DEFINE r == outbox[b] \o q
    <3>1. \A i \in DOMAIN r : \/ \E j \in DOMAIN outbox[b] : r[i] = outbox[b][j]
                              \/ \E j \in DOMAIN q : r[i] = q[j]
      BY <2>2, ConcatElements
    <3> QED
      BY <2>1, <3>1
  <2>4. \A j \in DOMAIN q : q[j].from \notin Addrs
    BY <2>1, TalkServerAssumption DEF Sent, Served, IsServed
  <2> QED
    BY <1>3, <2>3, <2>4 DEF IsStray
<1>4. ASSUME NEW i \in UserIds, i # SERVER_ID, SessionIn(users, i) = c,
             NoOut(inbox, c)
      PROVE  SessionIn(users', i) = c
  BY <1>2, <1>4, SessionKept
<1>5. /\ NoAsk(inbox, c) => NoAsk(inbox', c)
      /\ NoOut(inbox, c) => NoOut(inbox', c)
  BY <1>2 DEF Fewer
<1>6. NoAsk(inbox, c) /\ Quiet(outbox[c]) => Quiet(outbox'[c])
  <2>1. PICK q : outbox'[c] = outbox[c] \o q /\ Sent(q, c)
    BY DEF Answers
  <2> QED
    BY <1>2, <2>1, QuietConcat DEF TypeOK, Sent
<1>7. userID[c] \in UserIds /\ Names[c] \subseteq UserIds
  BY TalkSystemAssumption DEF OwnTypes
<1>8. \A b \in Addrs : \A k \in DOMAIN outbox'[b] :
          IsStray(outbox'[b][k], c) =>
              /\ outbox'[b][k].senderID = userID'[c]
              /\ place'[c] \in LoginPlaces
              /\ NoAsk(inbox', c) /\ NoOut(inbox', c) /\ Quiet(outbox'[c])
              /\ userID'[c] # SERVER_ID => SessionIn(users', userID'[c]) = c
  BY <1>1, <1>3, <1>4, <1>5, <1>6, <1>7 DEF Strays
<1>9. place'[c] = "loggedOut" /\ theServerAddress'[c] # ServerAddr =>
          /\ NoOut(inbox', c)
          /\ \A i \in Names[c] : i # SERVER_ID => SessionIn(users', i) = c
  BY <1>1, <1>4, <1>5, <1>7 DEF Strays
<1> QED
  BY <1>1, <1>8, <1>9 DEF Strays

LEMMA OtherKeepsStrays ==
    ASSUME TypeOK, NEW b \in Addrs, Moves(b), NEW c \in Addrs, b # c, Strays(c)
    PROVE  Strays(c)'
<1>1. /\ Kept(outbox[c], outbox'[c]) /\ Fewer(inbox, inbox', c)
      /\ users' = users
  BY MovesRequests DEF Moves, MovesQueues
<1>2. /\ place'[c] = place[c] /\ userID'[c] = userID[c]
      /\ theServerAddress'[c] = theServerAddress[c]
  BY DEF Moves, MovesAlone
<1>3. \A x \in Addrs : \A k \in DOMAIN outbox'[x] :
          IsStray(outbox'[x][k], c) =>
              \E j \in DOMAIN outbox[x] : outbox[x][j] = outbox'[x][k]
  BY DEF Moves, MovesQueues, IsStray
<1>4. /\ NoAsk(inbox, c) => NoAsk(inbox', c)
      /\ NoOut(inbox, c) => NoOut(inbox', c)
      /\ Quiet(outbox[c]) => Quiet(outbox'[c])
  BY <1>1 DEF Fewer, Kept
<1> QED
  BY <1>1, <1>2, <1>3, <1>4 DEF Strays

\* A step of c itself: its logout has gone astray when its login does.
LEMMA OwnKeepsStrays ==
    ASSUME OneUserEach, TypeOK, NEW c \in Addrs, c \in Ordinary, Moves(c),
           AnswersOrdered(c), Held(c), Strays(c)
    PROVE  Strays(c)'
<1>1. /\ users' = users /\ Kept(outbox[c], outbox'[c])
      /\ outbox[c] \in Seq(Message)
  BY DEF Moves, MovesQueues, TypeOK
<1>2. TakesEnd(c) => /\ ~Quiet(outbox[c]) /\ Awaits(c)
                     /\ theServerAddress'[c] = ServerAddr
  BY <1>1, EndIsLast DEF TakesEnd, AnswersOrdered
<1>3. \/ inbox' = inbox
      \/ \E p \in Packet :
             /\ inbox' = Append(inbox, p)
             /\ MaySend(c, ServerAddr, p.data.type, p.data.senderID)
  BY MovesRequests DEF Moves
<1>4. ASSUME ~(place[c] = "menu" /\ place'[c] = "loggedOut"
                   /\ theServerAddress[c] = ServerAddr),
             NoOut(inbox, c)
      PROVE  NoOut(inbox', c)
  <2>1. ASSUME NEW p \in Packet,
               MaySend(c, ServerAddr, p.data.type, p.data.senderID)
        PROVE  ~OutOf(p, c)
    BY <1>4, <2>1 DEF OutOf, MaySend
  <2> QED
    BY <1>3, <1>4, <2>1, RequestAdded DEF TypeOK
<1>5. ASSUME \/ place[c] \notin {"loggedOut", "menu"}
             \/ place[c] = "loggedOut" /\ theServerAddress[c] # ServerAddr,
             NoAsk(inbox, c)
      PROVE  NoAsk(inbox', c)
  <2>1. ASSUME NEW p \in Packet,
               MaySend(c, ServerAddr, p.data.type, p.data.senderID)
        PROVE  ~AskOf(p, c)
    BY <1>5, <2>1 DEF AskOf, MaySend
  <2> QED
    BY <1>3, <1>5, <2>1, RequestAdded DEF TypeOK
<1>6. IF place[c] = "loggedOut" /\ place'[c] = "loggingIn"
      THEN userID'[c] \in Names[c] ELSE userID'[c] = userID[c]
  BY DEF Moves, MovesPlace
<1>7. ASSUME NEW b \in Addrs, NEW k \in DOMAIN outbox'[b],
             IsStray(outbox'[b][k], c)
      PROVE  /\ outbox'[b][k].senderID = userID'[c]
             /\ place'[c] \in LoginPlaces
             /\ NoAsk(inbox', c) /\ NoOut(inbox', c) /\ Quiet(outbox'[c])
             /\ userID'[c] # SERVER_ID => SessionIn(users', userID'[c]) = c
  <2> DEFINE m == outbox'[b][k]
  <2>1. \/ \E j \in DOMAIN outbox[b] : outbox[b][j] = m
        \/ MaySend(c, b, m.type, m.senderID)
    BY DEF Moves, MovesQueues
  <2>2. m.type = TAG_LOGIN /\ m.from = c
    BY <1>7 DEF IsStray
  <2> HIDE DEF m
  <2>3. CASE \E j \in DOMAIN outbox[b] : outbox[b][j] = m
    <3>1. /\ m.senderID = userID[c]
          /\ place[c] \in LoginPlaces
          /\ NoAsk(inbox, c) /\ NoOut(inbox, c) /\ Quiet(outbox[c])
          /\ userID[c] # SERVER_ID => SessionIn(users, userID[c]) = c
      BY <2>2, <2>3 DEF Strays, IsStray
    <3>2. place'[c] \in LoginPlaces
      BY <1>2, <3>1 DEF Moves, MovesPlace
    <3>3. userID'[c] = userID[c]
      BY <1>6, <3>1 DEF LoginPlaces
    <3>4. NoAsk(inbox', c) /\ NoOut(inbox', c) /\ Quiet(outbox'[c])
      BY <1>1, <1>4, <1>5, <3>1 DEF Kept, LoginPlaces
    <3> QED
      BY <1>1, <3>1, <3>2, <3>3, <3>4 DEF m
  <2>4. CASE MaySend(c, b, m.type, m.senderID)
    <3>1. /\ place[c] = "loggedOut" /\ place'[c] = "loggingIn"
          /\ b = theServerAddress[c] /\ m.senderID = userID'[c]
      BY <2>2, <2>4 DEF MaySend
    <3>2. theServerAddress[c] # ServerAddr
      BY <3>1, TalkServerAssumption
    <3>3. /\ NoOut(inbox, c) /\ userID'[c] \in Names[c]
          /\ userID'[c] # SERVER_ID => SessionIn(users, userID'[c]) = c
      BY <1>6, <3>1, <3>2 DEF Strays
    <3>4. NoAsk(inbox, c) /\ Quiet(outbox[c])
      BY <3>1 DEF AnswersOrdered, Awaits
    <3>5. NoAsk(inbox', c) /\ NoOut(inbox', c) /\ Quiet(outbox'[c])
      BY <1>1, <1>4, <1>5, <3>1, <3>2, <3>3, <3>4 DEF Kept
    <3> QED
      BY <1>1, <3>1, <3>3, <3>5 DEF m, LoginPlaces
  <2> QED
    BY <2>1, <2>3, <2>4
<1>8. ASSUME place'[c] = "loggedOut", theServerAddress'[c] # ServerAddr
      PROVE  /\ NoOut(inbox', c)
             /\ \A i \in Names[c] : i # SERVER_ID => SessionIn(users', i) = c
  <2>1. /\ place[c] \in {"menu", "loggedOut"}
        /\ theServerAddress[c] # ServerAddr
    BY <1>2, <1>8 DEF Moves, MovesPlace
  <2>2. CASE place[c] = "menu"
    <3>1. userID[c] \in Names[c] /\ \A i \in Names[c] : i = userID[c]
      BY <2>2 DEF Strays, OneUserEach
    <3>2. InSession(c) /\ place[c] \notin Outside
      BY <2>2 DEF InSession, Outside, LoginPlaces
    <3>3. /\ NoOut(inbox, c)
          /\ userID[c] # SERVER_ID => SessionIn(users, userID[c]) = c
      BY <3>2 DEF Held
    <3> QED
      BY <1>1, <1>4, <2>1, <3>1, <3>3
  <2>3. CASE place[c] = "loggedOut"
    BY <1>1, <1>4, <2>1, <2>3 DEF Strays
  <2> QED
    BY <2>1, <2>2, <2>3
<1>9. \/ userID'[c] \in Names[c]
      \/ place'[c] = "loggedOut" /\ theServerAddress'[c] = ServerAddr
      \/ place'[c] = "exited"
  <2>1. CASE userID[c] \in Names[c]
    BY <1>6, <2>1
  <2>2. CASE place[c] = "loggedOut" /\ theServerAddress[c] = ServerAddr
    <3>1. place'[c] \in {"loggedOut", "loggingIn", "exited"}
      BY <2>2 DEF Moves, MovesPlace
    <3>2. place'[c] = "loggedOut" => theServerAddress'[c] = ServerAddr
      BY <1>2, <2>2 DEF Moves, MovesPlace
    <3> QED
      BY <1>6, <2>2, <3>1, <3>2
  <2>3. CASE place[c] = "exited"
    BY <2>3 DEF Moves, MovesPlace
  <2> QED
    BY <2>1, <2>2, <2>3 DEF Strays
<1> QED
  BY <1>7, <1>8, <1>9 DEF Strays

\* A stray login that c takes for its confirmation is its own, for a session
\* that c still has.
LEMMA StraysHarmless ==
    ASSUME OneUserEach, TypeOK, StrayInv, NEW c \in Addrs
    PROVE  ForgedHarmless(c)
<1> DEFINE m == Head(outbox[c])
           b == m.from
<1> SUFFICES ASSUME TakesConfirmation(c), b \in Addrs, userID[c] # SERVER_ID
             PROVE  SessionIn(users, userID[c]) = c /\ NoOut(inbox, c)
  BY DEF ForgedHarmless
<1>1. /\ 1 \in DOMAIN outbox[c] /\ outbox[c][1] = m
      /\ m.type = TAG_LOGIN /\ m.senderID = userID[c] /\ place[c] = "takingAnswer"
  BY DEF TypeOK, TakesConfirmation
<1>2. IsStray(outbox[c][1], b)
  BY <1>1 DEF IsStray
<1> HIDE DEF b, m
<1>3. /\ userID[b] = userID[c]
      /\ place[b] \in LoginPlaces
      /\ NoOut(inbox, b)
      /\ userID[b] # SERVER_ID => SessionIn(users, userID[b]) = b
  BY <1>1, <1>2 DEF StrayInv, Strays
<1>4. userID[b] \in Names[b] /\ userID[c] \in Names[c]
  BY <1>1, <1>3 DEF StrayInv, Strays, LoginPlaces
<1>5. b = c
  BY <1>3, <1>4 DEF OneUserEach
<1> QED
  BY <1>3, <1>5

LEMMA InitStrays == SystemInit => StrayInv
BY DEF SystemInit, Init, ClientInit, StrayInv, Strays

LEMMA HeldImplies ==
    ASSUME Ordinary = Addrs, TypesOK, PInv, BInv
    PROVE  BeliefBacked
<1>1. \A c \in Addrs : userID[c] \in UserIds
  BY DEF TypesOK, OwnTypes
<1>2. \A i \in UserIds : SessionOf(i) = SessionIn(users, i)
  <2>1. [i \in UserIds |-> SessionOf(i)] = [i \in UserIds |-> SessionIn(users, i)]
    BY SessionOfIsSessionIn DEF SessionsIn
  <2>2. ASSUME NEW i \in UserIds
        PROVE  SessionOf(i) = SessionIn(users, i)
    <3>1. [j \in UserIds |-> SessionOf(j)][i]
              = [j \in UserIds |-> SessionIn(users, j)][i]
      BY <2>1
    <3> QED
      BY <3>1
  <2> QED
    BY <2>2
<1>3. \A c \in Addrs : InSession(c) => userID[c] # SERVER_ID
  BY NobodyIsZero
<1> QED
  BY <1>1, <1>2, <1>3 DEF BInv, Held, BeliefBacked

\* Where every client has a user of its own and not user 0, whoever has been let
\* in and has not left is logged in at the server, even if requests go astray:
\* for every set of clients and users, with or without loss.
THEOREM BeliefHolds == SystemSpec => []BeliefBacked
<1>1. CASE OneUserEach /\ Ordinary = Addrs
  <2>1. TypesOK /\ IInv /\ PInv /\ LInv /\ BInv /\ StrayInv
            /\ [SystemNext]_systemVars => BInv'
    BY <1>1, StepKeepsHeld, StraysHarmless DEF TypesOK
  <2>2. TypesOK /\ IInv /\ PInv /\ LInv /\ BInv /\ StrayInv
            /\ [SystemNext]_systemVars => StrayInv'
    <3>1. TypesOK => TypeOK /\ OwnTypes
      BY DEF TypesOK
    <3>2. /\ StrayInv' <=> \A c \in Addrs : Strays(c)'
          /\ StrayInv <=> \A c \in Addrs : Strays(c)
          /\ BInv <=> \A c \in Addrs : Held(c)
          /\ LInv <=> \A c \in Addrs : c \in Ordinary /\ AnswersOrdered(c)
      BY <1>1 DEF StrayInv, BInv, LInv
    <3> QED
      BY <1>1, <3>1, <3>2, StepKinds, LosesKeepsStrays, AnswersKeepsStrays,
         OwnKeepsStrays, OtherKeepsStrays
  <2>3. TypesOK /\ PInv /\ BInv => BeliefBacked
    BY <1>1, HeldImplies
  <2> QED
    BY <2>1, <2>2, <2>3, InitHeld, InitStrays, OrderInvariance, PTL
    DEF SystemSpec
<1>2. CASE ~(OneUserEach /\ Ordinary = Addrs)
  <2>1. BeliefBacked
    BY <1>2 DEF BeliefBacked
  <2> QED
    BY <2>1, PTL
<1> QED
  BY <1>1, <1>2
=============================================================================
