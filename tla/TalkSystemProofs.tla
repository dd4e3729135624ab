-------------------------- MODULE TalkSystemProofs --------------------------
(***************************************************************************)
(* What holds of the composed talk system for every set of clients and     *)
(* users, with or without loss, however much is typed.  The first part is  *)
(* about the memory the processes of one client share; the second shows    *)
(* that what TalkServerProofs says of the server with arbitrary clients    *)
(* holds with the clients of the repository.                               *)
(***************************************************************************)
EXTENDS TalkSystem, TalkAnswersProofs

-----------------------------------------------------------------------------
(* The request that is with the user. *)

\* The child has a request that it will publish.
HasRequest(c) == child[c] \in {"naming", "addressing", "flagging"}

FlagsOK ==
    /\ place \in [Addrs -> Places]
    /\ child \in [Addrs -> ChildPlaces]
    /\ talkRequest \in [Addrs -> BOOLEAN]

\* A request that is pending is the only one, and a prompt is about one.
OneRequestAt(c) ==
    /\ HasRequest(c) => ~talkRequest[c]
    /\ place[c] = "prompt" => talkRequest[c]

RInv == FlagsOK /\ \A c \in Addrs : OneRequestAt(c)

LEMMA InitRInv == SystemInit => RInv
BY DEF SystemInit, ClientInit, RInv, FlagsOK, OneRequestAt, HasRequest, Places,
       ChildPlaces

\* What a step may do with the flag and with the name: who resets the one has
\* not moved the child, and who changes the other is in one of two places.
SharedStep ==
    \A c \in Addrs :
        /\ talkRequest[c] /\ ~talkRequest'[c] => child'[c] = child[c]
        /\ otherID'[c] # otherID[c] => place[c] = "naming" \/ child[c] = "naming"

\* A step that moves the parent of c to a place that is no prompt.
LEMMA ParentMoves ==
    ASSUME RInv, NEW c \in Addrs, NEW p \in Places \ {"prompt"},
           place' = [place EXCEPT ![c] = p],
           UNCHANGED <<talkRequest, otherID, child>>
    PROVE  RInv' /\ SharedStep
BY DEF RInv, FlagsOK, OneRequestAt, HasRequest, SharedStep

\* And one that resets the flag, too.
LEMMA ParentResets ==
    ASSUME RInv, NEW c \in Addrs, NEW p \in Places \ {"prompt"},
           place' = [place EXCEPT ![c] = p],
           talkRequest' = [talkRequest EXCEPT ![c] = FALSE],
           UNCHANGED <<otherID, child>>
    PROVE  RInv' /\ SharedStep
BY DEF RInv, FlagsOK, OneRequestAt, HasRequest, SharedStep

LEMMA NothingMoves ==
    ASSUME RInv, UNCHANGED <<place, talkRequest, otherID, child>>
    PROVE  RInv' /\ SharedStep
BY DEF RInv, FlagsOK, OneRequestAt, HasRequest, SharedStep

\* A step that moves the child to a place where it has no request.
LEMMA ChildMoves ==
    ASSUME RInv, NEW c \in Addrs,
           NEW p \in ChildPlaces \ {"naming", "addressing", "flagging"},
           child' = [child EXCEPT ![c] = p],
           UNCHANGED <<place, talkRequest, otherID>>
    PROVE  RInv' /\ SharedStep
BY DEF RInv, FlagsOK, OneRequestAt, HasRequest, SharedStep

\* The user: only the two answers to a prompt are about the flag.
LEMMA UserKeepsRInv ==
    ASSUME RInv, NEW c \in Addrs, User(c)
    PROVE  RInv' /\ SharedStep
<1> USE DEF Goes, Places, restVars, sharedVars, targetVars, procVars, childVars
<1>1. CASE LogIn(c) \/ LogOut(c)
  <2>1. \/ place' = [place EXCEPT ![c] = "loggingIn"]
        \/ place' = [place EXCEPT ![c] = "loggedOut"]
    BY <1>1 DEF LogIn, LogOut
  <2> QED
    BY <1>1, <2>1, ParentMoves DEF LogIn, LogOut
<1>2. CASE Exit(c)
  <2>1. /\ place' = [place EXCEPT ![c] = "exited"]
        /\ child' = [child EXCEPT ![c] = "dead"]
        /\ UNCHANGED <<talkRequest, otherID>>
    BY <1>2 DEF Exit
  <2> QED
    BY <2>1
    DEF RInv, FlagsOK, OneRequestAt, HasRequest, SharedStep, ChildPlaces
<1>3. CASE Who(c) \/ Ask(c)
  <2>1. \/ place' = [place EXCEPT ![c] = "askingWho"]
        \/ place' = [place EXCEPT ![c] = "askingServer"]
    BY <1>3 DEF Who, Ask
  <2> QED
    BY <1>3, <2>1, ParentMoves DEF Who, Ask
<1>4. CASE Look(c)
  BY <1>4, ParentMoves DEF Look
<1>5. CASE Confirm(c)
  BY <1>5, ParentMoves DEF Confirm
<1>6. CASE Refuse(c)
  BY <1>6, ParentResets DEF Refuse
<1>7. CASE Say(c)
  <2>1. CASE UNCHANGED place
    BY <1>7, <2>1, NothingMoves DEF Say
  <2>2. CASE place' = [place EXCEPT ![c] = "dead"]
    BY <1>7, <2>2, ParentMoves DEF Say
  <2> QED
    BY <1>7, <2>1, <2>2 DEF Say
<1>8. CASE Quit(c)
  BY <1>8, ParentMoves DEF Quit
<1> QED
  BY <1>1, <1>2, <1>3, <1>4, <1>5, <1>6, <1>7, <1>8 DEF User

\* The parent: it shows a prompt only where a request is pending.
LEMMA ParentKeepsRInv ==
    ASSUME RInv, NEW c \in Addrs, Parent(c)
    PROVE  RInv' /\ SharedStep
<1> USE DEF Goes, Places, restVars, sharedVars, targetVars, procVars, childVars
<1>1. CASE LoginPeek(c) \/ ListPeek(c)
  BY <1>1, NothingMoves DEF LoginPeek, ListPeek
<1>2. CASE LoginSeen(c) \/ TakeAnswer(c)
  <2>1. PICK p \in {"takingAnswer", "listing", "loggedOut"} :
            place' = [place EXCEPT ![c] = p]
    BY <1>2 DEF LoginSeen, TakeAnswer
  <2> QED
    BY <1>2, <2>1, ParentMoves DEF LoginSeen, TakeAnswer
<1>3. CASE LineSeen(c) \/ TakeLine(c) \/ TakeLastLine(c)
  <2>1. PICK p \in {"takingList", "takingWho", "listing", "askingWho", "top"} :
            place' = [place EXCEPT ![c] = p]
    BY <1>3 DEF LineSeen, TakeLine, TakeLastLine
  <2> QED
    BY <1>3, <2>1, ParentMoves DEF LineSeen, TakeLine, TakeLastLine
<1>4. CASE Top(c)
  <2>1. PICK p \in {"prompt", "connecting", "menu"} :
            /\ place' = [place EXCEPT ![c] = p]
            /\ p = "prompt" => talkRequest[c]
            /\ UNCHANGED <<talkRequest, otherID, child>>
    BY <1>4 DEF Top, RInv, FlagsOK
  <2> QED
    BY <2>1 DEF RInv, FlagsOK, OneRequestAt, HasRequest, SharedStep
<1>5. CASE LookForReply(c) \/ TakeReply(c)
  <2>1. PICK p \in {"takingReply", "serverHeard"} :
            place' = [place EXCEPT ![c] = p]
    BY <1>5 DEF LookForReply, TakeReply
  <2> QED
    BY <1>5, <2>1, ParentMoves DEF LookForReply, TakeReply
<1>6. CASE Denied(c) \/ StoreTarget(c)
  <2>1. PICK p \in {"top", "naming"} : place' = [place EXCEPT ![c] = p]
    BY <1>6 DEF Denied, StoreTarget
  <2> QED
    BY <1>6, <2>1, ParentMoves DEF Denied, StoreTarget
<1>7. CASE NameOther(c)
  <2>1. /\ place[c] = "naming"
        /\ place' = [place EXCEPT ![c] = "requesting"]
        /\ otherID' = [otherID EXCEPT ![c] = cmd[c]]
        /\ UNCHANGED <<talkRequest, child>>
    BY <1>7 DEF NameOther
  <2>2. \A b \in Addrs : otherID'[b] # otherID[b] => b = c
    BY <2>1
  <2> QED
    BY <2>1, <2>2 DEF RInv, FlagsOK, OneRequestAt, HasRequest, SharedStep
<1>8. CASE SendRequest(c)
  <2>1. PICK p \in {"askingUser", "dead"} : place' = [place EXCEPT ![c] = p]
    BY <1>8 DEF SendRequest
  <2> QED
    BY <1>8, <2>1, ParentMoves DEF SendRequest
<1>9. CASE LookForResponse(c) \/ TakeResponse(c)
  <2>1. PICK p \in {"takingResponse", "userHeard"} :
            place' = [place EXCEPT ![c] = p]
    BY <1>9 DEF LookForResponse, TakeResponse
  <2> QED
    BY <1>9, <2>1, ParentMoves DEF LookForResponse, TakeResponse, ReadsResponse
<1>10. CASE UserAgrees(c) \/ Agree(c)
  <2>1. PICK p \in {"agreed", "top"} : place' = [place EXCEPT ![c] = p]
    BY <1>10 DEF UserAgrees, Agree
  <2> QED
    BY <1>10, <2>1, ParentMoves DEF UserAgrees, Agree
<1>11. CASE Settle(c)
  BY <1>11, ParentResets DEF Settle
<1>12. CASE Respond(c)
  <2>1. PICK p \in {"top", "dead"} : place' = [place EXCEPT ![c] = p]
    BY <1>12 DEF Respond
  <2> QED
    BY <1>12, <2>1, ParentMoves DEF Respond
<1>13. CASE Connect(c)
  <2>1. PICK p \in {"talking", "dead"} : place' = [place EXCEPT ![c] = p]
    BY <1>13 DEF Connect
  <2> QED
    BY <1>13, <2>1, ParentMoves DEF Connect
<1> QED
  BY <1>1, <1>2, <1>3, <1>4, <1>5, <1>6, <1>7, <1>8, <1>9, <1>10, <1>11, <1>12,
     <1>13
  DEF Parent

\* The child: it has a request only when the flag was not set at its test, and
\* nobody else sets it.
LEMMA ChildKeepsRInv ==
    ASSUME RInv, NEW c \in Addrs, Child(c)
    PROVE  RInv' /\ SharedStep
<1> USE DEF ChildGoes, ChildPlaces, parentVars, sharedVars, targetVars
<1>1. CASE ChildPeek(c) \/ TakeNotice(c) \/ TakeRequest(c) \/ TestTalking(c)
  <2>1. PICK p \in {"takingRequest", "takingNotice", "peeking",
                    "testingTalk", "busy", "testingRequest"} :
            child' = [child EXCEPT ![c] = p]
    BY <1>1 DEF ChildPeek, TakeNotice, TakeRequest, TestTalking
  <2> QED
    BY <1>1, <2>1, ChildMoves DEF ChildPeek, TakeNotice, TakeRequest, TestTalking
<1>2. CASE TestRequest(c)
  <2>1. CASE talkRequest[c]
    BY <1>2, <2>1, ChildMoves DEF TestRequest, Pending
  <2>2. CASE ~talkRequest[c]
    BY <1>2, <2>2
    DEF TestRequest, Pending, RInv, FlagsOK, OneRequestAt, HasRequest, SharedStep
  <2> QED
    BY <2>1, <2>2
<1>3. CASE NameRequester(c)
  <2>1. /\ child[c] = "naming"
        /\ child' = [child EXCEPT ![c] = "addressing"]
        /\ otherID' = [otherID EXCEPT ![c] = held[c].senderID]
        /\ UNCHANGED <<place, talkRequest>>
    BY <1>3 DEF NameRequester
  <2>2. \A b \in Addrs : otherID'[b] # otherID[b] => b = c
    BY <2>1
  <2> QED
    BY <2>1, <2>2 DEF RInv, FlagsOK, OneRequestAt, HasRequest, SharedStep
<1>4. CASE StoreRequester(c)
  BY <1>4
  DEF StoreRequester, RInv, FlagsOK, OneRequestAt, HasRequest, SharedStep
<1>5. CASE FlagRequest(c)
  BY <1>5 DEF FlagRequest, RInv, FlagsOK, OneRequestAt, HasRequest, SharedStep
<1>6. CASE ForgetRequester(c) \/ RefuseRequest(c)
  <2>1. PICK p \in {"refusing", "peeking", "dead"} :
            child' = [child EXCEPT ![c] = p]
    BY <1>6 DEF ForgetRequester, RefuseRequest
  <2> QED
    BY <1>6, <2>1, ChildMoves DEF ForgetRequester, RefuseRequest
<1> QED
  BY <1>1, <1>2, <1>3, <1>4, <1>5, <1>6 DEF Child

\* Receivers, server and network touch neither the flag nor the name.
LEMMA ReceiverKeepsRInv ==
    ASSUME RInv,
           \/ \E c \in Addrs : Bind(c)
           \/ \E id \in UserIds : Receiver(id)
    PROVE  RInv' /\ SharedStep
<1>1. UNCHANGED <<place, talkRequest, otherID, child>>
  BY DEF Bind, Receiver, Accept, Test, Display, EndOfCall, parentVars,
         sharedVars, targetVars, childVars
<1> QED
  BY <1>1, NothingMoves

LEMMA StepKeepsRInv ==
    RInv /\ [SystemNext]_systemVars => RInv' /\ SharedStep
<1> SUFFICES ASSUME RInv, [SystemNext]_systemVars PROVE RInv' /\ SharedStep
  OBVIOUS
<1>1. CASE UNCHANGED clientVars
  BY <1>1, NothingMoves
  DEF clientVars, parentVars, restVars, sharedVars, targetVars, procVars,
      childVars
<1> QED
  BY <1>1, UserKeepsRInv, ParentKeepsRInv, ChildKeepsRInv, ReceiverKeepsRInv
  DEF SystemNext, Loss, systemVars

\* One request at a time is with the user, although parent and child share the
\* flags without a lock and test and set each of them in a step of its own: for
\* every client, user, datagram and interleaving.
THEOREM OneRequest == SystemSpec => OneRequestAtATime
<1>1. ASSUME RInv, RInv', SharedStep, NEW c \in Addrs
      PROVE  /\ talkRequest[c] =>
                    /\ child'[c] \notin {"naming", "addressing", "flagging"}
                    /\ otherID'[c] # otherID[c] => place[c] = "naming"
             /\ place[c] = "prompt" /\ place'[c] = "prompt" =>
                    otherID'[c] = otherID[c] /\ talkRequest[c] /\ talkRequest'[c]
  BY <1>1 DEF RInv, OneRequestAt, HasRequest, SharedStep
<1>2. RInv /\ [SystemNext]_systemVars =>
          [\A c \in Addrs :
              /\ talkRequest[c] =>
                     /\ child'[c] \notin {"naming", "addressing", "flagging"}
                     /\ otherID'[c] # otherID[c] => place[c] = "naming"
              /\ place[c] = "prompt" /\ place'[c] = "prompt" =>
                     otherID'[c] = otherID[c] /\ talkRequest[c] /\ talkRequest'[c]
          ]_systemVars
  BY <1>1, StepKeepsRInv
<1>3. SystemSpec => []RInv
  BY InitRInv, StepKeepsRInv, PTL DEF SystemSpec
<1> QED
  BY <1>2, <1>3, PTL DEF SystemSpec, OneRequestAtATime

-----------------------------------------------------------------------------
(* The table, with the clients of the repository. *)

\* What every client sends as is a user, so every request names one.
SInv == IInv /\ userID \in [Addrs -> UserIds] /\ cmd \in [Addrs -> UserIds]

LEMMA InitSInv == SystemInit => SInv
BY InitIInv, TalkServerAssumption DEF SystemInit, ClientInit, SInv

\* What the processes of clients send: requests of a parent, and the refusal of
\* a child, which names nobody.
Sendable(m) ==
    /\ m.from \in Addrs
    /\ m.type \in Tags
    /\ m.senderID \in UserIds
    /\ m.data \in UserIds

LEMMA DatagramIsSendable ==
    ASSUME NEW c \in Addrs, NEW id \in UserIds, NEW type \in Tags,
           NEW yes, NEW about \in UserIds
    PROVE  Sendable(Datagram(c, id, type, yes, about))
BY DEF Sendable, Datagram

LEMMA RefusalIsSendable ==
    ASSUME NEW c \in Addrs
    PROVE  Sendable([NoMessage EXCEPT !.from = c, !.type = TAG_TALK_RES])
BY TalkServerAssumption DEF Sendable, NoMessage, Tags

\* It is something the server's handlers are prepared for.
LEMMA PostKeepsIInv ==
    ASSUME IInv, UNCHANGED users, NEW boxes, NEW a, NEW m, Sendable(m),
           Post(boxes, a, m)
    PROVE  IInv'
<1>1. [from |-> m.from, data |-> [type |-> m.type, senderID |-> m.senderID,
                                  data |-> m.data]] \in Packet
  BY DEF Packet, Request, Sendable
<1>2. inbox' \in Seq(Packet)
  BY <1>1 DEF Post, IInv
<1> QED
  BY <1>2 DEF IInv

LEMMA NoPost == IInv /\ UNCHANGED <<users, inbox>> => IInv'
BY DEF IInv

\* A step of a client's parent on behalf of its user.
LEMMA UserKeepsSInv ==
    ASSUME SInv, NEW c \in Addrs, User(c)
    PROVE  SInv' /\ UNCHANGED users
<1> USE DEF serverVars, vars, ownVars, Tags
<1>1. CASE LogIn(c)
  <2>1. PICK id \in Names[c] :
            /\ userID' = [userID EXCEPT ![c] = id]
            /\ Post(outbox, theServerAddress[c],
                    Datagram(c, id, TAG_LOGIN, TRUE, id))
    BY <1>1 DEF LogIn
  <2>2. id \in UserIds /\ users' = users /\ cmd' = cmd
    BY <1>1, TalkSystemAssumption DEF LogIn
  <2> QED
    BY <2>1, <2>2, PostKeepsIInv, DatagramIsSendable DEF SInv
<1>2. CASE Who(c)
  BY <1>2, PostKeepsIInv, DatagramIsSendable DEF Who, SInv
<1>3. CASE Ask(c)
  <2>1. PICK id \in UserIds :
            /\ cmd' = [cmd EXCEPT ![c] = id]
            /\ Post(outbox, theServerAddress[c],
                    Datagram(c, userID[c], TAG_TALK_REQ, TRUE, id))
    BY <1>3 DEF Ask
  <2>2. users' = users /\ userID' = userID
    BY <1>3 DEF Ask
  <2> QED
    BY <2>1, <2>2, PostKeepsIInv, DatagramIsSendable DEF SInv
<1>4. CASE LogOut(c)
  BY <1>4, PostKeepsIInv, DatagramIsSendable DEF LogOut, SInv
<1>5. CASE \/ Exit(c) \/ Look(c) \/ Confirm(c) \/ Refuse(c) \/ Say(c) \/ Quit(c)
  BY <1>5, NoPost DEF Exit, Look, Confirm, Refuse, Say, Quit, SInv
<1> QED
  BY <1>1, <1>2, <1>3, <1>4, <1>5 DEF User

LEMMA ParentKeepsSInv ==
    ASSUME SInv, NEW c \in Addrs, Parent(c)
    PROVE  SInv' /\ UNCHANGED users
<1> USE DEF serverVars, vars, ownVars, Tags
<1>1. CASE SendRequest(c)
  <2>1. UNCHANGED <<users, userID, cmd>>
    BY <1>1 DEF SendRequest
  <2>2. CASE UNCHANGED inbox
    BY <2>1, <2>2, NoPost DEF SInv
  <2>3. CASE Post(outbox, incoming[c].theOtherAddress,
                  Datagram(c, userID[c], TAG_TALK_REQ, TRUE, cmd[c]))
    BY <2>1, <2>3, PostKeepsIInv, DatagramIsSendable DEF SInv
  <2> QED
    BY <1>1, <2>1, <2>2, <2>3 DEF SendRequest
<1>2. CASE Respond(c)
  <2>1. UNCHANGED <<users, userID, cmd>>
    BY <1>2 DEF Respond
  <2>2. CASE UNCHANGED inbox
    BY <2>1, <2>2, NoPost DEF SInv
  <2>3. CASE Post(outbox, AnswerTo(c),
                  Datagram(c, userID[c], TAG_TALK_RES,
                           place[c] = "confirming", userID[c]))
    BY <2>1, <2>3, PostKeepsIInv, DatagramIsSendable DEF SInv
  <2> QED
    BY <1>2, <2>1, <2>2, <2>3 DEF Respond
<1>3. CASE \/ LoginPeek(c) \/ LoginSeen(c) \/ TakeAnswer(c) \/ ListPeek(c)
           \/ LineSeen(c) \/ TakeLine(c) \/ TakeLastLine(c) \/ Top(c)
           \/ LookForReply(c) \/ TakeReply(c) \/ Denied(c) \/ StoreTarget(c)
           \/ NameOther(c) \/ LookForResponse(c) \/ TakeResponse(c)
           \/ UserAgrees(c) \/ Agree(c) \/ Settle(c) \/ Connect(c)
  <2>1. UNCHANGED <<users, inbox, userID, cmd>>
    BY <1>3
    DEF LoginPeek, LoginSeen, TakeAnswer, ListPeek, LineSeen, TakeLine,
        TakeLastLine, Top, LookForReply, TakeReply, Denied, StoreTarget,
        NameOther, LookForResponse, TakeResponse, ReadsResponse, UserAgrees,
        Agree, Settle, Connect
  <2> QED
    BY <2>1, NoPost DEF SInv
<1> QED
  BY <1>1, <1>2, <1>3 DEF Parent

\* Of the other processes only the child sends, and that to nobody in
\* particular.
LEMMA RestKeepsSInv ==
    ASSUME SInv,
           \/ \E c \in Addrs : Child(c) \/ Bind(c)
           \/ \E id \in UserIds : Receiver(id)
    PROVE  SInv' /\ UNCHANGED users
<1> USE DEF serverVars, vars, parentVars, ownVars
<1>1. CASE \E c \in Addrs : RefuseRequest(c)
  <2>1. PICK c \in Addrs : RefuseRequest(c)
    BY <1>1
  <2>2. UNCHANGED <<users, userID, cmd>>
    BY <2>1 DEF RefuseRequest
  <2>3. CASE UNCHANGED inbox
    BY <2>2, <2>3, NoPost DEF SInv
  <2>4. CASE Post(outbox, targetUDPAddress[c],
                  [NoMessage EXCEPT !.from = c, !.type = TAG_TALK_RES])
    BY <2>2, <2>4, PostKeepsIInv, RefusalIsSendable DEF SInv
  <2> QED
    BY <2>1, <2>2, <2>3, <2>4 DEF RefuseRequest
<1>2. CASE ~\E c \in Addrs : RefuseRequest(c)
  <2>1. UNCHANGED <<users, inbox, userID, cmd>>
    BY <1>2
    DEF Child, ChildPeek, TakeNotice, TakeRequest, TestTalking, TestRequest,
        NameRequester, StoreRequester, FlagRequest, ForgetRequester, Bind,
        Receiver, Accept, Test, Display, EndOfCall
  <2> QED
    BY <2>1, NoPost DEF SInv
<1> QED
  BY <1>1, <1>2

\* A step of the system is one of the server alone, or leaves its table.
LEMMA StepKeepsSInv ==
    SInv /\ [SystemNext]_systemVars => SInv' /\ ([Next]_vars \/ UNCHANGED users)
<1> SUFFICES ASSUME SInv, [SystemNext]_systemVars
             PROVE  SInv' /\ ([Next]_vars \/ UNCHANGED users)
  OBVIOUS
<1> USE DEF clientVars, parentVars, ownVars
<1>1. CASE (Serve \/ Network \/ UNCHANGED vars) /\ UNCHANGED clientVars
  <2>1. [Next]_vars
    BY <1>1 DEF Next
  <2>2. IInv'
    BY <2>1, NextKeepsIInv DEF SInv
  <2> QED
    BY <1>1, <2>1, <2>2 DEF SInv
<1> QED
  BY <1>1, UserKeepsSInv, ParentKeepsSInv, RestKeepsSInv
  DEF SystemNext, Loss, systemVars

LEMMA SystemInvariance == SystemSpec => []SInv
BY InitSInv, StepKeepsSInv, PTL DEF SystemSpec

-----------------------------------------------------------------------------
(* Types, with the clients of the repository. *)

OwnTypes ==
    /\ place \in [Addrs -> Places]
    /\ theServerAddress \in [Addrs -> Addrs \cup {ServerAddr}]
    /\ incoming \in [Addrs -> Message]
    /\ userID \in [Addrs -> UserIds]
    /\ cmd \in [Addrs -> UserIds]
    /\ typed \in [Addrs -> Nat]

SharedTypes ==
    /\ isTalking \in [Addrs -> BOOLEAN]
    /\ talkRequest \in [Addrs -> BOOLEAN]
    /\ otherID \in [Addrs -> UserIds]
    /\ targetUDPAddress \in [Addrs -> UdpAddrs \cup {ServerAddr}]
    /\ targetTCPAddress \in [Addrs -> TcpAddrs \cup {Ephemeral}]

ChildTypes ==
    /\ child \in [Addrs -> ChildPlaces]
    /\ held \in [Addrs -> Message]

TcpTypes ==
    /\ line \in [Addrs -> 0..Len(calls)]
    /\ forked \in [Addrs -> Nat]
    /\ receiver \in [UserIds -> Listener]
    /\ calls \in Seq(Call)

TypesOK == TypeOK /\ OwnTypes /\ SharedTypes /\ ChildTypes /\ TcpTypes

LEMMA TypesImply == TypesOK => SystemTypeOK
BY DEF TypesOK, OwnTypes, SharedTypes, ChildTypes, TcpTypes, SystemTypeOK

LEMMA NoMessageType == NoMessage \in Message
BY TalkServerAssumption DEF NoMessage, Message, Tags, TcpAddrs, UdpAddrs

LEMMA InitTypes == SystemInit => TypesOK
<1> SUFFICES ASSUME SystemInit PROVE TypesOK
  OBVIOUS
<1>1. TypeOK
  BY TalkServerAssumption DEF SystemInit, Init, TypeOK, TcpAddrs, UdpAddrs
<1>2. OwnTypes
  BY TalkServerAssumption, NoMessageType
  DEF SystemInit, ClientInit, OwnTypes, Places
<1>3. SharedTypes
  BY TalkServerAssumption
  DEF SystemInit, ClientInit, SharedTypes, TcpAddrs, UdpAddrs
<1>4. ChildTypes
  BY NoMessageType DEF SystemInit, ClientInit, ChildTypes, ChildPlaces
<1>5. TcpTypes
  BY DEF SystemInit, ClientInit, TcpTypes, NoListener, Listener
<1> QED
  BY <1>1, <1>2, <1>3, <1>4, <1>5 DEF TypesOK

\* What a client sends has the type of the queue it goes to.
LEMMA DatagramType ==
    ASSUME NEW c \in Addrs, NEW id \in UserIds, NEW type \in Tags,
           NEW yes \in BOOLEAN, NEW about \in UserIds
    PROVE  LET m == Datagram(c, id, type, yes, about)
           IN  m \in Message /\ Sendable(m)
BY DEF Datagram, Sendable, Message, TcpAddrs, UdpAddrs

LEMMA PostType ==
    ASSUME TypeOK, UNCHANGED serverVars,
           NEW boxes \in [Addrs -> Seq(Message)], NEW a,
           NEW m \in Message, Sendable(m), Post(boxes, a, m)
    PROVE  TypeOK'
<1> DEFINE p == [from |-> m.from, data |-> [type |-> m.type,
                                            senderID |-> m.senderID,
                                            data |-> m.data]]
<1>1. p \in Packet
  BY DEF Packet, Request, Sendable
<1>2. \/ inbox' = Append(inbox, p) /\ outbox' = boxes
      \/ /\ a \in Addrs /\ inbox' = inbox
         /\ outbox' = [boxes EXCEPT ![a] = Append(boxes[a], m)]
  BY DEF Post
<1> HIDE DEF p
<1>3. inbox' \in Seq(Packet)
  <2>1. inbox \in Seq(Packet) /\ Append(inbox, p) \in Seq(Packet)
    BY <1>1 DEF TypeOK
  <2> QED
    BY <1>2, <2>1
<1>4. \A b \in Addrs : Append(boxes[b], m) \in Seq(Message)
  OBVIOUS
<1>5. outbox' \in [Addrs -> Seq(Message)]
  BY <1>2, <1>4 DEF TypeOK
<1> QED
  BY <1>3, <1>5 DEF TypeOK, serverVars

\* So do the queues a client takes its first datagram from.
LEMMA TakenType ==
    ASSUME TypeOK, NEW c \in Addrs, outbox[c] # <<>>
    PROVE  /\ Head(outbox[c]) \in Message
           /\ Taken(c) \in [Addrs -> Seq(Message)]
<1>1. Head(outbox[c]) \in Message /\ Tail(outbox[c]) \in Seq(Message)
  BY DEF TypeOK
<1> QED
  BY <1>1 DEF Taken, TypeOK

\* Variables a step leaves alone keep their types.
LEMMA SharedUnchanged == SharedTypes /\ UNCHANGED sharedVars => SharedTypes'
BY DEF SharedTypes, sharedVars, targetVars

LEMMA ChildUnchanged == ChildTypes /\ UNCHANGED childVars => ChildTypes'
BY DEF ChildTypes, childVars

LEMMA TcpUnchanged == TcpTypes /\ UNCHANGED <<line, tcpVars>> => TcpTypes'
BY DEF TcpTypes, tcpVars

LEMMA RestUnchanged ==
    /\ SharedTypes /\ ChildTypes /\ TcpTypes
    /\ UNCHANGED <<line, restVars>>
    => SharedTypes' /\ ChildTypes' /\ TcpTypes'
BY SharedUnchanged, ChildUnchanged, TcpUnchanged DEF restVars, procVars

LEMMA VarsUnchanged == TypeOK /\ UNCHANGED vars => TypeOK'
BY DEF TypeOK, vars

LEMMA TypesType ==
    ASSUME typed \in [Addrs -> Nat], NEW c \in Addrs, Types(c)
    PROVE  typed' \in [Addrs -> Nat]
<1>1. typed[c] + 1 \in Nat /\ typed' = [typed EXCEPT ![c] = typed[c] + 1]
  BY DEF Types
<1> QED
  BY <1>1

\* The user of a client.
LEMMA UserKeepsTypes ==
    ASSUME TypesOK, NEW c \in Addrs, User(c)
    PROVE  TypesOK'
<1> USE DEF Goes, Places, ownVars, bufferVars
<1> SUFFICES TypeOK' /\ OwnTypes' /\ SharedTypes' /\ ChildTypes' /\ TcpTypes'
  BY DEF TypesOK
<1>0. TypeOK /\ OwnTypes /\ SharedTypes /\ ChildTypes /\ TcpTypes
  BY DEF TypesOK
<1>1. outbox \in [Addrs -> Seq(Message)] /\ userID[c] \in UserIds
  BY <1>0 DEF TypeOK, OwnTypes
<1>2. {TAG_LOGIN, TAG_WHO, TAG_TALK_REQ, TAG_LOGOUT} \subseteq Tags
  BY DEF Tags
<1>3. CASE LogIn(c)
  <2>1. PICK id \in Names[c] :
            /\ userID' = [userID EXCEPT ![c] = id]
            /\ Post(outbox, theServerAddress[c],
                    Datagram(c, id, TAG_LOGIN, TRUE, id))
    BY <1>0, <1>3 DEF LogIn
  <2>2. id \in UserIds
    BY TalkSystemAssumption
  <2>3. TypeOK'
    BY <1>0, <1>1, <1>2, <1>3, <2>1, <2>2, PostType, DatagramType DEF LogIn
  <2>4. OwnTypes'
    BY <1>0, <1>3, <2>1, <2>2, TypesType DEF LogIn, OwnTypes
  <2> QED
    BY <1>0, <1>3, <2>3, <2>4, RestUnchanged DEF LogIn
<1>4. CASE Who(c)
  <2>1. TypeOK'
    BY <1>0, <1>1, <1>2, <1>4, PostType, DatagramType DEF Who
  <2> QED
    BY <1>0, <1>4, <2>1, RestUnchanged, TypesType DEF Who, OwnTypes
<1>5. CASE Ask(c)
  <2>1. PICK id \in UserIds :
            /\ cmd' = [cmd EXCEPT ![c] = id]
            /\ Post(outbox, theServerAddress[c],
                    Datagram(c, userID[c], TAG_TALK_REQ, TRUE, id))
    BY <1>0, <1>5 DEF Ask
  <2>2. TypeOK'
    BY <1>0, <1>1, <1>2, <1>5, <2>1, PostType, DatagramType DEF Ask
  <2>3. OwnTypes'
    BY <1>0, <1>5, <2>1, TypesType DEF Ask, OwnTypes
  <2> QED
    BY <1>0, <1>5, <2>2, <2>3, RestUnchanged DEF Ask
<1>6. CASE LogOut(c)
  <2>1. TypeOK'
    BY <1>0, <1>1, <1>2, <1>6, PostType, DatagramType DEF LogOut
  <2> QED
    BY <1>0, <1>6, <2>1, RestUnchanged DEF LogOut, OwnTypes
<1>7. CASE Exit(c)
  <2>1. TypeOK'
    BY <1>0, <1>7 DEF Exit, TypeOK, serverVars
  <2>2. OwnTypes' /\ SharedTypes'
    BY <1>0, <1>7, SharedUnchanged DEF Exit, OwnTypes
  <2>3. ChildTypes'
    BY <1>0, <1>7, NoMessageType DEF Exit, ChildTypes, ChildPlaces
  <2>4. receiver' \in [UserIds -> Listener]
    BY <1>0, <1>7 DEF Exit, TcpTypes, NoListener, Listener
  <2>5. calls' \in Seq(Call) /\ Len(calls') = Len(calls)
    <3>1. \A n \in DOMAIN calls :
              calls[n] \in Call /\ [calls[n] EXCEPT !.open = FALSE] \in Call
      <4>1. \A n \in DOMAIN calls : calls[n] \in Call
        BY <1>0 DEF TcpTypes
      <4> QED
        BY <4>1 DEF Call
    <3>2. calls' = [n \in DOMAIN calls |->
               IF receiver[calls[n].callee].owner = c
               THEN [calls[n] EXCEPT !.open = FALSE] ELSE calls[n]]
      BY <1>0, <1>7 DEF Exit
    <3>3. Len(calls) \in Nat /\ DOMAIN calls = 1..Len(calls)
      BY <1>0 DEF TcpTypes
    <3>4. calls' \in [1..Len(calls) -> Call]
      BY <3>1, <3>2, <3>3
    <3> QED
      BY <3>3, <3>4
  <2>6. TcpTypes'
    BY <1>0, <1>7, <2>4, <2>5 DEF Exit, TcpTypes
  <2> QED
    BY <2>1, <2>2, <2>3, <2>6
<1>8. CASE Look(c)
  BY <1>0, <1>8, VarsUnchanged, RestUnchanged DEF Look, OwnTypes
<1>9. CASE Confirm(c) \/ Refuse(c)
  <2>1. TypeOK' /\ OwnTypes' /\ ChildTypes' /\ TcpTypes'
    BY <1>0, <1>9, VarsUnchanged, ChildUnchanged, TcpUnchanged
    DEF Confirm, Refuse, procVars, OwnTypes
  <2>2. SharedTypes'
    BY <1>0, <1>9 DEF Confirm, Refuse, SharedTypes, targetVars
  <2> QED
    BY <2>1, <2>2
<1>10. CASE Say(c)
  <2>1. TypeOK' /\ SharedTypes' /\ ChildTypes'
    BY <1>0, <1>10, VarsUnchanged, SharedUnchanged, ChildUnchanged DEF Say
  <2>2. OwnTypes'
    BY <1>0, <1>10, TypesType DEF Say, OwnTypes
  <2>3. calls' \in Seq(Call) /\ Len(calls') = Len(calls)
    <3>1. calls' = calls
          \/ calls' = [calls EXCEPT ![line[c]].sent = @ + 1]
      BY <1>0, <1>10 DEF Say
    <3> DEFINE n == line[c]
               e == [calls[n] EXCEPT !.sent = @ + 1]
    <3>2. CASE n \in DOMAIN calls
      <4>1. calls[n] \in Call
        BY <1>0, <3>2 DEF TcpTypes
      <4>2. e \in Call
        BY <4>1 DEF Call
      <4>3. calls' = calls \/ calls' = [calls EXCEPT ![n] = e]
        BY <3>1
      <4>4. calls \in [1..Len(calls) -> Call] /\ Len(calls) \in Nat
            /\ DOMAIN calls = 1..Len(calls)
        BY <1>0 DEF TcpTypes
      <4> HIDE DEF n, e
      <4>5. calls' \in [1..Len(calls) -> Call]
        BY <4>2, <4>3, <4>4
      <4> QED
        BY <4>4, <4>5
    <3>3. CASE n \notin DOMAIN calls
      <4>1. calls \in [1..Len(calls) -> Call] /\ DOMAIN calls = 1..Len(calls)
        BY <1>0 DEF TcpTypes
      <4>2. calls' = calls
        BY <3>1, <3>3, <4>1
      <4> QED
        BY <1>0, <4>2 DEF TcpTypes
    <3> QED
      BY <3>2, <3>3
  <2>4. TcpTypes'
    BY <1>0, <1>10, <2>3 DEF Say, TcpTypes
  <2> QED
    BY <2>1, <2>2, <2>4
<1>11. CASE Quit(c)
  <2>1. TypeOK' /\ OwnTypes' /\ ChildTypes'
    BY <1>0, <1>11, VarsUnchanged, ChildUnchanged DEF Quit, procVars, OwnTypes
  <2>2. SharedTypes'
    BY <1>0, <1>11 DEF Quit, SharedTypes, targetVars
  <2>3. TcpTypes'
    BY <1>0, <1>11 DEF Quit, TcpTypes, procVars, tcpVars
  <2> QED
    BY <2>1, <2>2, <2>3
<1> QED
  BY <1>3, <1>4, <1>5, <1>6, <1>7, <1>8, <1>9, <1>10, <1>11 DEF User

\* A look at the first datagram stores an address, whatever comes of it.
LEMMA ReadsType ==
    ASSUME TypeOK, OwnTypes, NEW c \in Addrs, NEW from, Reads(c, from)
    PROVE  /\ theServerAddress' \in [Addrs -> Addrs \cup {ServerAddr}]
           /\ Keeps(c) \/ Drops(c) \/ UNCHANGED incoming =>
                  incoming' \in [Addrs -> Message]
           /\ Taken(c) \in [Addrs -> Seq(Message)]
<1>1. outbox[c] # <<>>
  BY DEF Reads
<1>2. Head(outbox[c]) \in Message /\ Taken(c) \in [Addrs -> Seq(Message)]
  BY <1>1, TakenType
<1>3. Head(outbox[c]).from \in Addrs \cup {ServerAddr}
  BY <1>2 DEF Message
<1>4. Keeps(c) \/ Drops(c) \/ UNCHANGED incoming =>
          incoming' \in [Addrs -> Message]
  BY <1>2, NoMessageType DEF Keeps, Drops, OwnTypes
<1> QED
  BY <1>2, <1>3, <1>4 DEF Reads, OwnTypes

\* Nothing but the clients' queues changes at the server.
LEMMA QueuesType ==
    ASSUME TypeOK, UNCHANGED <<serverVars, inbox>>,
           outbox' \in [Addrs -> Seq(Message)]
    PROVE  TypeOK'
BY DEF TypeOK, serverVars

\* The parent of a client.
LEMMA ParentKeepsTypes ==
    ASSUME TypesOK, NEW c \in Addrs, Parent(c)
    PROVE  TypesOK'
<1> USE DEF Goes, Places, ownVars, bufferVars
<1> SUFFICES TypeOK' /\ OwnTypes' /\ SharedTypes' /\ ChildTypes' /\ TcpTypes'
  BY DEF TypesOK
<1>1. TypeOK /\ OwnTypes /\ SharedTypes /\ ChildTypes /\ TcpTypes
  BY DEF TypesOK
<1>2. /\ outbox \in [Addrs -> Seq(Message)]
      /\ userID[c] \in UserIds
      /\ cmd[c] \in UserIds
      /\ incoming[c] \in Message
  BY <1>1 DEF TypeOK, OwnTypes
<1>3. /\ incoming[c].theOtherAddress \in UdpAddrs
      /\ incoming[c].theAddress \in TcpAddrs
  BY <1>2 DEF Message
<1>4. CASE LoginPeek(c) \/ ListPeek(c)
  <2>1. /\ theServerAddress' \in [Addrs -> Addrs \cup {ServerAddr}]
        /\ incoming' \in [Addrs -> Message]
    BY <1>1, <1>4, ReadsType DEF LoginPeek, ListPeek
  <2> QED
    BY <1>1, <1>4, <2>1, VarsUnchanged, RestUnchanged
    DEF LoginPeek, ListPeek, OwnTypes
<1>5. CASE LoginSeen(c) \/ LineSeen(c) \/ LookForReply(c)
  <2>1. /\ theServerAddress' \in [Addrs -> Addrs \cup {ServerAddr}]
        /\ incoming' \in [Addrs -> Message]
    BY <1>1, <1>5, ReadsType DEF LoginSeen, LineSeen, LookForReply
  <2>2. PICK p \in Places : place' = [place EXCEPT ![c] = p]
    BY <1>5 DEF LoginSeen, LineSeen, LookForReply
  <2>3. UNCHANGED <<vars, ownVars, restVars>>
    BY <1>5 DEF LoginSeen, LineSeen, LookForReply
  <2> QED
    BY <1>1, <2>1, <2>2, <2>3, VarsUnchanged, RestUnchanged DEF OwnTypes
<1>6. CASE TakeAnswer(c) \/ TakeLine(c) \/ TakeReply(c)
  <2>1. /\ theServerAddress' \in [Addrs -> Addrs \cup {ServerAddr}]
        /\ incoming' \in [Addrs -> Message]
        /\ Taken(c) \in [Addrs -> Seq(Message)]
    BY <1>1, <1>6, ReadsType DEF TakeAnswer, TakeLine, TakeReply
  <2>2. PICK p \in Places : place' = [place EXCEPT ![c] = p]
    BY <1>6 DEF TakeAnswer, TakeLine, TakeReply
  <2>3. outbox' = Taken(c) /\ UNCHANGED <<serverVars, inbox, ownVars, restVars>>
    BY <1>6 DEF TakeAnswer, TakeLine, TakeReply
  <2>4. TypeOK'
    BY <1>1, <2>1, <2>3, QueuesType
  <2> QED
    BY <1>1, <2>1, <2>2, <2>3, <2>4, RestUnchanged DEF OwnTypes
<1>7. CASE TakeLastLine(c)
  <2>1. /\ theServerAddress' \in [Addrs -> Addrs \cup {ServerAddr}]
        /\ incoming' \in [Addrs -> Message]
        /\ Taken(c) \in [Addrs -> Seq(Message)]
    BY <1>1, <1>7, ReadsType DEF TakeLastLine
  <2>2. TypeOK'
    BY <1>1, <1>7, <2>1, QueuesType DEF TakeLastLine
  <2>3. OwnTypes' /\ SharedTypes' /\ ChildTypes'
    BY <1>1, <1>7, <2>1, SharedUnchanged, ChildUnchanged
    DEF TakeLastLine, OwnTypes
  <2>4. TcpTypes'
    <3>1. forked[c] + 1 \in Nat
      BY <1>1 DEF TcpTypes
    <3>2. forked' \in [Addrs -> Nat]
      BY <1>1, <1>7, <3>1 DEF TakeLastLine, TcpTypes
    <3> QED
      BY <1>1, <1>7, <3>2 DEF TakeLastLine, TcpTypes
  <2> QED
    BY <2>2, <2>3, <2>4
<1>8. CASE Top(c)
  <2>1. PICK p \in {"prompt", "connecting", "menu"} :
            place' = [place EXCEPT ![c] = p]
    BY <1>8 DEF Top
  <2> QED
    BY <1>1, <1>8, <2>1, VarsUnchanged, RestUnchanged DEF Top, OwnTypes
<1>9. CASE Denied(c)
  BY <1>1, <1>9, VarsUnchanged, RestUnchanged, NoMessageType
  DEF Denied, Drops, OwnTypes
<1>10. CASE StoreTarget(c) \/ NameOther(c)
  <2>1. TypeOK' /\ OwnTypes' /\ ChildTypes' /\ TcpTypes'
    BY <1>1, <1>10, VarsUnchanged, ChildUnchanged, TcpUnchanged
    DEF StoreTarget, NameOther, procVars, OwnTypes
  <2>2. SharedTypes'
    BY <1>1, <1>2, <1>3, <1>10 DEF StoreTarget, NameOther, SharedTypes
  <2> QED
    BY <2>1, <2>2
<1>11. CASE SendRequest(c)
  <2>1. TypeOK'
    <3>1. CASE Post(outbox, incoming[c].theOtherAddress,
                    Datagram(c, userID[c], TAG_TALK_REQ, TRUE, cmd[c]))
      <4>1. TAG_TALK_REQ \in Tags
        BY DEF Tags
      <4> QED
        BY <1>1, <1>2, <1>11, <3>1, <4>1, PostType, DatagramType DEF SendRequest
    <3>2. CASE UNCHANGED <<inbox, outbox>>
      BY <1>1, <1>2, <1>11, <3>2, QueuesType DEF SendRequest
    <3> QED
      BY <1>11, <3>1, <3>2 DEF SendRequest
  <2>2. OwnTypes'
    BY <1>1, <1>11, NoMessageType DEF SendRequest, Drops, OwnTypes
  <2> QED
    BY <1>1, <1>11, <2>1, <2>2, RestUnchanged DEF SendRequest
<1>12. CASE LookForResponse(c) \/ TakeResponse(c)
  <2>1. /\ outbox[c] # <<>>
        /\ Keeps(c)
        /\ targetUDPAddress' =
               [targetUDPAddress EXCEPT ![c] = Head(outbox[c]).from]
        /\ UNCHANGED <<serverVars, inbox, theServerAddress, ownVars, isTalking,
                       talkRequest, otherID, targetTCPAddress, procVars>>
    BY <1>12 DEF LookForResponse, TakeResponse, ReadsResponse
  <2>2. PICK p \in Places : place' = [place EXCEPT ![c] = p]
    BY <1>12 DEF LookForResponse, TakeResponse
  <2>3. Head(outbox[c]) \in Message /\ Taken(c) \in [Addrs -> Seq(Message)]
    BY <1>1, <2>1, TakenType
  <2>4. Head(outbox[c]).from \in UdpAddrs \cup {ServerAddr}
    BY <2>3 DEF Message, UdpAddrs
  <2>5. outbox' \in [Addrs -> Seq(Message)]
    BY <1>2, <1>12, <2>3 DEF LookForResponse, TakeResponse
  <2>6. TypeOK'
    BY <1>1, <2>1, <2>5, QueuesType
  <2>7. OwnTypes'
    BY <1>1, <2>1, <2>2, <2>3 DEF Keeps, OwnTypes
  <2>8. SharedTypes'
    BY <1>1, <2>1, <2>4 DEF SharedTypes
  <2> QED
    BY <1>1, <2>1, <2>6, <2>7, <2>8, ChildUnchanged, TcpUnchanged DEF procVars
<1>13. CASE UserAgrees(c)
  <2>1. TypeOK' /\ OwnTypes' /\ ChildTypes' /\ TcpTypes'
    BY <1>1, <1>13, VarsUnchanged, ChildUnchanged, TcpUnchanged, NoMessageType
    DEF UserAgrees, Drops, procVars, OwnTypes
  <2>2. SharedTypes'
    BY <1>1, <1>3, <1>13 DEF UserAgrees, SharedTypes
  <2> QED
    BY <2>1, <2>2
<1>14. CASE Agree(c) \/ Settle(c)
  <2>1. TypeOK' /\ OwnTypes' /\ ChildTypes' /\ TcpTypes'
    BY <1>1, <1>14, VarsUnchanged, ChildUnchanged, TcpUnchanged
    DEF Agree, Settle, procVars, OwnTypes
  <2>2. SharedTypes'
    BY <1>1, <1>14 DEF Agree, Settle, SharedTypes, targetVars
  <2> QED
    BY <2>1, <2>2
<1>15. CASE Respond(c)
  <2>1. TypeOK'
    <3>1. CASE Post(outbox, AnswerTo(c),
                    Datagram(c, userID[c], TAG_TALK_RES,
                             place[c] = "confirming", userID[c]))
      <4>1. TAG_TALK_RES \in Tags /\ (place[c] = "confirming") \in BOOLEAN
        BY DEF Tags
      <4> QED
        BY <1>1, <1>2, <1>15, <3>1, <4>1, PostType, DatagramType DEF Respond
    <3>2. CASE UNCHANGED <<inbox, outbox>>
      BY <1>1, <1>2, <1>15, <3>2, QueuesType DEF Respond
    <3> QED
      BY <1>15, <3>1, <3>2 DEF Respond
  <2>2. OwnTypes'
    BY <1>1, <1>15 DEF Respond, OwnTypes
  <2> QED
    BY <1>1, <1>15, <2>1, <2>2, RestUnchanged DEF Respond
<1>16. CASE Connect(c)
  <2>1. TypeOK' /\ SharedTypes' /\ ChildTypes'
    BY <1>1, <1>16, VarsUnchanged, SharedUnchanged, ChildUnchanged DEF Connect
  <2>2. OwnTypes'
    BY <1>1, <1>16 DEF Connect, OwnTypes
  <2>3. TcpTypes'
    <3>1. CASE UNCHANGED <<line, tcpVars>>
      BY <1>1, <3>1, TcpUnchanged
    <3>2. CASE ~UNCHANGED <<line, tcpVars>>
      <4> DEFINE id == targetTCPAddress[c]
                 call == [caller |-> c, callee |-> id, sent |-> 0,
                          shown |-> 0, open |-> TRUE]
                 r == [receiver[id] EXCEPT
                           !.backlog = Append(@, Len(calls'))]
      <4>1. /\ id \in UserIds
            /\ calls' = Append(calls, call)
            /\ receiver' = [receiver EXCEPT ![id] = r]
            /\ line' = [line EXCEPT ![c] = Len(calls')]
            /\ forked' = forked
        BY <1>16, <3>2 DEF Connect, tcpVars
      <4>2. call \in Call
        BY <4>1 DEF Call
      <4>3. calls \in Seq(Call) /\ receiver[id] \in Listener
            /\ receiver \in [UserIds -> Listener]
            /\ line \in [Addrs -> 0..Len(calls)]
            /\ forked \in [Addrs -> Nat]
        BY <1>1, <4>1 DEF TcpTypes
      <4> HIDE DEF id, call
      <4>4. calls' \in Seq(Call) /\ Len(calls') = Len(calls) + 1
            /\ Len(calls') \in Nat
        BY <4>1, <4>2, <4>3
      <4>5. r \in Listener
        <5>1. Append(receiver[id].backlog, Len(calls')) \in Seq(Nat)
          BY <4>3, <4>4 DEF Listener
        <5> QED
          BY <4>3, <5>1 DEF Listener
      <4>6. line' \in [Addrs -> 0..Len(calls')]
        BY <4>1, <4>3, <4>4
      <4> HIDE DEF r
      <4> QED
        BY <4>1, <4>3, <4>4, <4>5, <4>6 DEF TcpTypes
    <3> QED
      BY <3>1, <3>2
  <2> QED
    BY <2>1, <2>2, <2>3
<1> QED
  BY <1>4, <1>5, <1>6, <1>7, <1>8, <1>9, <1>10, <1>11, <1>12, <1>13, <1>14,
     <1>15, <1>16
  DEF Parent

\* The child of a client.
LEMMA ChildKeepsTypes ==
    ASSUME TypesOK, NEW c \in Addrs, Child(c)
    PROVE  TypesOK'
<1> USE DEF parentVars, ownVars, bufferVars
<1> SUFFICES TypeOK' /\ OwnTypes' /\ SharedTypes' /\ ChildTypes' /\ TcpTypes'
  BY DEF TypesOK
<1>1. TypeOK /\ OwnTypes /\ SharedTypes /\ ChildTypes /\ TcpTypes
  BY DEF TypesOK
<1>2. held[c] \in Message
  BY <1>1 DEF ChildTypes
<1>3. /\ held[c].senderID \in UserIds
      /\ held[c].theAddress \in TcpAddrs
      /\ held[c].theOtherAddress \in UdpAddrs
  BY <1>2 DEF Message
<1>4. OwnTypes' /\ TcpTypes'
  <2>1. UNCHANGED <<parentVars, tcpVars>>
    BY DEF Child, ChildPeek, TakeNotice, TakeRequest, TestTalking, TestRequest,
           NameRequester, StoreRequester, FlagRequest, ForgetRequester,
           RefuseRequest
  <2> QED
    BY <1>1, <2>1, TcpUnchanged DEF OwnTypes
<1>5. CASE ChildPeek(c) \/ TakeNotice(c) \/ TakeRequest(c)
  <2>1. outbox[c] # <<>>
    BY <1>5 DEF ChildPeek, TakeNotice, TakeRequest
  <2>2. Head(outbox[c]) \in Message /\ Taken(c) \in [Addrs -> Seq(Message)]
    BY <1>1, <2>1, TakenType
  <2>3. Head(outbox[c]).from \in UdpAddrs \cup {ServerAddr}
    BY <2>2 DEF Message, UdpAddrs
  <2>4. TypeOK'
    BY <1>1, <1>5, <2>2, VarsUnchanged, QueuesType
    DEF ChildPeek, TakeNotice, TakeRequest
  <2>5. SharedTypes'
    BY <1>1, <1>5, <2>3, SharedUnchanged
    DEF ChildPeek, TakeNotice, TakeRequest, SharedTypes
  <2>6. ChildTypes'
    BY <1>1, <1>5, <2>2, NoMessageType
    DEF ChildPeek, TakeNotice, TakeRequest, ChildGoes, ChildTypes, ChildPlaces
  <2> QED
    BY <1>4, <2>4, <2>5, <2>6
<1>6. CASE TestTalking(c) \/ TestRequest(c)
  <2>1. PICK p \in ChildPlaces : child' = [child EXCEPT ![c] = p]
    BY <1>6 DEF TestTalking, TestRequest, ChildGoes, ChildPlaces
  <2>2. UNCHANGED <<vars, sharedVars, held>>
    BY <1>6 DEF TestTalking, TestRequest
  <2> QED
    BY <1>1, <1>4, <2>1, <2>2, VarsUnchanged, SharedUnchanged DEF ChildTypes
<1>7. CASE \/ NameRequester(c) \/ StoreRequester(c) \/ FlagRequest(c)
           \/ ForgetRequester(c)
  <2>1. TypeOK'
    BY <1>1, <1>7, VarsUnchanged
    DEF NameRequester, StoreRequester, FlagRequest, ForgetRequester
  <2>2. SharedTypes'
    BY <1>1, <1>3, <1>7
    DEF NameRequester, StoreRequester, FlagRequest, ForgetRequester,
        SharedTypes, targetVars
  <2>3. ChildTypes'
    BY <1>1, <1>7, NoMessageType
    DEF NameRequester, StoreRequester, FlagRequest, ForgetRequester, ChildGoes,
        ChildTypes, ChildPlaces
  <2> QED
    BY <1>4, <2>1, <2>2, <2>3
<1>8. CASE RefuseRequest(c)
  <2> DEFINE m == [NoMessage EXCEPT !.from = c, !.type = TAG_TALK_RES]
  <2>1. m \in Message /\ Sendable(m)
    BY NoMessageType, RefusalIsSendable DEF Message, Tags
  <2>2. UNCHANGED <<serverVars, sharedVars, held>>
    BY <1>8 DEF RefuseRequest
  <2>3. PICK p \in ChildPlaces : child' = [child EXCEPT ![c] = p]
    BY <1>8 DEF RefuseRequest, ChildGoes, ChildPlaces
  <2>4. Post(outbox, targetUDPAddress[c], m) \/ UNCHANGED <<inbox, outbox>>
    BY <1>8 DEF RefuseRequest
  <2> HIDE DEF m
  <2>5. outbox \in [Addrs -> Seq(Message)]
    BY <1>1 DEF TypeOK
  <2>6. TypeOK'
    BY <1>1, <2>1, <2>2, <2>4, <2>5, PostType, QueuesType
  <2> QED
    BY <1>1, <1>4, <2>2, <2>3, <2>6, SharedUnchanged DEF ChildTypes
<1> QED
  BY <1>5, <1>6, <1>7, <1>8 DEF Child

\* A receiver takes its port, or finds it taken.
LEMMA BindKeepsTypes ==
    ASSUME TypesOK, NEW c \in Addrs, Bind(c)
    PROVE  TypesOK'
<1> USE DEF parentVars, ownVars, bufferVars
<1>1. TypeOK /\ OwnTypes /\ SharedTypes /\ ChildTypes /\ TcpTypes
  BY DEF TypesOK
<1>2. TypeOK' /\ OwnTypes' /\ SharedTypes' /\ ChildTypes'
  BY <1>1, VarsUnchanged, SharedUnchanged, ChildUnchanged DEF Bind, OwnTypes
<1>3. [NoListener EXCEPT !.owner = c, !.place = "accepting"] \in Listener
  <2>1. NoListener \in Listener
    BY DEF NoListener, Listener
  <2> QED
    BY <2>1 DEF Listener
<1>4. receiver' \in [UserIds -> Listener]
  BY <1>1, <1>3 DEF Bind, TcpTypes
<1>5. forked' \in [Addrs -> Nat]
  <2>1. forked[c] \in Nat /\ forked[c] > 0
    BY <1>1 DEF Bind, TcpTypes
  <2>2. forked[c] - 1 \in Nat
    BY <2>1
  <2> QED
    BY <1>1, <2>2 DEF Bind, TcpTypes
<1>6. TcpTypes'
  BY <1>1, <1>4, <1>5 DEF Bind, TcpTypes
<1> QED
  BY <1>2, <1>6 DEF TypesOK

\* The receiver on a port.
LEMMA ReceiverKeepsTypes ==
    ASSUME TypesOK, NEW id \in UserIds, Receiver(id)
    PROVE  TypesOK'
<1> USE DEF parentVars, ownVars, bufferVars
<1> SUFFICES TypeOK' /\ OwnTypes' /\ SharedTypes' /\ ChildTypes' /\ TcpTypes'
  BY DEF TypesOK
<1>1. TypeOK /\ OwnTypes /\ SharedTypes /\ ChildTypes /\ TcpTypes
  BY DEF TypesOK
<1>2. /\ receiver \in [UserIds -> Listener]
      /\ calls \in Seq(Call)
      /\ line \in [Addrs -> 0..Len(calls)]
      /\ forked \in [Addrs -> Nat]
      /\ receiver[id] \in Listener
  BY <1>1 DEF TcpTypes
<1>3. UNCHANGED <<vars, parentVars, childVars, forked>>
  BY DEF Receiver, Accept, Test, Display, EndOfCall
<1>4. TypeOK' /\ OwnTypes' /\ ChildTypes'
  BY <1>1, <1>3, VarsUnchanged, ChildUnchanged DEF OwnTypes
<1>5. ASSUME NEW p \in {"accepting", "testing", "receiving"}
      PROVE  [receiver[id] EXCEPT !.place = p] \in Listener
  BY <1>2 DEF Listener
<1>6. CASE Test(id)
  <2>1. PICK p \in {"accepting", "receiving"} :
            receiver' = [receiver EXCEPT ![id].place = p]
    BY <1>6 DEF Test, At
  <2>2. [receiver[id] EXCEPT !.place = p] \in Listener
    BY <1>5
  <2>3. receiver' \in [UserIds -> Listener]
    BY <1>2, <2>1, <2>2
  <2> QED
    BY <1>1, <1>3, <1>4, <1>6, <2>3, SharedUnchanged DEF Test, TcpTypes
<1>7. CASE Accept(id)
  <2> DEFINE r == receiver[id]
             s == [r EXCEPT !.place = "testing", !.call = Head(r.backlog),
                            !.backlog = Tail(r.backlog)]
  <2>1. /\ r.backlog # <<>>
        /\ receiver' = [receiver EXCEPT ![id] = s]
        /\ targetTCPAddress' = [targetTCPAddress EXCEPT ![r.owner] = Ephemeral]
        /\ UNCHANGED <<line, calls, isTalking, talkRequest, otherID,
                       targetUDPAddress>>
    BY <1>7 DEF Accept
  <2>2. s \in Listener
    <3>1. Head(r.backlog) \in Nat /\ Tail(r.backlog) \in Seq(Nat)
      BY <1>2, <2>1 DEF Listener
    <3> QED
      BY <1>2, <3>1 DEF Listener
  <2> HIDE DEF r, s
  <2>3. SharedTypes'
    BY <1>1, <2>1 DEF SharedTypes
  <2>4. TcpTypes'
    BY <1>2, <1>3, <2>1, <2>2 DEF TcpTypes
  <2> QED
    BY <1>4, <2>3, <2>4
<1>8. CASE Display(id)
  <2> DEFINE n == receiver[id].call
  <2>1. PICK k \in calls[n].shown + 1 .. calls[n].sent :
            calls' = [calls EXCEPT ![n].shown = k]
    BY <1>8 DEF Display
  <2>2. receiver' = [receiver EXCEPT ![id].place = "testing"]
    BY <1>8 DEF Display, At
  <2>3. receiver' \in [UserIds -> Listener]
    <3>1. [receiver[id] EXCEPT !.place = "testing"] \in Listener
      BY <1>5
    <3> QED
      BY <1>2, <2>2, <3>1
  <2> HIDE DEF n
  <2>4. calls' \in Seq(Call) /\ Len(calls') = Len(calls)
    <3> DEFINE e == [calls[n] EXCEPT !.shown = k]
    <3>1. calls' = [calls EXCEPT ![n] = e]
      BY <2>1
    <3>2. n \in DOMAIN calls => e \in Call
      <4>1. ASSUME n \in DOMAIN calls PROVE calls[n] \in Call /\ k \in Nat
        <5>1. calls[n] \in Call
          BY <1>2, <4>1
        <5> QED
          BY <5>1 DEF Call
      <4> QED
        BY <4>1 DEF Call
    <3> HIDE DEF e
    <3>3. CASE n \in DOMAIN calls
      BY <1>2, <3>1, <3>2, <3>3
    <3>4. CASE n \notin DOMAIN calls
      <4>1. calls \in [1..Len(calls) -> Call] /\ DOMAIN calls = 1..Len(calls)
        BY <1>2
      <4>2. calls' = calls
        BY <3>1, <3>4, <4>1
      <4> QED
        BY <1>2, <4>2
    <3> QED
      BY <3>3, <3>4
  <2>5. TcpTypes'
    BY <1>2, <1>3, <2>3, <2>4 DEF TcpTypes
  <2> QED
    BY <1>1, <1>4, <1>8, <2>5, SharedUnchanged DEF Display
<1>9. CASE EndOfCall(id)
  <2>1. NoListener \in Listener
    BY DEF NoListener, Listener
  <2>2. receiver' \in [UserIds -> Listener]
    BY <1>2, <1>9, <2>1 DEF EndOfCall
  <2>3. calls' \in Seq(Call) /\ Len(calls') = Len(calls)
    <3>1. \A n \in DOMAIN calls : calls[n] \in Call
      BY <1>2
    <3>2. \A n \in DOMAIN calls : [calls[n] EXCEPT !.open = FALSE] \in Call
      BY <3>1 DEF Call
    <3>3. calls' = [n \in DOMAIN calls |->
               IF calls[n].callee = id
               THEN [calls[n] EXCEPT !.open = FALSE] ELSE calls[n]]
      BY <1>9 DEF EndOfCall
    <3>4. Len(calls) \in Nat /\ DOMAIN calls = 1..Len(calls)
      BY <1>2
    <3>5. calls' \in [1..Len(calls) -> Call]
      BY <3>1, <3>2, <3>3, <3>4
    <3> QED
      BY <3>4, <3>5
  <2>4. TcpTypes'
    BY <1>2, <1>3, <2>2, <2>3 DEF TcpTypes
  <2> QED
    BY <1>1, <1>4, <1>9, <2>4, SharedUnchanged DEF EndOfCall
<1> QED
  BY <1>6, <1>7, <1>8, <1>9 DEF Receiver

LEMMA StepKeepsTypes == TypesOK /\ IInv /\ [SystemNext]_systemVars => TypesOK'
<1> SUFFICES ASSUME TypesOK, IInv, [SystemNext]_systemVars PROVE TypesOK'
  OBVIOUS
<1>1. CASE (Serve \/ Network \/ UNCHANGED vars) /\ UNCHANGED clientVars
  <2>1. TypeOK'
    BY <1>1, ServeKeepsTypes, NetworkKeepsTypes, VarsUnchanged DEF TypesOK
  <2>2. OwnTypes'
    BY <1>1 DEF TypesOK, OwnTypes, clientVars, parentVars, ownVars, bufferVars
  <2>3. SharedTypes' /\ ChildTypes' /\ TcpTypes'
    BY <1>1, RestUnchanged DEF TypesOK, clientVars, parentVars, ownVars
  <2> QED
    BY <2>1, <2>2, <2>3 DEF TypesOK
<1> QED
  BY <1>1, UserKeepsTypes, ParentKeepsTypes, ChildKeepsTypes, BindKeepsTypes,
     ReceiverKeepsTypes
  DEF SystemNext, Loss, systemVars

LEMMA TypesInvariance == SystemSpec => []TypesOK
BY InitTypes, StepKeepsTypes, SystemInvariance, PTL DEF SystemSpec, SInv

\* Every variable of every process keeps its type, whatever is taken for an
\* answer, lost or overwritten: what a child publishes is a user, and what the
\* parents and the server send are datagrams the other side can read.
THEOREM SystemTypes == SystemSpec => []SystemTypeOK
BY TypesInvariance, TypesImply, PTL

-----------------------------------------------------------------------------
(* What the server guarantees, with the clients of the repository. *)

\* With the real clients no user is logged in twice either, and nobody whom
\* the server cannot tell.
THEOREM SystemSessions ==
    SystemSpec => [](OneSessionPerUser /\ LoggedInReachable)
BY SystemInvariance, IInvImplies, PTL DEF SInv

\* The whole talk system, all processes of all clients and the network, is an
\* implementation of sessions that start with a login, where it came from, and
\* end with a logout of their user.
THEOREM SystemRefinesPresence == SystemSpec => ImplementsPresence
<1>1. SystemInit => Sessions!Init
  <2>1. SystemInit => /\ SessionsIn(users) = [id \in UserIds |-> NoAddr]
                      /\ inbox = <<>>
    BY DEF SystemInit, Init, SessionsIn, SessionIn
  <2> QED
    BY <2>1, SessionMapping
<1>2. SInv /\ [SystemNext]_systemVars =>
          [Sessions!Next]_([id \in UserIds |-> SessionOf(id)])
  BY StepKeepsSInv, StepRefines, SessionOfIsSessionIn DEF SInv
<1> QED
  BY <1>1, <1>2, SystemInvariance, PTL
  DEF SystemSpec, ImplementsPresence, Sessions!Spec

\* What the server tells its clients is as good with the clients of the
\* repository: the lists of WHO and of logins, and who came or went.
THEOREM SystemTells == SystemSpec => WhoListsOthersOnce /\ ChangesAnnounced
<1>1. TypesOK => TypeOK
  BY DEF TypesOK
<1>2. SInv /\ [SystemNext]_systemVars => IInv /\ ([Next]_vars \/ UNCHANGED users)
  BY StepKeepsSInv DEF SInv
<1>3. SystemSpec => WhoListsOthersOnce
  BY <1>1, <1>2, WhoStep, NewcomerStep, TypesInvariance, SystemInvariance, PTL
  DEF SystemSpec, WhoListsOthersOnce
<1>4. SystemSpec => ChangesAnnounced
  BY <1>1, <1>2, ChangeStep, TypesInvariance, SystemInvariance, PTL
  DEF SystemSpec, ChangesAnnounced
<1> QED
  BY <1>3, <1>4
=============================================================================
