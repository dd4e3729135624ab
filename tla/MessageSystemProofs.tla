------------------------- MODULE MessageSystemProofs -------------------------
(***************************************************************************)
(* What holds of the message server together with the clients of the       *)
(* repository, for every number of clients, with or without loss.  First,  *)
(* these clients are an instance of the environment MessageServer assumes, *)
(* so that all of MessageServerProofs applies.  Then, the contract between *)
(* requests and answers.                                                   *)
(***************************************************************************)
EXTENDS MessageSystem, MessageServerProofs, FiniteSetTheorems

-----------------------------------------------------------------------------
(* The clients do what the server's environment may do. *)

ClientsOK ==
    /\ loggedIn \in [Addrs -> BOOLEAN]
    /\ userID \in [Addrs -> ClientIds]
    /\ outbound \in [Addrs -> ClientIds \cup {NotSet}]
    /\ pc \in [Addrs -> Places]

\* Requests are client messages.
LEMMA RequestType ==
    ASSUME NEW kind \in {VIEW, PRINT}, NEW id \in ClientIds
    PROVE  Request(kind, id) \in ClientMessage
BY SystemAssumption DEF Request, Message, ClientMessage

\* A datagram of a known kind is one the environment may send.
LEMMA SendingIsNext ==
    ASSUME NEW c \in Addrs,
           NEW d \in NotifyMessage \cup ClientMessage \cup OtherMessage,
           ClientSends(c, d)
    PROVE  Next
BY DEF Next, Environment

LEMMA ReadingIsNext ==
    ASSUME NEW c \in Addrs, ClientReads(c)
    PROVE  Next
BY DEF Next, Environment

\* A menu command keeps the types and is a step of the environment, or does
\* not touch the network.
LEMMA MenuStep ==
    ASSUME ClientsOK, NEW c \in Addrs, Menu(c)
    PROVE  ClientsOK' /\ [Next]_vars
<1> USE DEF ClientsOK, Places
<1>1. ASSUME NEW id \in ClientIds, NEW kind \in {LOGIN, LOGOUT},
             NoticeToServer(c, kind, id)
      PROVE  Next
  <2>1. [type |-> NOTIFYMSG_TAG, messageType |-> kind, clientID |-> id]
            \in NotifyMessage
    BY DEF NotifyMessage
  <2> QED
    BY <1>1, <2>1, SendingIsNext DEF NoticeToServer
<1>2. ASSUME NEW id \in ClientIds, LogIn(c, id) PROVE ClientsOK' /\ Next
  BY <1>1, <1>2 DEF LogIn
<1>3. CASE ExitLoggedOut(c)
  BY <1>3 DEF ExitLoggedOut
<1>4. ASSUME NEW to \in ClientIds, NEW text \in Texts, SendMessage(c, to, text)
      PROVE  ClientsOK' /\ Next
  <2>1. Message(SEND, userID[c], to, text) \in ClientMessage
    BY DEF Message, ClientMessage
  <2>2. Next
    BY <1>4, <2>1, SendingIsNext DEF SendMessage
  <2> QED
    BY <1>4, <2>2 DEF SendMessage
<1>5. CASE ViewMessages(c)
  <2>1. Next
    BY <1>5, RequestType, SendingIsNext DEF ViewMessages
  <2> QED
    BY <1>5, <2>1 DEF ViewMessages
<1>6. CASE SaveMessages(c)
  <2>1. SaveRequest(c) \in ClientMessage \cup OtherMessage
    BY RequestType DEF SaveRequest, OtherMessage
  <2>2. Next
    BY <1>6, <2>1, SendingIsNext DEF SaveMessages
  <2> QED
    BY <1>6, <2>2 DEF SaveMessages
<1>7. CASE LogOut(c)
  BY <1>1, <1>7 DEF LogOut
<1>8. CASE ExitLoggedIn(c)
  BY <1>1, <1>8 DEF ExitLoggedIn
<1> QED
  BY <1>2, <1>3, <1>4, <1>5, <1>6, <1>7, <1>8 DEF Menu

LEMMA SystemStep ==
    ClientsOK /\ [SystemNext]_systemVars => ClientsOK' /\ [Next]_vars
<1> SUFFICES ASSUME ClientsOK, [SystemNext]_systemVars
             PROVE  ClientsOK' /\ [Next]_vars
  OBVIOUS
<1>1. CASE UNCHANGED clientVars /\ [Next]_vars
  BY <1>1 DEF clientVars, ClientsOK
<1>2. ASSUME NEW c \in Addrs, Menu(c) PROVE ClientsOK' /\ [Next]_vars
  BY <1>2, MenuStep
<1>3. ASSUME NEW c \in Addrs, Parent(c)
      PROVE  ClientsOK' /\ [Next]_vars
  <2>1. ClientReads(c)
    BY <1>3 DEF Parent, ListMessage, EndOfList
  <2>2. ClientsOK'
    BY <1>3 DEF Parent, ListMessage, EndOfList, clientVars, ClientsOK, Places
  <2> QED
    BY <2>1, <2>2, ReadingIsNext
<1>4. ASSUME NEW c \in Addrs, Child(c)
      PROVE  UNCHANGED clientVars /\ [Next]_vars
  BY <1>4, ReadingIsNext DEF Child
<1>5. CASE (Serve \/ OperatorExit \/ Network) /\ UNCHANGED clientVars
  BY <1>1, <1>5 DEF Next
<1>6. CASE UNCHANGED systemVars
  BY <1>1, <1>6 DEF systemVars
<1> QED
  BY <1>1, <1>2, <1>3, <1>4, <1>5, <1>6 DEF SystemNext

LEMMA InitClientsOK == SystemInit => ClientsOK
BY DEF SystemInit, ClientInit, ClientsOK, Places

LEMMA ClientsKeepTypes == SystemSpec => []ClientsOK
BY InitClientsOK, SystemStep, PTL DEF SystemSpec

\* The message system is an instance of the message server in its arbitrary
\* environment: no client of the repository does what that does not allow.
THEOREM SystemImplementsServer == SystemSpec => Spec
<1>1. SystemInit => Init
  BY DEF SystemInit
<1> QED
  BY <1>1, ClientsKeepTypes, SystemStep, PTL DEF SystemSpec, Spec

\* All variables of the system keep their types.
THEOREM SystemTypeCorrect == SystemSpec => []SystemTypeOK
<1>1. TypeOK /\ ClientsOK => SystemTypeOK
  BY DEF ClientsOK, SystemTypeOK
<1> QED
  BY <1>1, ClientsKeepTypes, SystemImplementsServer, TypeCorrect, PTL

\* The system as a whole keeps its mail: it implements the mailboxes.
THEOREM SystemKeepsMail == SystemSpec => ImplementsMailbox /\ MailIsAnnounced
BY SystemImplementsServer, MailboxRefinement, MailAnnounced, PTL

-----------------------------------------------------------------------------
(* Queues. *)

\* p is a request of c for its mail.
IsRequest(p, c) ==
    /\ p.from = c
    /\ p.data.type = CLIENTMSG_TAG
    /\ p.data.messageType \in {VIEW, PRINT}

AtMostOne(in, c) ==
    \A j, k \in DOMAIN in : IsRequest(in[j], c) /\ IsRequest(in[k], c) => j = k

None(in, c) == \A k \in DOMAIN in : ~IsRequest(in[k], c)

\* No part of an answer is in the queue q.
Quiet(q) == \A k \in DOMAIN q : q[k].type = NOTIFYMSG_TAG

\* No part of an answer is behind an end mark of q.
EndsOnce(q) ==
    \A j, k \in DOMAIN q :
        j < k /\ q[j].type = VERIFYMSG_TAG => q[k].type = NOTIFYMSG_TAG

\* p is what is left of q when elements are removed.
LeftOf(p, q) ==
    \E f \in [DOMAIN p -> DOMAIN q] :
        /\ \A j, k \in DOMAIN p : j < k => f[j] < f[k]
        /\ \A k \in DOMAIN p : p[k] = q[f[k]]

\* Taking the first datagram, or losing any, leaves the others in order.
LEMMA TailIsLeft ==
    ASSUME NEW S, NEW q \in Seq(S), q # <<>>
    PROVE  LeftOf(Tail(q), q)
<1> DEFINE f == [k \in DOMAIN Tail(q) |-> k + 1]
<1>1. /\ DOMAIN Tail(q) = 1 .. Len(q) - 1
      /\ DOMAIN q = 1 .. Len(q)
      /\ Len(q) \in Nat
      /\ \A k \in DOMAIN Tail(q) : Tail(q)[k] = q[k + 1]
  OBVIOUS
<1>2. f \in [DOMAIN Tail(q) -> DOMAIN q]
  BY <1>1
<1>3. \A j, k \in DOMAIN Tail(q) : j < k => f[j] < f[k]
  BY <1>1
<1>4. \A k \in DOMAIN Tail(q) : Tail(q)[k] = q[f[k]]
  BY <1>1
<1> HIDE DEF f
<1> QED
  BY <1>2, <1>3, <1>4 DEF LeftOf

LEMMA RemovedIsLeft ==
    ASSUME NEW S, NEW q \in Seq(S), NEW i \in DOMAIN q
    PROVE  LeftOf(RemoveAt(q, i), q)
<1> DEFINE p == RemoveAt(q, i)
           f == [k \in DOMAIN p |-> IF k < i THEN k ELSE k + 1]
<1>1. /\ Len(q) \in Nat /\ DOMAIN q = 1..Len(q) /\ i \in 1..Len(q)
      /\ DOMAIN p = 1 .. Len(q) - 1
      /\ \A k \in 1 .. Len(q) - 1 : p[k] = q[IF k < i THEN k ELSE k + 1]
  <2> DEFINE front == SubSeq(q, 1, i - 1)
             back == SubSeq(q, i + 1, Len(q))
  <2>1. Len(q) \in Nat /\ DOMAIN q = 1..Len(q) /\ i \in 1..Len(q)
    OBVIOUS
  <2>2. /\ front \in Seq(S) /\ Len(front) = i - 1
        /\ \A k \in 1 .. i - 1 : front[k] = q[k]
    BY <2>1
  <2>3. /\ back \in Seq(S) /\ Len(back) = Len(q) - i
        /\ \A k \in 1 .. Len(q) - i : back[k] = q[i + k]
    BY <2>1
  <2>4. p = front \o back
    BY DEF RemoveAt
  <2> HIDE DEF front, back, p
  <2>5. /\ Len(p) = Len(front) + Len(back)
        /\ DOMAIN p = 1 .. Len(front) + Len(back)
        /\ \A k \in 1 .. Len(front) + Len(back) :
               p[k] = IF k <= Len(front) THEN front[k]
                                         ELSE back[k - Len(front)]
    <3>1. p \in Seq(S)
      BY <2>2, <2>3, <2>4, ConcatProperties
    <3>2. /\ Len(p) = Len(front) + Len(back)
          /\ \A k \in 1 .. Len(front) + Len(back) :
                 p[k] = IF k <= Len(front) THEN front[k]
                                           ELSE back[k - Len(front)]
      BY <2>2, <2>3, <2>4, ConcatProperties
    <3>3. DOMAIN p = 1 .. Len(p)
      BY <3>1
    <3> QED
      BY <3>2, <3>3
  <2>6. DOMAIN p = 1 .. Len(q) - 1
    BY <2>1, <2>2, <2>3, <2>5
  <2>7. ASSUME NEW k \in 1 .. Len(q) - 1
        PROVE  p[k] = q[IF k < i THEN k ELSE k + 1]
    <3>1. CASE k < i
      BY <2>1, <2>2, <2>3, <2>5, <3>1
    <3>2. CASE ~(k < i)
      <4>1. k - (i - 1) \in 1 .. Len(q) - i /\ i + (k - (i - 1)) = k + 1
        BY <2>1, <3>2
      <4>2. p[k] = back[k - (i - 1)]
        BY <2>1, <2>2, <2>3, <2>5, <3>2
      <4> QED
        BY <2>3, <3>2, <4>1, <4>2
    <3> QED
      BY <3>1, <3>2
  <2> QED
    BY <2>1, <2>6, <2>7
<1> HIDE DEF p
<1>2. f \in [DOMAIN p -> DOMAIN q]
  BY <1>1
<1>3. \A j, k \in DOMAIN p : j < k => f[j] < f[k]
  BY <1>1
<1>4. \A k \in DOMAIN p : p[k] = q[f[k]]
  BY <1>1
<1>5. LeftOf(p, q)
  <2> HIDE DEF f
  <2> QED
    BY <1>2, <1>3, <1>4 DEF LeftOf
<1> QED
  BY <1>5 DEF p

\* Fewer elements keep all four properties of a queue.
LEMMA LeftKeeps ==
    ASSUME NEW S, NEW p \in Seq(S), NEW q \in Seq(S), LeftOf(p, q)
    PROVE  /\ \A c : AtMostOne(q, c) => AtMostOne(p, c)
           /\ \A c : None(q, c) => None(p, c)
           /\ Quiet(q) => Quiet(p)
           /\ EndsOnce(q) => EndsOnce(p)
<1>1. PICK f \in [DOMAIN p -> DOMAIN q] :
          /\ \A j, k \in DOMAIN p : j < k => f[j] < f[k]
          /\ \A k \in DOMAIN p : p[k] = q[f[k]]
  BY DEF LeftOf
<1>2. DOMAIN p \subseteq Nat /\ DOMAIN q \subseteq Nat
  OBVIOUS
<1>3. \A j, k \in DOMAIN p : f[j] = f[k] => j = k
  BY <1>1, <1>2
<1>4. \A c : AtMostOne(q, c) => AtMostOne(p, c)
  BY <1>1, <1>3 DEF AtMostOne
<1>5. \A c : None(q, c) => None(p, c)
  BY <1>1 DEF None
<1>6. Quiet(q) => Quiet(p)
  BY <1>1 DEF Quiet
<1>7. EndsOnce(q) => EndsOnce(p)
  BY <1>1 DEF EndsOnce
<1> QED
  BY <1>4, <1>5, <1>6, <1>7

\* A notification behind a queue changes neither property.
LEMMA NoticeBehind ==
    ASSUME NEW S, NEW q \in Seq(S), NEW m \in S, m.type = NOTIFYMSG_TAG
    PROVE  /\ Quiet(q) => Quiet(q \o <<m>>)
           /\ EndsOnce(q) => EndsOnce(q \o <<m>>)
<1>1. /\ DOMAIN (q \o <<m>>) = 1 .. Len(q) + 1
      /\ DOMAIN q = 1 .. Len(q) /\ Len(q) \in Nat
      /\ \A k \in DOMAIN (q \o <<m>>) :
             (q \o <<m>>)[k] = IF k <= Len(q) THEN q[k] ELSE m
  OBVIOUS
<1> QED
  BY <1>1 DEF Quiet, EndsOnce

\* An answer ends with its only end mark.
LEMMA AnswerBehind ==
    ASSUME NEW q \in Seq(Reply), Quiet(q), NEW ms \in Seq(ServerMessage)
    PROVE  EndsOnce(q \o (ms \o <<EndOfMessages>>))
<1> DEFINE r == q \o (ms \o <<EndOfMessages>>)
<1>1. /\ Len(q) \in Nat /\ Len(ms) \in Nat
      /\ DOMAIN r = 1 .. Len(q) + Len(ms) + 1
      /\ \A k \in 1 .. Len(q) : r[k] = q[k]
      /\ \A k \in Len(q) + 1 .. Len(q) + Len(ms) : r[k] = ms[k - Len(q)]
  OBVIOUS
<1>2. \A k \in 1 .. Len(q) : r[k].type = NOTIFYMSG_TAG
  BY <1>1 DEF Quiet
<1>3. \A k \in Len(q) + 1 .. Len(q) + Len(ms) : r[k].type = SERVERMSG_TAG
  <2>1. \A k \in 1 .. Len(ms) : ms[k] \in ServerMessage
    OBVIOUS
  <2>2. \A k \in 1 .. Len(ms) : ms[k].type = SERVERMSG_TAG
    BY <2>1 DEF ServerMessage
  <2>3. \A k \in Len(q) + 1 .. Len(q) + Len(ms) : k - Len(q) \in 1 .. Len(ms)
    BY <1>1
  <2> HIDE DEF r
  <2> QED
    BY <1>1, <2>2, <2>3
<1>4. \A j \in DOMAIN r : r[j].type = VERIFYMSG_TAG => j = Len(q) + Len(ms) + 1
  <2> HIDE DEF r
  <2>1. ASSUME NEW j \in DOMAIN r, r[j].type = VERIFYMSG_TAG
        PROVE  j = Len(q) + Len(ms) + 1
    <3>1. r[j].type # NOTIFYMSG_TAG /\ r[j].type # SERVERMSG_TAG
      BY <2>1 DEF NOTIFYMSG_TAG, SERVERMSG_TAG, VERIFYMSG_TAG
    <3>2. j \notin 1 .. Len(q) /\ j \notin Len(q) + 1 .. Len(q) + Len(ms)
      BY <1>2, <1>3, <3>1
    <3> QED
      BY <1>1, <2>1, <3>2
  <2> QED
    BY <2>1
<1> HIDE DEF r
<1>5. EndsOnce(r)
  BY <1>1, <1>4 DEF EndsOnce
<1> QED
  BY <1>5 DEF r

\* A datagram behind the requests.
LEMMA PacketBehind ==
    ASSUME NEW S, NEW in \in Seq(S), NEW p \in S, NEW c
    PROVE  /\ None(in, c) => AtMostOne(Append(in, p), c)
           /\ ~IsRequest(p, c) =>
                  /\ None(in, c) => None(Append(in, p), c)
                  /\ AtMostOne(in, c) => AtMostOne(Append(in, p), c)
<1>1. /\ DOMAIN Append(in, p) = 1 .. Len(in) + 1
      /\ DOMAIN in = 1 .. Len(in) /\ Len(in) \in Nat
      /\ \A k \in 1 .. Len(in) + 1 :
             Append(in, p)[k] = IF k <= Len(in) THEN in[k] ELSE p
  OBVIOUS
<1> QED
  BY <1>1 DEF None, AtMostOne

-----------------------------------------------------------------------------
(* Requests and answers. *)

AnswerAt(c) ==
    /\ AtMostOne(inbox, c)
    /\ ~None(inbox, c) => Quiet(outbox[c])
    /\ EndsOnce(outbox[c])
    /\ ~AwaitsAnswer(c) => None(inbox, c) /\ Quiet(outbox[c])

AInv == TypeOK /\ ClientsOK /\ \A c \in Addrs : AnswerAt(c)

\* A set whose elements are all equal has one element at most.
LEMMA AtMostOneElement ==
    ASSUME NEW S, \A x, y \in S : x = y
    PROVE  Cardinality(S) \in {0, 1} /\ (S = {} => Cardinality(S) = 0)
<1>1. CASE S = {}
  BY <1>1, FS_EmptySet
<1>2. CASE S # {}
  <2>1. PICK x \in S : TRUE
    BY <1>2
  <2>2. S = {x}
    BY <2>1
  <2> QED
    BY <1>2, <2>2, FS_Singleton
<1> QED
  BY <1>1, <1>2

\* The inductive invariant implies the contract as it is stated for TLC.
LEMMA AInvImplies == AInv => AnswersMatchRequests
<1> SUFFICES ASSUME AInv, NEW c \in Addrs
             PROVE  /\ Cardinality(RequestsOf(c)) + Cardinality(EndMarksOf(c)) <= 1
                    /\ MessagesFor(c) # {} => RequestsOf(c) = {}
                    /\ \A k \in MessagesFor(c), j \in EndMarksOf(c) : k < j
                    /\ ~AwaitsAnswer(c) => /\ RequestsOf(c) = {}
                                           /\ EndMarksOf(c) = {}
                                           /\ MessagesFor(c) = {}
  BY DEF AnswersMatchRequests
<1>1. AnswerAt(c) /\ outbox[c] \in Seq(Reply)
  BY DEF AInv, TypeOK
<1>2. DOMAIN outbox[c] \subseteq Nat
  BY <1>1
<1>3. RequestsOf(c) = {k \in DOMAIN inbox : IsRequest(inbox[k], c)}
  BY DEF RequestsOf, IsRequest
<1>4. None(inbox, c) <=> RequestsOf(c) = {}
  BY <1>3 DEF None
<1>5. Quiet(outbox[c]) => EndMarksOf(c) = {} /\ MessagesFor(c) = {}
  BY DEF Quiet, EndMarksOf, MessagesFor, NOTIFYMSG_TAG, SERVERMSG_TAG,
         VERIFYMSG_TAG
<1>6. \A j \in EndMarksOf(c), k \in EndMarksOf(c) \cup MessagesFor(c) : ~(j < k)
  BY <1>1 DEF AnswerAt, EndsOnce, EndMarksOf, MessagesFor, NOTIFYMSG_TAG,
              SERVERMSG_TAG, VERIFYMSG_TAG
<1>7. \A j \in EndMarksOf(c), k \in MessagesFor(c) : j # k
  BY DEF EndMarksOf, MessagesFor, SERVERMSG_TAG, VERIFYMSG_TAG
<1>8. EndMarksOf(c) \subseteq Nat /\ MessagesFor(c) \subseteq Nat
  BY <1>2 DEF EndMarksOf, MessagesFor
<1>9. \A j, k \in RequestsOf(c) : j = k
  BY <1>1, <1>3 DEF AnswerAt, AtMostOne
<1>10. \A j, k \in EndMarksOf(c) : j = k
  BY <1>6, <1>8
<1>11. RequestsOf(c) = {} \/ EndMarksOf(c) = {}
  BY <1>1, <1>4, <1>5 DEF AnswerAt
<1>12. Cardinality(RequestsOf(c)) + Cardinality(EndMarksOf(c)) <= 1
  BY <1>9, <1>10, <1>11, AtMostOneElement
<1>13. \A k \in MessagesFor(c), j \in EndMarksOf(c) : k < j
  BY <1>6, <1>7, <1>8
<1> QED
  BY <1>1, <1>4, <1>5, <1>12, <1>13 DEF AnswerAt

LEMMA InitAInv == SystemInit => AInv
<1> SUFFICES ASSUME SystemInit PROVE AInv
  OBVIOUS
<1>1. inbox = <<>> /\ outbox = [a \in Addrs |-> <<>>]
  BY DEF SystemInit, Init
<1>2. TypeOK
  BY InitIInv DEF SystemInit, IInv
<1> QED
  BY <1>1, <1>2, InitClientsOK DEF AInv, AnswerAt, AtMostOne, None, Quiet, EndsOnce

\* What a handler does to the queues: it takes one datagram, and each client
\* gets nothing, a notification, or an answer to the request that was taken.
QueuesAfter(c) ==
    \/ outbox'[c] = outbox[c]
    \/ \E id : outbox'[c] = outbox[c] \o <<Notice(id)>>
    \/ /\ IsRequest(Head(inbox), c)
       /\ \E ms \in Seq(ServerMessage) :
              outbox'[c] = outbox[c] \o (ms \o <<EndOfMessages>>)

LEMMA NoticeSent ==
    ASSUME NEW u, SendNotice(u), NEW c \in Addrs
    PROVE  QueuesAfter(c)
BY DEF SendNotice, Sent, QueuesAfter

\* VIEW and PRINT answer whoever asked.
LEMMA AnswerSent ==
    ASSUME TypeOK, NEW kind \in {VIEW, PRINT}, ReceiveClientMessage(kind),
           NEW index \in Int,
           \/ IsEntry(index) /\ outbox' = Sent(Head(inbox).from, Answer(index))
           \/ WildAnswer(Head(inbox).from),
           NEW c \in Addrs
    PROVE  QueuesAfter(c)
<1> DEFINE a == Head(inbox).from
<1>1. IsRequest(Head(inbox), a)
  BY DEF ReceiveClientMessage, Receive, IsRequest
<1>2. ASSUME IsEntry(index), outbox' = Sent(a, Answer(index))
      PROVE  QueuesAfter(c)
  <2>1. users[index + 1].messages \in Seq(ServerMessage)
    <3>1. index + 1 \in DOMAIN users
      BY <1>2 DEF TypeOK, IsEntry
    <3>2. users[index + 1] \in Client
      BY <3>1 DEF TypeOK
    <3> QED
      BY <3>2 DEF Client
  <2> QED
    BY <1>1, <1>2, <2>1 DEF Sent, Answer, QueuesAfter
<1>3. ASSUME outbox' = Sent(a, <<EndOfMessages>>)
      PROVE  QueuesAfter(c)
  <2>1. <<>> \in Seq(ServerMessage) /\ <<EndOfMessages>> = <<>> \o <<EndOfMessages>>
    OBVIOUS
  <2> QED
    BY <1>1, <1>3, <2>1 DEF Sent, QueuesAfter
<1>4. ASSUME UNCHANGED outbox PROVE QueuesAfter(c)
  BY <1>4 DEF QueuesAfter
<1> QED
  BY <1>2, <1>3, <1>4 DEF WildAnswer, Die

LEMMA ServeQueues ==
    ASSUME TypeOK, Serve
    PROVE  /\ inbox # <<>> /\ inbox' = Tail(inbox)
           /\ \A c \in Addrs : QueuesAfter(c)
<1>1. inbox # <<>> /\ inbox' = Tail(inbox)
  BY DEF Serve, ReceiveNotify, ReceiveLogin, ReceiveLogout, ReceiveSend,
         ReceiveView, ReceivePrint, ReceiveClientMessage, Receive
<1> SUFFICES ASSUME NEW c \in Addrs PROVE QueuesAfter(c)
  BY <1>1
<1>2. CASE UNCHANGED outbox
  BY <1>2 DEF QueuesAfter
<1>3. CASE ReceiveNotify \/ ReceiveLogout
  BY <1>2, <1>3 DEF ReceiveNotify, ReceiveLogout, Die
<1>4. CASE ReceiveLogin
  <2>1. (\E u : SendNotice(u)) \/ UNCHANGED outbox
    BY <1>4 DEF ReceiveLogin, LoginKnown, LoginNew
  <2> QED
    BY <1>2, <2>1, NoticeSent
<1>5. CASE ReceiveSend
  <2>1. (\E u : SendNotice(u)) \/ UNCHANGED outbox
    BY <1>5 DEF ReceiveSend, SendKnown, SendNew
  <2> QED
    BY <1>2, <2>1, NoticeSent
<1>6. CASE ReceiveView
  BY <1>6, AnswerSent DEF ReceiveView, RequestIndex, TypeOK
<1>7. CASE ReceivePrint
  BY <1>7, AnswerSent DEF ReceivePrint, RequestIndex, TypeOK
<1> QED
  BY <1>3, <1>4, <1>5, <1>6, <1>7 DEF Serve

-----------------------------------------------------------------------------
(* Every step keeps the contract. *)

\* A queue loses elements or stays.
Shrinks(p, q) == p = q \/ LeftOf(p, q)

\* Steps that only take datagrams away.
LEMMA ShrinkKeepsAnswer ==
    ASSUME AInv, NEW c \in Addrs, AnswerAt(c),
           inbox' \in Seq(Packet), outbox'[c] \in Seq(Reply),
           Shrinks(inbox', inbox), Shrinks(outbox'[c], outbox[c]),
           pc'[c] = pc[c]
    PROVE  AnswerAt(c)'
<1>1. inbox \in Seq(Packet) /\ outbox[c] \in Seq(Reply)
  BY DEF AInv, TypeOK
<1>2. /\ AtMostOne(inbox, c) => AtMostOne(inbox', c)
      /\ None(inbox, c) => None(inbox', c)
  BY <1>1, LeftKeeps DEF Shrinks
<1>3. /\ Quiet(outbox[c]) => Quiet(outbox'[c])
      /\ EndsOnce(outbox[c]) => EndsOnce(outbox'[c])
  BY <1>1, LeftKeeps DEF Shrinks
<1>4. AwaitsAnswer(c)' = AwaitsAnswer(c)
  BY DEF AwaitsAnswer
<1> QED
  BY <1>2, <1>3, <1>4 DEF AnswerAt

\* The server: an answer follows the only request, when nothing of another
\* answer is in the queue.
LEMMA ServeKeepsAnswer ==
    ASSUME AInv, NEW c \in Addrs, AnswerAt(c), Serve, UNCHANGED pc
    PROVE  AnswerAt(c)'
<1>1. inbox \in Seq(Packet) /\ outbox[c] \in Seq(Reply)
  BY DEF AInv, TypeOK
<1>2. inbox # <<>> /\ inbox' = Tail(inbox) /\ QueuesAfter(c)
  BY ServeQueues DEF AInv
<1>3. inbox' \in Seq(Packet)
  BY <1>1, <1>2
<1>4. /\ AtMostOne(inbox', c)
      /\ None(inbox, c) => None(inbox', c)
  BY <1>1, <1>2, <1>3, TailIsLeft, LeftKeeps DEF AnswerAt
<1>5. AwaitsAnswer(c)' = AwaitsAnswer(c)
  BY DEF AwaitsAnswer
<1>6. CASE outbox'[c] = outbox[c]
  BY <1>4, <1>5, <1>6 DEF AnswerAt
<1>7. ASSUME NEW id, outbox'[c] = outbox[c] \o <<Notice(id)>>
      PROVE  AnswerAt(c)'
  <2>1. Notice(id).type = NOTIFYMSG_TAG
    BY DEF Notice
  <2>2. outbox[c] \in Seq(Reply \cup {Notice(id)})
    BY <1>1
  <2>3. /\ Quiet(outbox[c]) => Quiet(outbox'[c])
        /\ EndsOnce(outbox[c]) => EndsOnce(outbox'[c])
    BY <1>7, <2>1, <2>2, NoticeBehind
  <2> QED
    BY <1>4, <1>5, <2>3 DEF AnswerAt
<1>8. ASSUME IsRequest(Head(inbox), c), NEW ms \in Seq(ServerMessage),
             outbox'[c] = outbox[c] \o (ms \o <<EndOfMessages>>)
      PROVE  AnswerAt(c)'
  <2>1. /\ DOMAIN inbox = 1 .. Len(inbox) /\ Len(inbox) \in Nat /\ Len(inbox) # 0
        /\ Head(inbox) = inbox[1]
        /\ DOMAIN inbox' = 1 .. Len(inbox) - 1
        /\ \A k \in DOMAIN inbox' : inbox'[k] = inbox[k + 1]
    BY <1>1, <1>2
  <2>2. ~None(inbox, c)
    BY <1>8, <2>1 DEF None
  <2>3. None(inbox', c)
    <3> SUFFICES ASSUME NEW k \in DOMAIN inbox', IsRequest(inbox'[k], c)
                 PROVE  FALSE
      BY DEF None
    <3>1. k + 1 \in DOMAIN inbox /\ 1 \in DOMAIN inbox /\ k + 1 # 1
      BY <2>1
    <3>2. IsRequest(inbox[k + 1], c) /\ IsRequest(inbox[1], c)
      BY <1>8, <2>1
    <3> QED
      BY <3>1, <3>2 DEF AnswerAt, AtMostOne
  <2>4. Quiet(outbox[c]) /\ AwaitsAnswer(c)
    BY <2>2 DEF AnswerAt
  <2>5. EndsOnce(outbox'[c])
    BY <1>1, <1>8, <2>4, AnswerBehind
  <2> QED
    BY <1>4, <1>5, <2>3, <2>4, <2>5 DEF AnswerAt
<1> QED
  BY <1>2, <1>6, <1>7, <1>8 DEF QueuesAfter

\* A command: a request is made only by a parent that awaits none.
LEMMA MenuKeepsAnswer ==
    ASSUME AInv, NEW c \in Addrs, NEW b \in Addrs, Menu(b), AnswerAt(c)
    PROVE  AnswerAt(c)'
<1>1. inbox \in Seq(Packet) /\ pc \in [Addrs -> Places]
  BY DEF AInv, TypeOK, ClientsOK
<1>2. \A a \in Addrs : pc[a] = "menu" => ~AwaitsAnswer(a)
  BY DEF AwaitsAnswer
<1>3. ASSUME NEW d, ~IsRequest([from |-> b, data |-> d], c),
             inbox' = Append(inbox, [from |-> b, data |-> d]),
             UNCHANGED outbox, AwaitsAnswer(c)' = AwaitsAnswer(c)
      PROVE  AnswerAt(c)'
  <2>1. inbox \in Seq(Packet \cup {[from |-> b, data |-> d]})
    BY <1>1
  <2>2. /\ None(inbox, c) => None(inbox', c)
        /\ AtMostOne(inbox, c) => AtMostOne(inbox', c)
    BY <1>3, <2>1, PacketBehind
  <2> QED
    BY <1>3, <2>2 DEF AnswerAt
<1>4. ASSUME NEW d, c = b, pc[c] = "menu",
             inbox' = Append(inbox, [from |-> b, data |-> d]),
             UNCHANGED outbox, AwaitsAnswer(c)'
      PROVE  AnswerAt(c)'
  <2>1. inbox \in Seq(Packet \cup {[from |-> b, data |-> d]})
    BY <1>1
  <2>2. None(inbox, c) /\ Quiet(outbox[c])
    BY <1>2, <1>4 DEF AnswerAt
  <2>3. AtMostOne(inbox', c)
    BY <1>4, <2>1, <2>2, PacketBehind
  <2> QED
    BY <1>4, <2>2, <2>3 DEF AnswerAt
<1>5. ASSUME NEW id \in ClientIds, NEW kind \in {LOGIN, LOGOUT},
             NoticeToServer(b, kind, id), pc[b] = "menu",
             pc' = pc \/ pc' = [pc EXCEPT ![b] = "ended"]
      PROVE  AnswerAt(c)'
  <2> DEFINE d == [type |-> NOTIFYMSG_TAG, messageType |-> kind, clientID |-> id]
  <2>1. ~IsRequest([from |-> b, data |-> d], c)
    BY DEF IsRequest, NOTIFYMSG_TAG, CLIENTMSG_TAG
  <2>2. /\ inbox' = Append(inbox, [from |-> b, data |-> d])
        /\ UNCHANGED outbox
    BY <1>5 DEF NoticeToServer, ClientSends
  <2>3. AwaitsAnswer(c)' = AwaitsAnswer(c)
    BY <1>1, <1>5 DEF AwaitsAnswer
  <2> HIDE DEF d
  <2> QED
    BY <1>3, <2>1, <2>2, <2>3
<1>6. ASSUME NEW d, ClientSends(b, d), pc[b] = "menu",
             \/ pc' = [pc EXCEPT ![b] = "viewing"]
             \/ pc' = [pc EXCEPT ![b] = "saving"]
      PROVE  AnswerAt(c)'
  <2>1. /\ inbox' = Append(inbox, [from |-> b, data |-> d])
        /\ UNCHANGED outbox
    BY <1>6 DEF ClientSends
  <2>2. CASE c = b
    <3>1. AwaitsAnswer(c)'
      BY <1>1, <1>6, <2>2 DEF AwaitsAnswer
    <3> QED
      BY <1>4, <1>6, <2>1, <2>2, <3>1
  <2>3. CASE c # b
    <3>1. ~IsRequest([from |-> b, data |-> d], c)
      BY <2>3 DEF IsRequest
    <3>2. AwaitsAnswer(c)' = AwaitsAnswer(c)
      BY <1>1, <1>6, <2>3 DEF AwaitsAnswer
    <3> QED
      BY <1>3, <2>1, <3>1, <3>2
  <2> QED
    BY <2>2, <2>3
<1>7. ASSUME NEW id \in ClientIds, LogIn(b, id) PROVE AnswerAt(c)'
  BY <1>5, <1>7 DEF LogIn, AtMenu
<1>8. CASE ExitLoggedOut(b)
  <2>1. AwaitsAnswer(c)' = AwaitsAnswer(c) /\ UNCHANGED <<inbox, outbox>>
    BY <1>1, <1>8 DEF ExitLoggedOut, AtMenu, AwaitsAnswer, vars
  <2> QED
    BY <2>1 DEF AnswerAt
<1>9. ASSUME NEW to, NEW text, SendMessage(b, to, text) PROVE AnswerAt(c)'
  <2> DEFINE d == Message(SEND, userID[b], to, text)
  <2>1. ~IsRequest([from |-> b, data |-> d], c)
    BY DEF IsRequest, Message, SEND, VIEW, PRINT
  <2>2. /\ inbox' = Append(inbox, [from |-> b, data |-> d])
        /\ UNCHANGED <<outbox, pc>>
    BY <1>9 DEF SendMessage, ClientSends
  <2>3. AwaitsAnswer(c)' = AwaitsAnswer(c)
    BY <2>2 DEF AwaitsAnswer
  <2> HIDE DEF d
  <2> QED
    BY <1>3, <2>1, <2>2, <2>3
<1>10. CASE ViewMessages(b)
  BY <1>6, <1>10 DEF ViewMessages, AtMenu
<1>11. CASE SaveMessages(b)
  BY <1>6, <1>11 DEF SaveMessages, AtMenu
<1>12. CASE LogOut(b) \/ ExitLoggedIn(b)
  <2>1. userID[b] \in ClientIds
    BY DEF AInv, ClientsOK
  <2> QED
    BY <1>5, <1>12, <2>1 DEF LogOut, ExitLoggedIn, AtMenu
<1> QED
  BY <1>7, <1>8, <1>9, <1>10, <1>11, <1>12 DEF Menu

\* Reading: the parent leaves its loop with the only end mark, and then nothing
\* of the answer is left.
LEMMA ReadKeepsAnswer ==
    ASSUME AInv, TypeOK', NEW c \in Addrs, NEW b \in Addrs,
           Parent(b) \/ Child(b), AnswerAt(c)
    PROVE  AnswerAt(c)'
<1>1. /\ inbox \in Seq(Packet) /\ inbox' \in Seq(Packet)
      /\ outbox \in [Addrs -> Seq(Reply)] /\ outbox' \in [Addrs -> Seq(Reply)]
      /\ pc \in [Addrs -> Places]
  BY DEF AInv, TypeOK, ClientsOK
<1>2. /\ outbox[b] # <<>>
      /\ outbox' = [outbox EXCEPT ![b] = Tail(@)]
      /\ UNCHANGED inbox
  BY DEF Parent, ListMessage, EndOfList, Child, ClientReads
<1>3. Shrinks(outbox'[c], outbox[c]) /\ Shrinks(inbox', inbox)
  BY <1>1, <1>2, TailIsLeft DEF Shrinks
<1>4. CASE pc'[c] = pc[c]
  BY <1>1, <1>3, <1>4, ShrinkKeepsAnswer
<1>5. CASE pc'[c] # pc[c]
  <2>1. /\ c = b
        /\ outbox[c][1].type = VERIFYMSG_TAG
        /\ pc'[c] = "menu"
    BY <1>1, <1>2, <1>5
    DEF Parent, ListMessage, EndOfList, Child, clientVars
  <2>2. /\ outbox[c] \in Seq(Reply)
        /\ DOMAIN outbox[c] = 1 .. Len(outbox[c]) /\ Len(outbox[c]) \in Nat
        /\ Len(outbox[c]) # 0
        /\ outbox'[c] = Tail(outbox[c])
        /\ DOMAIN Tail(outbox[c]) = 1 .. Len(outbox[c]) - 1
        /\ \A k \in 1 .. Len(outbox[c]) - 1 : Tail(outbox[c])[k] = outbox[c][k + 1]
    BY <1>1, <1>2, <2>1
  <2>3. None(inbox, c)
    <3>1. ~Quiet(outbox[c])
      BY <2>1, <2>2 DEF Quiet, NOTIFYMSG_TAG, VERIFYMSG_TAG
    <3> QED
      BY <3>1 DEF AnswerAt
  <2>4. Quiet(outbox'[c])
    <3> SUFFICES ASSUME NEW k \in DOMAIN outbox'[c]
                 PROVE  outbox'[c][k].type = NOTIFYMSG_TAG
      BY DEF Quiet
    <3>1. k + 1 \in DOMAIN outbox[c] /\ 1 \in DOMAIN outbox[c] /\ 1 < k + 1
      BY <2>2
    <3>2. outbox[c][k + 1].type = NOTIFYMSG_TAG
      BY <2>1, <3>1 DEF AnswerAt, EndsOnce
    <3> QED
      BY <2>2, <3>2
  <2>5. EndsOnce(outbox'[c])
    BY <2>4 DEF Quiet, EndsOnce
  <2>6. None(inbox', c) /\ AtMostOne(inbox', c)
    BY <1>2, <2>3 DEF AnswerAt
  <2> QED
    BY <2>4, <2>5, <2>6 DEF AnswerAt
<1> QED
  BY <1>4, <1>5

\* Loss takes away datagrams, parts of answers and end marks among them.
LEMMA LossKeepsAnswer ==
    ASSUME AInv, TypeOK', NEW c \in Addrs, Network, UNCHANGED pc, AnswerAt(c)
    PROVE  AnswerAt(c)'
<1>1. /\ inbox \in Seq(Packet) /\ inbox' \in Seq(Packet)
      /\ outbox \in [Addrs -> Seq(Reply)] /\ outbox' \in [Addrs -> Seq(Reply)]
  BY DEF AInv, TypeOK
<1>2. CASE RequestLost
  BY <1>1, <1>2, RemovedIsLeft, ShrinkKeepsAnswer DEF RequestLost, Shrinks
<1>3. ASSUME NEW a \in Addrs, ReplyLost(a) PROVE AnswerAt(c)'
  <2>1. PICK k \in DOMAIN outbox[a] :
            outbox' = [outbox EXCEPT ![a] = RemoveAt(outbox[a], k)]
    BY <1>3 DEF ReplyLost
  <2>2. LeftOf(RemoveAt(outbox[a], k), outbox[a])
    BY <1>1, RemovedIsLeft
  <2>3. Shrinks(outbox'[c], outbox[c])
    BY <1>1, <2>1, <2>2 DEF Shrinks
  <2>4. Shrinks(inbox', inbox)
    BY <1>3 DEF ReplyLost, Shrinks
  <2> QED
    BY <1>1, <2>3, <2>4, ShrinkKeepsAnswer
<1> QED
  BY <1>2, <1>3 DEF Network

LEMMA StepKeepsAInv ==
    IInv /\ IInv' /\ AInv /\ [SystemNext]_systemVars => AInv'
<1> SUFFICES ASSUME IInv, IInv', AInv, [SystemNext]_systemVars PROVE AInv'
  OBVIOUS
<1>1. TypeOK' /\ ClientsOK'
  BY SystemStep DEF IInv, AInv
<1> SUFFICES ASSUME NEW c \in Addrs PROVE AnswerAt(c)'
  BY <1>1 DEF AInv
<1>2. AnswerAt(c)
  BY DEF AInv
<1>3. CASE Serve /\ UNCHANGED clientVars
  BY <1>2, <1>3, ServeKeepsAnswer DEF clientVars
<1>4. CASE OperatorExit /\ UNCHANGED clientVars
  BY <1>2, <1>4 DEF OperatorExit, clientVars, AnswerAt, AwaitsAnswer
<1>5. CASE UNCHANGED systemVars
  BY <1>2, <1>5 DEF systemVars, vars, clientVars, AnswerAt, AwaitsAnswer
<1>6. CASE Network /\ UNCHANGED clientVars
  BY <1>1, <1>2, <1>6, LossKeepsAnswer DEF clientVars
<1> QED
  BY <1>1, <1>2, <1>3, <1>4, <1>5, <1>6, MenuKeepsAnswer, ReadKeepsAnswer
  DEF SystemNext

\* An answer never outlives its request: whatever is lost, whatever users do,
\* for every number of clients and every length of mailboxes and queues.
THEOREM AnswersMatch == SystemSpec => []AnswersMatchRequests
<1>1. SystemSpec => []IInv
  BY SystemImplementsServer, Invariance, PTL
<1>2. SystemSpec => []AInv
  BY <1>1, InitAInv, StepKeepsAInv, PTL DEF SystemSpec
<1> QED
  BY <1>2, AInvImplies, PTL
=============================================================================
