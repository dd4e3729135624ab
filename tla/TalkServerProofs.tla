-------------------------- MODULE TalkServerProofs --------------------------
(***************************************************************************)
(* What the table of TalkServer keeps true for every set of users and      *)
(* addresses, every size of the array and every datagram.  The invariants  *)
(* are not inductive: what makes them so is that only the first of several *)
(* elements with one identifier is ever logged in (TableOK).               *)
(***************************************************************************)
EXTENDS TalkLoopsProofs

-----------------------------------------------------------------------------
(* The table. *)

\* An element that is logged in has an address.
EntryOK(u) ==
    /\ u \in Client
    /\ u.isLoggedIn => u.theUDPAddress # NoAddr

\* Elements behind the first one of their identifier are not logged in.
FirstOnly(us) ==
    \A j, k \in DOMAIN us :
        j < k /\ us[j].clientID = us[k].clientID => ~us[k].isLoggedIn

TableOK(us) ==
    /\ us \in Seq(Client)
    /\ \A k \in DOMAIN us : EntryOK(us[k])
    /\ FirstOnly(us)

\* A set of naturals that is not empty has a least element.
LEMMA MinOfNaturals ==
    ASSUME NEW S \in SUBSET Nat, S # {}
    PROVE  Min(S) \in S /\ \A y \in S : Min(S) <= y
<1>1. \E x \in S : \A y \in S : x <= y
  BY LeastNatural
<1> QED
  BY <1>1 DEF Min

\* getUserIndex finds the first element of a user, or none if there is none.
LEMMA FirstEntry ==
    ASSUME users \in Seq(Client), NEW id
    PROVE  \/ /\ getUserIndex(id) + 1 = 0
              /\ \A j \in DOMAIN users : users[j].clientID # id
           \/ /\ getUserIndex(id) + 1 \in DOMAIN users
              /\ getUserIndex(id) + 1 # 0
              /\ users[getUserIndex(id) + 1].clientID = id
              /\ \A j \in DOMAIN users :
                     users[j].clientID = id => getUserIndex(id) + 1 <= j
<1>1. DOMAIN users = 1..Len(users) /\ Len(users) \in Nat
  OBVIOUS
<1>2. CASE Entries(id) = {}
  BY <1>2 DEF getUserIndex, Entries
<1>3. CASE Entries(id) # {}
  <2>1. Entries(id) \in SUBSET Nat
    BY <1>1 DEF Entries
  <2>2. /\ Min(Entries(id)) \in Entries(id)
        /\ \A j \in Entries(id) : Min(Entries(id)) <= j
    BY <1>3, <2>1, MinOfNaturals
  <2>3. getUserIndex(id) + 1 = Min(Entries(id))
    BY <1>1, <1>3, <2>2 DEF getUserIndex, Entries
  <2> QED
    BY <1>1, <2>2, <2>3 DEF Entries
<1> QED
  BY <1>2, <1>3

\* The entry of a login is logged in at an address.
LEMMA EntryIsOK ==
    ASSUME NEW id \in UserIds, NEW a \in Addrs
    PROVE  /\ EntryOK(Entry(id, a))
           /\ Entry(id, a).clientID = id
           /\ Entry(id, a).isLoggedIn
           /\ Entry(id, a).theUDPAddress = a
BY TalkServerAssumption DEF EntryOK, Entry, Client, UdpAddrs, TcpAddrs

\* An element nobody wrote is not logged in.
LEMMA EmptyEntryIsOK == EntryOK(EmptyEntry) /\ ~EmptyEntry.isLoggedIn
BY TalkServerAssumption DEF EntryOK, EmptyEntry, Client, UdpAddrs, TcpAddrs

\* Appending an element that is not logged in, or of a user without one, keeps
\* the table good.
LEMMA AppendKeepsTable ==
    ASSUME NEW us, TableOK(us), NEW u, EntryOK(u),
           \/ ~u.isLoggedIn
           \/ \A j \in DOMAIN us : us[j].clientID # u.clientID
    PROVE  /\ TableOK(Append(us, u))
           /\ DOMAIN Append(us, u) = DOMAIN us \cup {Len(us) + 1}
           /\ Len(us) + 1 \notin DOMAIN us
           /\ Append(us, u)[Len(us) + 1] = u
           /\ \A k \in DOMAIN us : Append(us, u)[k] = us[k]
<1> DEFINE vs == Append(us, u)
           n == Len(us) + 1
<1>1. us \in Seq(Client) /\ u \in Client
  BY DEF TableOK, EntryOK
<1>2. /\ vs \in Seq(Client)
      /\ Len(us) \in Nat
      /\ DOMAIN us = 1..Len(us)
      /\ DOMAIN vs = DOMAIN us \cup {n}
      /\ n \notin DOMAIN us
      /\ vs[n] = u
      /\ \A k \in DOMAIN us : vs[k] = us[k] /\ k < n
  BY <1>1
<1> HIDE DEF vs, n
<1>3. \A k \in DOMAIN vs : EntryOK(vs[k])
  BY <1>2 DEF TableOK
<1>4. FirstOnly(vs)
  <2> SUFFICES ASSUME NEW j \in DOMAIN vs, NEW k \in DOMAIN vs,
                      j < k, vs[j].clientID = vs[k].clientID
               PROVE  ~vs[k].isLoggedIn
    BY DEF FirstOnly
  <2>1. CASE k \in DOMAIN us
    <3>1. j \in DOMAIN us
      BY <1>2, <2>1 DEF n
    <3> QED
      BY <1>2, <2>1, <3>1 DEF TableOK, FirstOnly
  <2>2. CASE k = n
    <3>1. j \in DOMAIN us
      BY <1>2, <2>2 DEF n
    <3> QED
      BY <1>2, <2>2, <3>1
  <2> QED
    BY <1>2, <2>1, <2>2
<1>5. TableOK(vs)
  BY <1>2, <1>3, <1>4 DEF TableOK
<1> QED
  BY <1>2, <1>5 DEF vs, n

\* Replacing an element by one of the same user keeps the table good, if it is
\* the user's first, or is not logged in afterwards.
LEMMA ReplaceKeepsTable ==
    ASSUME NEW us, TableOK(us), NEW k \in DOMAIN us,
           NEW u, EntryOK(u), u.clientID = us[k].clientID,
           \/ ~u.isLoggedIn
           \/ \A j \in DOMAIN us : us[j].clientID = u.clientID => k <= j
    PROVE  /\ TableOK([us EXCEPT ![k] = u])
           /\ DOMAIN [us EXCEPT ![k] = u] = DOMAIN us
           /\ \A j \in DOMAIN us :
                  [us EXCEPT ![k] = u][j] = IF j = k THEN u ELSE us[j]
<1> DEFINE vs == [us EXCEPT ![k] = u]
<1>1. us \in Seq(Client) /\ u \in Client
  BY DEF TableOK, EntryOK
<1>2. vs \in Seq(Client) /\ DOMAIN vs = DOMAIN us /\ DOMAIN us \subseteq Nat
  BY <1>1
<1>3. \A j \in DOMAIN us : vs[j] = IF j = k THEN u ELSE us[j]
  OBVIOUS
<1>4. \A j \in DOMAIN us : EntryOK(vs[j]) /\ vs[j].clientID = us[j].clientID
  BY <1>3 DEF TableOK
<1> HIDE DEF vs
<1>5. FirstOnly(vs)
  <2> SUFFICES ASSUME NEW i \in DOMAIN vs, NEW j \in DOMAIN vs,
                      i < j, vs[i].clientID = vs[j].clientID
               PROVE  ~vs[j].isLoggedIn
    BY DEF FirstOnly
  <2>1. i \in DOMAIN us /\ j \in DOMAIN us /\ us[i].clientID = us[j].clientID
    BY <1>2, <1>4
  <2>2. ~us[j].isLoggedIn
    BY <2>1 DEF TableOK, FirstOnly
  <2>3. CASE j = k
    BY <1>2, <1>3, <2>1, <2>3
  <2>4. CASE j # k
    BY <1>3, <2>1, <2>2, <2>4
  <2> QED
    BY <2>3, <2>4
<1> QED
  BY <1>2, <1>3, <1>4, <1>5 DEF TableOK, vs

-----------------------------------------------------------------------------
(* The inductive invariant. *)

IInv ==
    /\ TableOK(users)
    /\ inbox \in Seq(Packet)

\* The invariant contains the two safety invariants of the table.
LEMMA IInvImplies == IInv => OneSessionPerUser /\ LoggedInReachable
<1> SUFFICES ASSUME IInv PROVE OneSessionPerUser /\ LoggedInReachable
  OBVIOUS
<1>1. DOMAIN users \subseteq Nat
  BY DEF IInv, TableOK
<1>2. ASSUME NEW j \in DOMAIN users, NEW k \in DOMAIN users,
             users[j].isLoggedIn, users[k].isLoggedIn,
             users[j].clientID = users[k].clientID
      PROVE  j = k
  <2>1. ~(j < k) /\ ~(k < j)
    BY <1>2 DEF IInv, TableOK, FirstOnly
  <2> QED
    BY <1>1, <2>1
<1> QED
  BY <1>2 DEF IInv, TableOK, EntryOK, OneSessionPerUser, LoggedInReachable

\* The server starts with no elements.
LEMMA InitIInv == Init => IInv
BY DEF Init, IInv, TableOK, FirstOnly

\* The datagram a handler takes has the fields of a request.
LEMMA ReceiveType ==
    ASSUME inbox \in Seq(Packet), NEW tag, Receive(tag)
    PROVE  /\ inbox' \in Seq(Packet)
           /\ Head(inbox).from \in Addrs
           /\ Head(inbox).data.senderID \in UserIds
           /\ Head(inbox).data.data \in UserIds
<1>1. inbox' \in Seq(Packet) /\ Head(inbox) \in Packet
  BY DEF Receive
<1> QED
  BY <1>1 DEF Packet, Request

\* Losing a datagram keeps a queue's type.
LEMMA RemoveAtType ==
    ASSUME NEW S, NEW q \in Seq(S), NEW k \in DOMAIN q
    PROVE  RemoveAt(q, k) \in Seq(S)
BY DEF RemoveAt

\* What an accepted login makes of the table: a new element for a user without
\* one, and otherwise the first of the user's, which nobody was logged in
\* through, and an empty element at the end.
LEMMA AdmittedTable ==
    ASSUME TableOK(users), NEW id \in UserIds, NEW a \in Addrs, ~Refused(id)
    PROVE  /\ TableOK(Admitted(id, a))
           /\ \A j \in DOMAIN users :
                  users[j].clientID = id => ~users[j].isLoggedIn
           /\ \E k \in DOMAIN Admitted(id, a) :
                  /\ Admitted(id, a)[k] = Entry(id, a)
                  /\ \A j \in DOMAIN users :
                         j # k => /\ j \in DOMAIN Admitted(id, a)
                                  /\ Admitted(id, a)[j] = users[j]
                  /\ \A j \in DOMAIN Admitted(id, a) :
                         j # k /\ j \notin DOMAIN users =>
                             ~Admitted(id, a)[j].isLoggedIn
                  /\ k \in DOMAIN users => users[k].clientID = id
<1> DEFINE k == getUserIndex(id) + 1
           u == Entry(id, a)
           vs == Admitted(id, a)
<1>1. users \in Seq(Client)
  BY DEF TableOK
<1>2. CASE k = 0
  <2>1. \A j \in DOMAIN users : users[j].clientID # id
    BY <1>1, <1>2, FirstEntry
  <2>2. vs = Append(users, u)
    BY <1>2 DEF Admitted
  <2> HIDE DEF vs, u
  <2>3. EntryOK(u) /\ u.clientID = id
    BY EntryIsOK DEF u
  <2>4. /\ TableOK(vs)
        /\ DOMAIN vs = DOMAIN users \cup {Len(users) + 1}
        /\ vs[Len(users) + 1] = u
        /\ Len(users) + 1 \notin DOMAIN users
        /\ \A j \in DOMAIN users : vs[j] = users[j]
    BY <2>1, <2>2, <2>3, AppendKeepsTable
  <2> QED
    BY <2>1, <2>4 DEF vs, u
<1>3. CASE k # 0
  <2> DEFINE ws == [users EXCEPT ![k] = u]
  <2>1. /\ k \in DOMAIN users
        /\ users[k].clientID = id
        /\ \A j \in DOMAIN users : users[j].clientID = id => k <= j
    BY <1>1, <1>3, FirstEntry
  <2>2. ~users[k].isLoggedIn
    BY <1>3 DEF Refused
  <2>3. \A j \in DOMAIN users :
            users[j].clientID = id => ~users[j].isLoggedIn
    <3> SUFFICES ASSUME NEW j \in DOMAIN users, users[j].clientID = id
                 PROVE  ~users[j].isLoggedIn
      OBVIOUS
    <3>1. j = k \/ k < j
      BY <1>1, <2>1
    <3> QED
      BY <2>1, <2>2, <3>1 DEF TableOK, FirstOnly
  <2>4. vs = Append(ws, EmptyEntry)
    BY <1>3 DEF Admitted
  <2>5. EntryOK(u) /\ u.clientID = id
    BY EntryIsOK
  <2> HIDE DEF vs, u, k
  <2>6. /\ TableOK(ws)
        /\ DOMAIN ws = DOMAIN users
        /\ \A j \in DOMAIN users : ws[j] = IF j = k THEN u ELSE users[j]
    BY <2>1, <2>5, ReplaceKeepsTable
  <2> HIDE DEF ws
  <2>7. /\ TableOK(vs)
        /\ DOMAIN vs = DOMAIN ws \cup {Len(ws) + 1}
        /\ vs[Len(ws) + 1] = EmptyEntry
        /\ \A j \in DOMAIN ws : vs[j] = ws[j]
    BY <2>4, <2>6, EmptyEntryIsOK, AppendKeepsTable
  <2>8. \A j \in DOMAIN vs : j \notin DOMAIN users => ~vs[j].isLoggedIn
    BY <2>6, <2>7, EmptyEntryIsOK
  <2> QED
    BY <2>1, <2>3, <2>6, <2>7, <2>8 DEF vs, u
<1> QED
  BY <1>2, <1>3

\* A login keeps the invariant.
LEMMA LoginKeepsIInv == IInv /\ ReceiveLogin => IInv'
<1> SUFFICES ASSUME IInv, ReceiveLogin PROVE IInv'
  OBVIOUS
<1> DEFINE id == Head(inbox).data.senderID
           a == Head(inbox).from
<1>1. inbox' \in Seq(Packet) /\ id \in UserIds /\ a \in Addrs
  BY ReceiveType DEF IInv, ReceiveLogin
<1>2. CASE LoginRefused(id, a)
  BY <1>1, <1>2 DEF LoginRefused, IInv
<1>3. CASE LoginAccepted(id, a)
  <2>1. ~Refused(id) /\ users' = Admitted(id, a)
    BY <1>3 DEF LoginAccepted
  <2>2. TableOK(users')
    BY <1>1, <2>1, AdmittedTable DEF IInv
  <2> QED
    BY <1>1, <2>2 DEF IInv
<1> QED
  BY <1>2, <1>3 DEF ReceiveLogin

\* What a logout makes of the table: the user's first element is no longer
\* logged in, and if there is none nothing changes.
LEMMA LogoutTable ==
    ASSUME IInv, ReceiveLogout
    PROVE  LET id == Head(inbox).data.senderID
               k == getUserIndex(id) + 1
               u == [users[k] EXCEPT !.isLoggedIn = FALSE]
           IN  \/ /\ users' = users /\ TableOK(users')
                  /\ \A j \in DOMAIN users : users[j].clientID # id
               \/ /\ k \in DOMAIN users
                  /\ users[k].clientID = id
                  /\ TableOK(users')
                  /\ DOMAIN users' = DOMAIN users
                  /\ u.clientID = id /\ ~u.isLoggedIn
                  /\ \A j \in DOMAIN users :
                         users'[j] = IF j = k THEN u ELSE users[j]
                  /\ \A j \in DOMAIN users :
                         j # k /\ users[j].clientID = id => ~users[j].isLoggedIn
<1> DEFINE id == Head(inbox).data.senderID
           k == getUserIndex(id) + 1
           u == [users[k] EXCEPT !.isLoggedIn = FALSE]
<1>1. users \in Seq(Client) /\ TableOK(users)
  BY DEF IInv, TableOK
<1>2. CASE k = 0
  <2>1. users' = users
    BY <1>2 DEF ReceiveLogout
  <2>2. \A j \in DOMAIN users : users[j].clientID # id
    BY <1>1, <1>2, FirstEntry
  <2> QED
    BY <1>1, <2>1, <2>2
<1>3. CASE k # 0
  <2>1. /\ k \in DOMAIN users
        /\ users[k].clientID = id
        /\ \A j \in DOMAIN users : users[j].clientID = id => k <= j
    BY <1>1, <1>3, FirstEntry
  <2>2. users' = [users EXCEPT ![k].isLoggedIn = FALSE]
    BY <1>3 DEF ReceiveLogout
  <2>3. users' = [users EXCEPT ![k] = u]
    BY <2>2
  <2>4. EntryOK(users[k])
    BY <1>1, <2>1 DEF TableOK
  <2>5. EntryOK(u) /\ u.clientID = users[k].clientID /\ ~u.isLoggedIn
    BY <2>4 DEF EntryOK, Client
  <2>6. \A j \in DOMAIN users :
            j # k /\ users[j].clientID = id => ~users[j].isLoggedIn
    <3> SUFFICES ASSUME NEW j \in DOMAIN users, j # k, users[j].clientID = id
                 PROVE  ~users[j].isLoggedIn
      OBVIOUS
    <3>1. k < j
      BY <1>1, <2>1
    <3> QED
      BY <1>1, <2>1, <3>1 DEF TableOK, FirstOnly
  <2> HIDE DEF u, k, id
  <2>7. /\ TableOK(users')
        /\ DOMAIN users' = DOMAIN users
        /\ \A j \in DOMAIN users : users'[j] = IF j = k THEN u ELSE users[j]
    BY <1>1, <2>1, <2>3, <2>5, ReplaceKeepsTable
  <2> QED
    BY <2>1, <2>5, <2>6, <2>7 DEF u, k, id
<1> QED
  BY <1>2, <1>3

\* A logout keeps the invariant.
LEMMA LogoutKeepsIInv == IInv /\ ReceiveLogout => IInv'
<1> SUFFICES ASSUME IInv, ReceiveLogout PROVE IInv'
  OBVIOUS
<1>1. TableOK(users')
  BY LogoutTable
<1>2. inbox' \in Seq(Packet)
  BY ReceiveType DEF IInv, ReceiveLogout
<1> QED
  BY <1>1, <1>2 DEF IInv

\* The clients and the network do not touch the table.
LEMMA OutsideKeepsIInv ==
    IInv /\ (Environment \/ Network) => IInv' /\ UNCHANGED users
<1> SUFFICES ASSUME IInv, Environment \/ Network
             PROVE  IInv' /\ UNCHANGED users
  OBVIOUS
<1>1. ASSUME NEW a \in Addrs, NEW d \in Request, ClientSends(a, d)
      PROVE  inbox' \in Seq(Packet) /\ users' = users
  <2>1. [from |-> a, data |-> d] \in Packet
    BY DEF Packet
  <2> QED
    BY <1>1, <2>1 DEF ClientSends, IInv
<1>2. ASSUME RequestLost PROVE inbox' \in Seq(Packet) /\ users' = users
  BY <1>2, RemoveAtType DEF RequestLost, IInv
<1>3. ASSUME NEW a \in Addrs, ClientReads(a) \/ ReplyLost(a)
      PROVE  inbox' \in Seq(Packet) /\ users' = users
  BY <1>3 DEF ClientReads, ReplyLost, IInv
<1>4. inbox' \in Seq(Packet) /\ users' = users
  BY <1>1, <1>2, <1>3 DEF Environment, Network
<1> QED
  BY <1>4 DEF IInv

\* The steps that leave the table alone.
LEMMA OthersKeepIInv ==
    IInv /\ (ReceiveWho \/ ReceiveTalkReq \/ WildAccess \/ OperatorExit)
        => IInv' /\ UNCHANGED users
<1>1. IInv /\ ReceiveWho => IInv' /\ UNCHANGED users
  BY ReceiveType DEF ReceiveWho, IInv
<1>2. IInv /\ ReceiveTalkReq => IInv' /\ UNCHANGED users
  BY ReceiveType DEF ReceiveTalkReq, IInv
<1>3. IInv /\ (WildAccess \/ OperatorExit) => IInv' /\ UNCHANGED users
  BY DEF WildAccess, OperatorExit, IInv
<1> QED
  BY <1>1, <1>2, <1>3

\* Every step keeps the invariant.
LEMMA NextKeepsIInv == IInv /\ [Next]_vars => IInv'
<1>1. IInv /\ UNCHANGED vars => IInv'
  BY DEF vars, IInv
<1> QED
  BY <1>1, LoginKeepsIInv, LogoutKeepsIInv, OutsideKeepsIInv, OthersKeepIInv
  DEF Next, Serve

-----------------------------------------------------------------------------
(* The theorems. *)

\* The inductive invariant holds in every reachable state.
THEOREM Invariance == Spec => []IInv
BY InitIInv, NextKeepsIInv, PTL DEF Spec

\* No user, not even the one with the identifier of empty elements, is ever
\* logged in twice.
THEOREM OneSession == Spec => []OneSessionPerUser
BY Invariance, IInvImplies, PTL

\* Whoever is logged in has an address the server can send to.
THEOREM Reachable == Spec => []LoggedInReachable
BY Invariance, IInvImplies, PTL

-----------------------------------------------------------------------------
(* Types. *)

\* What a handler sends to the client whose datagram it handles.
LEMMA ToType ==
    ASSUME NEW ds \in Seq(Message), NEW a
    PROVE  \A b \in Addrs : To(a, ds)[b] \in Seq(Message)
BY DEF To

LEMMA ToOneType ==
    ASSUME NEW m \in Message, NEW a
    PROVE  \A b \in Addrs : To(a, <<m>>)[b] \in Seq(Message)
<1>1. <<m>> \in Seq(Message)
  OBVIOUS
<1> QED
  BY <1>1, ToType

\* What it sends to everyone in a loop.
LEMMA CopiesType ==
    ASSUME NEW us \in Seq(Client), NEW a, NEW m \in Message
    PROVE  Copies(us, a, m) \in Seq(Message)
<1> DEFINE q == Copies(us, a, m)
<1>1. q \in Seq({m})
  BY CopiesFacts
<1> HIDE DEF q
<1>2. Len(q) \in Nat /\ q \in [1..Len(q) -> Message]
  BY <1>1
<1>3. q \in Seq(Message)
  BY <1>2
<1> QED
  BY <1>3 DEF q

LEMMA LoginKeepsTypes ==
    ASSUME TypeOK, IInv, ReceiveLogin
    PROVE  TypeOK'
<1> DEFINE id == Head(inbox).data.senderID
           a == Head(inbox).from
<1>1. inbox' \in Seq(Packet) /\ id \in UserIds /\ a \in Addrs
  BY ReceiveType DEF IInv, ReceiveLogin
<1>2. outgoing' = outgoing /\ OutgoingOK /\ up \in BOOLEAN
  BY DEF ReceiveLogin, TypeOK, OutgoingOK
<1>3. TAG_LOGIN \in Tags /\ SERVER_ID \in UserIds
  BY TalkServerAssumption DEF Tags
<1> DEFINE answer(yes) == Reply(TAG_LOGIN, id, yes, NoAddr)
           notice == Reply(TAG_LOGIN, SERVER_ID, TRUE, id)
<1>4. answer(TRUE) \in Message /\ answer(FALSE) \in Message /\ notice \in Message
  BY <1>1, <1>2, <1>3, ReplyType
<1>5. LoginRefused(id, a) \/ LoginAccepted(id, a)
  BY DEF ReceiveLogin
<1> HIDE DEF id, a
<1>6. CASE LoginRefused(id, a)
  <2> DEFINE X(b) == To(a, <<answer(FALSE)>>)[b]
  <2>1. \A b \in Addrs : X(b) \in Seq(Message)
    BY <1>4, ToOneType
  <2>2. outbox' = [b \in Addrs |-> outbox[b] \o X(b)]
    BY <1>6 DEF LoginRefused
  <2> HIDE DEF X
  <2>3. \A b \in Addrs : outbox[b] \o X(b) \in Seq(Message)
    BY <2>1 DEF TypeOK
  <2>4. outbox' \in [Addrs -> Seq(Message)]
    BY <2>2, <2>3
  <2> QED
    BY <1>1, <1>2, <1>6, <2>4 DEF LoginRefused, TypeOK
<1>7. CASE LoginAccepted(id, a)
  <2>1. users \in Seq(Client) /\ TableOK(users)
    BY DEF IInv, TableOK
  <2>2. Admitted(id, a) \in Seq(Client) /\ users' = Admitted(id, a)
    BY <1>1, <1>7, <2>1, AdmittedTable DEF LoginAccepted, TableOK
  <2> DEFINE list == WhoList(Others(Admitted(id, a), id))
  <2>3. list \in Seq(Message)
    BY <1>2, <2>2, LoopTypes, WhoListFacts
  <2>4. LoggedIn(users) \in Seq(Client)
    BY <2>1, LoopTypes
  <2> HIDE DEF answer, notice, list
  <2> DEFINE X(b) == To(a, <<answer(TRUE)>>)[b]
             Y(b) == Copies(LoggedIn(users), b, notice)
             Z(b) == To(a, list)[b]
  <2>5. \A b \in Addrs : X(b) \in Seq(Message)
    BY <1>4, ToOneType
  <2>6. \A b \in Addrs : Y(b) \in Seq(Message)
    BY <1>4, <2>4, CopiesType
  <2>7. \A b \in Addrs : Z(b) \in Seq(Message)
    BY <2>3, ToType
  <2>8. outbox' = [b \in Addrs |-> outbox[b] \o X(b) \o Y(b) \o Z(b)]
    BY <1>7 DEF LoginAccepted, answer, notice, list
  <2> HIDE DEF X, Y, Z
  <2>9. \A b \in Addrs : outbox[b] \o X(b) \o Y(b) \o Z(b) \in Seq(Message)
    BY <2>5, <2>6, <2>7 DEF TypeOK
  <2>10. outbox' \in [Addrs -> Seq(Message)]
    BY <2>8, <2>9
  <2>11. userLimit' \in Nat /\ up' \in BOOLEAN
    BY <1>7, TalkServerAssumption DEF LoginAccepted, TypeOK, Addressed
  <2> QED
    BY <1>1, <1>2, <2>2, <2>10, <2>11 DEF TypeOK, OutgoingOK
<1> QED
  BY <1>5, <1>6, <1>7

LEMMA LogoutKeepsTypes ==
    ASSUME TypeOK, IInv, ReceiveLogout
    PROVE  TypeOK'
<1> DEFINE id == Head(inbox).data.senderID
           notice == Reply(TAG_LOGOUT, SERVER_ID, TRUE, id)
<1>1. inbox' \in Seq(Packet) /\ id \in UserIds
  BY ReceiveType DEF IInv, ReceiveLogout
<1>2. users' \in Seq(Client)
  BY LogoutTable DEF TableOK
<1>3. notice \in Message
  <2>1. TAG_LOGOUT \in Tags /\ SERVER_ID \in UserIds /\ OutgoingOK
    BY TalkServerAssumption DEF Tags, TypeOK, OutgoingOK
  <2> QED
    BY <1>1, <2>1, ReplyType
<1>4. \A b \in Addrs : Copies(Others(users, id), b, notice) \in Seq(Message)
  BY <1>3, LoopTypes, CopiesType DEF TypeOK
<1>5. outbox' = [b \in Addrs |->
          outbox[b] \o Copies(Others(users, id), b, notice)]
  BY DEF ReceiveLogout
<1> HIDE DEF id, notice
<1>6. outbox' \in [Addrs -> Seq(Message)]
  BY <1>4, <1>5 DEF TypeOK
<1>7. up' \in BOOLEAN /\ UNCHANGED <<userLimit, outgoing>>
  BY DEF ReceiveLogout, Addressed
<1> QED
  BY <1>1, <1>2, <1>6, <1>7 DEF TypeOK

LEMMA WhoKeepsTypes ==
    ASSUME TypeOK, ReceiveWho
    PROVE  TypeOK'
<1> DEFINE id == Head(inbox).data.senderID
           a == Head(inbox).from
           list == WhoList(Others(users, id))
<1>1. inbox' \in Seq(Packet)
  BY ReceiveType DEF TypeOK, ReceiveWho
<1>2. list \in Seq(Message)
  BY LoopTypes, WhoListFacts DEF TypeOK, OutgoingOK
<1>3. outbox' = [b \in Addrs |-> outbox[b] \o To(a, list)[b]]
  BY DEF ReceiveWho
<1> HIDE DEF a, list
<1>4. outbox' \in [Addrs -> Seq(Message)]
  BY <1>2, <1>3, ToType DEF TypeOK
<1> QED
  BY <1>1, <1>4 DEF ReceiveWho, TypeOK

LEMMA TalkReqKeepsTypes ==
    ASSUME TypeOK, ReceiveTalkReq
    PROVE  TypeOK'
<1> DEFINE d == Head(inbox).data
           a == Head(inbox).from
           k == getUserIndex(d.data) + 1
           answer == [from |-> ServerAddr, type |-> TAG_TALK_RES,
                      senderID |-> SERVER_ID, confirm |-> Found(d),
                      data |-> NoAddr, theAddress |-> outgoing'.theAddress,
                      theOtherAddress |-> outgoing'.theOtherAddress]
<1>1. inbox' \in Seq(Packet)
  BY ReceiveType DEF TypeOK, ReceiveTalkReq
<1>2. OutgoingOK'
  <2>1. outgoing' = IF Found(d)
                    THEN [theAddress |-> users[k].theTCPAddress,
                          theOtherAddress |-> users[k].theUDPAddress]
                    ELSE outgoing
    BY DEF ReceiveTalkReq
  <2>2. CASE Found(d)
    <3>1. users \in Seq(Client) /\ k # 0
      BY <2>2 DEF TypeOK, Found
    <3>2. k \in DOMAIN users
      BY <3>1, FirstEntry
    <3>3. users[k] \in Client
      BY <3>1, <3>2
    <3> QED
      BY <2>1, <2>2, <3>3 DEF Client, OutgoingOK
  <2>3. CASE ~Found(d)
    BY <2>1, <2>3 DEF OutgoingOK, TypeOK
  <2> QED
    BY <2>2, <2>3
<1>3. answer \in Message
  <2>1. TAG_TALK_RES \in Tags /\ SERVER_ID \in UserIds /\ Found(d) \in BOOLEAN
    BY TalkServerAssumption DEF Tags, Found
  <2> QED
    BY <1>2, <2>1 DEF Message, OutgoingOK
<1>4. outbox' = [b \in Addrs |-> outbox[b] \o To(a, <<answer>>)[b]]
  BY DEF ReceiveTalkReq
<1> HIDE DEF a, answer
<1>5. \A b \in Addrs : outbox[b] \o To(a, <<answer>>)[b] \in Seq(Message)
  BY <1>3, ToOneType DEF TypeOK
<1>6. outbox' \in [Addrs -> Seq(Message)]
  BY <1>4, <1>5
<1> QED
  BY <1>1, <1>2, <1>6 DEF ReceiveTalkReq, TypeOK, OutgoingOK

\* The handlers keep the types of the variables.
LEMMA ServeKeepsTypes == TypeOK /\ IInv /\ Serve => TypeOK'
<1>1. TypeOK /\ WildAccess => TypeOK'
  BY DEF WildAccess, TypeOK
<1> QED
  BY <1>1, LoginKeepsTypes, LogoutKeepsTypes, WhoKeepsTypes, TalkReqKeepsTypes
  DEF Serve

\* So does a network that loses datagrams.
LEMMA NetworkKeepsTypes == TypeOK /\ Network => TypeOK'
<1>1. TypeOK /\ RequestLost => TypeOK'
  BY RemoveAtType DEF RequestLost, TypeOK
<1>2. ASSUME TypeOK, NEW a \in Addrs, ReplyLost(a) PROVE TypeOK'
  <2>1. PICK k \in DOMAIN outbox[a] :
            outbox' = [outbox EXCEPT ![a] = RemoveAt(outbox[a], k)]
    BY <1>2 DEF ReplyLost
  <2>2. RemoveAt(outbox[a], k) \in Seq(Message)
    BY <1>2, RemoveAtType DEF TypeOK
  <2> QED
    BY <1>2, <2>1, <2>2 DEF ReplyLost, TypeOK
<1> QED
  BY <1>1, <1>2 DEF Network

LEMMA EnvironmentKeepsTypes == TypeOK /\ Environment => TypeOK'
<1>1. ASSUME TypeOK, NEW a \in Addrs, NEW d \in Request, ClientSends(a, d)
      PROVE  TypeOK'
  <2>1. [from |-> a, data |-> d] \in Packet
    BY DEF Packet
  <2> QED
    BY <1>1, <2>1 DEF ClientSends, TypeOK
<1>2. ASSUME TypeOK, NEW a \in Addrs, ClientReads(a) PROVE TypeOK'
  BY <1>2 DEF ClientReads, TypeOK
<1> QED
  BY <1>1, <1>2 DEF Environment

\* The table, the reply buffer and the queues keep their types.
THEOREM ServerTypes == Spec => []TypeOK
<1>1. Init => TypeOK
  BY TalkServerAssumption DEF Init, TypeOK, TcpAddrs, UdpAddrs
<1>2. TypeOK /\ IInv /\ [Next]_vars => TypeOK'
  <2>1. TypeOK /\ (OperatorExit \/ UNCHANGED vars) => TypeOK'
    BY DEF OperatorExit, TypeOK, vars
  <2> QED
    BY <2>1, ServeKeepsTypes, NetworkKeepsTypes, EnvironmentKeepsTypes DEF Next
<1> QED
  BY <1>1, <1>2, Invariance, PTL DEF Spec

-----------------------------------------------------------------------------
(* The server implements sessions nobody takes over. *)

\* The session of id in the table us.
SessionIn(us, id) ==
    IF \E k \in DOMAIN us : us[k].clientID = id /\ us[k].isLoggedIn
    THEN us[CHOOSE k \in DOMAIN us :
                us[k].clientID = id /\ us[k].isLoggedIn].theUDPAddress
    ELSE NoAddr

SessionsIn(us) == [id \in UserIds |-> SessionIn(us, id)]

\* The refinement mapping in terms of the table.
LEMMA SessionOfIsSessionIn ==
    /\ [id \in UserIds |-> SessionOf(id)] = SessionsIn(users)
    /\ [id \in UserIds |-> SessionOf(id)]' = SessionsIn(users')
<1>1. ASSUME NEW us, NEW id
      PROVE  /\ {k \in {j \in DOMAIN us : us[j].clientID = id} : us[k].isLoggedIn}
                = {k \in DOMAIN us : us[k].clientID = id /\ us[k].isLoggedIn}
             /\ (CHOOSE k \in {k \in DOMAIN us :
                                  us[k].clientID = id /\ us[k].isLoggedIn} : TRUE)
                = (CHOOSE k \in DOMAIN us :
                      us[k].clientID = id /\ us[k].isLoggedIn)
  OBVIOUS
<1>2. \A id \in UserIds : SessionOf(id) = SessionIn(users, id)
  BY <1>1 DEF SessionOf, SessionIn, Entries
<1>3. \A id \in UserIds : SessionOf(id)' = SessionIn(users', id)
  BY <1>1 DEF SessionOf, SessionIn, Entries
<1> QED
  BY <1>2, <1>3 DEF SessionsIn

\* A user is in session where one of its elements says so ...
LEMMA SessionOfEntry ==
    ASSUME NEW us, TableOK(us), NEW k \in DOMAIN us, us[k].isLoggedIn
    PROVE  SessionIn(us, us[k].clientID) = us[k].theUDPAddress
<1>1. DOMAIN us \subseteq Nat
  BY DEF TableOK
<1>2. ASSUME NEW j \in DOMAIN us,
             us[j].clientID = us[k].clientID, us[j].isLoggedIn
      PROVE  j = k
  <2>1. ~(j < k) /\ ~(k < j)
    BY <1>2 DEF TableOK, FirstOnly
  <2> QED
    BY <1>1, <2>1
<1>3. (CHOOSE j \in DOMAIN us :
          us[j].clientID = us[k].clientID /\ us[j].isLoggedIn) = k
  BY <1>2
<1> QED
  BY <1>3 DEF SessionIn

\* ... and otherwise offline.
LEMMA NoSession ==
    ASSUME NEW us, NEW id,
           \A k \in DOMAIN us : us[k].clientID = id => ~us[k].isLoggedIn
    PROVE  SessionIn(us, id) = NoAddr
BY DEF SessionIn

\* Two tables with the same logged-in elements of a user agree on its session.
LEMMA SameSession ==
    ASSUME NEW us, TableOK(us), NEW vs, TableOK(vs), NEW id,
           \A k \in DOMAIN us :
               us[k].clientID = id /\ us[k].isLoggedIn =>
                   k \in DOMAIN vs /\ vs[k] = us[k],
           \A k \in DOMAIN vs :
               vs[k].clientID = id /\ vs[k].isLoggedIn =>
                   k \in DOMAIN us /\ vs[k] = us[k]
    PROVE  SessionIn(vs, id) = SessionIn(us, id)
<1>1. CASE \E k \in DOMAIN us : us[k].clientID = id /\ us[k].isLoggedIn
  <2>1. PICK k \in DOMAIN us : us[k].clientID = id /\ us[k].isLoggedIn
    BY <1>1
  <2>2. SessionIn(us, id) = us[k].theUDPAddress
    BY <2>1, SessionOfEntry
  <2>3. SessionIn(vs, id) = vs[k].theUDPAddress
    BY <2>1, SessionOfEntry
  <2> QED
    BY <2>1, <2>2, <2>3
<1>2. CASE ~ \E k \in DOMAIN us : us[k].clientID = id /\ us[k].isLoggedIn
  <2>1. \A k \in DOMAIN vs : vs[k].clientID = id => ~vs[k].isLoggedIn
    BY <1>2
  <2> QED
    BY <1>2, <2>1, NoSession
<1> QED
  BY <1>1, <1>2

\* The abstract steps under the refinement mapping.
LEMMA SessionMapping ==
    /\ Sessions!Init <=> /\ SessionsIn(users) = [id \in UserIds |-> NoAddr]
                         /\ inbox = <<>>
    /\ \A id, a : Sessions!Enter(id, a) <=>
           /\ Sessions!Handles(TAG_LOGIN, id) /\ Head(inbox).from = a
           /\ SessionsIn(users)[id] = NoAddr
           /\ SessionsIn(users') = [SessionsIn(users) EXCEPT ![id] = a]
    /\ \A id : Sessions!Leave(id) <=>
           /\ Sessions!Handles(TAG_LOGOUT, id)
           /\ SessionsIn(users)[id] # NoAddr
           /\ SessionsIn(users') = [SessionsIn(users) EXCEPT ![id] = NoAddr]
BY SessionOfIsSessionIn DEF Sessions!Init, Sessions!Enter, Sessions!Leave

\* An accepted login lets a user enter who was offline.
LEMMA LoginStarts ==
    ASSUME IInv, NEW id \in UserIds, NEW a \in Addrs, LoginAccepted(id, a)
    PROVE  /\ SessionsIn(users)[id] = NoAddr
           /\ SessionsIn(users') = [SessionsIn(users) EXCEPT ![id] = a]
<1>1. TableOK(users) /\ ~Refused(id) /\ users' = Admitted(id, a)
  BY DEF IInv, LoginAccepted
<1>2. /\ TableOK(users')
      /\ \A j \in DOMAIN users : users[j].clientID = id => ~users[j].isLoggedIn
  BY <1>1, AdmittedTable
<1>3. PICK k \in DOMAIN users' :
          /\ users'[k] = Entry(id, a)
          /\ \A j \in DOMAIN users :
                 j # k => j \in DOMAIN users' /\ users'[j] = users[j]
          /\ \A j \in DOMAIN users' :
                 j # k /\ j \notin DOMAIN users => ~users'[j].isLoggedIn
          /\ k \in DOMAIN users => users[k].clientID = id
  BY <1>1, AdmittedTable
<1>4. SessionIn(users, id) = NoAddr
  BY <1>2, NoSession
<1>5. SessionIn(users', id) = a
  BY <1>2, <1>3, EntryIsOK, SessionOfEntry
<1>6. ASSUME NEW i \in UserIds, i # id
      PROVE  SessionIn(users', i) = SessionIn(users, i)
  <2>1. \A j \in DOMAIN users :
            users[j].clientID = i => j \in DOMAIN users' /\ users'[j] = users[j]
    BY <1>3, <1>6
  <2>2. \A j \in DOMAIN users' :
            users'[j].clientID = i /\ users'[j].isLoggedIn =>
                j \in DOMAIN users /\ users'[j] = users[j]
    BY <1>3, <1>6, EntryIsOK
  <2> QED
    BY <1>1, <1>2, <2>1, <2>2, SameSession
<1>7. SessionsIn(users') = [SessionsIn(users) EXCEPT ![id] = a]
  BY <1>5, <1>6 DEF SessionsIn
<1>8. SessionsIn(users)[id] = NoAddr
  BY <1>4 DEF SessionsIn
<1> QED
  BY <1>7, <1>8

\* So it is a step of the abstract specification.
LEMMA LoginEnters ==
    ASSUME IInv, ReceiveLogin,
           LoginAccepted(Head(inbox).data.senderID, Head(inbox).from)
    PROVE  Sessions!Next
<1> DEFINE id == Head(inbox).data.senderID
           a == Head(inbox).from
<1>1. id \in UserIds /\ a \in Addrs
  BY ReceiveType DEF IInv, ReceiveLogin
<1>2. Sessions!Handles(TAG_LOGIN, id) /\ Head(inbox).from = a
  BY DEF ReceiveLogin, Receive, Sessions!Handles
<1>3. LoginAccepted(id, a)
  OBVIOUS
<1> HIDE DEF id
<1>4. /\ SessionsIn(users)[id] = NoAddr
      /\ SessionsIn(users') = [SessionsIn(users) EXCEPT ![id] = a]
  BY <1>1, <1>3, LoginStarts
<1>5. Sessions!Enter(id, a)
  BY <1>2, <1>4, SessionMapping
<1> QED
  BY <1>1, <1>5 DEF Sessions!Next

\* A logout ends the session of its user and no other.
LEMMA LogoutEnds ==
    ASSUME IInv, ReceiveLogout
    PROVE  SessionsIn(users') =
               [SessionsIn(users) EXCEPT ![Head(inbox).data.senderID] = NoAddr]
<1> DEFINE id == Head(inbox).data.senderID
           k == getUserIndex(id) + 1
           u == [users[k] EXCEPT !.isLoggedIn = FALSE]
<1>1. TableOK(users) /\ id \in UserIds
  BY ReceiveType DEF IInv, ReceiveLogout
<1>2. \/ users' = users /\ \A j \in DOMAIN users : users[j].clientID # id
      \/ /\ k \in DOMAIN users
         /\ users[k].clientID = id
         /\ TableOK(users')
         /\ DOMAIN users' = DOMAIN users
         /\ u.clientID = id /\ ~u.isLoggedIn
         /\ \A j \in DOMAIN users : users'[j] = IF j = k THEN u ELSE users[j]
         /\ \A j \in DOMAIN users :
                j # k /\ users[j].clientID = id => ~users[j].isLoggedIn
  BY LogoutTable
<1> HIDE DEF u, k, id
<1>3. CASE users' = users /\ \A j \in DOMAIN users : users[j].clientID # id
  <2>1. SessionIn(users, id) = NoAddr
    BY <1>3, NoSession
  <2> QED
    BY <1>3, <2>1 DEF SessionsIn, id
<1>4. CASE /\ k \in DOMAIN users
           /\ users[k].clientID = id
           /\ TableOK(users')
           /\ DOMAIN users' = DOMAIN users
           /\ u.clientID = id /\ ~u.isLoggedIn
           /\ \A j \in DOMAIN users : users'[j] = IF j = k THEN u ELSE users[j]
           /\ \A j \in DOMAIN users :
                  j # k /\ users[j].clientID = id => ~users[j].isLoggedIn
  <2>1. SessionIn(users', id) = NoAddr
    BY <1>4, NoSession
  <2>2. ASSUME NEW i \in UserIds, i # id
        PROVE  SessionIn(users', i) = SessionIn(users, i)
    <3>1. \A j \in DOMAIN users :
              users[j].clientID = i \/ users'[j].clientID = i => j # k
      BY <1>4, <2>2
    <3>2. \A j \in DOMAIN users :
              users[j].clientID = i => users'[j] = users[j]
      BY <1>4, <3>1
    <3>3. \A j \in DOMAIN users' :
              users'[j].clientID = i => users'[j] = users[j]
      BY <1>4, <3>1
    <3> QED
      BY <1>1, <1>4, <3>2, <3>3, SameSession
  <2>3. SessionsIn(users') = [SessionsIn(users) EXCEPT ![id] = NoAddr]
    BY <2>1, <2>2 DEF SessionsIn
  <2> QED
    BY <2>3 DEF id
<1> QED
  BY <1>2, <1>3, <1>4

\* A logout lets its user leave, if there was a session, and changes nothing
\* otherwise.
LEMMA LogoutLeaves ==
    ASSUME IInv, ReceiveLogout
    PROVE  \/ \E id \in UserIds : Sessions!Leave(id)
           \/ SessionsIn(users') = SessionsIn(users)
<1> DEFINE id == Head(inbox).data.senderID
<1>1. id \in UserIds
  BY ReceiveType DEF IInv, ReceiveLogout
<1>2. /\ SessionsIn(users') = [SessionsIn(users) EXCEPT ![id] = NoAddr]
      /\ Sessions!Handles(TAG_LOGOUT, id)
  BY LogoutEnds DEF ReceiveLogout, Receive, Sessions!Handles
<1> HIDE DEF id
<1>3. CASE SessionsIn(users)[id] = NoAddr
  BY <1>2, <1>3 DEF SessionsIn
<1>4. CASE SessionsIn(users)[id] # NoAddr
  <2>1. Sessions!Leave(id)
    BY <1>2, <1>4, SessionMapping
  <2> QED
    BY <1>1, <2>1
<1> QED
  BY <1>3, <1>4

\* Every step is a step of the abstract specification or changes no session.
LEMMA StepRefines ==
    IInv /\ [Next]_vars =>
        Sessions!Next \/ SessionsIn(users') = SessionsIn(users)
<1> SUFFICES ASSUME IInv, [Next]_vars
             PROVE  Sessions!Next \/ SessionsIn(users') = SessionsIn(users)
  OBVIOUS
<1>1. CASE ReceiveLogin
  <2> DEFINE id == Head(inbox).data.senderID
             a == Head(inbox).from
  <2>1. LoginRefused(id, a) \/ LoginAccepted(id, a)
    BY <1>1 DEF ReceiveLogin
  <2>2. LoginRefused(id, a) => users' = users
    BY DEF LoginRefused
  <2>3. LoginAccepted(id, a) => Sessions!Next
    BY <1>1, LoginEnters
  <2> QED
    BY <2>1, <2>2, <2>3
<1>2. CASE ReceiveLogout
  BY <1>2, LogoutLeaves DEF Sessions!Next
<1>3. CASE UNCHANGED vars
  BY <1>3 DEF vars
<1> QED
  BY <1>1, <1>2, <1>3, OutsideKeepsIInv, OthersKeepIInv DEF Next, Serve

\* Sessions start with a login, at the address it came from, and end with a
\* logout of their user: the server implements Presence, for every table, user
\* and order of datagrams.
THEOREM PresenceRefinement == Spec => ImplementsPresence
<1>1. Init => Sessions!Init
  <2>1. Init => /\ SessionsIn(users) = [id \in UserIds |-> NoAddr]
                /\ inbox = <<>>
    BY DEF Init, SessionsIn, SessionIn
  <2> QED
    BY <2>1, SessionMapping
<1>2. IInv /\ [Next]_vars =>
          [Sessions!Next]_([id \in UserIds |-> SessionOf(id)])
  BY StepRefines, SessionOfIsSessionIn
<1> QED
  BY <1>1, <1>2, Invariance, PTL DEF Spec, ImplementsPresence, Sessions!Spec
=============================================================================
