------------------------- MODULE TalkAnswersProofs --------------------------
(***************************************************************************)
(* What the talk server tells its clients, for every table: that a list of *)
(* users names the others who are logged in, each one once, and that who   *)
(* stays is told of everyone who comes or goes.  Both compare what a loop  *)
(* over the table sends (TalkLoopsProofs) with the sessions the table      *)
(* stands for (TalkServerProofs).                                          *)
(***************************************************************************)
EXTENDS TalkServerProofs, FunctionTheorems

\* Who has a session in the table us.
OnlineIn(us) == {id \in UserIds : SessionIn(us, id) # NoAddr}

LEMMA OnlineIsOnlineIn == Online = OnlineIn(users) /\ Online' = OnlineIn(users')
<1>1. \A id \in UserIds : SessionOf(id) = SessionIn(users, id)
                          /\ SessionOf(id)' = SessionIn(users', id)
  BY SessionOfIsSessionIn DEF SessionsIn
<1> QED
  BY <1>1 DEF Online, OnlineIn

\* Those are the users of the logged-in elements.
LEMMA OnlineElements ==
    ASSUME NEW us, TableOK(us)
    PROVE  OnlineIn(us) = {us[k].clientID : k \in {j \in DOMAIN us : us[j].isLoggedIn}}
<1>1. ASSUME NEW k \in DOMAIN us, us[k].isLoggedIn
      PROVE  us[k].clientID \in OnlineIn(us)
  <2>1. SessionIn(us, us[k].clientID) = us[k].theUDPAddress
    BY <1>1, SessionOfEntry
  <2>2. us[k].theUDPAddress # NoAddr /\ us[k].clientID \in UserIds
    BY <1>1 DEF TableOK, EntryOK, Client
  <2> QED
    BY <2>1, <2>2 DEF OnlineIn
<1>2. ASSUME NEW id \in OnlineIn(us)
      PROVE  \E k \in DOMAIN us : us[k].isLoggedIn /\ us[k].clientID = id
  BY DEF OnlineIn, SessionIn
<1> QED
  BY <1>1, <1>2

\* What is behind a queue once ds is appended to it.
LEMMA AppendedNews ==
    ASSUME NEW q \in Seq(Message), NEW ds \in Seq(Message)
    PROVE  SubSeq(q \o ds, Len(q) + 1, Len(q \o ds)) = ds
<1> DEFINE n == SubSeq(q \o ds, Len(q) + 1, Len(q \o ds))
<1>1. Len(q \o ds) = Len(q) + Len(ds) /\ Len(q) \in Nat /\ Len(ds) \in Nat
  OBVIOUS
<1>2. n \in Seq(Message) /\ Len(n) = Len(ds)
  BY <1>1
<1>3. \A k \in 1..Len(ds) : n[k] = ds[k]
  BY <1>1
<1> HIDE DEF n
<1>4. n = ds
  BY <1>2, <1>3
<1> QED
  BY <1>4 DEF n

\* One sequence behind another.
LEMMA Joined ==
    ASSUME NEW q \in Seq(Message), NEW y \in Seq(Message)
    PROVE  /\ q \o y \in Seq(Message) /\ Len(q \o y) = Len(q) + Len(y)
           /\ Len(q) \in Nat /\ Len(y) \in Nat
           /\ DOMAIN (q \o y) = 1..Len(q \o y)
           /\ \A j \in 1..Len(q) : j \in DOMAIN q /\ (q \o y)[j] = q[j]
           /\ \A j \in 1..Len(y) : j \in DOMAIN y /\ (q \o y)[Len(q) + j] = y[j]
OBVIOUS

\* One message and copies of another.
LEMMA OneAndCopies ==
    ASSUME NEW q \in Seq(Message), Len(q) = 1, NEW m \in Message,
           NEW y \in Seq(Message), \A j \in DOMAIN y : y[j] = m
    PROVE  \A k \in DOMAIN (q \o y) : (q \o y)[k] \in {q[1], m}
<1>1. /\ Len(q \o y) = 1 + Len(y) /\ Len(y) \in Nat
      /\ DOMAIN (q \o y) = 1..Len(q \o y)
      /\ (q \o y)[1] = q[1]
  BY Joined
<1>2. \A j \in 1..Len(y) : j \in DOMAIN y /\ (q \o y)[1 + j] = y[j]
  BY Joined
<1>3. ASSUME NEW k \in DOMAIN (q \o y), k # 1 PROVE (q \o y)[k] = m
  <2> DEFINE j == k - 1
  <2>1. j \in 1..Len(y) /\ k = 1 + j
    BY <1>1, <1>3
  <2> HIDE DEF j
  <2> QED
    BY <1>2, <2>1
<1> QED
  BY <1>1, <1>3

\* Three sequences appended one by one are appended at once.
LEMMA ThreeAppended ==
    ASSUME NEW q \in Seq(Message), NEW x \in Seq(Message),
           NEW y \in Seq(Message), NEW z \in Seq(Message)
    PROVE  /\ x \o y \o z \in Seq(Message)
           /\ q \o x \o y \o z = q \o (x \o y \o z)
OBVIOUS

-----------------------------------------------------------------------------
(* Lists. *)

\* The users a list for id names are the others who are logged in ...
LEMMA OthersAreOnline ==
    ASSUME NEW table, TableOK(table), NEW id
    PROVE  LET us == Others(table, id)
           IN  /\ {us[k].clientID : k \in DOMAIN us} = OnlineIn(table) \ {id}
               /\ Len(us) = Cardinality(OnlineIn(table) \ {id})
<1> DEFINE us == Others(table, id)
           K == OtherIndices(table, id)
           f == [k \in K |-> table[k].clientID]
           T == OnlineIn(table) \ {id}
<1>1. table \in Seq(Client) /\ K \cap DOMAIN table = K
  BY DEF TableOK, OtherIndices
<1>2. us = Selected(table, K)
  BY DEF Others
<1>3. /\ \A i \in DOMAIN us : \E k \in K : us[i] = table[k]
      /\ \A k \in K : \E i \in DOMAIN us : us[i] = table[k]
      /\ IsFiniteSet(K)
      /\ Len(us) = Cardinality(K)
  <2> HIDE DEF us, K, T
  <2>1. LET t == Selected(table, K)
        IN  /\ \A i \in DOMAIN t : \E k \in K \cap DOMAIN table : t[i] = table[k]
            /\ \A k \in K \cap DOMAIN table : \E i \in DOMAIN t : t[i] = table[k]
            /\ IsFiniteSet(K \cap DOMAIN table)
            /\ Len(t) = Cardinality(K \cap DOMAIN table)
    BY <1>1, SelectedFacts
  <2> QED
    BY <1>1, <1>2, <2>1
<1>4. T = {table[k].clientID : k \in K}
  BY OnlineElements DEF OtherIndices
<1> HIDE DEF us, T
<1>5. {us[k].clientID : k \in DOMAIN us} = T
  BY <1>3, <1>4
<1>6. f \in Bijection(K, T)
  <2>1. f \in [K -> T]
    BY <1>4
  <2>2. \A t \in T : \E k \in K : f[k] = t
    BY <1>4
  <2>3. ASSUME NEW j \in K, NEW k \in K, f[j] = f[k] PROVE j = k
    <3>1. /\ j \in Nat /\ k \in Nat
          /\ j \in DOMAIN table /\ k \in DOMAIN table
          /\ table[j].isLoggedIn /\ table[k].isLoggedIn
          /\ table[j].clientID = table[k].clientID
      BY <1>1, <2>3 DEF OtherIndices
    <3>2. ~(j < k) /\ ~(k < j)
      BY <3>1 DEF TableOK, FirstOnly
    <3> QED
      BY <3>1, <3>2
  <2> QED
    BY <2>1, <2>2, <2>3, Fun_IsBij
<1>7. Cardinality(T) = Cardinality(K)
  <2> HIDE DEF f, K
  <2> QED
    BY <1>3, <1>6, FS_Bijection DEF ExistsBijection
<1> QED
  BY <1>3, <1>5, <1>7 DEF us, T

\* A sequence w of n + 1 messages behind a sequence q, and its first n messages.
LEMMA Behind ==
    ASSUME NEW q \in Seq(Message), NEW w \in Seq(Message),
           NEW n \in Nat, Len(w) = n + 1
    PROVE  LET ds == q \o w
               names == SubSeq(ds, Len(q) + 1, Len(q) + n)
           IN  /\ Len(ds) = Len(q) + n + 1 /\ Len(q) \in Nat
               /\ DOMAIN ds = 1..Len(q) + n + 1
               /\ \A k \in 1..Len(q) : k \in DOMAIN q /\ ds[k] = q[k]
               /\ \A k \in 1..n + 1 : ds[Len(q) + k] = w[k]
               /\ Len(names) = n /\ DOMAIN names = 1..n
               /\ \A k \in 1..n : names[k] = w[k]
<1> DEFINE ds == q \o w
           names == SubSeq(ds, Len(q) + 1, Len(q) + n)
<1>1. /\ ds \in Seq(Message) /\ Len(q) \in Nat
      /\ Len(ds) = Len(q) + n + 1 /\ DOMAIN ds = 1..Len(ds)
      /\ \A k \in 1..Len(q) : k \in DOMAIN q /\ ds[k] = q[k]
      /\ \A k \in 1..n + 1 : ds[Len(q) + k] = w[k]
  OBVIOUS
<1> HIDE DEF ds
<1>2. /\ names \in Seq(Message) /\ Len(names) = n
      /\ \A k \in 1..n : names[k] = ds[Len(q) + k]
  BY <1>1
<1> HIDE DEF names
<1>3. DOMAIN names = 1..n
  BY <1>2
<1> QED
  BY <1>1, <1>2, <1>3 DEF names, ds

\* The lines of a list, as the client reads them off.
LEMMA ListNames ==
    ASSUME OutgoingOK, NEW us \in Seq(Client), NEW q \in Seq(Message),
           \A k \in DOMAIN q : q[k].type # TAG_WHO,
           NEW T, T = {us[k].clientID : k \in DOMAIN us},
           Len(us) = Cardinality(T)
    PROVE  EndsWithList(q \o WhoList(us), T)
<1> DEFINE w == WhoList(us)
           ds == q \o w
           n == Len(us)
           first == Len(ds) - Cardinality(T)
           names == SubSeq(ds, first, Len(ds) - 1)
           line(k) == Reply(TAG_WHO, SERVER_ID, TRUE, us[k].clientID)
<1>1. /\ w \in Seq(Message)
      /\ n \in Nat
      /\ Len(w) = n + 1
      /\ w[n + 1] = Reply(TAG_WHO, SERVER_ID, FALSE, NoAddr)
      /\ \A k \in 1..n : w[k] = line(k)
  BY WhoListFacts
<1>2. DOMAIN us = 1..n
  OBVIOUS
<1>3. \A k \in DOMAIN us : us[k].clientID # NoAddr
  <2>1. \A k \in DOMAIN us : us[k] \in Client
    OBVIOUS
  <2> QED
    BY <2>1, TalkServerAssumption DEF Client
<1>4. /\ \A k \in 1..n : /\ w[k].type = TAG_WHO
                         /\ w[k].senderID = SERVER_ID
                         /\ w[k].confirm
                         /\ w[k].data = us[k].clientID
      /\ w[n + 1].type = TAG_WHO /\ ~w[n + 1].confirm
  <2> DEFINE end == Reply(TAG_WHO, SERVER_ID, FALSE, NoAddr)
  <2>1. \A k \in 1..n : /\ line(k).type = TAG_WHO
                        /\ line(k).senderID = SERVER_ID
                        /\ line(k).confirm
                        /\ line(k).data = us[k].clientID
    BY DEF Reply
  <2>2. end.type = TAG_WHO /\ ~end.confirm
    BY DEF Reply
  <2> HIDE DEF line, w, end, n
  <2>3. /\ \A k \in 1..n : w[k] = line(k)
        /\ w[n + 1] = end
    BY <1>1 DEF end
  <2> QED
    BY <2>1, <2>2, <2>3
<1>5. Cardinality(T) = n
  OBVIOUS
<1> HIDE DEF w, line, n
<1>6. /\ Len(ds) = Len(q) + n + 1 /\ Len(q) \in Nat
      /\ DOMAIN ds = 1..Len(q) + n + 1
      /\ \A k \in 1..Len(q) : k \in DOMAIN q /\ ds[k] = q[k]
      /\ \A k \in 1..n + 1 : ds[Len(q) + k] = w[k]
      /\ LET t == SubSeq(ds, Len(q) + 1, Len(q) + n)
         IN  /\ Len(t) = n /\ DOMAIN t = 1..n
             /\ \A k \in 1..n : t[k] = w[k]
  BY <1>1, Behind
<1> HIDE DEF ds
<1>7. first = Len(q) + 1 /\ Len(ds) - 1 = Len(q) + n
  <2>1. Len(ds) = Len(q) + n + 1 /\ Len(q) \in Nat
    BY <1>6
  <2>2. first = Len(ds) - n
    BY <1>5
  <2> HIDE DEF first
  <2> QED
    BY <1>1, <2>1, <2>2
<1>8. ASSUME NEW k \in DOMAIN ds PROVE ds[k].type = TAG_WHO <=> k >= first
  <2>1. k \in Nat /\ k \in 1..Len(q) + n + 1
    BY <1>1, <1>6
  <2> HIDE DEF first
  <2>2. CASE k <= Len(q)
    BY <1>6, <1>7, <2>1, <2>2
  <2>3. CASE k > Len(q)
    <3> DEFINE j == k - Len(q)
    <3>1. j \in 1..n + 1 /\ k = Len(q) + j
      BY <1>1, <1>6, <2>1, <2>3
    <3>2. j \in 1..n \/ j = n + 1
      BY <1>1, <3>1
    <3> HIDE DEF j
    <3>3. ds[k] = w[j] /\ w[j].type = TAG_WHO
      BY <1>4, <1>6, <3>1, <3>2
    <3> QED
      BY <1>1, <1>6, <1>7, <2>1, <2>3, <3>3
  <2> QED
    BY <1>6, <2>1, <2>2, <2>3
<1>9. ~Last(ds).confirm
  <2>1. n + 1 \in 1..n + 1 /\ Len(ds) = Len(q) + (n + 1)
    BY <1>1, <1>6
  <2> QED
    BY <1>4, <1>6, <2>1 DEF Last
<1>10. DOMAIN names = 1..n /\ \A k \in 1..n : names[k] = w[k]
  BY <1>6, <1>7
<1> HIDE DEF names
<1>11. ToldOf(names, TAG_WHO) = T
  <2>1. {k \in 1..n : /\ names[k].type = TAG_WHO
                      /\ names[k].senderID = SERVER_ID
                      /\ names[k].data # NoAddr} = 1..n
    <3>1. ASSUME NEW k \in 1..n
          PROVE  /\ names[k].type = TAG_WHO
                 /\ names[k].senderID = SERVER_ID
                 /\ names[k].data # NoAddr
      <4>1. names[k] = w[k] /\ k \in DOMAIN us
        BY <1>2, <1>10
      <4> QED
        BY <1>3, <1>4, <4>1
    <3> QED
      BY <3>1
  <2>2. ToldOf(names, TAG_WHO) = {names[k].data : k \in 1..n}
    BY <1>10, <2>1 DEF ToldOf
  <2>3. T = {us[k].clientID : k \in 1..n}
    BY <1>2
  <2>4. \A k \in 1..n : names[k].data = us[k].clientID
    BY <1>4, <1>10
  <2>5. {names[k].data : k \in 1..n} = {us[k].clientID : k \in 1..n}
    BY <2>4
  <2> QED
    BY <2>2, <2>3, <2>5
<1>12. \A k \in DOMAIN names : names[k].confirm
  BY <1>4, <1>10
<1> QED
  BY <1>8, <1>9, <1>11, <1>12 DEF EndsWithList, names, ds, w

\* An answer to WHO is a list for its sender.
LEMMA WhoAnswer ==
    ASSUME TypeOK, ReceiveWho
    PROVE  News(Head(inbox).from)
               = WhoList(Others(users, Head(inbox).data.senderID))
<1> DEFINE id == Head(inbox).data.senderID
           a == Head(inbox).from
           list == WhoList(Others(users, id))
<1>1. a \in Addrs
  BY ReceiveType DEF TypeOK, ReceiveWho
<1>2. list \in Seq(Message)
  BY LoopTypes, WhoListFacts DEF TypeOK, OutgoingOK
<1>3. outbox' = [b \in Addrs |-> outbox[b] \o To(a, list)[b]]
  BY DEF ReceiveWho
<1> HIDE DEF a, list
<1>4. outbox'[a] = outbox[a] \o list
  BY <1>1, <1>3 DEF To
<1>5. outbox[a] \in Seq(Message)
  BY <1>1 DEF TypeOK
<1>6. News(a) = list
  BY <1>2, <1>4, <1>5, AppendedNews DEF News
<1> QED
  BY <1>6 DEF a, list

\* So a WHO request is answered with nothing but a list.
LEMMA WhoStep ==
    ASSUME TypeOK, IInv, ReceiveWho
    PROVE  EndsWithList(News(Head(inbox).from),
                        Online' \ {Head(inbox).data.senderID})
<1> DEFINE id == Head(inbox).data.senderID
           us == Others(users, id)
<1>1. News(Head(inbox).from) = WhoList(us)
  BY WhoAnswer
<1>2. us \in Seq(Client) /\ OutgoingOK /\ TableOK(users)
  BY LoopTypes DEF TypeOK, OutgoingOK, IInv
<1>3. /\ {us[k].clientID : k \in DOMAIN us} = OnlineIn(users) \ {id}
      /\ Len(us) = Cardinality(OnlineIn(users) \ {id})
  BY <1>2, OthersAreOnline
<1>4. Online' = OnlineIn(users)
  BY OnlineIsOnlineIn DEF ReceiveWho
<1>5. WhoList(us) \in Seq(Message)
  BY <1>2, WhoListFacts
<1> HIDE DEF us, id
<1>6. <<>> \in Seq(Message) /\ <<>> \o WhoList(us) = WhoList(us)
  BY <1>5
<1>7. EndsWithList(<<>> \o WhoList(us), OnlineIn(users) \ {id})
  <2>1. \A k \in DOMAIN <<>> : <<>>[k].type # TAG_WHO
    OBVIOUS
  <2> QED
    BY <1>2, <1>3, <1>6, <2>1, ListNames
<1> QED
  BY <1>1, <1>4, <1>6, <1>7 DEF id

\* What a newcomer gets: the confirmation, notifications to users it has the
\* address of, and the list.
LEMMA NewcomerStep ==
    ASSUME TypeOK, IInv, ReceiveLogin, Head(inbox).data.senderID \notin Online
    PROVE  EndsWithList(News(Head(inbox).from),
                        Online' \ {Head(inbox).data.senderID})
<1> DEFINE id == Head(inbox).data.senderID
           a == Head(inbox).from
           us == Others(Admitted(id, a), id)
           notice == Reply(TAG_LOGIN, SERVER_ID, TRUE, id)
           X == <<Reply(TAG_LOGIN, id, TRUE, NoAddr)>>
           Y == Copies(LoggedIn(users), a, notice)
           T == OnlineIn(users') \ {id}
<1>1. /\ id \in UserIds /\ a \in Addrs
      /\ TableOK(users) /\ users \in Seq(Client) /\ OutgoingOK
  BY ReceiveType DEF IInv, ReceiveLogin, TypeOK, OutgoingOK, TableOK
<1>2. LoginAccepted(id, a)
  <2> HIDE DEF a
  <2>1. LoginRefused(id, a) \/ LoginAccepted(id, a)
    BY DEF ReceiveLogin, a
  <2>2. Refused(id) => id \in OnlineIn(users)
    <3> HIDE DEF id
    <3> SUFFICES ASSUME Refused(id) PROVE id \in OnlineIn(users)
      OBVIOUS
    <3>1. PICK k \in DOMAIN users : users[k].clientID = id /\ users[k].isLoggedIn
      BY <1>1, FirstEntry DEF Refused, TableOK
    <3> QED
      BY <1>1, <3>1, OnlineElements
  <2> QED
    BY <2>1, <2>2, OnlineIsOnlineIn DEF LoginRefused
<1>3. users' = Admitted(id, a) /\ TableOK(users')
  BY <1>1, <1>2, AdmittedTable DEF LoginAccepted
<1>4. /\ us \in Seq(Client)
      /\ {us[k].clientID : k \in DOMAIN us} = T
      /\ Len(us) = Cardinality(T)
  <2>1. users' \in Seq(Client)
    BY <1>3 DEF TableOK
  <2> HIDE DEF id, a
  <2> QED
    BY <1>3, <2>1, LoopTypes, OthersAreOnline
<1>5. TAG_LOGIN \in Tags /\ SERVER_ID \in UserIds
  BY TalkServerAssumption DEF Tags
<1>6. /\ Reply(TAG_LOGIN, id, TRUE, NoAddr) \in Message
      /\ notice \in Message
  BY <1>1, <1>5, ReplyType
<1>7. X \in Seq(Message) /\ Y \in Seq(Message)
  <2>1. LoggedIn(users) \in Seq(Client)
    BY <1>1, LoopTypes
  <2> HIDE DEF notice, id, a
  <2>2. Y \in Seq(Message)
    BY <1>6, <2>1, CopiesType
  <2> HIDE DEF Y
  <2> DEFINE m == Reply(TAG_LOGIN, id, TRUE, NoAddr)
  <2>3. m \in Message
    BY <1>6
  <2> HIDE DEF m
  <2>4. <<m>> \in Seq(Message)
    BY <2>3
  <2> QED
    BY <2>2, <2>4 DEF m
<1>8. \A k \in DOMAIN (X \o Y) : (X \o Y)[k].type # TAG_WHO
  <2> DEFINE m == Reply(TAG_LOGIN, id, TRUE, NoAddr)
  <2>1. m.type # TAG_WHO /\ notice.type # TAG_WHO
    BY DEF Reply, TAG_LOGIN, TAG_WHO
  <2>2. \A k \in DOMAIN Y : Y[k] = notice
    <3> HIDE DEF notice
    <3> QED
      BY DEF Copies
  <2>3. m \in Message /\ notice \in Message
    BY <1>6
  <2>4. X = <<m>>
    OBVIOUS
  <2> HIDE DEF notice, Y, m, X
  <2>5. Len(X) = 1 /\ X[1] = m
    BY <2>4
  <2>6. \A k \in DOMAIN (X \o Y) : (X \o Y)[k] \in {X[1], notice}
    BY <1>7, <2>2, <2>3, <2>5, OneAndCopies
  <2> QED
    BY <2>1, <2>5, <2>6
<1>9. WhoList(us) \in Seq(Message) /\ outbox[a] \in Seq(Message)
  BY <1>1, <1>4, WhoListFacts DEF TypeOK
<1>10. outbox'[a] = outbox[a] \o X \o Y \o WhoList(us)
  <2> HIDE DEF notice, id
  <2> QED
    BY <1>1, <1>2 DEF LoginAccepted, To, notice
<1> HIDE DEF id, a, us, X, Y, T, notice
<1>11. X \in Seq(Message) /\ Y \in Seq(Message)
  BY <1>7
<1>12. News(a) = X \o Y \o WhoList(us)
  <2> DEFINE r == outbox'[a]
             q == outbox[a]
             w == WhoList(us)
  <2>1. q \in Seq(Message) /\ w \in Seq(Message) /\ r = q \o X \o Y \o w
    BY <1>9, <1>10
  <2> HIDE DEF r, q, w
  <2> DEFINE all == X \o Y \o w
  <2>2. all \in Seq(Message) /\ r = q \o all
    BY <1>11, <2>1
  <2> HIDE DEF all
  <2>3. SubSeq(r, Len(q) + 1, Len(r)) = all
    BY <2>1, <2>2, AppendedNews
  <2> QED
    BY <2>3 DEF News, r, q, w, all
<1>13. X \o Y \in Seq(Message)
  BY <1>7
<1>14. EndsWithList(X \o Y \o WhoList(us), T)
  BY <1>1, <1>4, <1>8, <1>13, ListNames
<1> QED
  BY <1>12, <1>14, OnlineIsOnlineIn DEF id, a, T

\* The lists of WHO and of a login name every other user who is logged in, each
\* one once, and end with their end marks, whatever elements the table has
\* collected.
THEOREM WhoExact == Spec => WhoListsOthersOnce
BY WhoStep, NewcomerStep, ServerTypes, Invariance, PTL
DEF Spec, WhoListsOthersOnce

-----------------------------------------------------------------------------
(* Arrivals and departures. *)

\* m is in the queue q.
Occurs(q, m) == \E k \in DOMAIN q : q[k] = m

\* What Selected selects is there.
LEMMA SelectedContains ==
    ASSUME NEW us \in Seq(Client), NEW K
    PROVE  /\ Selected(us, K) \in Seq(Client)
           /\ \A k \in K \cap DOMAIN us : Occurs(Selected(us, K), us[k])
<1>1. LET t == Selected(us, K)
      IN  /\ t \in Seq(Client)
          /\ \A k \in K \cap DOMAIN us : \E i \in DOMAIN t : t[i] = us[k]
          /\ IsFiniteSet(K \cap DOMAIN us)
  BY SelectedFacts
<1> QED
  BY <1>1 DEF Occurs

\* A loop over us sends to everyone in us.
LEMMA CopiesReach ==
    ASSUME NEW us \in Seq(Client), NEW k \in DOMAIN us, NEW m
    PROVE  Occurs(Copies(us, us[k].theUDPAddress, m), m)
<1> DEFINE K == {j \in DOMAIN us : us[j].theUDPAddress = us[k].theUDPAddress}
           there == Selected(us, K)
<1>1. k \in K \cap DOMAIN us
  OBVIOUS
<1>2. Occurs(there, us[k])
  <2> HIDE DEF K
  <2> QED
    BY <1>1, SelectedContains
<1>3. Copies(us, us[k].theUDPAddress, m) = [i \in DOMAIN there |-> m]
  BY DEF Copies
<1> HIDE DEF there
<1> QED
  BY <1>2, <1>3 DEF Occurs

\* A loop that runs for the elements K of the table reaches those.
LEMMA SelectedReach ==
    ASSUME NEW us \in Seq(Client), NEW K, NEW k \in K \cap DOMAIN us, NEW m
    PROVE  Occurs(Copies(Selected(us, K), us[k].theUDPAddress, m), m)
<1> DEFINE t == Selected(us, K)
<1>1. t \in Seq(Client) /\ Occurs(t, us[k])
  BY SelectedContains
<1> HIDE DEF t
<1>2. PICK i \in DOMAIN t : t[i] = us[k]
  BY <1>1 DEF Occurs
<1>3. Occurs(Copies(t, t[i].theUDPAddress, m), m)
  BY <1>1, CopiesReach
<1> QED
  BY <1>2, <1>3 DEF t

\* What a part of a queue contains, the queue does.
LEMMA ContainsMore ==
    ASSUME NEW p \in Seq(Message), NEW q \in Seq(Message), NEW r \in Seq(Message),
           NEW m, Occurs(q, m)
    PROVE  Occurs(p \o q \o r, m)
<1>1. PICK k \in DOMAIN q : q[k] = m
  BY DEF Occurs
<1>2. Len(p) + k \in DOMAIN (p \o q \o r) /\ (p \o q \o r)[Len(p) + k] = m
  BY <1>1
<1> QED
  BY <1>2 DEF Occurs

\* A notification tells about its user.
LEMMA NoticeTells ==
    ASSUME NEW q, NEW tag, NEW id \in UserIds,
           Occurs(q, Reply(tag, SERVER_ID, TRUE, id))
    PROVE  id \in ToldOf(q, tag)
<1>1. PICK k \in DOMAIN q : q[k] = Reply(tag, SERVER_ID, TRUE, id)
  BY DEF Occurs
<1>2. q[k].type = tag /\ q[k].senderID = SERVER_ID /\ q[k].data = id
  BY <1>1 DEF Reply
<1>3. id # NoAddr
  BY TalkServerAssumption
<1> QED
  BY <1>2, <1>3 DEF ToldOf

\* Who has a session is in the table with the address of the session.
LEMMA OnlineEntry ==
    ASSUME TableOK(users), NEW id \in OnlineIn(users)
    PROVE  \E k \in DOMAIN users : /\ users[k].isLoggedIn
                                  /\ users[k].clientID = id
                                  /\ users[k].theUDPAddress = SessionIn(users, id)
                                  /\ users[k].theUDPAddress \in Addrs
<1>1. PICK k \in DOMAIN users : users[k].isLoggedIn /\ users[k].clientID = id
  BY DEF OnlineIn, SessionIn
<1>2. users[k].theUDPAddress = SessionIn(users, id)
  BY <1>1, SessionOfEntry
<1>3. users[k].theUDPAddress \in Addrs
  BY <1>1 DEF TableOK, EntryOK, Client, UdpAddrs
<1> QED
  BY <1>1, <1>2, <1>3

\* An accepted login: one user comes, nobody goes, and everyone who was there
\* is told.
LEMMA ArrivalTold ==
    ASSUME TypeOK, IInv, NEW new \in UserIds, NEW a \in Addrs,
           LoginAccepted(new, a)
    PROVE  /\ OnlineIn(users') \ OnlineIn(users) \subseteq {new}
           /\ OnlineIn(users) \subseteq OnlineIn(users')
           /\ \A id \in OnlineIn(users) :
                  new \in ToldOf(News(SessionIn(users, id)), TAG_LOGIN)
<1>1. /\ SessionsIn(users)[new] = NoAddr
      /\ SessionsIn(users') = [SessionsIn(users) EXCEPT ![new] = a]
  BY LoginStarts
<1>2. \A i \in UserIds : i # new => SessionIn(users', i) = SessionIn(users, i)
  <2>1. \A i \in UserIds : i # new => SessionsIn(users')[i] = SessionsIn(users)[i]
    BY <1>1
  <2> QED
    BY <2>1 DEF SessionsIn
<1>3. SessionIn(users, new) = NoAddr
  BY <1>1 DEF SessionsIn
<1>4. ASSUME NEW id \in OnlineIn(users)
      PROVE  new \in ToldOf(News(SessionIn(users, id)), TAG_LOGIN)
  <2> DEFINE s == SessionIn(users, id)
             notice == Reply(TAG_LOGIN, SERVER_ID, TRUE, new)
             X == To(a, <<Reply(TAG_LOGIN, new, TRUE, NoAddr)>>)[s]
             Y == Copies(LoggedIn(users), s, notice)
             Z == To(a, WhoList(Others(Admitted(new, a), new)))[s]
  <2>1. TableOK(users) /\ users \in Seq(Client) /\ OutgoingOK
    BY DEF IInv, TableOK, TypeOK, OutgoingOK
  <2>2. PICK k \in DOMAIN users : /\ users[k].isLoggedIn
                                 /\ users[k].theUDPAddress = s
                                 /\ s \in Addrs
    BY <2>1, OnlineEntry
  <2>3. Occurs(Y, notice)
    BY <2>1, <2>2, SelectedReach DEF LoggedIn
  <2>4. TAG_LOGIN \in Tags /\ SERVER_ID \in UserIds
    BY TalkServerAssumption DEF Tags
  <2>5. /\ Reply(TAG_LOGIN, new, TRUE, NoAddr) \in Message
        /\ notice \in Message
    BY <2>1, <2>4, ReplyType
  <2>6. X \in Seq(Message)
    BY <2>2, <2>5, ToOneType
  <2>7. Y \in Seq(Message)
    BY <2>1, <2>5, LoopTypes, CopiesType
  <2>8. Z \in Seq(Message)
    <3>1. Admitted(new, a) \in Seq(Client)
      BY <2>1, AdmittedTable DEF LoginAccepted, TableOK
    <3>2. WhoList(Others(Admitted(new, a), new)) \in Seq(Message)
      BY <2>1, <3>1, LoopTypes, WhoListFacts
    <3> QED
      BY <2>2, <3>2, ToType
  <2>9. outbox'[s] = outbox[s] \o X \o Y \o Z
    BY <2>2 DEF LoginAccepted
  <2>10. outbox[s] \in Seq(Message)
    BY <2>2 DEF TypeOK
  <2>11. outbox'[s] = outbox[s] \o (X \o Y \o Z) /\ X \o Y \o Z \in Seq(Message)
    <3> HIDE DEF s, X, Y, Z, notice
    <3> QED
      BY <2>6, <2>7, <2>8, <2>9, <2>10, ThreeAppended
  <2> HIDE DEF s, X, Y, Z, notice
  <2>12. News(s) = X \o Y \o Z
    BY <2>10, <2>11, AppendedNews DEF News
  <2>13. Occurs(News(s), notice)
    BY <2>3, <2>6, <2>7, <2>8, <2>12, ContainsMore
  <2> QED
    BY <2>13, NoticeTells DEF s, notice
<1> QED
  BY <1>2, <1>3, <1>4, TalkServerAssumption DEF OnlineIn

\* A logout: one user goes, nobody comes, and everyone else is told.
LEMMA DepartureTold ==
    ASSUME TypeOK, IInv, ReceiveLogout
    PROVE  LET old == Head(inbox).data.senderID
           IN  /\ OnlineIn(users') \subseteq OnlineIn(users)
               /\ OnlineIn(users) \ OnlineIn(users') \subseteq {old}
               /\ old \notin OnlineIn(users')
               /\ \A id \in OnlineIn(users) \ {old} :
                      old \in ToldOf(News(SessionIn(users, id)), TAG_LOGOUT)
<1> DEFINE old == Head(inbox).data.senderID
           notice == Reply(TAG_LOGOUT, SERVER_ID, TRUE, old)
<1>1. old \in UserIds /\ users \in Seq(Client) /\ TableOK(users)
  BY ReceiveType DEF IInv, ReceiveLogout, TableOK
<1>2. SessionsIn(users') = [SessionsIn(users) EXCEPT ![old] = NoAddr]
  BY LogoutEnds
<1>3. \A i \in UserIds :
          SessionIn(users', i) = IF i = old THEN NoAddr ELSE SessionIn(users, i)
  <2>1. \A i \in UserIds :
            SessionsIn(users')[i] = IF i = old THEN NoAddr
                                    ELSE SessionsIn(users)[i]
    BY <1>2 DEF SessionsIn
  <2> QED
    BY <2>1 DEF SessionsIn
<1>4. notice \in Message
  <2>1. TAG_LOGOUT \in Tags /\ SERVER_ID \in UserIds /\ OutgoingOK
    BY TalkServerAssumption DEF Tags, TypeOK, OutgoingOK
  <2> QED
    BY <1>1, <2>1, ReplyType
<1>5. outbox' = [b \in Addrs |->
          outbox[b] \o Copies(Others(users, old), b, notice)]
  BY DEF ReceiveLogout
<1> HIDE DEF old, notice
<1>6. ASSUME NEW id \in OnlineIn(users) \ {old}
      PROVE  old \in ToldOf(News(SessionIn(users, id)), TAG_LOGOUT)
  <2> DEFINE s == SessionIn(users, id)
             Y == Copies(Others(users, old), s, notice)
  <2>1. PICK k \in DOMAIN users : /\ users[k].isLoggedIn
                                 /\ users[k].clientID = id
                                 /\ users[k].theUDPAddress = s
                                 /\ s \in Addrs
    BY <1>1, OnlineEntry
  <2>2. k \in OtherIndices(users, old) \cap DOMAIN users
    BY <2>1 DEF OtherIndices
  <2>3. Occurs(Y, notice)
    BY <1>1, <2>1, <2>2, SelectedReach DEF Others
  <2>4. Y \in Seq(Message)
    BY <1>1, <1>4, LoopTypes, CopiesType
  <2>5. outbox[s] \in Seq(Message) /\ outbox'[s] = outbox[s] \o Y
    BY <1>5, <2>1 DEF TypeOK
  <2> HIDE DEF s, Y
  <2>6. News(s) = Y
    BY <2>4, <2>5, AppendedNews DEF News
  <2> QED
    BY <1>1, <2>3, <2>6, NoticeTells DEF s, notice
<1>7. /\ OnlineIn(users') \subseteq OnlineIn(users)
      /\ OnlineIn(users) \ OnlineIn(users') \subseteq {old}
      /\ old \notin OnlineIn(users')
  BY <1>3 DEF OnlineIn
<1> QED
  BY <1>6, <1>7 DEF old

\* A step that leaves the sessions alone has nothing to tell.
LEMMA NothingToTell ==
    ASSUME users' = users
    PROVE  OnlineIn(users') = OnlineIn(users)
OBVIOUS

\* Who stays while others come or go is told of them.
LEMMA StepTold ==
    ASSUME TypeOK, IInv, [Next]_vars,
           NEW id \in OnlineIn(users),
           SessionIn(users', id) = SessionIn(users, id)
    PROVE  /\ OnlineIn(users') \ OnlineIn(users)
                  \subseteq ToldOf(News(SessionIn(users, id)), TAG_LOGIN)
           /\ OnlineIn(users) \ OnlineIn(users')
                  \subseteq ToldOf(News(SessionIn(users, id)), TAG_LOGOUT)
<1>1. CASE users' = users
  BY <1>1, NothingToTell
<1>2. CASE ReceiveLogin
  <2> DEFINE new == Head(inbox).data.senderID
             a == Head(inbox).from
  <2>1. new \in UserIds /\ a \in Addrs
    BY <1>2, ReceiveType DEF IInv, ReceiveLogin
  <2>2. LoginRefused(new, a) \/ LoginAccepted(new, a)
    BY <1>2 DEF ReceiveLogin
  <2>3. LoginRefused(new, a) => users' = users
    BY DEF LoginRefused
  <2> HIDE DEF new, a
  <2>4. CASE LoginAccepted(new, a)
    BY <2>1, <2>4, ArrivalTold
  <2> QED
    BY <1>1, <2>2, <2>3, <2>4
<1>3. CASE ReceiveLogout
  <2> DEFINE old == Head(inbox).data.senderID
  <2>1. /\ OnlineIn(users') \subseteq OnlineIn(users)
        /\ OnlineIn(users) \ OnlineIn(users') \subseteq {old}
        /\ old \notin OnlineIn(users')
        /\ \A i \in OnlineIn(users) \ {old} :
               old \in ToldOf(News(SessionIn(users, i)), TAG_LOGOUT)
    BY <1>3, DepartureTold
  <2>2. id \in OnlineIn(users')
    BY DEF OnlineIn
  <2> HIDE DEF old
  <2>3. id \in OnlineIn(users) \ {old}
    BY <2>1, <2>2
  <2> QED
    BY <2>1, <2>3
<1> QED
  BY <1>1, <1>2, <1>3
  DEF Next, Serve, ReceiveWho, ReceiveTalkReq, WildAccess, OperatorExit,
      Environment, ClientSends, ClientReads, Network, RequestLost, ReplyLost,
      vars

\* The same of the sessions, for a step of any system the server is part of.
LEMMA ChangeStep ==
    ASSUME TypeOK, IInv, [Next]_vars \/ UNCHANGED users
    PROVE  \A id \in Online :
               SessionOf(id)' = SessionOf(id) =>
                   /\ Online' \ Online
                          \subseteq ToldOf(News(SessionOf(id)), TAG_LOGIN)
                   /\ Online \ Online'
                          \subseteq ToldOf(News(SessionOf(id)), TAG_LOGOUT)
<1> SUFFICES ASSUME NEW id \in Online, SessionOf(id)' = SessionOf(id)
             PROVE  /\ Online' \ Online
                           \subseteq ToldOf(News(SessionOf(id)), TAG_LOGIN)
                    /\ Online \ Online'
                           \subseteq ToldOf(News(SessionOf(id)), TAG_LOGOUT)
  OBVIOUS
<1>1. id \in OnlineIn(users) /\ id \in UserIds
  BY OnlineIsOnlineIn DEF Online
<1>2. /\ SessionOf(id) = SessionIn(users, id)
      /\ SessionOf(id)' = SessionIn(users', id)
  BY <1>1, SessionOfIsSessionIn DEF SessionsIn
<1>3. CASE [Next]_vars
  BY <1>1, <1>2, <1>3, StepTold, OnlineIsOnlineIn
<1>4. CASE UNCHANGED users
  BY <1>4, NothingToTell, OnlineIsOnlineIn
<1> QED
  BY <1>3, <1>4

\* Whoever stays logged in is told, in the same step, of every user who came or
\* went, for every table and every order of datagrams.
THEOREM ChangesTold == Spec => ChangesAnnounced
BY ChangeStep, ServerTypes, Invariance, PTL DEF Spec, ChangesAnnounced
=============================================================================
