-------------------------- MODULE TalkSocketProofs --------------------------
(***************************************************************************)
(* The queue at the UDP socket of a client of the talk system: what the    *)
(* server puts into it, and how the two processes of the client take from  *)
(* it.  To look at a datagram and to take it are two steps, but unless the *)
(* client's user is user 0 each process takes the datagram it has seen.    *)
(***************************************************************************)
EXTENDS TalkSystemProofs


-----------------------------------------------------------------------------
(* Queues of a client. *)

\* The answer of the server to a login.
IsAnswer(m) == m.type = TAG_LOGIN /\ m.from = ServerAddr /\ m.data = NoAddr

\* A line of a list of the server, the end mark included.
IsListLine(m) == m.type = TAG_WHO /\ m.from = ServerAddr

\* No part of an answer that the parent reads up to an end.
Quiet(q) == \A k \in DOMAIN q : ~IsAnswer(q[k]) /\ ~IsListLine(q[k])

\* One answer to a login, then the lines of one list, then its end mark; and no
\* list for a login that is refused.
Orderly(q) ==
    \A i, j \in DOMAIN q :
        /\ IsAnswer(q[i]) /\ IsAnswer(q[j]) => i = j
        /\ IsListLine(q[i]) /\ IsListLine(q[j]) /\ ~q[j].confirm => i <= j
        /\ IsAnswer(q[i]) /\ IsListLine(q[j]) => i < j /\ q[i].confirm

\* What ends a wait comes from the server, and so does a login for a user other
\* than 0 that is not from a client.
IsGenuine(m) ==
    /\ m.type = TAG_LOGIN /\ ~m.confirm => IsAnswer(m)
    /\ m.type = TAG_WHO /\ ~m.confirm => IsListLine(m)
    /\ m.type = TAG_LOGIN /\ m.from = ServerAddr /\ m.senderID # SERVER_ID =>
           IsAnswer(m)

Genuine(q) == \A k \in DOMAIN q : IsGenuine(q[k])

\* r keeps what is true of q, and has no answer that is not in q.
Kept(q, r) ==
    /\ Quiet(q) => Quiet(r)
    /\ Orderly(q) => Orderly(r)
    /\ Genuine(q) => Genuine(r)
    /\ \A k \in DOMAIN r :
           IsAnswer(r[k]) => \E j \in DOMAIN q : q[j] = r[k]

\* r is q without some of its elements.
Within(r, q) ==
    \E f \in [DOMAIN r -> DOMAIN q] :
        \A i, j \in DOMAIN r : r[i] = q[f[i]] /\ (i < j => f[i] < f[j])

LEMMA RemovedWithin ==
    ASSUME NEW S, NEW q \in Seq(S), NEW k \in DOMAIN q
    PROVE  Within(RemoveAt(q, k), q)
<1> DEFINE r == RemoveAt(q, k)
           x == SubSeq(q, 1, k - 1)
           y == SubSeq(q, k + 1, Len(q))
           n == Len(q)
           f == [i \in DOMAIN r |-> IF i < k THEN i ELSE i + 1]
<1>1. DOMAIN q = 1..n /\ n \in Nat /\ k \in Nat /\ 1 <= k /\ k <= n
  OBVIOUS
<1>2. r = x \o y
  BY DEF RemoveAt
<1>3. x \in Seq(S) /\ Len(x) = k - 1 /\ \A i \in 1..k - 1 : x[i] = q[i]
  BY <1>1
<1>4. y \in Seq(S) /\ Len(y) = n - k /\ \A i \in 1..n - k : y[i] = q[i + k]
  BY <1>1
<1> HIDE DEF r, x, y, n
<1>5. /\ DOMAIN r = 1..Len(x) + Len(y)
      /\ \A i \in DOMAIN r : r[i] = IF i <= Len(x) THEN x[i] ELSE y[i - Len(x)]
  BY <1>2, <1>3, <1>4
<1>6. DOMAIN r = 1..n - 1
  BY <1>1, <1>3, <1>4, <1>5
<1>7. ASSUME NEW i \in DOMAIN r
      PROVE  r[i] = q[IF i < k THEN i ELSE i + 1]
  <2>1. CASE i < k
    BY <1>1, <1>3, <1>5, <1>6, <2>1
  <2>2. CASE ~(i < k)
    <3>1. /\ i - (k - 1) \in 1..n - k
          /\ (i - (k - 1)) + k = i + 1
          /\ ~(i <= k - 1)
      BY <1>1, <1>6, <2>2
    <3> QED
      BY <1>3, <1>4, <1>5, <2>2, <3>1
  <2> QED
    BY <2>1, <2>2
<1>8. f \in [DOMAIN r -> DOMAIN q]
  BY <1>1, <1>6
<1>9. \A i, j \in DOMAIN r : r[i] = q[f[i]] /\ (i < j => f[i] < f[j])
  BY <1>1, <1>6, <1>7
<1> QED
  BY <1>8, <1>9 DEF Within, r

LEMMA TailWithin ==
    ASSUME NEW S, NEW q \in Seq(S), q # <<>>
    PROVE  Within(Tail(q), q)
<1> DEFINE r == Tail(q)
           f == [i \in DOMAIN r |-> i + 1]
<1>1. /\ DOMAIN q = 1..Len(q) /\ Len(q) \in Nat
      /\ r \in Seq(S) /\ DOMAIN r = 1..Len(q) - 1
      /\ \A i \in DOMAIN r : r[i] = q[i + 1]
  OBVIOUS
<1> HIDE DEF r
<1>2. f \in [DOMAIN r -> DOMAIN q]
  BY <1>1
<1>3. \A i, j \in DOMAIN r : r[i] = q[f[i]] /\ (i < j => f[i] < f[j])
  BY <1>1
<1> QED
  BY <1>2, <1>3 DEF Within, r

LEMMA SameWithin ==
    ASSUME NEW q
    PROVE  Within(q, q)
<1> DEFINE f == [i \in DOMAIN q |-> i]
<1>1. f \in [DOMAIN q -> DOMAIN q]
  OBVIOUS
<1>2. \A i, j \in DOMAIN q : q[i] = q[f[i]] /\ (i < j => f[i] < f[j])
  OBVIOUS
<1> QED
  BY <1>1, <1>2 DEF Within

LEMMA EmptyWithin ==
    ASSUME NEW q
    PROVE  Within(<<>>, q)
<1> DEFINE f == [i \in {} |-> i]
<1>1. DOMAIN <<>> = {}
  OBVIOUS
<1>2. f \in [{} -> DOMAIN q]
  OBVIOUS
<1> HIDE DEF f
<1> QED
  BY <1>1, <1>2 DEF Within

\* What is left of a queue keeps what is true of it.
LEMMA WithinKept ==
    ASSUME NEW q \in Seq(Message), NEW r \in Seq(Message), Within(r, q)
    PROVE  Kept(q, r)
<1>1. PICK f \in [DOMAIN r -> DOMAIN q] :
          \A i, j \in DOMAIN r : r[i] = q[f[i]] /\ (i < j => f[i] < f[j])
  BY DEF Within
<1>2. DOMAIN q \subseteq Int /\ DOMAIN r \subseteq Int
  OBVIOUS
<1>3. ASSUME Orderly(q) PROVE Orderly(r)
  <2> SUFFICES ASSUME NEW i \in DOMAIN r, NEW j \in DOMAIN r
               PROVE  /\ IsAnswer(r[i]) /\ IsAnswer(r[j]) => i = j
                      /\ IsListLine(r[i]) /\ IsListLine(r[j]) /\ ~r[j].confirm => i <= j
                      /\ IsAnswer(r[i]) /\ IsListLine(r[j]) => i < j /\ r[i].confirm
    BY DEF Orderly
  <2>1. /\ f[i] \in DOMAIN q /\ f[j] \in DOMAIN q
        /\ r[i] = q[f[i]] /\ r[j] = q[f[j]]
        /\ i < j => f[i] < f[j]
        /\ j < i => f[j] < f[i]
    BY <1>1
  <2>2. /\ IsAnswer(r[i]) /\ IsAnswer(r[j]) => f[i] = f[j]
        /\ IsListLine(r[i]) /\ IsListLine(r[j]) /\ ~r[j].confirm => f[i] <= f[j]
        /\ IsAnswer(r[i]) /\ IsListLine(r[j]) => f[i] < f[j] /\ r[i].confirm
    BY <1>3, <2>1 DEF Orderly
  <2>3. i \in Int /\ j \in Int /\ f[i] \in Int /\ f[j] \in Int
    BY <1>2, <2>1
  <2>4. IsAnswer(r[i]) /\ IsListLine(r[j]) => i # j
    BY DEF IsAnswer, IsListLine, TAG_LOGIN, TAG_WHO
  <2> QED
    BY <2>1, <2>2, <2>3, <2>4
<1>4. Quiet(q) => Quiet(r)
  BY <1>1 DEF Quiet
<1>5. Genuine(q) => Genuine(r)
  BY <1>1 DEF Genuine
<1>6. \A k \in DOMAIN r : IsAnswer(r[k]) => \E j \in DOMAIN q : q[j] = r[k]
  BY <1>1
<1> QED
  BY <1>3, <1>4, <1>5, <1>6 DEF Kept

\* p does not disturb the order of what follows it in q.
Joins(p, q) ==
    \A i \in DOMAIN p, j \in DOMAIN q :
        /\ ~(IsAnswer(p[i]) /\ IsAnswer(q[j]))
        /\ ~(IsListLine(p[i]) /\ ~p[i].confirm /\ IsListLine(q[j]))
        /\ ~(IsListLine(p[i]) /\ IsAnswer(q[j]))
        /\ IsAnswer(p[i]) /\ IsListLine(q[j]) => p[i].confirm

\* An element of p \o q is one of p or of q.
LEMMA ConcatElements ==
    ASSUME NEW S, NEW p \in Seq(S), NEW q \in Seq(S)
    PROVE  /\ p \o q \in Seq(S)
           /\ \A k \in DOMAIN (p \o q) :
                  \/ k \in DOMAIN p /\ (p \o q)[k] = p[k]
                  \/ /\ k - Len(p) \in DOMAIN q
                     /\ (p \o q)[k] = q[k - Len(p)]
                     /\ \A i \in DOMAIN p : i < k
OBVIOUS

LEMMA JoinedOrderly ==
    ASSUME NEW p \in Seq(Message), NEW q \in Seq(Message),
           Orderly(p), Orderly(q), Joins(p, q)
    PROVE  Orderly(p \o q)
<1> DEFINE r == p \o q
           n == Len(p)
<1>1. /\ r \in Seq(Message)
      /\ \A k \in DOMAIN r :
             \/ k \in DOMAIN p /\ r[k] = p[k]
             \/ k - n \in DOMAIN q /\ r[k] = q[k - n] /\ \A i \in DOMAIN p : i < k
  BY ConcatElements
<1>2. n \in Nat /\ DOMAIN p = 1..n
  OBVIOUS
<1> HIDE DEF r, n
<1>3. DOMAIN r \subseteq Int
  BY <1>1
<1> SUFFICES ASSUME NEW i \in DOMAIN r, NEW j \in DOMAIN r
             PROVE  /\ IsAnswer(r[i]) /\ IsAnswer(r[j]) => i = j
                    /\ IsListLine(r[i]) /\ IsListLine(r[j]) /\ ~r[j].confirm => i <= j
                    /\ IsAnswer(r[i]) /\ IsListLine(r[j]) => i < j /\ r[i].confirm
  BY DEF Orderly, r
<1>4. i \in Int /\ j \in Int
  BY <1>3
<1>5. CASE i \in DOMAIN p /\ r[i] = p[i] /\ j \in DOMAIN p /\ r[j] = p[j]
  BY <1>5 DEF Orderly
<1>6. CASE /\ i - n \in DOMAIN q /\ r[i] = q[i - n]
           /\ j - n \in DOMAIN q /\ r[j] = q[j - n]
  <2>1. /\ IsAnswer(r[i]) /\ IsAnswer(r[j]) => i - n = j - n
        /\ IsListLine(r[i]) /\ IsListLine(r[j]) /\ ~r[j].confirm => i - n <= j - n
        /\ IsAnswer(r[i]) /\ IsListLine(r[j]) => i - n < j - n /\ r[i].confirm
    BY <1>6 DEF Orderly
  <2> QED
    BY <1>2, <1>4, <2>1
<1>7. CASE /\ i \in DOMAIN p /\ r[i] = p[i] /\ i < j
           /\ j - n \in DOMAIN q /\ r[j] = q[j - n]
  BY <1>4, <1>7 DEF Joins
<1>8. CASE /\ j \in DOMAIN p /\ r[j] = p[j] /\ j < i
           /\ i - n \in DOMAIN q /\ r[i] = q[i - n]
  BY <1>4, <1>8 DEF Joins
<1> QED
  BY <1>1, <1>5, <1>6, <1>7, <1>8

LEMMA QuietJoins ==
    ASSUME NEW p, NEW q, Quiet(p) \/ Quiet(q)
    PROVE  Joins(p, q)
BY DEF Quiet, Joins

LEMMA QuietOrderly ==
    ASSUME NEW q, Quiet(q)
    PROVE  Orderly(q)
BY DEF Quiet, Orderly

LEMMA QuietConcat ==
    ASSUME NEW p \in Seq(Message), NEW q \in Seq(Message), Quiet(p), Quiet(q)
    PROVE  Quiet(p \o q)
BY ConcatElements DEF Quiet

LEMMA GenuineConcat ==
    ASSUME NEW p \in Seq(Message), NEW q \in Seq(Message), Genuine(p), Genuine(q)
    PROVE  Genuine(p \o q)
BY ConcatElements DEF Genuine

\* What a client sends is no part of an answer of the server.
LEMMA SentKept ==
    ASSUME NEW q \in Seq(Message), NEW m \in Message, m.from \in Addrs,
           m.type \in {TAG_LOGIN, TAG_WHO} => m.confirm
    PROVE  Append(q, m) \in Seq(Message) /\ Kept(q, Append(q, m))
<1> DEFINE r == Append(q, m)
<1>1. /\ r \in Seq(Message)
      /\ \A k \in DOMAIN r : (k \in DOMAIN q /\ r[k] = q[k]) \/ r[k] = m
  OBVIOUS
<1>2. ~IsAnswer(m) /\ ~IsListLine(m) /\ IsGenuine(m)
  BY TalkServerAssumption DEF IsAnswer, IsListLine, IsGenuine
<1> HIDE DEF r
<1>3. Kept(q, r)
  BY <1>1, <1>2 DEF Kept, Quiet, Orderly, Genuine
<1> QED
  BY <1>1, <1>3 DEF r

LEMMA KeptTransitive ==
    ASSUME NEW p, NEW q, NEW r, Kept(p, q), Kept(q, r)
    PROVE  Kept(p, r)
<1>1. \A k \in DOMAIN r : IsAnswer(r[k]) => \E j \in DOMAIN p : p[j] = r[k]
  <2> SUFFICES ASSUME NEW k \in DOMAIN r, IsAnswer(r[k])
               PROVE  \E j \in DOMAIN p : p[j] = r[k]
    OBVIOUS
  <2>1. PICK i \in DOMAIN q : q[i] = r[k]
    BY DEF Kept
  <2> QED
    BY <2>1 DEF Kept
<1> QED
  BY <1>1 DEF Kept

-----------------------------------------------------------------------------
(* What the server sends. *)

\* A request that the server answers to c, and one that ends c's session.
AskOf(p, c) == p.from = c /\ p.data.type \in {TAG_LOGIN, TAG_WHO}

OutOf(p, c) == p.from = c /\ p.data.type = TAG_LOGOUT

\* What the server sends is from the server.
IsServed(m) == IsGenuine(m) /\ m.from = ServerAddr

Served(q) == \A k \in DOMAIN q : IsServed(q[k])

LEMMA ServedConcat ==
    ASSUME NEW p \in Seq(Message), NEW q \in Seq(Message), Served(p), Served(q)
    PROVE  Served(p \o q)
BY ConcatElements DEF Served

\* Nothing, a notification, and a talk response are no answers to be awaited.
LEMMA QuietPieces ==
    /\ Quiet(<<>>) /\ Served(<<>>)
    /\ \A m : ~IsAnswer(m) /\ ~IsListLine(m) /\ IsServed(m) =>
           /\ Quiet(<<m>>) /\ Served(<<m>>)
           /\ \A q \in Seq({m}) : Quiet(q) /\ Served(q)
<1>1. Quiet(<<>>) /\ Served(<<>>)
  BY DEF Quiet, Served
<1>2. ASSUME NEW m, ~IsAnswer(m) /\ ~IsListLine(m) /\ IsServed(m)
      PROVE  \A q \in Seq({m}) : Quiet(q) /\ Served(q)
  BY <1>2 DEF Quiet, Served
<1>3. \A m : <<m>> \in Seq({m})
  OBVIOUS
<1> QED
  BY <1>1, <1>2, <1>3

LEMMA NoticeClass ==
    ASSUME NEW tag \in {TAG_LOGIN, TAG_LOGOUT}, NEW id \in UserIds
    PROVE  LET m == Reply(tag, SERVER_ID, TRUE, id)
           IN  ~IsAnswer(m) /\ ~IsListLine(m) /\ IsServed(m)
BY TalkServerAssumption
DEF Reply, IsAnswer, IsListLine, IsServed, IsGenuine, TAG_LOGIN, TAG_LOGOUT,
    TAG_WHO

\* The answer to a login.
LEMMA AnswerClass ==
    ASSUME NEW id, NEW yes \in BOOLEAN
    PROVE  LET m == Reply(TAG_LOGIN, id, yes, NoAddr)
           IN  /\ IsAnswer(m) /\ ~IsListLine(m) /\ IsServed(m)
               /\ m.confirm = yes /\ m.senderID = id
               /\ Orderly(<<m>>) /\ Served(<<m>>)
<1> DEFINE m == Reply(TAG_LOGIN, id, yes, NoAddr)
<1>1. /\ m.type = TAG_LOGIN /\ m.from = ServerAddr /\ m.data = NoAddr
      /\ m.confirm = yes /\ m.senderID = id
  BY DEF Reply
<1> HIDE DEF m
<1>2. IsAnswer(m) /\ ~IsListLine(m) /\ IsServed(m)
  <2>1. IsAnswer(m) /\ m.type # TAG_WHO
    BY <1>1 DEF IsAnswer, TAG_LOGIN, TAG_WHO
  <2> QED
    BY <1>1, <2>1 DEF IsListLine, IsServed, IsGenuine
<1>3. DOMAIN <<m>> = {1} /\ <<m>>[1] = m
  OBVIOUS
<1>4. Orderly(<<m>>) /\ Served(<<m>>)
  BY <1>2, <1>3 DEF Orderly, Served
<1> QED
  BY <1>1, <1>2, <1>4 DEF m

\* A line of a list, or its end mark.
LEMMA LineClass ==
    ASSUME NEW yes \in BOOLEAN, NEW id
    PROVE  LET m == Reply(TAG_WHO, SERVER_ID, yes, id)
           IN  ~IsAnswer(m) /\ IsServed(m) /\ m.confirm = yes
<1> DEFINE m == Reply(TAG_WHO, SERVER_ID, yes, id)
<1>1. m.type = TAG_WHO /\ m.from = ServerAddr /\ m.confirm = yes
  BY DEF Reply
<1> HIDE DEF m
<1>2. m.type # TAG_LOGIN /\ IsListLine(m)
  BY <1>1 DEF IsListLine, TAG_LOGIN, TAG_WHO
<1>3. ~IsAnswer(m) /\ IsServed(m)
  BY <1>1, <1>2 DEF IsAnswer, IsServed, IsGenuine
<1> QED
  BY <1>1, <1>3 DEF m

\* A list.
LEMMA ListClass ==
    ASSUME OutgoingOK, NEW us \in Seq(Client)
    PROVE  /\ WhoList(us) \in Seq(Message)
           /\ Orderly(WhoList(us)) /\ Served(WhoList(us))
           /\ \A k \in DOMAIN WhoList(us) : ~IsAnswer(WhoList(us)[k])
<1> DEFINE list == WhoList(us)
           n == Len(us)
<1>1. /\ list \in Seq(Message)
      /\ n \in Nat
      /\ Len(list) = n + 1
      /\ list[n + 1] = Reply(TAG_WHO, SERVER_ID, FALSE, NoAddr)
      /\ \A k \in 1..n :
             list[k] = Reply(TAG_WHO, SERVER_ID, TRUE, us[k].clientID)
  BY WhoListFacts
<1> HIDE DEF list, n
<1>2. DOMAIN list = 1..n + 1
  BY <1>1
<1>3. ASSUME NEW k \in 1..n
      PROVE  /\ ~IsAnswer(list[k]) /\ IsServed(list[k])
             /\ list[k].confirm
  BY <1>1, LineClass
<1>4. ~IsAnswer(list[n + 1]) /\ IsServed(list[n + 1])
  BY <1>1, LineClass
<1>5. \A k \in DOMAIN list : ~IsAnswer(list[k]) /\ IsServed(list[k])
                            /\ (~list[k].confirm => k = n + 1)
  <2>1. \A k \in DOMAIN list : k \in 1..n \/ k = n + 1
    BY <1>1, <1>2
  <2> QED
    BY <1>3, <1>4, <2>1
<1>6. \A i, j \in DOMAIN list : j = n + 1 => i <= j
  BY <1>1, <1>2
<1>7. Orderly(list) /\ Served(list)
  BY <1>5, <1>6 DEF Orderly, Served
<1> QED
  BY <1>1, <1>5, <1>7 DEF list

\* q is what the server sends to b when it serves the first request: in order,
\* an answer only to who asked, and a confirmation only to who has a session.
Sent(q, b) ==
    /\ q \in Seq(Message)
    /\ Orderly(q) /\ Served(q)
    /\ ~Quiet(q) => AskOf(Head(inbox), b)
    /\ \A k \in DOMAIN q :
           IsAnswer(q[k]) /\ q[k].confirm =>
               SessionIn(users', q[k].senderID) = b

LEMMA QuietSent ==
    ASSUME NEW q \in Seq(Message), NEW b, Quiet(q), Served(q)
    PROVE  Sent(q, b)
BY QuietOrderly DEF Sent, Quiet

\* What an accepted login sends its user: the answer m, notifications, a list.
LEMMA AnswerAndList ==
    ASSUME NEW m \in Message, IsAnswer(m), ~IsListLine(m), m.confirm,
           Orderly(<<m>>), Served(<<m>>),
           NEW y \in Seq(Message), Quiet(y), Served(y),
           NEW z \in Seq(Message), Orderly(z), Served(z),
           \A k \in DOMAIN z : ~IsAnswer(z[k])
    PROVE  /\ <<m>> \o y \o z \in Seq(Message)
           /\ Orderly(<<m>> \o y \o z) /\ Served(<<m>> \o y \o z)
           /\ \A k \in DOMAIN (<<m>> \o y \o z) :
                  IsAnswer((<<m>> \o y \o z)[k]) => (<<m>> \o y \o z)[k] = m
<1> DEFINE x == <<m>>
           xy == x \o y
           xyz == xy \o z
<1>1. x \in Seq(Message) /\ \A k \in DOMAIN x : x[k] = m
  OBVIOUS
<1>2. Orderly(x) /\ Served(x)
  OBVIOUS
<1> HIDE DEF x
<1>3. /\ xy \in Seq(Message)
      /\ \A k \in DOMAIN xy : \/ k \in DOMAIN x /\ xy[k] = x[k]
                              \/ k - Len(x) \in DOMAIN y /\ xy[k] = y[k - Len(x)]
  BY <1>1, ConcatElements
<1>4. Orderly(xy) /\ Served(xy)
  BY <1>1, <1>2, JoinedOrderly, QuietJoins, QuietOrderly, ServedConcat
<1> HIDE DEF xy
<1>5. \A k \in DOMAIN xy : xy[k] = m \/ (~IsAnswer(xy[k]) /\ ~IsListLine(xy[k]))
  BY <1>1, <1>3 DEF Quiet
<1>6. Joins(xy, z)
  BY <1>5 DEF Joins
<1>7. /\ xyz \in Seq(Message)
      /\ \A k \in DOMAIN xyz :
             \/ k \in DOMAIN xy /\ xyz[k] = xy[k]
             \/ k - Len(xy) \in DOMAIN z /\ xyz[k] = z[k - Len(xy)]
  BY <1>3, ConcatElements
<1>8. Orderly(xyz) /\ Served(xyz)
  BY <1>3, <1>4, <1>6, JoinedOrderly, ServedConcat
<1> HIDE DEF xyz
<1>9. \A k \in DOMAIN xyz : IsAnswer(xyz[k]) => xyz[k] = m
  BY <1>5, <1>7
<1> QED
  BY <1>7, <1>8, <1>9 DEF xyz, xy, x

LEMMA OneMessage ==
    /\ \A m \in Message : <<m>> \in Seq(Message)
    /\ \A m : \A k \in DOMAIN <<m>> : <<m>>[k] = m
OBVIOUS

\* A login.
LEMMA LoginSends ==
    ASSUME TypeOK, IInv, ReceiveLogin
    PROVE  \E s : /\ outbox' = [b \in Addrs |-> outbox[b] \o s[b]]
                  /\ \A b \in Addrs : Sent(s[b], b)
<1> DEFINE id == Head(inbox).data.senderID
           a == Head(inbox).from
<1>1. id \in UserIds /\ a \in Addrs /\ AskOf(Head(inbox), a) /\ OutgoingOK
  BY ReceiveType
  DEF IInv, ReceiveLogin, Receive, AskOf, TypeOK, OutgoingOK
<1>2. LoginRefused(id, a) \/ LoginAccepted(id, a)
  BY DEF ReceiveLogin
<1>3. TAG_LOGIN \in Tags /\ SERVER_ID \in UserIds
  BY TalkServerAssumption DEF Tags
<1> DEFINE answer(yes) == Reply(TAG_LOGIN, id, yes, NoAddr)
           notice == Reply(TAG_LOGIN, SERVER_ID, TRUE, id)
<1>4. /\ \A yes \in BOOLEAN : /\ answer(yes) \in Message
                              /\ IsAnswer(answer(yes)) /\ ~IsListLine(answer(yes))
                              /\ answer(yes).confirm = yes
                              /\ answer(yes).senderID = id
                              /\ Orderly(<<answer(yes)>>)
                              /\ Served(<<answer(yes)>>)
      /\ notice \in Message
      /\ ~IsAnswer(notice) /\ ~IsListLine(notice) /\ IsServed(notice)
  BY <1>1, <1>3, ReplyType, AnswerClass, NoticeClass
<1>5. \A yes \in BOOLEAN : <<answer(yes)>> \in Seq(Message)
  <2> HIDE DEF answer
  <2> QED
    BY <1>4, OneMessage
<1>6. CASE LoginRefused(id, a)
  <2> DEFINE s == To(a, <<answer(FALSE)>>)
  <2>1. outbox' = [b \in Addrs |-> outbox[b] \o s[b]]
    BY <1>6 DEF LoginRefused
  <2> HIDE DEF id, a, answer, notice
  <2>2. ASSUME NEW b \in Addrs PROVE Sent(s[b], b)
    <3>1. CASE b = a
      <4>1. s[b] = <<answer(FALSE)>>
        BY <3>1 DEF To
      <4>2. \A k \in DOMAIN s[b] : s[b][k] = answer(FALSE)
        <5> HIDE DEF s
        <5> QED
          BY <4>1, OneMessage
      <4>3. \A k \in DOMAIN s[b] : ~s[b][k].confirm
        BY <1>4, <4>2
      <4> QED
        BY <1>1, <1>4, <1>5, <3>1, <4>1, <4>3 DEF Sent
    <3>2. CASE b # a
      <4>1. s[b] = <<>> /\ <<>> \in Seq(Message)
        BY <3>2 DEF To
      <4> QED
        BY <4>1, QuietPieces, QuietSent
    <3> QED
      BY <3>1, <3>2
  <2> QED
    BY <2>1, <2>2
<1>7. CASE LoginAccepted(id, a)
  <2>1. TableOK(users) /\ ~Refused(id) /\ users \in Seq(Client)
    BY <1>7 DEF IInv, LoginAccepted, TableOK
  <2>2. Admitted(id, a) \in Seq(Client)
    BY <1>1, <2>1, AdmittedTable DEF TableOK
  <2>3. SessionIn(users', id) = a
    <3>1. SessionsIn(users') = [SessionsIn(users) EXCEPT ![id] = a]
      BY <1>1, <1>7, LoginStarts
    <3> QED
      BY <1>1, <3>1 DEF SessionsIn
  <2> DEFINE list == WhoList(Others(Admitted(id, a), id))
  <2>4. /\ list \in Seq(Message) /\ Orderly(list) /\ Served(list)
        /\ \A k \in DOMAIN list : ~IsAnswer(list[k])
    BY <1>1, <2>2, LoopTypes, ListClass
  <2> DEFINE X(b) == To(a, <<answer(TRUE)>>)[b]
             Y(b) == Copies(LoggedIn(users), b, notice)
             Z(b) == To(a, list)[b]
             s == [b \in Addrs |-> X(b) \o Y(b) \o Z(b)]
  <2>5. \A b \in Addrs : Y(b) \in Seq(Message) /\ Y(b) \in Seq({notice})
    BY <1>4, <2>1, LoopTypes, CopiesType, CopiesFacts
  <2>6. outbox' = [b \in Addrs |-> outbox[b] \o X(b) \o Y(b) \o Z(b)]
    BY <1>7 DEF LoginAccepted
  <2>7. ASSUME NEW b \in Addrs
        PROVE  /\ X(b) \in Seq(Message) /\ Z(b) \in Seq(Message)
               /\ X(b) = (IF b = a THEN <<answer(TRUE)>> ELSE <<>>)
               /\ Z(b) = (IF b = a THEN list ELSE <<>>)
    <3>1. /\ X(b) = (IF b = a THEN <<answer(TRUE)>> ELSE <<>>)
          /\ Z(b) = (IF b = a THEN list ELSE <<>>)
      BY DEF To
    <3>2. <<>> \in Seq(Message)
      OBVIOUS
    <3> HIDE DEF X, Z, answer, list
    <3> QED
      BY <1>5, <2>4, <3>1, <3>2
  <2> HIDE DEF id, a, answer, notice, list, X, Y, Z
  <2>8. ASSUME NEW b \in Addrs
        PROVE  Sent(X(b) \o Y(b) \o Z(b), b)
    <3> DEFINE y == Y(b)
               all == X(b) \o Y(b) \o Z(b)
    <3>1. y \in Seq(Message) /\ Quiet(y) /\ Served(y)
      BY <1>4, <2>5, QuietPieces
    <3>2. CASE b # a
      <4>1. all = y
        <5>1. X(b) = <<>> /\ Z(b) = <<>>
          BY <2>7, <3>2
        <5>2. \A q \in Seq(Message) : <<>> \o q \o <<>> = q
          OBVIOUS
        <5> QED
          BY <3>1, <5>1, <5>2
      <4> HIDE DEF y, all
      <4>2. Sent(all, b)
        BY <3>1, <4>1, QuietSent
      <4> QED
        BY <4>2 DEF all
    <3>3. CASE b = a
      <4>1. all = <<answer(TRUE)>> \o y \o list
        BY <2>7, <3>3
      <4> HIDE DEF y, all
      <4>2. /\ all \in Seq(Message) /\ Orderly(all) /\ Served(all)
            /\ \A k \in DOMAIN all : IsAnswer(all[k]) => all[k] = answer(TRUE)
        BY <1>4, <2>4, <3>1, <4>1, AnswerAndList
      <4>3. Sent(all, b)
        BY <1>1, <1>4, <2>3, <3>3, <4>2 DEF Sent
      <4> QED
        BY <4>3 DEF all
    <3> QED
      BY <3>2, <3>3
  <2>9. outbox' = [b \in Addrs |-> outbox[b] \o s[b]]
    <3>1. \A b \in Addrs : outbox[b] \o X(b) \o Y(b) \o Z(b)
                            = outbox[b] \o (X(b) \o Y(b) \o Z(b))
      BY <2>5, <2>7, ThreeAppended DEF TypeOK
    <3> QED
      BY <2>6, <3>1
  <2>10. \A b \in Addrs : Sent(s[b], b)
    BY <2>8
  <2> HIDE DEF s
  <2> QED
    BY <2>9, <2>10
<1> QED
  BY <1>2, <1>6, <1>7

\* A logout.
LEMMA LogoutSends ==
    ASSUME TypeOK, IInv, ReceiveLogout
    PROVE  \E s : /\ outbox' = [b \in Addrs |-> outbox[b] \o s[b]]
                  /\ \A b \in Addrs : Sent(s[b], b)
<1> DEFINE id == Head(inbox).data.senderID
           notice == Reply(TAG_LOGOUT, SERVER_ID, TRUE, id)
           s == [b \in Addrs |-> Copies(Others(users, id), b, notice)]
<1>1. id \in UserIds /\ OutgoingOK /\ users \in Seq(Client)
  BY ReceiveType DEF IInv, ReceiveLogout, TypeOK, OutgoingOK
<1>2. TAG_LOGOUT \in Tags /\ SERVER_ID \in UserIds
  BY TalkServerAssumption DEF Tags
<1>3. /\ notice \in Message
      /\ ~IsAnswer(notice) /\ ~IsListLine(notice) /\ IsServed(notice)
  BY <1>1, <1>2, ReplyType, NoticeClass
<1>4. outbox' = [b \in Addrs |-> outbox[b] \o s[b]]
  BY DEF ReceiveLogout
<1> HIDE DEF notice
<1>5. ASSUME NEW b \in Addrs PROVE Sent(s[b], b)
  <2>1. s[b] \in Seq(Message) /\ s[b] \in Seq({notice})
    BY <1>1, <1>3, LoopTypes, CopiesType, CopiesFacts
  <2> HIDE DEF s
  <2>2. Quiet(s[b]) /\ Served(s[b])
    BY <1>3, <2>1, QuietPieces
  <2> QED
    BY <2>1, <2>2, QuietSent
<1> HIDE DEF s
<1> QED
  BY <1>4, <1>5

\* What is sent to the sender of the first request only, and confirms no login.
LEMMA OneIsSent ==
    ASSUME NEW a \in Addrs, NEW q \in Seq(Message), Orderly(q), Served(q),
           \/ Quiet(q)
           \/ /\ AskOf(Head(inbox), a)
              /\ \A k \in DOMAIN q : ~IsAnswer(q[k]),
           NEW b \in Addrs
    PROVE  Sent(To(a, q)[b], b)
<1>1. CASE b # a
  <2>1. To(a, q)[b] = <<>> /\ <<>> \in Seq(Message)
    BY <1>1 DEF To
  <2> QED
    BY <2>1, QuietPieces, QuietSent
<1>2. CASE b = a
  <2>1. To(a, q)[b] = q
    BY <1>2 DEF To
  <2> QED
    BY <1>2, <2>1, QuietSent DEF Sent
<1> QED
  BY <1>1, <1>2

\* A WHO request.
LEMMA WhoSends ==
    ASSUME TypeOK, ReceiveWho
    PROVE  \E s : /\ outbox' = [b \in Addrs |-> outbox[b] \o s[b]]
                  /\ \A b \in Addrs : Sent(s[b], b)
<1> DEFINE id == Head(inbox).data.senderID
           a == Head(inbox).from
           list == WhoList(Others(users, id))
           s == To(a, list)
<1>1. a \in Addrs /\ AskOf(Head(inbox), a) /\ OutgoingOK /\ users \in Seq(Client)
  BY ReceiveType DEF ReceiveWho, Receive, AskOf, TypeOK, OutgoingOK
<1>2. /\ list \in Seq(Message) /\ Orderly(list) /\ Served(list)
      /\ \A k \in DOMAIN list : ~IsAnswer(list[k])
  BY <1>1, LoopTypes, ListClass
<1>3. outbox' = [b \in Addrs |-> outbox[b] \o s[b]]
  BY DEF ReceiveWho
<1> HIDE DEF id, a, list
<1>4. \A b \in Addrs : Sent(s[b], b)
  BY <1>1, <1>2, OneIsSent DEF a
<1> HIDE DEF s
<1> QED
  BY <1>3, <1>4

\* A TALK request.
LEMMA TalkReqSends ==
    ASSUME TypeOK, ReceiveTalkReq
    PROVE  \E s : /\ outbox' = [b \in Addrs |-> outbox[b] \o s[b]]
                  /\ \A b \in Addrs : Sent(s[b], b)
<1> DEFINE d == Head(inbox).data
           a == Head(inbox).from
           answer == [from |-> ServerAddr, type |-> TAG_TALK_RES,
                      senderID |-> SERVER_ID, confirm |-> Found(d),
                      data |-> NoAddr, theAddress |-> outgoing'.theAddress,
                      theOtherAddress |-> outgoing'.theOtherAddress]
           s == To(a, <<answer>>)
<1>1. a \in Addrs
  BY ReceiveType DEF ReceiveTalkReq, TypeOK
<1>2. answer.type = TAG_TALK_RES /\ answer.from = ServerAddr
  OBVIOUS
<1>3. outgoing' \in [theAddress : TcpAddrs, theOtherAddress : UdpAddrs]
  BY TalkReqKeepsTypes DEF TypeOK
<1>4. answer \in Message
  <2>1. Found(d) \in BOOLEAN
    BY DEF Found
  <2>2. TAG_TALK_RES \in Tags /\ SERVER_ID \in UserIds
    BY TalkServerAssumption DEF Tags
  <2> QED
    BY <1>3, <2>1, <2>2 DEF Message
<1>5. outbox' = [b \in Addrs |-> outbox[b] \o s[b]]
  BY DEF ReceiveTalkReq
<1> HIDE DEF answer, a
<1>6. ~IsAnswer(answer) /\ ~IsListLine(answer) /\ IsServed(answer)
  BY <1>2
  DEF IsAnswer, IsListLine, IsServed, IsGenuine, TAG_TALK_RES, TAG_LOGIN, TAG_WHO
<1>7. <<answer>> \in Seq(Message) /\ Quiet(<<answer>>) /\ Served(<<answer>>)
  BY <1>4, <1>6, OneMessage, QuietPieces
<1>8. \A b \in Addrs : Sent(s[b], b)
  BY <1>1, <1>7, OneIsSent, QuietOrderly
<1> HIDE DEF s
<1> QED
  BY <1>5, <1>8

\* A step of the server takes the first request and appends what it sends,
\* or ends the server.
LEMMA ServeSends ==
    ASSUME TypeOK, IInv, Serve
    PROVE  \/ UNCHANGED <<inbox, outbox, users>>
           \/ /\ inbox # <<>>
              /\ inbox' = Tail(inbox)
              /\ \E s : /\ outbox' = [b \in Addrs |-> outbox[b] \o s[b]]
                        /\ \A b \in Addrs : Sent(s[b], b)
<1>1. WildAccess => UNCHANGED <<inbox, outbox, users>>
  BY DEF WildAccess
<1>2. ReceiveLogin \/ ReceiveLogout \/ ReceiveWho \/ ReceiveTalkReq =>
          inbox # <<>> /\ inbox' = Tail(inbox)
  BY DEF ReceiveLogin, ReceiveLogout, ReceiveWho, ReceiveTalkReq, Receive
<1> QED
  BY <1>1, <1>2, LoginSends, LogoutSends, WhoSends, TalkReqSends DEF Serve

\* It starts sessions, and ends one only at its user's logout.
LEMMA ServeSessions ==
    ASSUME TypeOK, IInv, Serve, NEW i \in UserIds, SessionIn(users, i) # NoAddr
    PROVE  \/ SessionIn(users', i) = SessionIn(users, i)
           \/ /\ inbox # <<>>
              /\ Head(inbox).data.type = TAG_LOGOUT
              /\ Head(inbox).data.senderID = i
<1>1. CASE ReceiveLogin
  <2> DEFINE id == Head(inbox).data.senderID
             a == Head(inbox).from
  <2>1. id \in UserIds /\ a \in Addrs
    BY <1>1, ReceiveType DEF IInv, ReceiveLogin
  <2>2. LoginRefused(id, a) \/ LoginAccepted(id, a)
    BY <1>1 DEF ReceiveLogin
  <2>3. LoginRefused(id, a) => users' = users
    BY DEF LoginRefused
  <2> HIDE DEF id, a
  <2>4. CASE LoginAccepted(id, a)
    <3>1. /\ SessionsIn(users)[id] = NoAddr
          /\ SessionsIn(users') = [SessionsIn(users) EXCEPT ![id] = a]
      BY <2>1, <2>4, LoginStarts
    <3> QED
      BY <3>1 DEF SessionsIn
  <2> QED
    BY <2>2, <2>3, <2>4
<1>2. CASE ReceiveLogout
  <2>1. inbox # <<>> /\ Head(inbox).data.type = TAG_LOGOUT
    BY <1>2 DEF ReceiveLogout, Receive
  <2>2. SessionsIn(users')
            = [SessionsIn(users) EXCEPT ![Head(inbox).data.senderID] = NoAddr]
    BY <1>2, LogoutEnds
  <2> QED
    BY <2>1, <2>2 DEF SessionsIn
<1>3. CASE ReceiveWho \/ ReceiveTalkReq \/ WildAccess
  BY <1>3 DEF ReceiveWho, ReceiveTalkReq, WildAccess
<1> QED
  BY <1>1, <1>2, <1>3 DEF Serve

-----------------------------------------------------------------------------
(* Two processes at one socket. *)

\* What the parent has seen before it takes it ...
ParentHas(c) ==
    /\ ParentTakes(c) => First(c, incoming[c])
    /\ place[c] = "takingAnswer" => /\ incoming[c].type = TAG_LOGIN
                                     /\ incoming[c].senderID = userID[c]
    /\ place[c] \in {"takingList", "takingWho"} => incoming[c].type = TAG_WHO
    /\ place[c] \in {"takingReply", "takingResponse"} =>
           incoming[c].type = TAG_TALK_RES

\* ... and the child, which is never the same datagram.
ChildHas(c) ==
    /\ ChildTakes(c) => First(c, held[c])
    /\ child[c] = "takingRequest" => held[c].type = TAG_TALK_REQ
    /\ child[c] = "takingNotice" => /\ held[c].type \in {TAG_LOGIN, TAG_LOGOUT}
                                     /\ held[c].senderID = SERVER_ID

\* The parent waits under one of the names of the client.
Named(c) == place[c] \notin {"loggedOut", "exited"} => userID[c] \in Names[c]

SocketOK(c) == Named(c) /\ ParentHas(c) /\ ChildHas(c)

PInv == \A c \in Ordinary : SocketOK(c)

\* They never both have seen one.
LEMMA NeverBoth ==
    ASSUME NEW c \in Ordinary, SocketOK(c), ParentTakes(c)
    PROVE  ~ChildTakes(c)
<1>1. SERVER_ID \notin Names[c]
  BY DEF Ordinary
<1>2. place[c] = "takingAnswer" => userID[c] \in Names[c]
  BY DEF SocketOK, Named
<1>3. CASE place[c] = "takingAnswer"
  BY <1>1, <1>2, <1>3
  DEF SocketOK, ParentHas, ChildHas, ParentTakes, ChildTakes, First, TAG_LOGIN,
      TAG_LOGOUT, TAG_TALK_REQ
<1>4. CASE place[c] # "takingAnswer"
  BY <1>4
  DEF SocketOK, ParentHas, ChildHas, ParentTakes, ChildTakes, First, TAG_LOGIN,
      TAG_LOGOUT, TAG_TALK_REQ, TAG_TALK_RES, TAG_WHO
<1> QED
  BY <1>3, <1>4

\* What the processes of c know is as before.
SameOwn(c) ==
    /\ place'[c] = place[c] /\ incoming'[c] = incoming[c]
    /\ userID'[c] = userID[c]
    /\ child'[c] = child[c] /\ held'[c] = held[c]

\* The first datagram of c stays the first.
HeadStays(c) ==
    outbox[c] # <<>> => /\ outbox'[c] # <<>>
                        /\ Head(outbox'[c]) = Head(outbox[c])

LEMMA Undisturbed ==
    ASSUME NEW c \in Addrs, SocketOK(c), SameOwn(c), Seen(c) => HeadStays(c)
    PROVE  SocketOK(c)'
<1>1. Named(c)'
  BY DEF SocketOK, Named, SameOwn
<1>2. ParentHas(c)'
  BY DEF SocketOK, ParentHas, SameOwn, ParentTakes, First, Seen, HeadStays
<1>3. ChildHas(c)'
  BY DEF SocketOK, ChildHas, SameOwn, ChildTakes, First, Seen, HeadStays
<1> QED
  BY <1>1, <1>2, <1>3 DEF SocketOK

\* A datagram that is sent goes behind the others.
LEMMA PostedBehind ==
    ASSUME NEW boxes \in [Addrs -> Seq(Message)], NEW a, NEW m \in Message,
           Post(boxes, a, m), NEW c \in Addrs, boxes[c] # <<>>
    PROVE  outbox'[c] # <<>> /\ Head(outbox'[c]) = Head(boxes[c])
<1>1. outbox' = boxes \/ outbox' = [boxes EXCEPT ![a] = Append(boxes[a], m)]
  BY DEF Post
<1>2. boxes[c] \in Seq(Message)
  OBVIOUS
<1>3. /\ Append(boxes[c], m) # <<>>
      /\ Head(Append(boxes[c], m)) = Head(boxes[c])
  BY <1>2
<1> QED
  BY <1>1, <1>3

\* So does what the server sends.
LEMMA ServedBehind ==
    ASSUME TypeOK, IInv, Serve, NEW c \in Addrs
    PROVE  HeadStays(c)
<1>1. outbox' = outbox => HeadStays(c)
  BY DEF HeadStays
<1>2. ASSUME NEW s, outbox' = [b \in Addrs |-> outbox[b] \o s[b]], Sent(s[c], c)
      PROVE  HeadStays(c)
  <2>1. outbox[c] \in Seq(Message) /\ s[c] \in Seq(Message)
    BY <1>2 DEF TypeOK, Sent
  <2>2. outbox'[c] = outbox[c] \o s[c]
    BY <1>2
  <2>3. ASSUME NEW p \in Seq(Message), NEW q \in Seq(Message), p # <<>>
        PROVE  p \o q # <<>> /\ Head(p \o q) = Head(p)
    BY <2>3
  <2> QED
    BY <2>1, <2>2, <2>3 DEF HeadStays
<1> QED
  BY <1>1, <1>2, ServeSends

\* The queues after a step in which c sends at most, or takes at most.
LEMMA OthersStay ==
    ASSUME TypeOK, NEW c \in Addrs, NEW q,
           outbox' = outbox \/ outbox' = [outbox EXCEPT ![c] = q]
    PROVE  \A b \in Addrs \ {c} : HeadStays(b)
BY DEF HeadStays, TypeOK

LEMMA AllStay ==
    ASSUME TypeOK, NEW a, NEW m \in Message,
           outbox' = outbox \/ Post(outbox, a, m)
    PROVE  \A b \in Addrs : HeadStays(b)
BY PostedBehind DEF HeadStays, TypeOK

\* A step of the parent that does not look at the queue, ...
LEMMA ParentAway ==
    ASSUME NEW c \in Addrs, SocketOK(c), HeadStays(c), ~ParentTakes(c)', Named(c)',
           child'[c] = child[c], held'[c] = held[c]
    PROVE  SocketOK(c)'
<1>1. ParentHas(c)'
  BY DEF ParentHas, ParentTakes
<1>2. ChildHas(c)'
  BY DEF SocketOK, ChildHas, ChildTakes, First, HeadStays
<1> QED
  BY <1>1, <1>2 DEF SocketOK

\* ... or sees the first datagram, ...
LEMMA ParentSees ==
    ASSUME NEW c \in Addrs, SocketOK(c), outbox[c] # <<>>, Named(c)',
           outbox'[c] = outbox[c], incoming'[c] = Head(outbox[c]),
           userID'[c] = userID[c],
           \/ place'[c] = "takingAnswer" /\ IsLoginAnswer(c)
           \/ place'[c] \in {"takingList", "takingWho"} /\ Is(c, TAG_WHO)
           \/ /\ place'[c] \in {"takingReply", "takingResponse"}
              /\ Is(c, TAG_TALK_RES)
           \/ ~ParentTakes(c)',
           child'[c] = child[c], held'[c] = held[c]
    PROVE  SocketOK(c)'
<1>1. ParentHas(c)'
  BY DEF ParentHas, ParentTakes, First, IsLoginAnswer, Is
<1>2. ChildHas(c)'
  BY DEF SocketOK, ChildHas, ChildTakes, First
<1> QED
  BY <1>1, <1>2 DEF SocketOK

\* ... or takes it.
LEMMA ParentTook ==
    ASSUME NEW c \in Ordinary, SocketOK(c), ParentTakes(c), ~ParentTakes(c)',
           Named(c)', child'[c] = child[c], held'[c] = held[c]
    PROVE  SocketOK(c)'
<1>1. ParentHas(c)'
  BY DEF ParentHas, ParentTakes
<1>2. ~ChildTakes(c)
  BY NeverBoth
<1>3. ChildHas(c)'
  BY <1>2 DEF ChildHas, ChildTakes
<1> QED
  BY <1>1, <1>3 DEF SocketOK

\* The same for the child.
SameParent(c) ==
    place'[c] = place[c] /\ incoming'[c] = incoming[c] /\ userID'[c] = userID[c]

LEMMA ChildAway ==
    ASSUME NEW c \in Addrs, SocketOK(c), HeadStays(c), SameParent(c),
           ~ChildTakes(c)'
    PROVE  SocketOK(c)'
<1>1. ChildHas(c)'
  BY DEF ChildHas, ChildTakes
<1>2. Named(c)' /\ ParentHas(c)'
  BY DEF SocketOK, Named, ParentHas, ParentTakes, First, HeadStays, SameParent
<1> QED
  BY <1>1, <1>2 DEF SocketOK

LEMMA ChildSees ==
    ASSUME NEW c \in Addrs, SocketOK(c), outbox[c] # <<>>, SameParent(c),
           outbox'[c] = outbox[c], held'[c] = Head(outbox[c]),
           \/ child'[c] = "takingRequest" /\ Is(c, TAG_TALK_REQ)
           \/ child'[c] = "takingNotice" /\ IsNotice(c)
    PROVE  SocketOK(c)'
<1>1. ChildHas(c)'
  BY DEF ChildHas, ChildTakes, First, IsNotice, Is
<1>2. Named(c)' /\ ParentHas(c)'
  BY DEF SocketOK, Named, ParentHas, ParentTakes, First, SameParent
<1> QED
  BY <1>1, <1>2 DEF SocketOK

LEMMA ChildTook ==
    ASSUME NEW c \in Ordinary, SocketOK(c), SameParent(c), ChildTakes(c),
           ~ChildTakes(c)'
    PROVE  SocketOK(c)'
<1>1. ChildHas(c)'
  BY DEF ChildHas, ChildTakes
<1>2. ~ParentTakes(c)
  BY NeverBoth
<1>3. Named(c)' /\ ParentHas(c)'
  BY <1>2 DEF SocketOK, Named, ParentHas, ParentTakes, SameParent
<1> QED
  BY <1>1, <1>3 DEF SocketOK

\* A step of one client.
LEMMA OneClientSteps ==
    ASSUME PInv, NEW c \in Addrs,
           \A b \in Addrs \ {c} : SameOwn(b) /\ HeadStays(b),
           c \in Ordinary => SocketOK(c)'
    PROVE  PInv'
<1>1. ASSUME NEW b \in Ordinary PROVE SocketOK(b)'
  <2>1. b \in Addrs /\ SocketOK(b)
    BY DEF Ordinary, PInv
  <2> QED
    BY <2>1, Undisturbed
<1> QED
  BY <1>1 DEF PInv, Ordinary

LEMMA UserKeepsSocket ==
    ASSUME TypesOK, PInv, NEW c \in Addrs, User(c)
    PROVE  PInv'
<1> USE DEF serverVars, vars, ownVars, bufferVars, restVars, procVars, childVars,
        Goes
<1>0. TypeOK /\ OwnTypes /\ ChildTypes
  BY DEF TypesOK
<1>1. \A b \in Addrs \ {c} : SameOwn(b)
  <2>1. \A b \in Addrs \ {c} : /\ place'[b] = place[b] /\ incoming'[b] = incoming[b]
                               /\ userID'[b] = userID[b]
    BY <1>0 DEF User, LogIn, Exit, Who, Ask, LogOut, Look, Confirm, Refuse, Say,
                Quit, OwnTypes
  <2>2. \A b \in Addrs \ {c} : child'[b] = child[b] /\ held'[b] = held[b]
    BY <1>0 DEF User, LogIn, Exit, Who, Ask, LogOut, Look, Confirm, Refuse, Say,
                Quit, ChildTypes
  <2> QED
    BY <2>1, <2>2 DEF SameOwn
<1>2. CASE Exit(c)
  <2>1. \A b \in Addrs \ {c} : HeadStays(b)
    BY <1>0, <1>2, OthersStay DEF Exit
  <2>2. ~ParentTakes(c)' /\ ~ChildTakes(c)' /\ Named(c)'
    BY <1>0, <1>2 DEF Exit, OwnTypes, ChildTypes, ParentTakes, ChildTakes, Named
  <2>3. SocketOK(c)'
    BY <2>2 DEF SocketOK, ParentHas, ChildHas, ParentTakes, ChildTakes
  <2> QED
    BY <1>1, <2>1, <2>3, OneClientSteps
<1>3. CASE ~Exit(c)
  <2>1. \A b \in Addrs : HeadStays(b)
    <3>0. userID[c] \in UserIds /\ Names[c] \subseteq UserIds
      BY <1>0, TalkSystemAssumption DEF OwnTypes
    <3>1. CASE LogIn(c)
      BY <1>0, <3>0, <3>1, AllStay, DatagramType DEF LogIn, Tags
    <3>2. CASE Who(c)
      BY <1>0, <3>0, <3>2, AllStay, DatagramType DEF Who, Tags
    <3>3. CASE Ask(c)
      BY <1>0, <3>0, <3>3, AllStay, DatagramType DEF Ask, Tags
    <3>4. CASE LogOut(c)
      BY <1>0, <3>0, <3>4, AllStay, DatagramType DEF LogOut, Tags
    <3>5. CASE Look(c) \/ Confirm(c) \/ Refuse(c) \/ Say(c) \/ Quit(c)
      BY <3>5 DEF HeadStays, Look, Confirm, Refuse, Say, Quit
    <3> QED
      BY <1>3, <3>1, <3>2, <3>3, <3>4, <3>5 DEF User
  <2>2. /\ ~ParentTakes(c)' /\ child' = child /\ held' = held
    BY <1>0, <1>3
    DEF User, LogIn, Who, Ask, LogOut, Look, Confirm, Refuse, Say, Quit,
        OwnTypes, ParentTakes
  <2>3. ASSUME SocketOK(c) PROVE Named(c)'
    <3>1. CASE LogIn(c)
      BY <1>0, <3>1 DEF LogIn, Named, OwnTypes
    <3>2. CASE ~LogIn(c)
      <4>1. userID' = userID /\ place[c] \notin {"loggedOut", "exited"}
        BY <1>3, <3>2
        DEF User, Who, Ask, LogOut, Look, Confirm, Refuse, Say, Quit
      <4> QED
        BY <2>3, <4>1 DEF SocketOK, Named
    <3> QED
      BY <3>1, <3>2
  <2>4. c \in Ordinary => SocketOK(c)'
    BY <2>1, <2>2, <2>3, ParentAway DEF PInv
  <2> QED
    BY <1>1, <2>1, <2>4, OneClientSteps
<1> QED
  BY <1>2, <1>3

LEMMA ParentKeepsSocket ==
    ASSUME TypesOK, PInv, NEW c \in Addrs, Parent(c)
    PROVE  PInv'
<1> USE DEF serverVars, vars, ownVars, bufferVars, restVars, procVars, childVars,
        Goes, Keeps, Drops
<1>0. /\ TypeOK /\ OwnTypes /\ ChildTypes
      /\ userID[c] \in UserIds /\ cmd[c] \in UserIds /\ outbox[c] \in Seq(Message)
  BY DEF TypesOK, OwnTypes, TypeOK
<1>1. UNCHANGED <<userID, child, held>>
  BY DEF Parent, LoginPeek, LoginSeen, TakeAnswer, ListPeek, LineSeen, TakeLine,
         TakeLastLine, Top, LookForReply, TakeReply, Denied, StoreTarget,
         NameOther, SendRequest, LookForResponse, TakeResponse, ReadsResponse,
         UserAgrees, Agree, Settle, Respond, Connect
<1>2. place[c] \notin {"loggedOut", "exited"}
  BY DEF Parent, LoginPeek, LoginSeen, TakeAnswer, ListPeek, LineSeen, TakeLine,
         TakeLastLine, Top, LookForReply, TakeReply, Denied, StoreTarget,
         NameOther, SendRequest, LookForResponse, TakeResponse, ReadsResponse,
         Reads, UserAgrees, Agree, Settle, Respond, Connect
<1>3. SocketOK(c) => Named(c)'
  BY <1>1, <1>2 DEF SocketOK, Named
<1>4. ASSUME NEW b \in Addrs \ {c}
      PROVE  place'[b] = place[b] /\ incoming'[b] = incoming[b]
  BY <1>0
  DEF OwnTypes, Parent, LoginPeek, LoginSeen, TakeAnswer, ListPeek, LineSeen,
      TakeLine, TakeLastLine, Top, LookForReply, TakeReply, Denied, StoreTarget,
      NameOther, SendRequest, LookForResponse, TakeResponse, ReadsResponse,
      UserAgrees, Agree, Settle, Respond, Connect
<1>5. \A b \in Addrs \ {c} : SameOwn(b)
  BY <1>1, <1>4 DEF SameOwn
<1> SUFFICES /\ \A b \in Addrs \ {c} : HeadStays(b)
             /\ c \in Ordinary /\ SocketOK(c) => SocketOK(c)'
  BY <1>5, OneClientSteps DEF PInv
<1>6. CASE LoginPeek(c) \/ ListPeek(c)
  <2>1. outbox' = outbox /\ SameOwn(c)
    BY <1>1, <1>6 DEF LoginPeek, ListPeek, SameOwn
  <2> QED
    BY <2>1, Undisturbed DEF HeadStays
<1>7. CASE LoginSeen(c) \/ LineSeen(c) \/ LookForReply(c) \/ LookForResponse(c)
  <2>1. outbox' = outbox /\ outbox[c] # <<>> /\ incoming'[c] = Head(outbox[c])
    BY <1>0, <1>7 DEF LoginSeen, LineSeen, LookForReply, LookForResponse,
                      ReadsResponse, Reads, OwnTypes
  <2>2. \/ place'[c] = "takingAnswer" /\ IsLoginAnswer(c)
        \/ place'[c] \in {"takingList", "takingWho"} /\ Is(c, TAG_WHO)
        \/ /\ place'[c] \in {"takingReply", "takingResponse"}
           /\ Is(c, TAG_TALK_RES)
        \/ ~ParentTakes(c)'
    BY <1>0, <1>7 DEF LoginSeen, LineSeen, LookForReply, LookForResponse,
                      ReadsResponse, Reads, OwnTypes, ParentTakes
  <2> QED
    BY <1>1, <1>3, <2>1, <2>2, ParentSees DEF HeadStays
<1>8. CASE \/ TakeAnswer(c) \/ TakeLine(c) \/ TakeLastLine(c)
           \/ TakeReply(c) \/ TakeResponse(c)
  <2>1. outbox' = [outbox EXCEPT ![c] = Tail(outbox[c])]
    BY <1>8 DEF TakeAnswer, TakeLine, TakeLastLine, TakeReply, TakeResponse, Taken
  <2>2. ParentTakes(c) /\ ~ParentTakes(c)'
    BY <1>0, <1>8 DEF TakeAnswer, TakeLine, TakeLastLine, TakeReply, TakeResponse,
                      ReadsResponse, Reads, ParentTakes, OwnTypes
  <2> QED
    BY <1>0, <1>1, <1>3, <2>1, <2>2, OthersStay, ParentTook
<1>9. CASE \/ Top(c) \/ Denied(c) \/ StoreTarget(c) \/ NameOther(c)
           \/ SendRequest(c) \/ UserAgrees(c) \/ Agree(c) \/ Settle(c)
           \/ Respond(c) \/ Connect(c)
  <2>1. ~ParentTakes(c)'
    BY <1>0, <1>9
    DEF Top, Denied, StoreTarget, NameOther, SendRequest, UserAgrees, Agree,
        Settle, Respond, Connect, OwnTypes, ParentTakes
  <2>2. \A b \in Addrs : HeadStays(b)
    <3>1. CASE SendRequest(c)
      BY <1>0, <3>1, AllStay, DatagramType DEF SendRequest, Tags
    <3>2. CASE Respond(c)
      BY <1>0, <3>2, AllStay, DatagramType DEF Respond, Tags
    <3>3. CASE ~SendRequest(c) /\ ~Respond(c)
      BY <1>9, <3>3
      DEF Top, Denied, StoreTarget, NameOther, UserAgrees, Agree, Settle, Connect,
          HeadStays
    <3> QED
      BY <3>1, <3>2, <3>3
  <2> QED
    BY <1>1, <1>3, <2>1, <2>2, ParentAway
<1> QED
  BY <1>6, <1>7, <1>8, <1>9 DEF Parent

LEMMA RefusalType ==
    ASSUME NEW c \in Addrs
    PROVE  [NoMessage EXCEPT !.from = c, !.type = TAG_TALK_RES] \in Message
BY NoMessageType, TalkServerAssumption
DEF Message, NoMessage, Tags, TcpAddrs, UdpAddrs

LEMMA ChildKeepsSocket ==
    ASSUME TypesOK, PInv, NEW c \in Addrs, Child(c)
    PROVE  PInv'
<1> USE DEF serverVars, vars, parentVars, ownVars, bufferVars, ChildGoes
<1>0. TypeOK /\ OwnTypes /\ ChildTypes /\ outbox[c] \in Seq(Message)
  BY DEF TypesOK, TypeOK
<1>1. UNCHANGED <<place, incoming, userID>>
  BY DEF Child, ChildPeek, TakeNotice, TakeRequest, TestTalking, TestRequest,
         NameRequester, StoreRequester, FlagRequest, ForgetRequester,
         RefuseRequest
<1>2. ASSUME NEW b \in Addrs \ {c}
      PROVE  child'[b] = child[b] /\ held'[b] = held[b]
  BY <1>0
  DEF ChildTypes, Child, ChildPeek, TakeNotice, TakeRequest, TestTalking,
      TestRequest, NameRequester, StoreRequester, FlagRequest, ForgetRequester,
      RefuseRequest
<1>3. \A b \in Addrs \ {c} : SameOwn(b)
  BY <1>1, <1>2 DEF SameOwn
<1>4. SameParent(c)
  BY <1>1 DEF SameParent
<1> SUFFICES /\ \A b \in Addrs \ {c} : HeadStays(b)
             /\ c \in Ordinary /\ SocketOK(c) => SocketOK(c)'
  BY <1>3, OneClientSteps DEF PInv
<1>5. CASE ChildPeek(c)
  <2>1. /\ outbox' = outbox /\ outbox[c] # <<>> /\ held'[c] = Head(outbox[c])
        /\ \/ child'[c] = "takingRequest" /\ Is(c, TAG_TALK_REQ)
           \/ child'[c] = "takingNotice" /\ IsNotice(c)
    BY <1>0, <1>5 DEF ChildPeek, ChildTypes
  <2> QED
    BY <1>4, <2>1, ChildSees DEF HeadStays
<1>6. CASE TakeNotice(c) \/ TakeRequest(c)
  <2>1. outbox' = [outbox EXCEPT ![c] = Tail(outbox[c])]
    BY <1>6 DEF TakeNotice, TakeRequest, Taken
  <2>2. ChildTakes(c) /\ ~ChildTakes(c)'
    BY <1>0, <1>6 DEF TakeNotice, TakeRequest, ChildTakes, ChildTypes
  <2> QED
    BY <1>0, <1>4, <2>1, <2>2, OthersStay, ChildTook
<1>7. CASE \/ TestTalking(c) \/ TestRequest(c) \/ NameRequester(c)
           \/ StoreRequester(c) \/ FlagRequest(c) \/ ForgetRequester(c)
           \/ RefuseRequest(c)
  <2>1. ~ChildTakes(c)'
    BY <1>0, <1>7
    DEF TestTalking, TestRequest, NameRequester, StoreRequester, FlagRequest,
        ForgetRequester, RefuseRequest, ChildTypes, ChildTakes
  <2>2. \A b \in Addrs : HeadStays(b)
    <3>1. CASE RefuseRequest(c)
      BY <1>0, <3>1, AllStay, RefusalType DEF RefuseRequest
    <3>2. CASE ~RefuseRequest(c)
      BY <1>7, <3>2
      DEF TestTalking, TestRequest, NameRequester, StoreRequester, FlagRequest,
          ForgetRequester, HeadStays
    <3> QED
      BY <3>1, <3>2
  <2> QED
    BY <1>4, <2>1, <2>2, ChildAway
<1> QED
  BY <1>5, <1>6, <1>7 DEF Child

\* The server, the receivers and the network.
LEMMA RestKeepsSocket ==
    ASSUME TypesOK, PInv, UNCHANGED <<place, incoming, userID, child, held>>,
           \A c \in Addrs : Seen(c) => HeadStays(c)
    PROVE  PInv'
<1>1. ASSUME NEW c \in Ordinary PROVE SocketOK(c)'
  <2>1. c \in Addrs /\ SocketOK(c) /\ SameOwn(c)
    BY DEF Ordinary, PInv, SameOwn
  <2> QED
    BY <2>1, Undisturbed
<1> QED
  BY <1>1 DEF PInv

LEMMA StepKeepsSocket ==
    TypesOK /\ IInv /\ PInv /\ [SystemNext]_systemVars => PInv'
<1> SUFFICES ASSUME TypesOK, IInv, PInv, [SystemNext]_systemVars PROVE PInv'
  OBVIOUS
<1> USE DEF clientVars, parentVars, ownVars, bufferVars, restVars, procVars,
        childVars
<1>1. CASE Serve /\ UNCHANGED clientVars
  BY <1>1, ServedBehind, RestKeepsSocket DEF TypesOK
<1>2. CASE Loss
  BY <1>2, RestKeepsSocket DEF Loss, HeadStays
<1>3. CASE \/ \E c \in Addrs : Bind(c)
           \/ \E id \in UserIds : Receiver(id)
           \/ UNCHANGED systemVars
  <2>1. UNCHANGED <<place, incoming, userID, child, held, outbox>>
    BY <1>3 DEF Bind, Receiver, Accept, Test, Display, EndOfCall, systemVars, vars
  <2> QED
    BY <2>1, RestKeepsSocket DEF HeadStays
<1> QED
  BY <1>1, <1>2, <1>3, UserKeepsSocket, ParentKeepsSocket, ChildKeepsSocket
  DEF SystemNext

LEMMA InitSocket == SystemInit => PInv
BY DEF SystemInit, ClientInit, PInv, SocketOK, Named, ParentHas, ChildHas,
       ParentTakes, ChildTakes, Ordinary

LEMMA SocketInvariance == SystemSpec => [](TypesOK /\ IInv /\ PInv)
<1>1. SystemSpec => []TypesOK /\ []SInv
  BY TypesInvariance, SystemInvariance
<1>2. SInv => IInv
  BY DEF SInv
<1>3. SystemInit => PInv
  BY InitSocket
<1> QED
  BY <1>1, <1>2, <1>3, StepKeepsSocket, PTL DEF SystemSpec

\* A process of a client takes the datagram it has seen, for every set of
\* clients and users in which the client's own are not user 0, with or without
\* loss: the two processes never see the same one.
THEOREM SeenTaken == SystemSpec => []SeenIsTaken
<1>1. PInv => SeenIsTaken
  BY DEF PInv, SocketOK, ParentHas, ChildHas, SeenIsTaken
<1> QED
  BY <1>1, SocketInvariance, PTL
=============================================================================
