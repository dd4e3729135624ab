------------------------- MODULE MessageServerProofs -------------------------
(***************************************************************************)
(* What MessageServer keeps true for every set of clients, addresses and   *)
(* texts, every size of its arrays and every length of its queues.  The    *)
(* inductive invariant IInv is the conjunction of the invariants; the      *)
(* handlers need them together.  The proofs go from one entry              *)
(* (EntryOK) to the array (EntriesOK) to one lemma per handler.            *)
(***************************************************************************)
EXTENDS MessageServer, SequenceTheorems, TLAPS

-----------------------------------------------------------------------------
(* One entry. *)

\* What the invariants say of a single entry.
EntryOK(u) ==
    /\ u \in Client
    /\ Len(u.messages) <= u.messageLimit
    /\ u.isLoggedIn <=> u.address # NoAddr
    /\ u.hasNewMessages <=>
           \E j \in DOMAIN u.messages : u.messages[j].messageType = NEW_MESSAGE
    /\ \A j \in DOMAIN u.messages : u.messages[j].recipientId = u.clientID

\* A stored message is a server message that was never viewed.
LEMMA StoredMessage ==
    ASSUME NEW m \in ClientMessage
    PROVE  /\ storeMessage(m) \in ServerMessage
           /\ storeMessage(m).messageType = NEW_MESSAGE
           /\ storeMessage(m).recipientId = m.recipientId
BY DEF storeMessage, ServerMessage, ClientMessage

\* The entry of a first login satisfies the entry invariant.
LEMMA LoggedInEntryOK ==
    ASSUME NEW id \in ClientIds, NEW a \in Addrs
    PROVE  EntryOK(LoggedInEntry(id, a))
BY NamesAssumption, SizesAssumption DEF EntryOK, LoggedInEntry, Client

\* So does the entry of a recipient who has not logged in yet.
LEMMA AwaitedEntryOK ==
    ASSUME NEW m \in ClientMessage
    PROVE  EntryOK(AwaitedEntry(m))
<1> DEFINE u == AwaitedEntry(m)
<1>1. /\ u.messages = <<storeMessage(m)>>
      /\ u.messages \in Seq(ServerMessage)
      /\ Len(u.messages) = 1
      /\ DOMAIN u.messages = {1}
      /\ u.messages[1] = storeMessage(m)
  BY StoredMessage DEF AwaitedEntry
<1>2. m.recipientId \in ClientIds
  BY DEF ClientMessage
<1>3. u \in Client
  BY <1>1, <1>2, SizesAssumption DEF AwaitedEntry, Client
<1>4. Len(u.messages) <= u.messageLimit
  BY <1>1, SizesAssumption DEF AwaitedEntry
<1> QED
  BY <1>1, <1>3, <1>4, StoredMessage DEF EntryOK, AwaitedEntry

\* Storing a message keeps the entry invariant: the array is grown in time.
LEMMA WithMessageOK ==
    ASSUME NEW u, EntryOK(u), NEW m \in ClientMessage,
           m.recipientId = u.clientID
    PROVE  /\ EntryOK(WithMessage(u, m))
           /\ WithMessage(u, m).clientID = u.clientID
<1> DEFINE v == WithMessage(u, m)
<1>1. /\ u \in Client
      /\ u.messages \in Seq(ServerMessage)
      /\ u.messageLimit \in Nat
  BY DEF EntryOK, Client
<1>2. /\ v.messages = Append(u.messages, storeMessage(m))
      /\ v.messageLimit = Grown(Len(u.messages), u.messageLimit, INCREMENT_MESSAGE)
      /\ v.hasNewMessages = TRUE
      /\ v.clientID = u.clientID
      /\ v.isLoggedIn = u.isLoggedIn
      /\ v.address = u.address
  BY <1>1 DEF WithMessage, Client
<1>3. v.messages \in Seq(ServerMessage)
  BY <1>1, <1>2, StoredMessage
<1>4. v.messageLimit \in Nat
  BY <1>1, <1>2, SizesAssumption DEF Grown
<1>5. v \in Client
  BY <1>1, <1>3, <1>4, SizesAssumption DEF WithMessage, Client, Grown
<1>6. Len(v.messages) <= v.messageLimit
  BY <1>1, <1>2, SizesAssumption DEF EntryOK, Grown
<1>7. /\ DOMAIN v.messages = 1..(Len(u.messages) + 1)
      /\ v.messages[Len(u.messages) + 1] = storeMessage(m)
      /\ \A j \in DOMAIN u.messages : v.messages[j] = u.messages[j]
  BY <1>1, <1>2, StoredMessage
<1>8. \E j \in DOMAIN v.messages : v.messages[j].messageType = NEW_MESSAGE
  BY <1>1, <1>7, StoredMessage
<1>9. \A j \in DOMAIN v.messages : v.messages[j].recipientId = v.clientID
  BY <1>1, <1>2, <1>7, StoredMessage DEF EntryOK
<1> QED
  BY <1>2, <1>5, <1>6, <1>8, <1>9 DEF EntryOK

\* Viewing a mailbox keeps the entry invariant: no message stays unread.
LEMMA ViewedOK ==
    ASSUME NEW u, EntryOK(u)
    PROVE  EntryOK(Viewed(u)) /\ Viewed(u).clientID = u.clientID
<1> DEFINE v == Viewed(u)
           read == [k \in DOMAIN u.messages |->
                       [u.messages[k] EXCEPT !.messageType = OLD_MESSAGE]]
<1>1. u \in Client /\ u.messages \in Seq(ServerMessage)
  BY DEF EntryOK, Client
<1>2. /\ v.messages = read
      /\ v.hasNewMessages = FALSE
      /\ v.messageLimit = u.messageLimit
      /\ v.clientID = u.clientID
      /\ v.isLoggedIn = u.isLoggedIn
      /\ v.address = u.address
  BY <1>1 DEF Viewed, Client
<1>3. ASSUME NEW k \in DOMAIN u.messages
      PROVE  /\ read[k] \in ServerMessage
             /\ read[k].messageType = OLD_MESSAGE
             /\ read[k].recipientId = u.messages[k].recipientId
  <2> DEFINE m == u.messages[k]
  <2>1. m \in ServerMessage
    BY <1>1
  <2>2. read[k] = [m EXCEPT !.messageType = OLD_MESSAGE]
    OBVIOUS
  <2> QED
    BY <2>1, <2>2 DEF ServerMessage
<1>4. read \in Seq(ServerMessage) /\ Len(read) = Len(u.messages)
  <2> DEFINE n == Len(u.messages)
  <2>1. n \in Nat /\ DOMAIN u.messages = 1..n
    BY <1>1
  <2>2. read \in [1..n -> ServerMessage]
    BY <1>3, <2>1
  <2> HIDE DEF read
  <2> QED
    BY <2>1, <2>2
<1>5. v \in Client
  BY <1>1, <1>4 DEF Viewed, Client
<1>6. \A j \in DOMAIN v.messages :
          /\ v.messages[j].messageType # NEW_MESSAGE
          /\ v.messages[j].recipientId = v.clientID
  BY <1>2, <1>3 DEF EntryOK, NEW_MESSAGE, OLD_MESSAGE
<1>7. Len(v.messages) <= v.messageLimit
  BY <1>2, <1>4 DEF EntryOK
<1> QED
  BY <1>2, <1>5, <1>6, <1>7 DEF EntryOK

-----------------------------------------------------------------------------
(* The array of entries. *)

\* What the invariants say of the array us, its limit aside.
EntriesOK(us) ==
    /\ us \in Seq(Client)
    /\ \A k \in DOMAIN us : EntryOK(us[k])
    /\ \A j, k \in DOMAIN us : us[j].clientID = us[k].clientID => j = k

\* getUserIndex finds the one entry of a client, or reports that it has none.
LEMMA IndexOfClient ==
    ASSUME EntriesOK(users), NEW id
    PROVE  \/ /\ Entries(id) # {}
              /\ IsEntry(getUserIndex(id))
              /\ getUserIndex(id) + 1 \in DOMAIN users
              /\ users[getUserIndex(id) + 1].clientID = id
              /\ Entries(id) = {getUserIndex(id) + 1}
           \/ /\ Entries(id) = {}
              /\ getUserIndex(id) = -1
              /\ ~IsEntry(getUserIndex(id))
<1>1. CASE Entries(id) = {}
  BY <1>1 DEF getUserIndex, IsEntry
<1>2. CASE Entries(id) # {}
  <2>1. PICK k \in DOMAIN users : users[k].clientID = id
    BY <1>2 DEF Entries
  <2>2. Entries(id) = {k}
    BY <2>1 DEF Entries, EntriesOK
  <2>3. DOMAIN users = 1..Len(users) /\ Len(users) \in Nat
    BY DEF EntriesOK
  <2>4. Min({k}) = k
    BY <2>3 DEF Min
  <2>5. getUserIndex(id) = k - 1
    BY <1>2, <2>2, <2>4 DEF getUserIndex
  <2> QED
    BY <1>2, <2>1, <2>2, <2>3, <2>5 DEF IsEntry
<1> QED
  BY <1>1, <1>2

\* An index that is an entry's leads to an entry that satisfies its invariant.
LEMMA EntryAt ==
    ASSUME EntriesOK(users), NEW index \in Int, IsEntry(index)
    PROVE  index + 1 \in DOMAIN users /\ EntryOK(users[index + 1])
<1>1. DOMAIN users = 1..Len(users) /\ Len(users) \in Nat
  BY DEF EntriesOK
<1> QED
  BY <1>1 DEF EntriesOK, IsEntry

\* Replacing an entry by a good one of the same client keeps the array good.
LEMMA ReplaceEntry ==
    ASSUME NEW us, EntriesOK(us), NEW k \in DOMAIN us,
           NEW u, EntryOK(u), u.clientID = us[k].clientID
    PROVE  /\ EntriesOK([us EXCEPT ![k] = u])
           /\ Len([us EXCEPT ![k] = u]) = Len(us)
<1> DEFINE vs == [us EXCEPT ![k] = u]
<1>1. us \in Seq(Client) /\ u \in Client
  BY DEF EntriesOK, EntryOK
<1>2. vs \in Seq(Client) /\ Len(vs) = Len(us) /\ DOMAIN vs = DOMAIN us
  BY <1>1
<1>3. \A j \in DOMAIN vs : vs[j] = IF j = k THEN u ELSE us[j]
  OBVIOUS
<1>4. \A j \in DOMAIN vs : EntryOK(vs[j]) /\ vs[j].clientID = us[j].clientID
  BY <1>2, <1>3 DEF EntriesOK
<1> HIDE DEF vs
<1>5. EntriesOK(vs)
  BY <1>2, <1>4 DEF EntriesOK
<1> QED
  BY <1>2, <1>5 DEF vs

\* Appending a good entry of a client that has none keeps the array good.
LEMMA AppendEntry ==
    ASSUME NEW us, EntriesOK(us), NEW u, EntryOK(u),
           \A k \in DOMAIN us : us[k].clientID # u.clientID
    PROVE  EntriesOK(Append(us, u)) /\ Len(Append(us, u)) = Len(us) + 1
<1> DEFINE vs == Append(us, u)
<1>1. us \in Seq(Client) /\ u \in Client
  BY DEF EntriesOK, EntryOK
<1>2. /\ vs \in Seq(Client)
      /\ Len(vs) = Len(us) + 1
      /\ Len(us) \in Nat
      /\ DOMAIN us = 1..Len(us)
      /\ DOMAIN vs = 1..(Len(us) + 1)
      /\ vs[Len(us) + 1] = u
      /\ \A k \in DOMAIN us : vs[k] = us[k]
  BY <1>1
<1>3. \A k \in DOMAIN vs : k \in DOMAIN us \/ k = Len(us) + 1
  BY <1>2
<1> HIDE DEF vs
<1>4. EntriesOK(vs)
  BY <1>2, <1>3 DEF EntriesOK
<1> QED
  BY <1>2, <1>4 DEF vs

-----------------------------------------------------------------------------
(* The queues. *)

\* An array grown before one more element enters it has room for it.
LEMMA GrownHasRoom ==
    ASSUME NEW count \in Nat, NEW limit \in Nat, count <= limit,
           NEW increment \in Nat \ {0}
    PROVE  /\ Grown(count, limit, increment) \in Nat
           /\ count + 1 <= Grown(count, limit, increment)
BY DEF Grown

\* Sending replies keeps the types of the clients' queues.
LEMMA SentType ==
    ASSUME outbox \in [Addrs -> Seq(Reply)], NEW a, NEW ds \in Seq(Reply)
    PROVE  Sent(a, ds) \in [Addrs -> Seq(Reply)]
BY DEF Sent

\* So does the notification of a client.
LEMMA SendNoticeType ==
    ASSUME outbox \in [Addrs -> Seq(Reply)], NEW u, u.clientID \in ClientIds,
           SendNotice(u)
    PROVE  outbox' \in [Addrs -> Seq(Reply)] /\ up' \in BOOLEAN
<1>1. Notice(u.clientID) \in Reply
  BY DEF Notice, Reply, NotifyMessage
<1>2. <<Notice(u.clientID)>> \in Seq(Reply)
  BY <1>1
<1> QED
  BY <1>2, SentType DEF SendNotice

\* The answer to a request is made of messages and an end mark.
LEMMA AnswerType ==
    ASSUME EntriesOK(users), NEW index \in Int, IsEntry(index)
    PROVE  Answer(index) \in Seq(Reply)
<1>1. users[index + 1].messages \in Seq(ServerMessage)
  BY EntryAt DEF EntryOK, Client
<1>2. users[index + 1].messages \in Seq(Reply)
  BY <1>1 DEF Reply
<1>3. <<EndOfMessages>> \in Seq(Reply)
  BY DEF EndOfMessages, Reply, VerifyMessage
<1> QED
  BY <1>2, <1>3 DEF Answer

\* The datagram a handler takes is one of its kind.
LEMMA ReceiveType ==
    ASSUME inbox \in Seq(Packet), NEW tag, Receive(tag)
    PROVE  /\ inbox' \in Seq(Packet)
           /\ Head(inbox).from \in Addrs
           /\ tag = NOTIFYMSG_TAG => Head(inbox).data \in NotifyMessage
           /\ tag = CLIENTMSG_TAG => Head(inbox).data \in ClientMessage
<1>1. inbox' \in Seq(Packet) /\ Head(inbox) \in Packet
  BY DEF Receive
<1>2. Head(inbox).data \in NotifyMessage \cup ClientMessage \cup OtherMessage
  BY <1>1 DEF Packet
<1>3. Head(inbox).data.type = tag
  BY DEF Receive
<1> QED
  BY <1>1, <1>2, <1>3
  DEF Packet, NotifyMessage, ClientMessage, OtherMessage,
      NOTIFYMSG_TAG, CLIENTMSG_TAG, OTHER_TAG

\* Losing a datagram keeps a queue's type.
LEMMA RemoveAtType ==
    ASSUME NEW S, NEW q \in Seq(S), NEW k \in DOMAIN q
    PROVE  RemoveAt(q, k) \in Seq(S)
BY DEF RemoveAt

-----------------------------------------------------------------------------
(* The inductive invariant. *)

IInv ==
    /\ TypeOK
    /\ EntriesOK(users)
    /\ Len(users) <= userLimit

\* The invariant contains every safety invariant of the server.
LEMMA IInvImplies ==
    IInv => /\ TypeOK
            /\ UniqueIds
            /\ WithinLimits
            /\ LoggedInHasAddress
            /\ NewFlagExact
            /\ MailboxesOwned
BY DEF IInv, EntriesOK, EntryOK, UniqueIds, WithinLimits, LoggedInHasAddress,
       NewFlagExact, MailboxesOwned

\* The server starts with no entries and room for some.
LEMMA InitIInv == Init => IInv
<1> SUFFICES ASSUME Init PROVE IInv
  OBVIOUS
<1>1. users = <<>> /\ userLimit = InitialUserLimit
  BY DEF Init, ServerInit
<1>2. TypeOK
  BY SizesAssumption, NamesAssumption DEF Init, ServerInit, TypeOK
<1>3. EntriesOK(users)
  BY <1>1 DEF EntriesOK
<1>4. Len(users) <= userLimit
  BY <1>1, SizesAssumption
<1> QED
  BY <1>2, <1>3, <1>4 DEF IInv

\* Every login keeps the invariant, of a known client or of a new one.
LEMMA LoginKeepsIInv == IInv /\ ReceiveLogin => IInv'
<1> SUFFICES ASSUME IInv, ReceiveLogin PROVE IInv'
  OBVIOUS
<1> DEFINE id == Head(inbox).data.clientID
           a == Head(inbox).from
<1>1. TypeOK /\ EntriesOK(users) /\ Len(users) <= userLimit
  BY DEF IInv
<1>2. inbox' \in Seq(Packet) /\ a \in Addrs /\ id \in ClientIds
  BY <1>1, ReceiveType DEF ReceiveLogin, TypeOK, NotifyMessage
<1>3. incomingSenderId' \in ClientIds
  BY <1>1 DEF ReceiveLogin, TypeOK
<1>4. LoginKnown(id, a) \/ LoginNew(id, a)
  BY DEF ReceiveLogin
<1>5. CASE LoginKnown(id, a)
  <2> DEFINE k == getUserIndex(id) + 1
             u == [users[k] EXCEPT !.isLoggedIn = TRUE, !.address = a]
  <2>1. k \in DOMAIN users /\ EntryOK(users[k]) /\ getUserIndex(id) \in Int
    <3>1. k \in DOMAIN users
      BY <1>1, <1>5, IndexOfClient DEF LoginKnown
    <3>2. getUserIndex(id) \in Int
      BY <1>5 DEF LoginKnown, IsEntry
    <3> QED
      BY <3>1, <3>2, <1>1 DEF EntriesOK
  <2>2. /\ u.clientID = users[k].clientID
        /\ EntryOK(u)
    BY <1>2, <2>1, NamesAssumption DEF EntryOK, Client
  <2>3. users' = [users EXCEPT ![k] = u]
    BY <1>5 DEF LoginKnown
  <2>4. EntriesOK(users') /\ Len(users') = Len(users)
    BY <1>1, <2>1, <2>2, <2>3, ReplaceEntry
  <2>5. outbox' \in [Addrs -> Seq(Reply)] /\ up' \in BOOLEAN
    <3>1. SendNotice(u) \/ UNCHANGED <<up, outbox>>
      BY <1>5 DEF LoginKnown
    <3>2. u.clientID \in ClientIds
      BY <2>2 DEF EntryOK, Client
    <3> QED
      BY <1>1, <3>1, <3>2, SendNoticeType DEF TypeOK
  <2>6. userIndex' \in Int /\ userLimit' = userLimit
    BY <1>5, <2>1 DEF LoginKnown
  <2> QED
    BY <1>1, <1>2, <1>3, <2>4, <2>5, <2>6 DEF IInv, TypeOK, EntriesOK
<1>6. CASE LoginNew(id, a)
  <2> DEFINE u == LoggedInEntry(id, a)
  <2>1. EntryOK(u) /\ u.clientID = id
    BY <1>2, LoggedInEntryOK DEF LoggedInEntry
  <2>2. \A k \in DOMAIN users : users[k].clientID # id
    <3>1. Entries(id) = {}
      BY <1>1, <1>6, IndexOfClient DEF LoginNew, IsEntry
    <3> QED
      BY <3>1 DEF Entries
  <2>3. users' = Append(users, u)
    BY <1>6 DEF LoginNew
  <2>4. EntriesOK(users') /\ Len(users') = Len(users) + 1
    BY <1>1, <2>1, <2>2, <2>3, AppendEntry
  <2>5. Len(users) \in Nat /\ userLimit \in Nat
    BY <1>1 DEF TypeOK
  <2>6. userLimit' \in Nat /\ Len(users) + 1 <= userLimit'
    BY <1>1, <1>6, <2>5, SizesAssumption, GrownHasRoom DEF LoginNew
  <2>7. userIndex' \in Int /\ UNCHANGED <<up, outbox>>
    BY <1>6, <2>5 DEF LoginNew
  <2> QED
    BY <1>1, <1>2, <1>3, <2>4, <2>6, <2>7 DEF IInv, TypeOK, EntriesOK
<1> QED
  BY <1>4, <1>5, <1>6

\* A logout keeps the invariant, whoever's entry it clears.
LEMMA LogoutKeepsIInv == IInv /\ ReceiveLogout => IInv'
<1> SUFFICES ASSUME IInv, ReceiveLogout PROVE IInv'
  OBVIOUS
<1> DEFINE index == getUserIndex(LogoutId(Head(inbox).data))
           k == index + 1
           u == [users[k] EXCEPT !.isLoggedIn = FALSE, !.address = NoAddr]
<1>1. TypeOK /\ EntriesOK(users) /\ Len(users) <= userLimit
  BY DEF IInv
<1>2. inbox' \in Seq(Packet)
  BY <1>1, ReceiveType DEF ReceiveLogout, TypeOK
<1>3. userIndex' = index /\ UNCHANGED <<userLimit, incomingSenderId>>
  BY DEF ReceiveLogout
<1>4. index \in Int
  BY <1>1, IndexOfClient DEF IsEntry
<1>5. outbox' = outbox /\ up' \in BOOLEAN
  BY <1>1 DEF ReceiveLogout, Die, TypeOK
<1>6. EntriesOK(users') /\ Len(users') = Len(users)
  <2>1. CASE IsEntry(index)
    <3>1. k \in DOMAIN users /\ EntryOK(users[k])
      BY <1>1, <1>4, <2>1, EntryAt
    <3>2. u.clientID = users[k].clientID /\ EntryOK(u)
      BY <3>1 DEF EntryOK, Client
    <3>3. users' = [users EXCEPT ![k] = u]
      BY <2>1 DEF ReceiveLogout
    <3> QED
      BY <1>1, <3>1, <3>2, <3>3, ReplaceEntry
  <2>2. CASE ~IsEntry(index)
    BY <1>1, <2>2 DEF ReceiveLogout
  <2> QED
    BY <2>1, <2>2
<1> QED
  BY <1>1, <1>2, <1>3, <1>4, <1>5, <1>6 DEF IInv, TypeOK, EntriesOK

\* Storing a message keeps the invariant, for a known client or a new one.
LEMMA SendKeepsIInv == IInv /\ ReceiveSend => IInv'
<1> SUFFICES ASSUME IInv, ReceiveSend PROVE IInv'
  OBVIOUS
<1> DEFINE m == Head(inbox).data
           index == getUserIndex(m.recipientId)
           k == index + 1
<1>1. TypeOK /\ EntriesOK(users) /\ Len(users) <= userLimit
  BY DEF IInv
<1>2. inbox' \in Seq(Packet) /\ m \in ClientMessage
  BY <1>1, ReceiveType DEF ReceiveSend, ReceiveClientMessage, TypeOK
<1>3. m.recipientId \in ClientIds /\ m.senderId \in ClientIds
  BY <1>2 DEF ClientMessage
<1>4. userIndex' = index /\ incomingSenderId' = m.senderId
  BY DEF ReceiveSend, ReceiveClientMessage
<1>5. index \in Int
  BY <1>1, IndexOfClient DEF IsEntry
<1>6. SendKnown(m) \/ SendNew(m)
  BY DEF ReceiveSend
<1>7. CASE SendKnown(m)
  <2> DEFINE u == WithMessage(users[k], m)
  <2>1. /\ k \in DOMAIN users
        /\ EntryOK(users[k])
        /\ m.recipientId = users[k].clientID
    BY <1>1, <1>7, IndexOfClient DEF SendKnown, EntriesOK
  <2>2. EntryOK(u) /\ u.clientID = users[k].clientID
    BY <1>2, <2>1, WithMessageOK
  <2>3. users' = [users EXCEPT ![k] = u] /\ userLimit' = userLimit
    BY <1>7 DEF SendKnown
  <2>4. EntriesOK(users') /\ Len(users') = Len(users)
    BY <1>1, <2>1, <2>2, <2>3, ReplaceEntry
  <2>5. outbox' \in [Addrs -> Seq(Reply)] /\ up' \in BOOLEAN
    <3>1. SendNotice(u) \/ UNCHANGED <<up, outbox>>
      BY <1>7 DEF SendKnown
    <3>2. u.clientID \in ClientIds
      BY <1>3, <2>1, <2>2
    <3> QED
      BY <1>1, <3>1, <3>2, SendNoticeType DEF TypeOK
  <2> QED
    BY <1>1, <1>2, <1>3, <1>4, <1>5, <2>3, <2>4, <2>5
    DEF IInv, TypeOK, EntriesOK
<1>8. CASE SendNew(m)
  <2> DEFINE u == AwaitedEntry(m)
  <2>1. EntryOK(u) /\ u.clientID = m.recipientId
    BY <1>2, AwaitedEntryOK DEF AwaitedEntry
  <2>2. \A j \in DOMAIN users : users[j].clientID # m.recipientId
    <3>1. Entries(m.recipientId) = {}
      BY <1>1, <1>8, IndexOfClient DEF SendNew, IsEntry
    <3> QED
      BY <3>1 DEF Entries
  <2>3. users' = Append(users, u)
    BY <1>8 DEF SendNew
  <2>4. EntriesOK(users') /\ Len(users') = Len(users) + 1
    BY <1>1, <2>1, <2>2, <2>3, AppendEntry
  <2>5. Len(users) \in Nat /\ userLimit \in Nat
    BY <1>1 DEF TypeOK
  <2>6. userLimit' \in Nat /\ Len(users) + 1 <= userLimit'
    BY <1>1, <1>8, <2>5, SizesAssumption, GrownHasRoom DEF SendNew
  <2>7. UNCHANGED <<up, outbox>>
    BY <1>8 DEF SendNew
  <2> QED
    BY <1>1, <1>2, <1>3, <1>4, <1>5, <2>4, <2>6, <2>7
    DEF IInv, TypeOK, EntriesOK
<1> QED
  BY <1>6, <1>7, <1>8

\* Answering a request that has no entry keeps the types.
LEMMA WildAnswerType ==
    ASSUME outbox \in [Addrs -> Seq(Reply)], up \in BOOLEAN,
           NEW a, WildAnswer(a)
    PROVE  outbox' \in [Addrs -> Seq(Reply)] /\ up' \in BOOLEAN
<1>1. <<EndOfMessages>> \in Seq(Reply)
  BY DEF EndOfMessages, Reply, VerifyMessage
<1> QED
  BY <1>1, SentType DEF WildAnswer, Die

\* Viewing keeps the invariant, whoever's mailbox is shown and marked.
LEMMA ViewKeepsIInv == IInv /\ ReceiveView => IInv'
<1> SUFFICES ASSUME IInv, ReceiveView PROVE IInv'
  OBVIOUS
<1> DEFINE m == Head(inbox).data
           a == Head(inbox).from
           index == RequestIndex(m)
           k == index + 1
<1>1. TypeOK /\ EntriesOK(users) /\ Len(users) <= userLimit
  BY DEF IInv
<1>2. inbox' \in Seq(Packet) /\ m.senderId \in ClientIds
  BY <1>1, ReceiveType
  DEF ReceiveView, ReceiveClientMessage, TypeOK, ClientMessage
<1>3. incomingSenderId' = m.senderId /\ UNCHANGED <<userLimit, userIndex>>
  BY DEF ReceiveView, ReceiveClientMessage
<1>4. index \in Int
  BY <1>1 DEF RequestIndex, TypeOK
<1>5. CASE IsEntry(index)
  <2>1. k \in DOMAIN users /\ EntryOK(users[k])
    BY <1>1, <1>4, <1>5, EntryAt
  <2>2. users' = [users EXCEPT ![k] = Viewed(users[k])]
    BY <1>5 DEF ReceiveView
  <2>3. EntriesOK(users') /\ Len(users') = Len(users)
    BY <1>1, <2>1, <2>2, ViewedOK, ReplaceEntry
  <2>4. outbox' = Sent(a, Answer(index)) /\ up' = up
    BY <1>5 DEF ReceiveView
  <2>5. outbox' \in [Addrs -> Seq(Reply)]
    BY <1>1, <1>4, <1>5, <2>4, AnswerType, SentType DEF TypeOK
  <2> QED
    BY <1>1, <1>2, <1>3, <2>3, <2>4, <2>5 DEF IInv, TypeOK, EntriesOK
<1>6. CASE ~IsEntry(index)
  <2>1. WildAnswer(a) /\ users' = users
    BY <1>6 DEF ReceiveView
  <2>2. outbox' \in [Addrs -> Seq(Reply)] /\ up' \in BOOLEAN
    BY <1>1, <2>1, WildAnswerType DEF TypeOK
  <2> QED
    BY <1>1, <1>2, <1>3, <2>1, <2>2 DEF IInv, TypeOK
<1> QED
  BY <1>5, <1>6

\* Printing keeps the invariant: it changes no entry.
LEMMA PrintKeepsIInv == IInv /\ ReceivePrint => IInv'
<1> SUFFICES ASSUME IInv, ReceivePrint PROVE IInv'
  OBVIOUS
<1> DEFINE m == Head(inbox).data
           a == Head(inbox).from
           index == RequestIndex(m)
<1>1. TypeOK /\ EntriesOK(users) /\ Len(users) <= userLimit
  BY DEF IInv
<1>2. inbox' \in Seq(Packet) /\ m.senderId \in ClientIds
  BY <1>1, ReceiveType
  DEF ReceivePrint, ReceiveClientMessage, TypeOK, ClientMessage
<1>3. /\ incomingSenderId' = m.senderId
      /\ UNCHANGED <<users, userLimit, userIndex>>
  BY DEF ReceivePrint, ReceiveClientMessage
<1>4. index \in Int
  BY <1>1 DEF RequestIndex, TypeOK
<1>5. outbox' \in [Addrs -> Seq(Reply)] /\ up' \in BOOLEAN
  <2>1. CASE IsEntry(index)
    <3>1. outbox' = Sent(a, Answer(index)) /\ up' = up
      BY <2>1 DEF ReceivePrint
    <3> QED
      BY <1>1, <1>4, <2>1, <3>1, AnswerType, SentType DEF TypeOK
  <2>2. CASE ~IsEntry(index)
    <3>1. WildAnswer(a)
      BY <2>2 DEF ReceivePrint
    <3> QED
      BY <1>1, <3>1, WildAnswerType DEF TypeOK
  <2> QED
    BY <2>1, <2>2
<1> QED
  BY <1>1, <1>2, <1>3, <1>5 DEF IInv, TypeOK

\* The clients and the network only touch the queues.
LEMMA OutsideKeepsIInv == IInv /\ (Environment \/ Network) => IInv'
<1> SUFFICES ASSUME IInv, Environment \/ Network PROVE IInv'
  OBVIOUS
<1>1. TypeOK /\ EntriesOK(users) /\ Len(users) <= userLimit
  BY DEF IInv
<1>2. UNCHANGED <<memory, up>>
  BY DEF Environment, Network, ClientSends, ClientReads, RequestLost, ReplyLost
<1>3. inbox' \in Seq(Packet)
  <2>1. ASSUME NEW a \in Addrs,
               NEW d \in NotifyMessage \cup ClientMessage \cup OtherMessage,
               ClientSends(a, d)
        PROVE  inbox' \in Seq(Packet)
    <3>1. [from |-> a, data |-> d] \in Packet
      BY <2>1 DEF Packet
    <3> QED
      BY <1>1, <2>1, <3>1 DEF ClientSends, TypeOK
  <2>2. RequestLost => inbox' \in Seq(Packet)
    BY <1>1, RemoveAtType DEF RequestLost, TypeOK
  <2> QED
    BY <1>1, <2>1, <2>2
    DEF Environment, Network, ClientReads, ReplyLost, TypeOK
<1>4. outbox' \in [Addrs -> Seq(Reply)]
  <2>1. ASSUME NEW a \in Addrs, ClientReads(a)
        PROVE  outbox' \in [Addrs -> Seq(Reply)]
    BY <1>1, <2>1 DEF ClientReads, TypeOK
  <2>2. ASSUME NEW a \in Addrs, ReplyLost(a)
        PROVE  outbox' \in [Addrs -> Seq(Reply)]
    <3>1. outbox[a] \in Seq(Reply)
      BY <1>1 DEF TypeOK
    <3> QED
      BY <1>1, <2>2, <3>1, RemoveAtType DEF ReplyLost, TypeOK
  <2> QED
    BY <1>1, <2>1, <2>2
    DEF Environment, Network, ClientSends, RequestLost, TypeOK
<1> QED
  BY <1>1, <1>2, <1>3, <1>4 DEF IInv, TypeOK, memory

\* Every step keeps the invariant.
LEMMA NextKeepsIInv == IInv /\ [Next]_vars => IInv'
<1> SUFFICES ASSUME IInv, [Next]_vars PROVE IInv'
  OBVIOUS
<1>1. ASSUME ReceiveNotify PROVE IInv'
  <2>1. inbox' \in Seq(Packet)
    BY <1>1, ReceiveType DEF ReceiveNotify, IInv, TypeOK
  <2> QED
    BY <1>1, <2>1 DEF ReceiveNotify, IInv, TypeOK
<1>2. ASSUME OperatorExit PROVE IInv'
  BY <1>2 DEF OperatorExit, memory, IInv, TypeOK
<1>3. ASSUME UNCHANGED vars PROVE IInv'
  BY <1>3 DEF vars, IInv, TypeOK
<1> QED
  BY <1>1, <1>2, <1>3, LoginKeepsIInv, LogoutKeepsIInv, SendKeepsIInv,
     ViewKeepsIInv, PrintKeepsIInv, OutsideKeepsIInv
  DEF Next, Serve

-----------------------------------------------------------------------------
(* The theorems. *)

\* The inductive invariant holds in every reachable state.
THEOREM Invariance == Spec => []IInv
BY InitIInv, NextKeepsIInv, PTL DEF Spec

\* The variables keep their types.
THEOREM TypeCorrect == Spec => []TypeOK
BY Invariance, IInvImplies, PTL

\* No client identifier ever has two entries, whatever is sent or lost.
THEOREM OneEntryPerClient == Spec => []UniqueIds
BY Invariance, IInvImplies, PTL

\* No handler writes behind the array of entries or a mailbox.
THEOREM NoOverrun == Spec => []WithinLimits
BY Invariance, IInvImplies, PTL

\* A notification always has an address to go to.
THEOREM AddressWhileLoggedIn == Spec => []LoggedInHasAddress
BY Invariance, IInvImplies, PTL

\* The flag read at login says whether unviewed mail is waiting.
THEOREM NewFlagTells == Spec => []NewFlagExact
BY Invariance, IInvImplies, PTL

\* Mail is stored with the client it is addressed to.
THEOREM MailStoredWithOwner == Spec => []MailboxesOwned
BY Invariance, IInvImplies, PTL

-----------------------------------------------------------------------------
(* The server implements the abstract mailboxes. *)

\* The mail for id in the array us.
MailIn(us, id) ==
    IF \E k \in DOMAIN us : us[k].clientID = id
    THEN Contents(us[CHOOSE k \in DOMAIN us : us[k].clientID = id].messages)
    ELSE <<>>

MailboxesIn(us) == [id \in ClientIds |-> MailIn(us, id)]

\* The refinement mapping in terms of the array.
LEMMA MailOfIsMailIn ==
    /\ [id \in ClientIds |-> MailOf(id)] = MailboxesIn(users)
    /\ [id \in ClientIds |-> MailOf(id)]' = MailboxesIn(users')
<1>1. ASSUME NEW us, NEW id
      PROVE  (CHOOSE k \in {j \in DOMAIN us : us[j].clientID = id} : TRUE)
             = (CHOOSE k \in DOMAIN us : us[k].clientID = id)
  OBVIOUS
<1>2. \A id \in ClientIds : MailOf(id) = MailIn(users, id)
  BY <1>1 DEF MailOf, MailIn, Entries
<1>3. \A id \in ClientIds : MailOf(id)' = MailIn(users', id)
  BY <1>1 DEF MailOf, MailIn, Entries
<1> QED
  BY <1>2, <1>3 DEF MailboxesIn

\* The mail of a client is what its entry stores.
LEMMA MailOfEntry ==
    ASSUME NEW us, EntriesOK(us), NEW k \in DOMAIN us
    PROVE  MailIn(us, us[k].clientID) = Contents(us[k].messages)
<1>1. \A j \in DOMAIN us : us[j].clientID = us[k].clientID => j = k
  BY DEF EntriesOK
<1>2. (CHOOSE j \in DOMAIN us : us[j].clientID = us[k].clientID) = k
  BY <1>1
<1> QED
  BY <1>2 DEF MailIn

\* Replacing an entry replaces one mailbox.
LEMMA ReplaceMail ==
    ASSUME NEW us, EntriesOK(us), NEW k \in DOMAIN us,
           NEW u, EntryOK(u), u.clientID = us[k].clientID
    PROVE  MailboxesIn([us EXCEPT ![k] = u])
               = [MailboxesIn(us) EXCEPT ![u.clientID] = Contents(u.messages)]
<1> DEFINE vs == [us EXCEPT ![k] = u]
<1>1. EntriesOK(vs) /\ DOMAIN vs = DOMAIN us
  BY ReplaceEntry
<1>2. \A j \in DOMAIN us : /\ vs[j] = IF j = k THEN u ELSE us[j]
                           /\ vs[j].clientID = us[j].clientID
  OBVIOUS
<1>3. MailIn(vs, u.clientID) = Contents(u.messages)
  BY <1>1, <1>2, MailOfEntry
<1>4. ASSUME NEW id \in ClientIds, id # u.clientID
      PROVE  MailIn(vs, id) = MailIn(us, id)
  <2>1. CASE \E j \in DOMAIN us : us[j].clientID = id
    <3>1. PICK j \in DOMAIN us : us[j].clientID = id
      BY <2>1
    <3>2. j # k /\ vs[j] = us[j]
      BY <1>2, <1>4, <3>1
    <3> HIDE DEF vs
    <3> QED
      BY <1>1, <3>1, <3>2, MailOfEntry
  <2>2. CASE ~ \E j \in DOMAIN us : us[j].clientID = id
    BY <1>1, <1>2, <2>2 DEF MailIn
  <2> QED
    BY <2>1, <2>2
<1> HIDE DEF vs
<1>5. MailboxesIn(vs)
          = [MailboxesIn(us) EXCEPT ![u.clientID] = Contents(u.messages)]
  BY <1>3, <1>4 DEF MailboxesIn
<1> QED
  BY <1>5 DEF vs

\* Replacing an entry by one with the same messages changes no mail.
LEMMA ReplaceKeepsMail ==
    ASSUME NEW us, EntriesOK(us), NEW k \in DOMAIN us,
           NEW u, EntryOK(u), u.clientID = us[k].clientID,
           u.messages = us[k].messages
    PROVE  MailboxesIn([us EXCEPT ![k] = u]) = MailboxesIn(us)
<1>1. MailboxesIn([us EXCEPT ![k] = u])
          = [MailboxesIn(us) EXCEPT ![u.clientID] = Contents(u.messages)]
  BY ReplaceMail
<1>2. MailIn(us, u.clientID) = Contents(u.messages)
  BY MailOfEntry
<1>3. MailboxesIn(us)
          = [MailboxesIn(us) EXCEPT ![u.clientID] = MailIn(us, u.clientID)]
  BY DEF MailboxesIn
<1> QED
  BY <1>1, <1>2, <1>3

\* So does appending the entry of a client that had none.
LEMMA AppendMail ==
    ASSUME NEW us, EntriesOK(us), NEW u, EntryOK(u),
           \A k \in DOMAIN us : us[k].clientID # u.clientID
    PROVE  /\ MailboxesIn(Append(us, u))
                  = [MailboxesIn(us) EXCEPT ![u.clientID] = Contents(u.messages)]
           /\ MailIn(us, u.clientID) = <<>>
<1> DEFINE vs == Append(us, u)
<1>1. EntriesOK(vs)
  BY AppendEntry
<1>2. /\ us \in Seq(Client) /\ u \in Client
      /\ Len(us) \in Nat
      /\ DOMAIN us = 1..Len(us)
  BY DEF EntriesOK, EntryOK
<1>3. /\ DOMAIN vs = 1..(Len(us) + 1)
      /\ vs[Len(us) + 1] = u
      /\ \A j \in DOMAIN us : vs[j] = us[j]
  BY <1>2
<1> HIDE DEF vs
<1>4. MailIn(vs, u.clientID) = Contents(u.messages)
  <2>1. Len(us) + 1 \in DOMAIN vs
    BY <1>2, <1>3
  <2> QED
    BY <1>1, <1>3, <2>1, MailOfEntry
<1>5. ASSUME NEW id \in ClientIds, id # u.clientID
      PROVE  MailIn(vs, id) = MailIn(us, id)
  <2>1. CASE \E j \in DOMAIN us : us[j].clientID = id
    <3>1. PICK j \in DOMAIN us : us[j].clientID = id
      BY <2>1
    <3>2. j \in DOMAIN vs /\ vs[j] = us[j]
      BY <1>2, <1>3, <3>1
    <3> QED
      BY <1>1, <3>1, <3>2, MailOfEntry
  <2>2. CASE ~ \E j \in DOMAIN us : us[j].clientID = id
    <3>1. \A j \in DOMAIN vs : j \in DOMAIN us \/ j = Len(us) + 1
      BY <1>2, <1>3
    <3>2. ~ \E j \in DOMAIN vs : vs[j].clientID = id
      BY <1>3, <1>5, <2>2, <3>1
    <3> QED
      BY <2>2, <3>2 DEF MailIn
  <2> QED
    BY <2>1, <2>2
<1>6. MailboxesIn(vs)
          = [MailboxesIn(us) EXCEPT ![u.clientID] = Contents(u.messages)]
  BY <1>4, <1>5 DEF MailboxesIn
<1>7. MailIn(us, u.clientID) = <<>>
  BY DEF MailIn
<1> QED
  BY <1>6, <1>7 DEF vs

\* What storing does to the abstract contents of a mailbox.
LEMMA ContentsAppend ==
    ASSUME NEW stored \in Seq(ServerMessage), NEW m \in ClientMessage
    PROVE  Contents(Append(stored, storeMessage(m)))
               = Append(Contents(stored), Mail!Fresh(m.senderId, m.message))
<1> DEFINE t == Append(stored, storeMessage(m))
           f == Mail!Fresh(m.senderId, m.message)
           n == Len(stored)
<1>1. n \in Nat /\ DOMAIN stored = 1..n
  OBVIOUS
<1>2. /\ DOMAIN t = 1..(n + 1)
      /\ t[n + 1] = storeMessage(m)
      /\ \A k \in 1..n : t[k] = stored[k]
  BY <1>1, StoredMessage
<1>3. Contents(stored) \in Seq(Mail!Mail)
  <2>1. \A k \in 1..n : stored[k] \in ServerMessage
    BY <1>1
  <2>2. \A k \in 1..n : Contents(stored)[k] \in Mail!Mail
    BY <1>1, <2>1 DEF Contents, ServerMessage, Mail!Mail
  <2>3. Contents(stored) \in [1..n -> Mail!Mail]
    BY <1>1, <2>2 DEF Contents
  <2> QED
    BY <1>1, <2>3
<1>4. /\ DOMAIN Contents(stored) = 1..n
      /\ Len(Contents(stored)) = n
  BY <1>1, <1>3 DEF Contents
<1>5. f \in Mail!Mail
  BY DEF Mail!Fresh, Mail!Mail, ClientMessage
<1>6. /\ DOMAIN Append(Contents(stored), f) = 1..(n + 1)
      /\ Append(Contents(stored), f)[n + 1] = f
      /\ \A k \in 1..n : Append(Contents(stored), f)[k] = Contents(stored)[k]
      /\ Append(Contents(stored), f) \in Seq(Mail!Mail)
  BY <1>1, <1>3, <1>4, <1>5
<1>7. /\ DOMAIN Contents(t) = 1..(n + 1)
      /\ Contents(t)[n + 1] = f
      /\ \A k \in 1..n : Contents(t)[k] = Contents(stored)[k]
  BY <1>1, <1>2 DEF Contents, storeMessage, Mail!Fresh
<1>8. \A k \in 1..(n + 1) : Contents(t)[k] = Append(Contents(stored), f)[k]
  BY <1>1, <1>6, <1>7
<1>9. Contents(t) = [k \in 1..(n + 1) |-> Contents(t)[k]]
  BY <1>7 DEF Contents
<1>10. Append(Contents(stored), f)
           = [k \in 1..(n + 1) |-> Append(Contents(stored), f)[k]]
  BY <1>6
<1> QED
  BY <1>8, <1>9, <1>10

\* What viewing does to the abstract contents of a mailbox.
LEMMA ContentsViewed ==
    ASSUME NEW u \in Client
    PROVE  Contents(Viewed(u).messages)
               = [k \in DOMAIN Contents(u.messages) |->
                     [Contents(u.messages)[k] EXCEPT !.messageType = OLD_MESSAGE]]
<1> DEFINE stored == u.messages
           read == [k \in DOMAIN stored |->
                       [stored[k] EXCEPT !.messageType = OLD_MESSAGE]]
<1>1. stored \in Seq(ServerMessage)
  BY DEF Client
<1>2. Viewed(u).messages = read
  BY DEF Viewed, Client
<1>3. DOMAIN Contents(read) = DOMAIN stored /\ DOMAIN Contents(stored) = DOMAIN stored
  BY DEF Contents
<1>4. ASSUME NEW k \in DOMAIN stored
      PROVE  Contents(read)[k]
                 = [Contents(stored)[k] EXCEPT !.messageType = OLD_MESSAGE]
  <2> DEFINE m == stored[k]
  <2>1. m \in ServerMessage
    BY <1>1
  <2>2. read[k] = [m EXCEPT !.messageType = OLD_MESSAGE]
    OBVIOUS
  <2>3. /\ read[k].messageType = OLD_MESSAGE
        /\ read[k].senderId = m.senderId
        /\ read[k].message = m.message
    BY <2>1, <2>2 DEF ServerMessage
  <2>4. Contents(read)[k] = [messageType |-> OLD_MESSAGE,
                             senderId |-> m.senderId, message |-> m.message]
    BY <2>3 DEF Contents
  <2>5. Contents(stored)[k] = [messageType |-> m.messageType,
                               senderId |-> m.senderId, message |-> m.message]
    BY DEF Contents
  <2> QED
    BY <2>4, <2>5
<1>5. Contents(read) = [k \in DOMAIN stored |-> Contents(read)[k]]
  BY DEF Contents
<1> QED
  BY <1>2, <1>3, <1>4, <1>5

\* The mail as the refinement mapping gives it, now and after the step.
LEMMA MailMapping ==
    /\ Mail!Init <=> MailboxesIn(users) = [id \in ClientIds |-> <<>>]
    /\ \A id, s, t : Mail!Store(id, s, t) <=>
           MailboxesIn(users') = [MailboxesIn(users) EXCEPT ![id] =
                                     Append(@, Mail!Fresh(s, t))]
    /\ \A id : Mail!MarkRead(id) <=>
           MailboxesIn(users') = [MailboxesIn(users) EXCEPT ![id] =
               [k \in DOMAIN @ |-> [@[k] EXCEPT !.messageType = OLD_MESSAGE]]]
BY MailOfIsMailIn DEF Mail!Init, Mail!Store, Mail!MarkRead

\* Every step of the server stores one message, marks one mailbox read, or
\* leaves all mail as it was.
LEMMA StepRefines ==
    IInv /\ [Next]_vars =>
        \/ Mail!Next
        \/ MailboxesIn(users') = MailboxesIn(users)
<1> SUFFICES ASSUME IInv, [Next]_vars
             PROVE  Mail!Next \/ MailboxesIn(users') = MailboxesIn(users)
  OBVIOUS
<1>1. TypeOK /\ EntriesOK(users) /\ Len(users) <= userLimit
  BY DEF IInv
<1>2. ASSUME ReceiveLogin
      PROVE  MailboxesIn(users') = MailboxesIn(users)
  <2> DEFINE id == Head(inbox).data.clientID
             a == Head(inbox).from
             k == getUserIndex(id) + 1
             u == [users[k] EXCEPT !.isLoggedIn = TRUE, !.address = a]
             v == LoggedInEntry(id, a)
  <2>1. a \in Addrs /\ id \in ClientIds
    BY <1>1, <1>2, ReceiveType DEF ReceiveLogin, TypeOK, NotifyMessage
  <2>2. CASE LoginKnown(id, a)
    <3>1. k \in DOMAIN users
      BY <1>1, <2>2, IndexOfClient DEF LoginKnown
    <3>2. EntryOK(users[k])
      BY <1>1, <3>1 DEF EntriesOK
    <3>3. /\ u.clientID = users[k].clientID
          /\ u.messages = users[k].messages
          /\ EntryOK(u)
      BY <2>1, <3>2, NamesAssumption DEF EntryOK, Client
    <3>4. users' = [users EXCEPT ![k] = u]
      BY <2>2 DEF LoginKnown
    <3> HIDE DEF u, k
    <3> QED
      BY <1>1, <3>1, <3>3, <3>4, ReplaceKeepsMail
  <2>3. CASE LoginNew(id, a)
    <3>1. EntryOK(v) /\ v.clientID = id /\ v.messages = <<>>
      BY <2>1, LoggedInEntryOK DEF LoggedInEntry
    <3>2. \A j \in DOMAIN users : users[j].clientID # id
      <4>1. Entries(id) = {}
        BY <1>1, <2>3, IndexOfClient DEF LoginNew, IsEntry
      <4> QED
        BY <4>1 DEF Entries
    <3>3. users' = Append(users, v)
      BY <2>3 DEF LoginNew
    <3>4. Contents(v.messages) = <<>>
      BY <3>1 DEF Contents
    <3>5. MailIn(users, id) = <<>>
      BY <1>1, <3>1, <3>2, AppendMail
    <3> HIDE DEF v, id
    <3>6. MailboxesIn(users') = [MailboxesIn(users) EXCEPT ![id] = <<>>]
      BY <1>1, <3>1, <3>2, <3>3, <3>4, AppendMail
    <3> QED
      BY <3>5, <3>6 DEF MailboxesIn
  <2> QED
    BY <1>2, <2>2, <2>3 DEF ReceiveLogin
<1>3. ASSUME ReceiveLogout
      PROVE  MailboxesIn(users') = MailboxesIn(users)
  <2> DEFINE index == getUserIndex(LogoutId(Head(inbox).data))
             k == index + 1
             u == [users[k] EXCEPT !.isLoggedIn = FALSE, !.address = NoAddr]
  <2>1. CASE IsEntry(index)
    <3>1. k \in DOMAIN users
      BY <1>1, <2>1, IndexOfClient
    <3>2. EntryOK(users[k])
      BY <1>1, <3>1 DEF EntriesOK
    <3>3. /\ u.clientID = users[k].clientID
          /\ u.messages = users[k].messages
          /\ EntryOK(u)
      BY <3>2 DEF EntryOK, Client
    <3>4. users' = [users EXCEPT ![k] = u]
      BY <1>3, <2>1 DEF ReceiveLogout
    <3> HIDE DEF u, k
    <3> QED
      BY <1>1, <3>1, <3>3, <3>4, ReplaceKeepsMail
  <2>2. CASE ~IsEntry(index)
    BY <1>3, <2>2 DEF ReceiveLogout
  <2> QED
    BY <2>1, <2>2
<1>4. ASSUME ReceiveSend
      PROVE  Mail!Next
  <2> DEFINE m == Head(inbox).data
             k == getUserIndex(m.recipientId) + 1
             u == WithMessage(users[k], m)
             v == AwaitedEntry(m)
  <2>1. /\ m \in ClientMessage
        /\ m.recipientId \in ClientIds
        /\ m.senderId \in ClientIds
        /\ m.message \in Texts
    BY <1>1, <1>4, ReceiveType
    DEF ReceiveSend, ReceiveClientMessage, TypeOK, ClientMessage
  <2>2. SendKnown(m) \/ SendNew(m)
    BY <1>4 DEF ReceiveSend
  <2>3. Mail!Store(m.recipientId, m.senderId, m.message)
    <3>1. CASE SendKnown(m)
      <4>1. /\ k \in DOMAIN users
            /\ EntryOK(users[k])
            /\ m.recipientId = users[k].clientID
        BY <1>1, <3>1, IndexOfClient DEF SendKnown, EntriesOK
      <4>2. EntryOK(u) /\ u.clientID = users[k].clientID
        BY <2>1, <4>1, WithMessageOK
      <4>3. u.messages = Append(users[k].messages, storeMessage(m))
        BY <4>1 DEF WithMessage, EntryOK, Client
      <4>4. users' = [users EXCEPT ![k] = u]
        BY <3>1 DEF SendKnown
      <4>5. MailIn(users, m.recipientId) = Contents(users[k].messages)
        BY <1>1, <4>1, MailOfEntry
      <4>6. Contents(u.messages) = Append(Contents(users[k].messages),
                                          Mail!Fresh(m.senderId, m.message))
        BY <2>1, <4>1, <4>3, ContentsAppend DEF EntryOK, Client
      <4> HIDE DEF u, k, m
      <4>7. MailboxesIn(users') = [MailboxesIn(users) EXCEPT
                                      ![m.recipientId] = Contents(u.messages)]
        <5>1. MailboxesIn([users EXCEPT ![k] = u]) =
                  [MailboxesIn(users) EXCEPT ![u.clientID] = Contents(u.messages)]
          BY <1>1, <4>1, <4>2, ReplaceMail
        <5>2. u.clientID = m.recipientId
          BY <4>1, <4>2
        <5> QED
          BY <4>4, <5>1, <5>2
      <4>8. MailboxesIn(users)[m.recipientId] = Contents(users[k].messages)
        BY <2>1, <4>5 DEF MailboxesIn
      <4> QED
        BY <4>6, <4>7, <4>8, MailMapping
    <3>2. CASE SendNew(m)
      <4>1. /\ EntryOK(v)
            /\ v.clientID = m.recipientId
            /\ v.messages = <<storeMessage(m)>>
        BY <2>1, AwaitedEntryOK DEF AwaitedEntry
      <4>2. \A j \in DOMAIN users : users[j].clientID # m.recipientId
        <5>1. Entries(m.recipientId) = {}
          BY <1>1, <3>2, IndexOfClient DEF SendNew, IsEntry
        <5> QED
          BY <5>1 DEF Entries
      <4>3. users' = Append(users, v)
        BY <3>2 DEF SendNew
      <4> HIDE DEF v, m
      <4>4. v.messages = Append(<<>>, storeMessage(m))
        BY <4>1
      <4>5. Contents(v.messages) = Append(Contents(<<>>),
                                          Mail!Fresh(m.senderId, m.message))
        <5>1. <<>> \in Seq(ServerMessage)
          OBVIOUS
        <5>2. m \in ClientMessage
          BY <2>1
        <5>3. Contents(Append(<<>>, storeMessage(m)))
                  = Append(Contents(<<>>), Mail!Fresh(m.senderId, m.message))
          BY <5>1, <5>2, ContentsAppend
        <5> QED
          BY <4>4, <5>3
      <4>6. Contents(<<>>) = <<>>
        BY DEF Contents
      <4>7. /\ MailboxesIn(users') = [MailboxesIn(users) EXCEPT
                                         ![m.recipientId] = Contents(v.messages)]
            /\ MailIn(users, m.recipientId) = <<>>
        BY <1>1, <4>1, <4>2, <4>3, AppendMail
      <4>8. MailboxesIn(users)[m.recipientId] = <<>>
        BY <2>1, <4>7 DEF MailboxesIn
      <4> QED
        BY <4>5, <4>6, <4>7, <4>8, MailMapping
    <3> QED
      BY <2>2, <3>1, <3>2
  <2> QED
    BY <2>1, <2>3 DEF Mail!Next
<1>5. ASSUME ReceiveView
      PROVE  Mail!Next \/ MailboxesIn(users') = MailboxesIn(users)
  <2> DEFINE index == RequestIndex(Head(inbox).data)
             k == index + 1
             u == Viewed(users[k])
  <2>1. index \in Int
    BY <1>1 DEF RequestIndex, TypeOK
  <2>2. CASE IsEntry(index)
    <3>1. k \in DOMAIN users /\ EntryOK(users[k])
      BY <1>1, <2>1, <2>2, EntryAt
    <3>2. EntryOK(u) /\ u.clientID = users[k].clientID
      BY <3>1, ViewedOK
    <3>3. users' = [users EXCEPT ![k] = u]
      BY <1>5, <2>2 DEF ReceiveView
    <3>4. u.clientID \in ClientIds /\ users[k] \in Client
      BY <3>1, <3>2 DEF EntryOK, Client
    <3>5. MailboxesIn(users') = [MailboxesIn(users) EXCEPT
                                    ![u.clientID] = Contents(u.messages)]
      BY <1>1, <3>1, <3>2, <3>3, ReplaceMail
    <3>6. MailboxesIn(users)[u.clientID] = Contents(users[k].messages)
      BY <1>1, <3>1, <3>2, <3>4, MailOfEntry DEF MailboxesIn
    <3>7. Contents(u.messages)
              = [j \in DOMAIN Contents(users[k].messages) |->
                    [Contents(users[k].messages)[j] EXCEPT
                        !.messageType = OLD_MESSAGE]]
      BY <3>4, ContentsViewed
    <3>8. Mail!MarkRead(u.clientID)
      BY <3>5, <3>6, <3>7, MailMapping
    <3> QED
      BY <3>4, <3>8 DEF Mail!Next
  <2>3. CASE ~IsEntry(index)
    BY <1>5, <2>3 DEF ReceiveView
  <2> QED
    BY <2>2, <2>3
<1>6. ASSUME ReceiveNotify \/ ReceivePrint \/ OperatorExit
             \/ Environment \/ Network \/ UNCHANGED vars
      PROVE  MailboxesIn(users') = MailboxesIn(users)
  <2>1. users' = users
    BY <1>6 DEF ReceiveNotify, ReceivePrint, OperatorExit, Environment, Network,
                ClientSends, ClientReads, RequestLost, ReplyLost, memory, vars
  <2> QED
    BY <2>1
<1> QED
  BY <1>2, <1>3, <1>4, <1>5, <1>6 DEF Next, Serve

\* The server implements the mailboxes: under any interleaving of datagrams,
\* losses and crashes, stored mail is only appended to or marked read.
THEOREM MailboxRefinement == Spec => ImplementsMailbox
<1>1. Init => Mail!Init
  <2> SUFFICES ASSUME Init PROVE Mail!Init
    OBVIOUS
  <2>1. users = <<>>
    BY DEF Init, ServerInit
  <2>2. MailboxesIn(users) = [id \in ClientIds |-> <<>>]
    BY <2>1 DEF MailboxesIn, MailIn
  <2> QED
    BY <2>2, MailMapping
<1>2. IInv /\ [Next]_vars => [Mail!Next]_([id \in ClientIds |-> MailOf(id)])
  BY StepRefines, MailOfIsMailIn
<1> QED
  BY <1>1, <1>2, Invariance, PTL DEF Spec, ImplementsMailbox, Mail!Spec

-----------------------------------------------------------------------------
(* Mail is announced. *)

\* The entry u makes the client id wait at a.
Waits(u, id, a) ==
    /\ u.clientID = id
    /\ u.isLoggedIn
    /\ u.address = a
    /\ u.hasNewMessages

\* When replacing an entry makes a client wait, it is the new entry that does.
LEMMA ReplacedWaits ==
    ASSUME EntriesOK(users), NEW k \in DOMAIN users, NEW u,
           users' = [users EXCEPT ![k] = u],
           NEW id, NEW a, ~WaitingAt(id, a), WaitingAt(id, a)'
    PROVE  Waits(u, id, a)
<1>1. PICK j \in DOMAIN users' : Waits(users'[j], id, a)
  BY DEF WaitingAt, Waits
<1>2. DOMAIN users' = DOMAIN users
  OBVIOUS
<1>3. CASE j = k
  BY <1>1, <1>2, <1>3
<1>4. CASE j # k
  BY <1>1, <1>2, <1>4 DEF WaitingAt, Waits
<1> QED
  BY <1>3, <1>4

\* When appending an entry makes a client wait, it is the new entry that does.
LEMMA AppendedWaits ==
    ASSUME EntriesOK(users), NEW u \in Client, users' = Append(users, u),
           NEW id, NEW a, ~WaitingAt(id, a), WaitingAt(id, a)'
    PROVE  Waits(u, id, a)
<1>1. PICK j \in DOMAIN users' : Waits(users'[j], id, a)
  BY DEF WaitingAt, Waits
<1>2. /\ users \in Seq(Client)
      /\ DOMAIN users = 1..Len(users)
      /\ DOMAIN users' = 1..(Len(users) + 1)
      /\ users'[Len(users) + 1] = u
      /\ \A i \in DOMAIN users : users'[i] = users[i]
      /\ Len(users) \in Nat
  BY DEF EntriesOK
<1>3. CASE j = Len(users) + 1
  BY <1>1, <1>2, <1>3
<1>4. CASE j \in DOMAIN users
  BY <1>1, <1>2, <1>4 DEF WaitingAt, Waits
<1> QED
  BY <1>1, <1>2, <1>3, <1>4

\* A notification goes to the end of the queue of the client it is for.
LEMMA NoticeQueued ==
    ASSUME NEW u, NEW a \in Addrs, u.address = a, SendNotice(u)
    PROVE  outbox'[a] = outbox[a] \o <<Notice(u.clientID)>>
BY DEF SendNotice, Sent

\* Queues grow by one notification the way Append makes them grow.
LEMMA ConcatOne ==
    ASSUME NEW s \in Seq(Reply), NEW d \in Reply
    PROVE  s \o <<d>> = Append(s, d)
OBVIOUS

\* A step that makes a client wait at an address notifies that address: the
\* login of a client with mail does, and the arrival of mail for one who is
\* logged in; no other step makes anyone wait.
LEMMA StepAnnounces ==
    ASSUME IInv, [Next]_vars, NEW id \in ClientIds, NEW a \in Addrs,
           ~WaitingAt(id, a), WaitingAt(id, a)'
    PROVE  outbox'[a] = Append(outbox[a], Notice(id))
<1>1. TypeOK /\ EntriesOK(users)
  BY DEF IInv
<1>2. ASSUME outbox'[a] = outbox[a] \o <<Notice(id)>>
      PROVE  outbox'[a] = Append(outbox[a], Notice(id))
  <2>1. outbox[a] \in Seq(Reply)
    BY <1>1 DEF TypeOK
  <2>2. Notice(id) \in Reply
    BY DEF Notice, Reply, NotifyMessage
  <2> QED
    BY <1>2, <2>1, <2>2, ConcatOne
<1>3. ASSUME NEW k \in DOMAIN users, NEW u, SendNotice(u),
             users' = [users EXCEPT ![k] = u]
      PROVE  outbox'[a] = Append(outbox[a], Notice(id))
  <2>1. Waits(u, id, a)
    BY <1>1, <1>3, ReplacedWaits
  <2> QED
    BY <1>2, <1>3, <2>1, NoticeQueued DEF Waits
<1>4. ASSUME ReceiveLogin
      PROVE  outbox'[a] = Append(outbox[a], Notice(id))
  <2> DEFINE id0 == Head(inbox).data.clientID
             a0 == Head(inbox).from
             k == getUserIndex(id0) + 1
             u == [users[k] EXCEPT !.isLoggedIn = TRUE, !.address = a0]
             v == LoggedInEntry(id0, a0)
  <2>1. a0 \in Addrs /\ id0 \in ClientIds
    BY <1>1, <1>4, ReceiveType DEF ReceiveLogin, TypeOK, NotifyMessage
  <2>2. CASE LoginKnown(id0, a0)
    <3>1. k \in DOMAIN users /\ users' = [users EXCEPT ![k] = u]
      BY <1>1, <2>2, IndexOfClient DEF LoginKnown
    <3>2. u.hasNewMessages => SendNotice(u)
      BY <2>2 DEF LoginKnown
    <3> HIDE DEF u, k
    <3>3. Waits(u, id, a)
      BY <1>1, <3>1, ReplacedWaits
    <3> QED
      BY <1>3, <3>1, <3>2, <3>3 DEF Waits
  <2>3. CASE LoginNew(id0, a0)
    <3>1. EntryOK(v) /\ ~v.hasNewMessages
      BY <2>1, LoggedInEntryOK DEF LoggedInEntry
    <3>2. v \in Client /\ users' = Append(users, v)
      BY <2>3, <3>1 DEF LoginNew, EntryOK
    <3> HIDE DEF v
    <3>3. Waits(v, id, a)
      BY <1>1, <3>2, AppendedWaits
    <3> QED
      BY <3>1, <3>3 DEF Waits
  <2> QED
    BY <1>4, <2>2, <2>3 DEF ReceiveLogin
<1>5. ASSUME ReceiveLogout
      PROVE  FALSE
  <2> DEFINE index == getUserIndex(LogoutId(Head(inbox).data))
             k == index + 1
             u == [users[k] EXCEPT !.isLoggedIn = FALSE, !.address = NoAddr]
  <2>1. CASE IsEntry(index)
    <3>1. k \in DOMAIN users
      BY <1>1, <2>1, IndexOfClient
    <3>2. users' = [users EXCEPT ![k] = u]
      BY <1>5, <2>1 DEF ReceiveLogout
    <3>3. ~u.isLoggedIn
      BY <1>1, <3>1 DEF EntriesOK, EntryOK, Client
    <3> HIDE DEF u, k
    <3>4. Waits(u, id, a)
      BY <1>1, <3>1, <3>2, ReplacedWaits
    <3> QED
      BY <3>3, <3>4 DEF Waits
  <2>2. CASE ~IsEntry(index)
    BY <1>5, <2>2 DEF ReceiveLogout, WaitingAt
  <2> QED
    BY <2>1, <2>2
<1>6. ASSUME ReceiveSend
      PROVE  outbox'[a] = Append(outbox[a], Notice(id))
  <2> DEFINE m == Head(inbox).data
             k == getUserIndex(m.recipientId) + 1
             u == WithMessage(users[k], m)
             v == AwaitedEntry(m)
  <2>1. m \in ClientMessage /\ m.recipientId \in ClientIds
    BY <1>1, <1>6, ReceiveType
    DEF ReceiveSend, ReceiveClientMessage, TypeOK, ClientMessage
  <2>2. CASE SendKnown(m)
    <3>1. k \in DOMAIN users /\ users' = [users EXCEPT ![k] = u]
      BY <1>1, <2>1, <2>2, IndexOfClient DEF SendKnown
    <3>2. u.isLoggedIn => SendNotice(u)
      BY <2>2 DEF SendKnown
    <3> HIDE DEF u, k
    <3>3. Waits(u, id, a)
      BY <1>1, <3>1, ReplacedWaits
    <3> QED
      BY <1>3, <3>1, <3>2, <3>3 DEF Waits
  <2>3. CASE SendNew(m)
    <3>1. EntryOK(v) /\ ~v.isLoggedIn
      BY <2>1, AwaitedEntryOK DEF AwaitedEntry
    <3>2. v \in Client /\ users' = Append(users, v)
      BY <2>3, <3>1 DEF SendNew, EntryOK
    <3> HIDE DEF v
    <3>3. Waits(v, id, a)
      BY <1>1, <3>2, AppendedWaits
    <3> QED
      BY <3>1, <3>3 DEF Waits
  <2> QED
    BY <1>6, <2>2, <2>3 DEF ReceiveSend
<1>7. ASSUME ReceiveView
      PROVE  FALSE
  <2> DEFINE index == RequestIndex(Head(inbox).data)
             k == index + 1
             u == Viewed(users[k])
  <2>1. index \in Int
    BY <1>1 DEF RequestIndex, TypeOK
  <2>2. CASE IsEntry(index)
    <3>1. k \in DOMAIN users /\ EntryOK(users[k])
      BY <1>1, <2>1, <2>2, EntryAt
    <3>2. users' = [users EXCEPT ![k] = u]
      BY <1>7, <2>2 DEF ReceiveView
    <3>3. ~u.hasNewMessages
      BY <3>1 DEF EntryOK, Client, Viewed
    <3> HIDE DEF u, k
    <3>4. Waits(u, id, a)
      BY <1>1, <3>1, <3>2, ReplacedWaits
    <3> QED
      BY <3>3, <3>4 DEF Waits
  <2>3. CASE ~IsEntry(index)
    BY <1>7, <2>3 DEF ReceiveView, WaitingAt
  <2> QED
    BY <2>2, <2>3
<1>8. ASSUME ReceiveNotify \/ ReceivePrint \/ OperatorExit
             \/ Environment \/ Network \/ UNCHANGED vars
      PROVE  FALSE
  <2>1. users' = users
    BY <1>8 DEF ReceiveNotify, ReceivePrint, OperatorExit, Environment, Network,
                ClientSends, ClientReads, RequestLost, ReplyLost, memory, vars
  <2> QED
    BY <2>1 DEF WaitingAt
<1> QED
  BY <1>4, <1>5, <1>6, <1>7, <1>8 DEF Next, Serve

\* No client comes to wait for mail without a notification in the same step.
THEOREM MailAnnounced == Spec => MailIsAnnounced
<1>1. IInv /\ [Next]_vars =>
          [\A id \in ClientIds, a \in Addrs :
              (~WaitingAt(id, a) /\ WaitingAt(id, a)') =>
                  outbox'[a] = Append(outbox[a], Notice(id))]_vars
  BY StepAnnounces
<1> QED
  BY <1>1, Invariance, PTL DEF Spec, MailIsAnnounced
=============================================================================
