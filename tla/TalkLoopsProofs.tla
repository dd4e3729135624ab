-------------------------- MODULE TalkLoopsProofs ---------------------------
(***************************************************************************)
(* What the loops of the talk server pass over: Selected(s, K) is defined  *)
(* by a recursive function, and the facts about it are proved by looking   *)
(* at the least index at which they would fail.                            *)
(***************************************************************************)
EXTENDS TalkServer, FiniteSetTheorems, WellFoundedInduction, TLAPS

\* A set of naturals that is not empty has a least element.
LEMMA LeastNatural ==
    ASSUME NEW S \in SUBSET Nat, S # {}
    PROVE  \E x \in S : \A y \in S : x <= y
<1>1. PICK x \in S : \A y \in S : ~(<<y, x>> \in OpToRel(<, Nat))
  BY NatLessThanWellFounded, WFMin
<1>2. \A y \in S : ~(y < x)
  BY <1>1 DEF OpToRel
<1> QED
  BY <1>2

\* Induction up to n, with the set of the numbers for which the claim holds in
\* place of the claim.
LEMMA InductionTo ==
    ASSUME NEW n \in Nat, NEW G, 0 \in G,
           \A m \in 1..n : m - 1 \in G => m \in G
    PROVE  n \in G
<1> DEFINE Bad == {m \in 0..n : m \notin G}
<1> SUFFICES ASSUME Bad # {} PROVE FALSE
  OBVIOUS
<1>1. PICK m \in Bad : \A k \in Bad : m <= k
  <2>1. Bad \in SUBSET Nat
    OBVIOUS
  <2> HIDE DEF Bad
  <2> QED
    BY <2>1, LeastNatural
<1>2. m \in 1..n /\ m - 1 \notin Bad
  BY <1>1
<1> QED
  BY <1>1, <1>2

\* The function of the definition up to n: chosen[m] is what is selected from
\* the first m elements.
IsChosen(f, s, K, n) ==
    f = [m \in 0..n |->
            IF m = 0 THEN <<>>
            ELSE IF m \in K THEN Append(f[m - 1], s[m])
                 ELSE f[m - 1]]

\* There is such a function, for every length.
LEMMA ChosenExists ==
    ASSUME NEW s, NEW K, NEW n \in Nat
    PROVE  \E f : IsChosen(f, s, K, n)
<1> DEFINE G == {m \in Nat : \E f : IsChosen(f, s, K, m)}
<1>1. 0 \in G
  <2>1. IsChosen([k \in 0..0 |-> <<>>], s, K, 0)
    BY DEF IsChosen
  <2> QED
    BY <2>1
<1>2. ASSUME NEW m \in 1..n, m - 1 \in G PROVE m \in G
  <2>1. PICK f : IsChosen(f, s, K, m - 1)
    BY <1>2
  <2> DEFINE g == [k \in 0..m |-> IF k # m THEN f[k]
                                  ELSE IF m \in K THEN Append(f[m - 1], s[m])
                                       ELSE f[m - 1]]
             h == [k \in 0..m |->
                      IF k = 0 THEN <<>>
                      ELSE IF k \in K THEN Append(g[k - 1], s[k])
                           ELSE g[k - 1]]
  <2>2. ASSUME NEW k \in 0..m PROVE g[k] = h[k]
    <3>1. CASE k = 0
      BY <2>1, <3>1 DEF IsChosen
    <3>2. CASE k # 0
      <4>1. k - 1 \in 0..m /\ k - 1 # m
        BY <3>2
      <4>2. g[k - 1] = f[k - 1]
        BY <4>1
      <4>3. CASE k = m
        BY <4>2, <4>3
      <4>4. CASE k # m
        <5>1. k \in 0..m - 1
          BY <4>4
        <5>2. f[k] = IF k \in K THEN Append(f[k - 1], s[k]) ELSE f[k - 1]
          BY <2>1, <3>2, <5>1 DEF IsChosen
        <5> QED
          BY <3>2, <4>2, <4>4, <5>2
      <4> QED
        BY <4>3, <4>4
    <3> QED
      BY <3>1, <3>2
  <2>3. g = h
    BY <2>2
  <2>4. IsChosen(g, s, K, m)
    BY <2>3 DEF IsChosen
  <2> QED
    BY <2>4
<1> QED
  <2> HIDE DEF G
  <2>1. n \in G
    BY <1>1, <1>2, InductionTo
  <2> QED
    BY <2>1 DEF G

\* Selected is the last value of such a function.
LEMMA SelectedIsChosen ==
    ASSUME NEW s, NEW K, Len(s) \in Nat
    PROVE  \E f : /\ Selected(s, K) = f[Len(s)]
                  /\ f[0] = <<>>
                  /\ \A m \in 1..Len(s) :
                         f[m] = IF m \in K THEN Append(f[m - 1], s[m])
                                ELSE f[m - 1]
<1> DEFINE f == CHOOSE g : IsChosen(g, s, K, Len(s))
<1>1. IsChosen(f, s, K, Len(s))
  BY ChosenExists
<1>2. Selected(s, K) = f[Len(s)]
  BY DEF Selected, IsChosen
<1> HIDE DEF f
<1>3. f[0] = <<>>
  BY <1>1 DEF IsChosen
<1>4. ASSUME NEW m \in 1..Len(s)
      PROVE  f[m] = IF m \in K THEN Append(f[m - 1], s[m]) ELSE f[m - 1]
  <2>1. m \in 0..Len(s) /\ m # 0
    OBVIOUS
  <2> QED
    BY <1>1, <2>1 DEF IsChosen
<1> QED
  BY <1>2, <1>3, <1>4

\* What is selected: elements of s only, all those at the indices in K, and as
\* many as there are such indices.
LEMMA SelectedFacts ==
    ASSUME NEW S, NEW s \in Seq(S), NEW K
    PROVE  /\ Selected(s, K) \in Seq(S)
           /\ \A i \in DOMAIN Selected(s, K) :
                  \E k \in K \cap DOMAIN s : Selected(s, K)[i] = s[k]
           /\ \A k \in K \cap DOMAIN s :
                  \E i \in DOMAIN Selected(s, K) : Selected(s, K)[i] = s[k]
           /\ IsFiniteSet(K \cap DOMAIN s)
           /\ Len(Selected(s, K)) = Cardinality(K \cap DOMAIN s)
<1>1. Len(s) \in Nat /\ DOMAIN s = 1..Len(s)
  OBVIOUS
<1>2. PICK f : /\ Selected(s, K) = f[Len(s)]
               /\ f[0] = <<>>
               /\ \A m \in 1..Len(s) :
                      f[m] = IF m \in K THEN Append(f[m - 1], s[m])
                             ELSE f[m - 1]
  BY <1>1, SelectedIsChosen
<1> DEFINE L(m) == K \cap 1..m
           Good(m) == /\ f[m] \in Seq(S)
                      /\ \A i \in DOMAIN f[m] : \E k \in L(m) : f[m][i] = s[k]
                      /\ \A k \in L(m) : \E i \in DOMAIN f[m] : f[m][i] = s[k]
                      /\ IsFiniteSet(L(m))
                      /\ Len(f[m]) = Cardinality(L(m))
           G == {m \in 0..Len(s) : Good(m)}
<1>3. 0 \in G
  <2>1. L(0) = {} /\ f[0] = <<>>
    BY <1>2
  <2>2. IsFiniteSet(L(0)) /\ Cardinality(L(0)) = 0
    BY <2>1, FS_EmptySet
  <2> HIDE DEF L
  <2>3. Good(0)
    BY <2>1, <2>2
  <2> QED
    BY <1>1, <2>3
<1>4. ASSUME NEW m \in 1..Len(s), m - 1 \in G PROVE m \in G
  <2>1. m - 1 \in 0..Len(s) /\ s[m] \in S
    OBVIOUS
  <2>2. Good(m - 1)
    BY <1>4
  <2> DEFINE p == f[m - 1]
             q == f[m]
             M == L(m - 1)
  <2>3. p \in Seq(S) /\ IsFiniteSet(M) /\ Len(p) = Cardinality(M)
    BY <2>2
  <2>4. /\ \A i \in DOMAIN p : \E k \in M : p[i] = s[k]
        /\ \A k \in M : \E i \in DOMAIN p : p[i] = s[k]
    BY <2>2
  <2>5. q = IF m \in K THEN Append(p, s[m]) ELSE p
    BY <1>2, <2>1
  <2>6. L(m) = IF m \in K THEN M \cup {m} ELSE M
    BY <2>1
  <2>7. m \notin M
    BY <2>1
  <2> HIDE DEF p, q, L, M
  <2>8. CASE m \notin K
    <3>1. q = p /\ L(m) = M
      BY <2>5, <2>6, <2>8
    <3>2. Good(m)
      BY <2>3, <2>4, <3>1 DEF q
    <3> QED
      BY <3>2
  <2>9. CASE m \in K
    <3>1. /\ q \in Seq(S)
          /\ DOMAIN q = DOMAIN p \cup {Len(p) + 1}
          /\ Len(q) = Len(p) + 1
          /\ q[Len(p) + 1] = s[m]
          /\ \A i \in DOMAIN p : q[i] = p[i]
      BY <2>1, <2>3, <2>5, <2>9
    <3>2. L(m) = M \cup {m}
      BY <2>6, <2>9
    <3>3. /\ IsFiniteSet(L(m))
          /\ Cardinality(L(m)) = Cardinality(M) + 1
      BY <2>3, <2>7, <3>2, FS_AddElement
    <3>4. \A i \in DOMAIN q : \E k \in L(m) : q[i] = s[k]
      BY <2>4, <3>1, <3>2
    <3>5. \A k \in L(m) : \E i \in DOMAIN q : q[i] = s[k]
      BY <2>4, <3>1, <3>2
    <3>6. Good(m)
      BY <2>3, <3>1, <3>3, <3>4, <3>5 DEF q
    <3> QED
      BY <3>6
  <2> QED
    BY <2>8, <2>9
<1>5. Len(s) \in G
  <2> HIDE DEF G
  <2> QED
    BY <1>1, <1>3, <1>4, InductionTo
<1>6. Good(Len(s))
  BY <1>5
<1> QED
  BY <1>1, <1>2, <1>6

-----------------------------------------------------------------------------
(* What the handlers send. *)

LEMMA LoopTypes ==
    ASSUME NEW us \in Seq(Client), NEW id
    PROVE  LoggedIn(us) \in Seq(Client) /\ Others(us, id) \in Seq(Client)
BY SelectedFacts DEF LoggedIn, Others

\* A loop that sends m appends nothing but m.
LEMMA CopiesFacts ==
    ASSUME NEW us \in Seq(Client), NEW a, NEW m
    PROVE  Copies(us, a, m) \in Seq({m})
<1> DEFINE there == Selected(us, {k \in DOMAIN us : us[k].theUDPAddress = a})
<1>1. there \in Seq(Client)
  BY SelectedFacts
<1> HIDE DEF there
<1>2. [k \in DOMAIN there |-> m] \in Seq({m})
  BY <1>1
<1> QED
  BY <1>2 DEF Copies, there

\* The reply buffer holds what TALK requests left in it.
OutgoingOK ==
    outgoing \in [theAddress : TcpAddrs, theOtherAddress : UdpAddrs]

LEMMA ReplyType ==
    ASSUME OutgoingOK, NEW type \in Tags, NEW sender \in UserIds,
           NEW confirm \in BOOLEAN, NEW data \in UserIds \cup {NoAddr}
    PROVE  Reply(type, sender, confirm, data) \in Message
BY DEF OutgoingOK, Reply, Message

\* A list has a line for every entry, and its end mark behind them.
LEMMA WhoListFacts ==
    ASSUME OutgoingOK, NEW us \in Seq(Client)
    PROVE  /\ WhoList(us) \in Seq(Message)
           /\ Len(us) \in Nat
           /\ Len(WhoList(us)) = Len(us) + 1
           /\ WhoList(us)[Len(us) + 1] = Reply(TAG_WHO, SERVER_ID, FALSE, NoAddr)
           /\ \A k \in 1..Len(us) :
                  WhoList(us)[k] = Reply(TAG_WHO, SERVER_ID, TRUE, us[k].clientID)
<1> DEFINE line(k) == Reply(TAG_WHO, SERVER_ID, TRUE, us[k].clientID)
           lines == [k \in DOMAIN us |-> line(k)]
           end == Reply(TAG_WHO, SERVER_ID, FALSE, NoAddr)
<1>1. Len(us) \in Nat /\ DOMAIN us = 1..Len(us)
  OBVIOUS
<1>2. TAG_WHO \in Tags /\ SERVER_ID \in UserIds
  BY TalkServerAssumption DEF Tags
<1>3. \A k \in 1..Len(us) : us[k].clientID \in UserIds
  <2>1. \A k \in 1..Len(us) : us[k] \in Client
    BY <1>1
  <2> QED
    BY <2>1 DEF Client
<1>4. \A k \in DOMAIN us : line(k) \in Message
  BY <1>1, <1>2, <1>3, ReplyType
<1>5. end \in Message
  BY <1>2, ReplyType
<1> HIDE DEF line, end
<1>6. lines \in [1..Len(us) -> Message]
  BY <1>1, <1>4
<1>7. lines \in Seq(Message) /\ Len(lines) = Len(us)
  BY <1>1, <1>6
<1>8. \A k \in 1..Len(us) : lines[k] = line(k)
  BY <1>1
<1> HIDE DEF lines
<1>9. /\ lines \o <<end>> \in Seq(Message)
      /\ Len(lines \o <<end>>) = Len(us) + 1
      /\ \A k \in 1..Len(us) : (lines \o <<end>>)[k] = line(k)
      /\ (lines \o <<end>>)[Len(us) + 1] = end
  BY <1>1, <1>5, <1>7, <1>8
<1>10. WhoList(us) = lines \o <<end>>
  BY DEF WhoList, lines, end, line
<1> QED
  BY <1>1, <1>9, <1>10 DEF end, line
=============================================================================
