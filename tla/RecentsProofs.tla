---------------------------- MODULE RecentsProofs ----------------------------
(***************************************************************************)
(* Proofs about ActiveBot, continued: the list of recent bots.  Each of     *)
(* main's lists goes to the client behind the ones before, so that the      *)
(* last on its way is main's, whatever overlaps: Listed.                    *)
(***************************************************************************)
EXTENDS ActiveBotProofs

\* None of S is among the messages tc on their way.
FreeOf(tc, S) == \A n \in 1..Len(tc) : tc[n] \notin S
\* Behind each of S comes one of Q.
Covered(tc, S, Q) ==
  \A n \in 1..Len(tc) : tc[n] \in S => \E k \in 1..Len(tc) : k > n /\ tc[k] \in Q

Lists == {m \in ClientMessage : m.what = "recents"}

\* The last list on its way to the client is that of main.
Listed(m, c, tc) ==
  /\ Covered(tc, Lists \ {Recents(m.recents)}, {Recents(m.recents)})
  /\ c.recents = m.recents \/ ~FreeOf(tc, {Recents(m.recents)})

-----------------------------------------------------------------------------
(* Messages on their way *)

\* What the client leaves when it takes the first message.
LEMMA AfterHead ==
  ASSUME NEW T, NEW tc \in Seq(T), tc # <<>>
  PROVE  /\ Tail(tc) \in Seq(T)
         /\ \A S : /\ FreeOf(tc, S) => FreeOf(Tail(tc), S) /\ Head(tc) \notin S
                   /\ ~FreeOf(tc, S) => Head(tc) \in S \/ ~FreeOf(Tail(tc), S)
         /\ \A S, Q : Covered(tc, S, Q) => Covered(Tail(tc), S, Q)
         /\ \A S, Q : Covered(tc, S, Q) /\ Head(tc) \in S => ~FreeOf(Tail(tc), Q)
<1> DEFINE t == Tail(tc)
<1>1. /\ t \in Seq(T) /\ Len(tc) = Len(t) + 1 /\ Len(t) \in Nat
      /\ \A n \in 1..Len(t) : t[n] = tc[n + 1] /\ n + 1 \in 1..Len(tc)
      /\ \A n \in 1..Len(tc) : n = 1 \/ (n - 1 \in 1..Len(t) /\ t[n - 1] = tc[n])
      /\ Head(tc) = tc[1] /\ 1 \in 1..Len(tc)
  BY TailAt
<1> HIDE DEF t
<1>2. ASSUME NEW S
      PROVE  /\ FreeOf(tc, S) => FreeOf(t, S) /\ Head(tc) \notin S
             /\ ~FreeOf(tc, S) => Head(tc) \in S \/ ~FreeOf(t, S)
  <2>1. FreeOf(tc, S) => FreeOf(t, S) /\ Head(tc) \notin S
    BY <1>1 DEF FreeOf
  <2>2. FreeOf(t, S) /\ Head(tc) \notin S => FreeOf(tc, S)
    <3> SUFFICES ASSUME FreeOf(t, S), Head(tc) \notin S, NEW n \in 1..Len(tc) PROVE tc[n] \notin S
      BY DEF FreeOf
    <3>1. n = 1 \/ (n - 1 \in 1..Len(t) /\ t[n - 1] = tc[n])
      BY <1>1
    <3> QED
      BY <1>1, <3>1 DEF FreeOf
  <2> QED
    BY <2>1, <2>2
<1>3. ASSUME NEW S, NEW Q, Covered(tc, S, Q)
      PROVE  /\ Covered(t, S, Q)
             /\ Head(tc) \in S => ~FreeOf(t, Q)
  <2>1. ASSUME NEW n \in Nat, NEW k \in 1..Len(tc), k > n + 1, tc[k] \in Q
        PROVE  k - 1 \in 1..Len(t) /\ t[k - 1] \in Q /\ k - 1 > n
    <3>1. k # 1 /\ k - 1 > n
      BY <2>1
    <3> QED
      BY <1>1, <2>1, <3>1
  <2>2. ASSUME NEW n \in 1..Len(t), t[n] \in S PROVE \E k \in 1..Len(t) : k > n /\ t[k] \in Q
    <3>1. n + 1 \in 1..Len(tc) /\ tc[n + 1] \in S /\ n \in Nat
      BY <1>1, <2>2
    <3>2. PICK k \in 1..Len(tc) : k > n + 1 /\ tc[k] \in Q
      BY <1>3, <3>1 DEF Covered
    <3> QED
      BY <2>1, <3>1, <3>2
  <2>3. ASSUME Head(tc) \in S PROVE ~FreeOf(t, Q)
    <3>1. PICK k \in 1..Len(tc) : k > 1 /\ tc[k] \in Q
      BY <1>1, <1>3, <2>3 DEF Covered
    <3>2. k > 0 + 1
      BY <3>1
    <3> QED
      BY <2>1, <3>1, <3>2 DEF FreeOf
  <2> QED
    BY <2>2, <2>3 DEF Covered
<1> QED
  BY <1>1, <1>2, <1>3 DEF t

\* What main adds to the messages on their way.
LEMMA AfterSent ==
  ASSUME NEW T, NEW tc \in Seq(T), NEW s \in Seq(T)
  PROVE  /\ tc \o s \in Seq(T)
         /\ \A S : FreeOf(tc \o s, S) <=> FreeOf(tc, S) /\ FreeOf(s, S)
         /\ \A S, Q : Covered(s, S, Q) /\ (Covered(tc, S, Q) \/ ~FreeOf(s, Q))
                         => Covered(tc \o s, S, Q)
<1> DEFINE t == tc \o s
<1>1. /\ t \in Seq(T) /\ Len(t) = Len(tc) + Len(s) /\ Len(tc) \in Nat /\ Len(s) \in Nat
      /\ \A n \in 1..Len(tc) : t[n] = tc[n] /\ n \in 1..Len(t)
      /\ \A n \in 1..Len(s) : t[Len(tc) + n] = s[n] /\ Len(tc) + n \in 1..Len(t)
      /\ \A n \in 1..Len(t) :
           n \in 1..Len(tc) \/ (n - Len(tc) \in 1..Len(s) /\ n = Len(tc) + (n - Len(tc)))
  BY SentAt
<1> HIDE DEF t
<1>2. ASSUME NEW S PROVE FreeOf(t, S) <=> FreeOf(tc, S) /\ FreeOf(s, S)
  <2>1. FreeOf(t, S) => FreeOf(tc, S) /\ FreeOf(s, S)
    BY <1>1 DEF FreeOf
  <2>2. ASSUME FreeOf(tc, S), FreeOf(s, S), NEW n \in 1..Len(t) PROVE t[n] \notin S
    <3>1. CASE n \in 1..Len(tc)
      BY <1>1, <2>2, <3>1 DEF FreeOf
    <3>2. CASE n - Len(tc) \in 1..Len(s) /\ n = Len(tc) + (n - Len(tc))
      <4> DEFINE k == n - Len(tc)
      <4>1. k \in 1..Len(s) /\ t[Len(tc) + k] = s[k] /\ n = Len(tc) + k
        BY <1>1, <3>2
      <4> HIDE DEF k
      <4> QED
        BY <2>2, <4>1 DEF FreeOf
    <3> QED
      BY <1>1, <3>1, <3>2
  <2> QED
    BY <2>1, <2>2 DEF FreeOf
<1>3. ASSUME NEW S, NEW Q, Covered(s, S, Q), Covered(tc, S, Q) \/ ~FreeOf(s, Q)
      PROVE  Covered(t, S, Q)
  <2> SUFFICES ASSUME NEW n \in 1..Len(t), t[n] \in S
               PROVE  \E k \in 1..Len(t) : k > n /\ t[k] \in Q
    BY DEF Covered
  <2>1. CASE n \in 1..Len(tc)
    <3>1. CASE Covered(tc, S, Q)
      <4>1. tc[n] \in S
        BY <1>1, <2>1
      <4>2. PICK k \in 1..Len(tc) : k > n /\ tc[k] \in Q
        BY <2>1, <3>1, <4>1 DEF Covered
      <4> QED
        BY <1>1, <4>2
    <3>2. CASE ~FreeOf(s, Q)
      <4>1. PICK k \in 1..Len(s) : s[k] \in Q
        BY <3>2 DEF FreeOf
      <4>2. Len(tc) + k \in 1..Len(t) /\ t[Len(tc) + k] \in Q /\ Len(tc) + k > n
        BY <1>1, <2>1, <4>1
      <4> QED
        BY <4>2
    <3> QED
      BY <1>3, <3>1, <3>2
  <2>2. CASE n - Len(tc) \in 1..Len(s) /\ n = Len(tc) + (n - Len(tc))
    <3> DEFINE j == n - Len(tc)
    <3>1. j \in 1..Len(s) /\ t[Len(tc) + j] = s[j] /\ n = Len(tc) + j
      BY <1>1, <2>2
    <3> HIDE DEF j
    <3>2. PICK k \in 1..Len(s) : k > j /\ s[k] \in Q
      BY <1>3, <3>1 DEF Covered
    <3>3. Len(tc) + k \in 1..Len(t) /\ t[Len(tc) + k] \in Q /\ Len(tc) + k > n
      BY <1>1, <3>1, <3>2
    <3> QED
      BY <3>3
  <2> QED
    BY <1>1, <2>1, <2>2
<1> QED
  BY <1>1, <1>2, <1>3 DEF t

\* No message, one and two.
LEMMA FewMessages ==
  /\ \A S, Q : FreeOf(<<>>, S) /\ Covered(<<>>, S, Q)
  /\ \A S, Q, m : /\ FreeOf(<<m>>, S) <=> m \notin S
                  /\ Covered(<<m>>, S, Q) <=> m \notin S
  /\ \A a, m \in ClientMessage :
       /\ <<a>> \o <<m>> \in Seq(ClientMessage)
       /\ \A S, Q : /\ FreeOf(<<a>> \o <<m>>, S) <=> a \notin S /\ m \notin S
                    /\ Covered(<<a>> \o <<m>>, S, Q) <=> m \notin S /\ (a \in S => m \in Q)
<1>1. \A S, Q : FreeOf(<<>>, S) /\ Covered(<<>>, S, Q)
  BY DEF FreeOf, Covered
<1>2. ASSUME NEW S, NEW Q, NEW m
      PROVE  (FreeOf(<<m>>, S) <=> m \notin S) /\ (Covered(<<m>>, S, Q) <=> m \notin S)
  <2> DEFINE t == <<m>>
  <2>1. Len(t) = 1 /\ t[1] = m
    OBVIOUS
  <2> HIDE DEF t
  <2>2. (FreeOf(t, S) <=> m \notin S) /\ (Covered(t, S, Q) <=> m \notin S)
    BY <2>1 DEF FreeOf, Covered
  <2> QED
    BY <2>2 DEF t
<1>3. ASSUME NEW a \in ClientMessage, NEW m \in ClientMessage, NEW S, NEW Q
      PROVE  /\ <<a>> \o <<m>> \in Seq(ClientMessage)
             /\ FreeOf(<<a>> \o <<m>>, S) <=> a \notin S /\ m \notin S
             /\ Covered(<<a>> \o <<m>>, S, Q) <=> m \notin S /\ (a \in S => m \in Q)
  <2> DEFINE t == <<a>> \o <<m>>
  <2>1. t \in Seq(ClientMessage) /\ Len(t) = 2 /\ t[1] = a /\ t[2] = m
    BY TwoSent
  <2> HIDE DEF t
  <2>2. 1 \in 1..Len(t) /\ 2 \in 1..Len(t) /\ \A n \in 1..Len(t) : n = 1 \/ n = 2
    BY <2>1
  <2>3. FreeOf(t, S) <=> a \notin S /\ m \notin S
    BY <2>1, <2>2 DEF FreeOf
  <2>4. Covered(t, S, Q) => m \notin S /\ (a \in S => m \in Q)
    BY <2>1, <2>2 DEF Covered
  <2>5. m \notin S /\ (a \in S => m \in Q) => Covered(t, S, Q)
    BY <2>1, <2>2 DEF Covered
  <2> QED
    BY <2>1, <2>3, <2>4, <2>5 DEF t
<1> QED
  BY <1>1, <1>2, <1>3

\* One message after the other, or both at once.
LEMMA TwoAppended ==
  ASSUME NEW T, NEW tc \in Seq(T), NEW a \in T, NEW m \in T
  PROVE  tc \o <<a>> \o <<m>> = tc \o (<<a>> \o <<m>>)
<1>1. <<a>> \in Seq(T) /\ <<m>> \in Seq(T)
  OBVIOUS
<1> QED
  BY <1>1

\* The types of the stores, the flows and the channels.
LEMMA StoresInState ==
  ASSUME BotInv
  PROVE  /\ client.bot \in BotValue /\ main.bot \in BotValue /\ main.endpoints \in BotValue
         /\ client \in [bot : BotValue, recents : SUBSET Bots, tabs : BOOLEAN]
         /\ main \in [bot : BotValue, dir : Bots \cup {NoPath}, recents : SUBSET Bots,
                      path : Bots \cup {NoPath}, watching : Bots \cup {NoPath}, endpoints : BotValue]
         /\ op \in Flows /\ toClient \in Seq(ClientMessage) /\ toMain \in Seq(MainMessage)
         /\ \A i \in Ops : op[i] \in OpType /\ OpOK(op[i]) /\ op[i].val \in BotValue
BY DEF BotInv, MainOK, ClientOK, FlowsOK, Flows, MessagesOK, OpType

-----------------------------------------------------------------------------
(* The lists *)

\* A message that is no list.
LEMMA NotLists ==
  /\ \A i : \A what \in OfFlow : Msg(what, i) \notin Lists
  /\ Closing \notin Lists /\ \A v : Active(v) \notin Lists
BY DEF Msg, Closing, Active, Lists, OfFlow

\* Nobody's list changes, and main sends none.
LEMMA ListedSent ==
  ASSUME BotInv, Listed(main, client, toClient), NEW s \in Seq(ClientMessage), FreeOf(s, Lists),
         toClient' = toClient \o s, main'.recents = main.recents, client'.recents = client.recents
  PROVE  Listed(main', client', toClient')
<1> DEFINE r == Recents(main.recents)
           S == Lists \ {r}
<1>1. toClient \in Seq(ClientMessage)
  BY StoresInState
<1>2. PICK tc : tc = toClient'
  OBVIOUS
<1>3. tc = toClient \o s
  BY <1>2
<1>4. /\ \A Z : FreeOf(tc, Z) <=> FreeOf(toClient, Z) /\ FreeOf(s, Z)
      /\ \A Z, Q : Covered(s, Z, Q) /\ (Covered(toClient, Z, Q) \/ ~FreeOf(s, Q)) => Covered(tc, Z, Q)
  BY <1>1, <1>3, AfterSent
<1>5. Covered(toClient, S, {r}) /\ (client.recents = main.recents \/ ~FreeOf(toClient, {r}))
  BY DEF Listed
<1>6. Covered(s, S, {r})
  BY DEF FreeOf, Covered
<1> HIDE DEF r, S
<1>7. Covered(tc, S, {r}) /\ (client.recents = main.recents \/ ~FreeOf(tc, {r}))
  BY <1>4, <1>5, <1>6
<1> QED
  BY <1>2, <1>7 DEF Listed, r, S

\* The client takes a message that is no list.
LEMMA ListedTaken ==
  ASSUME BotInv, Listed(main, client, toClient), toClient # <<>>, Head(toClient) \notin Lists,
         toClient' = Tail(toClient), main'.recents = main.recents, client'.recents = client.recents
  PROVE  Listed(main', client', toClient')
<1> DEFINE r == Recents(main.recents)
           S == Lists \ {r}
<1>0. main.recents \in SUBSET Bots /\ toClient \in Seq(ClientMessage)
  BY StoresInState
<1>1. r \in Lists
  BY <1>0 DEF Recents, Lists, ClientMessage
<1>2. PICK tc : tc = toClient'
  OBVIOUS
<1>3. tc = Tail(toClient)
  BY <1>2
<1>4. /\ \A Z, Q : Covered(toClient, Z, Q) => Covered(tc, Z, Q)
      /\ \A Z : ~FreeOf(toClient, Z) /\ Head(toClient) \notin Z => ~FreeOf(tc, Z)
  BY <1>0, <1>3, AfterHead
<1>5. Covered(toClient, S, {r}) /\ (client.recents = main.recents \/ ~FreeOf(toClient, {r}))
  BY DEF Listed
<1>6. Head(toClient) \notin {r}
  BY <1>1
<1> HIDE DEF r, S
<1>7. Covered(tc, S, {r}) /\ (client.recents = main.recents \/ ~FreeOf(tc, {r}))
  BY <1>4, <1>5, <1>6
<1> QED
  BY <1>2, <1>7 DEF Listed, r, S

\* The client takes a list.
LEMMA ListTaken ==
  ASSUME BotInv, Listed(main, client, toClient), StoreFollows, Head(toClient).what = "recents"
  PROVE  Listed(main', client', toClient')
<1> DEFINE r == Recents(main.recents)
           S == Lists \ {r}
           m == Head(toClient)
<1>0. /\ client \in [bot : BotValue, recents : SUBSET Bots, tabs : BOOLEAN]
      /\ toClient \in Seq(ClientMessage)
  BY StoresInState
<1>1. /\ toClient # <<>> /\ toClient' = Tail(toClient) /\ main' = main
      /\ client'.recents = m.list
  BY <1>0 DEF StoreFollows, Receives, Rest
<1>2. m \in ClientMessage
  BY <1>0, <1>1, TailAt
<1>3. m = Recents(m.list) /\ m \in Lists
  BY <1>2 DEF Recents, Lists, ClientMessage, OfFlow
<1>4. m = r => client'.recents = main.recents
  BY <1>1 DEF Recents
<1>5. PICK tc : tc = toClient'
  OBVIOUS
<1>6. tc = Tail(toClient)
  BY <1>1, <1>5
<1>7. /\ \A Z, Q : Covered(toClient, Z, Q) => Covered(tc, Z, Q)
      /\ \A Z, Q : Covered(toClient, Z, Q) /\ m \in Z => ~FreeOf(tc, Q)
  BY <1>0, <1>1, <1>6, AfterHead
<1>8. Covered(toClient, S, {r}) /\ (m = r \/ m \in S)
  BY <1>3 DEF Listed
<1> HIDE DEF r, S, m
<1>9. Covered(tc, S, {r}) /\ (client'.recents = main.recents \/ ~FreeOf(tc, {r}))
  BY <1>4, <1>7, <1>8
<1> QED
  BY <1>1, <1>5, <1>9 DEF Listed, r, S

\* Main sends its new list, and another message of none.
LEMMA ListSent ==
  ASSUME BotInv, NEW l \in SUBSET Bots, main'.recents = l,
         \/ toClient' = toClient \o <<Recents(l)>>
         \/ \E m \in ClientMessage : m \notin Lists /\ toClient' = toClient \o (<<Recents(l)>> \o <<m>>)
  PROVE  Listed(main', client', toClient')
<1> DEFINE r == Recents(l)
           S == Lists \ {r}
<1>1. toClient \in Seq(ClientMessage) /\ r \in ClientMessage
  BY StoresInState DEF Recents, ClientMessage
<1> HIDE DEF S
<1>2. PICK s \in Seq(ClientMessage) :
        /\ toClient' = toClient \o s /\ ~FreeOf(s, {r}) /\ Covered(s, S, {r})
  <2>1. CASE toClient' = toClient \o <<r>>
    <3>1. <<r>> \in Seq(ClientMessage) /\ r \notin S
      BY <1>1 DEF S
    <3> DEFINE Q == {r}
    <3>2. r \in Q
      OBVIOUS
    <3> HIDE DEF r, Q
    <3>3. ~FreeOf(<<r>>, Q) /\ Covered(<<r>>, S, Q)
      BY <3>1, <3>2, FewMessages
    <3> QED
      BY <2>1, <3>1, <3>3 DEF Q
  <2>2. ASSUME NEW m \in ClientMessage, m \notin Lists, toClient' = toClient \o (<<r>> \o <<m>>)
        PROVE  \E s \in Seq(ClientMessage) :
                  toClient' = toClient \o s /\ ~FreeOf(s, {r}) /\ Covered(s, S, {r})
    <3>1. m \notin S /\ r \notin S
      BY <2>2 DEF S
    <3>2. PICK s : s = <<r>> \o <<m>>
      OBVIOUS
    <3> DEFINE Q == {r}
    <3>3. r \in Q
      OBVIOUS
    <3> HIDE DEF r, Q
    <3>4. s \in Seq(ClientMessage) /\ ~FreeOf(s, Q) /\ Covered(s, S, Q)
      BY <1>1, <2>2, <3>1, <3>2, <3>3, FewMessages
    <3> QED
      BY <2>2, <3>2, <3>4 DEF Q
  <2> QED
    BY <2>1, <2>2
<1>3. PICK tc : tc = toClient'
  OBVIOUS
<1>4. tc = toClient \o s
  BY <1>2, <1>3
<1> HIDE DEF r
<1>5. /\ \A Z : FreeOf(tc, Z) <=> FreeOf(toClient, Z) /\ FreeOf(s, Z)
      /\ \A Z, Q : Covered(s, Z, Q) /\ (Covered(toClient, Z, Q) \/ ~FreeOf(s, Q)) => Covered(tc, Z, Q)
  BY <1>1, <1>2, <1>4, AfterSent
<1>6. Covered(tc, S, {r}) /\ ~FreeOf(tc, {r})
  BY <1>2, <1>5
<1> QED
  BY <1>3, <1>6 DEF Listed, r, S

-----------------------------------------------------------------------------
(* Steps that make no list *)

\* A step of the client that takes none, or of main that sends none.
Unlisted ==
  /\ main'.recents = main.recents /\ client'.recents = client.recents
  /\ \/ toClient' = toClient
     \/ toClient # <<>> /\ Head(toClient) \notin Lists /\ toClient' = Tail(toClient)
     \/ \E s \in Seq(ClientMessage) : FreeOf(s, Lists) /\ toClient' = toClient \o s

\* Such a step keeps the lists in order.
LEMMA UnlistedKeeps ==
  ASSUME BotInv, Listed(main, client, toClient), Unlisted
  PROVE  Listed(main', client', toClient')
<1>1. CASE toClient' = toClient
  BY <1>1 DEF Unlisted, Listed
<1>2. CASE toClient # <<>> /\ Head(toClient) \notin Lists /\ toClient' = Tail(toClient)
  BY <1>2, ListedTaken DEF Unlisted
<1>3. ASSUME NEW s \in Seq(ClientMessage), FreeOf(s, Lists), toClient' = toClient \o s
      PROVE  Listed(main', client', toClient')
  BY <1>3, ListedSent DEF Unlisted
<1> QED
  BY <1>1, <1>2, <1>3 DEF Unlisted

\* What the gestures do to the client's store.
LEMMA ClientRecents ==
  ASSUME BotInv
  PROVE  \A g, o : NewLiveChat(g) \/ Proceeds(g, o) => client'.recents = client.recents
BY StoresInState DEF NewLiveChat, Proceeds

\* ... and what the other helpers of the gestures do to it.
LEMMA GestureLists ==
  ASSUME BotInv
  PROVE  \A g, o : Proceeds(g, o) \/ AsksFirst(g, o) \/ SwitchTo(g, o) \/ LoadBot(g, o)
                     => client'.recents = client.recents
<1>1. \A g, o : NewLiveChat(g) \/ Proceeds(g, o) => client'.recents = client.recents
  BY ClientRecents
<1>2. \A g, o : AsksFirst(g, o) => client'.recents = client.recents
  BY <1>1 DEF AsksFirst
<1>3. \A g, o : SwitchTo(g, o) => client'.recents = client.recents
  BY <1>1, <1>2 DEF SwitchTo
<1>4. \A g, o : LoadBot(g, o) => client'.recents = client.recents
  BY <1>2, <1>3 DEF LoadBot
<1> QED
  BY <1>1, <1>2, <1>3, <1>4

\* Main sends a message of a flow, after an action that is no list.
LEMMA SendsUnlisted ==
  ASSUME BotInv, NEW i \in Ops, NEW x, NEW what \in OfFlow, NEW acts,
         acts = <<>> \/ acts = <<Closing>> \/ \E v \in BotValue : v.path \in Bots /\ acts = <<Active(v)>>,
         MainSends(i, x, acts, what)
  PROVE  \E s \in Seq(ClientMessage) : FreeOf(s, Lists) /\ toClient' = toClient \o s
<1> DEFINE m == Msg(what, i)
<1>1. toClient \in Seq(ClientMessage) /\ m \in ClientMessage /\ m \notin Lists
  BY StoresInState, NotLists DEF Msg, ClientMessage
<1>2. toClient' = toClient \o acts \o <<m>>
  BY DEF MainSends
<1> HIDE DEF m
<1>3. CASE acts = <<>>
  <2>1. <<m>> \in Seq(ClientMessage) /\ toClient' = toClient \o <<m>>
    BY <1>1, <1>2, <1>3
  <2>2. FreeOf(<<m>>, Lists)
    BY <1>1, FewMessages
  <2> QED
    BY <2>1, <2>2
<1>4. ASSUME NEW a \in ClientMessage, a \notin Lists, acts = <<a>>
      PROVE  \E s \in Seq(ClientMessage) : FreeOf(s, Lists) /\ toClient' = toClient \o s
  <2>1. <<a>> \o <<m>> \in Seq(ClientMessage) /\ toClient' = toClient \o (<<a>> \o <<m>>)
    BY <1>1, <1>2, <1>4, TwoAppended, FewMessages
  <2>2. FreeOf(<<a>> \o <<m>>, Lists)
    BY <1>1, <1>4, FewMessages
  <2> QED
    BY <2>1, <2>2
<1>5. CASE acts = <<Closing>>
  <2>1. Closing \in ClientMessage /\ Closing \notin Lists
    BY NotLists DEF Closing, ClientMessage
  <2> QED
    BY <1>4, <1>5, <2>1
<1>6. ASSUME NEW v \in BotValue, v.path \in Bots, acts = <<Active(v)>>
      PROVE  \E s \in Seq(ClientMessage) : FreeOf(s, Lists) /\ toClient' = toClient \o s
  <2>1. Active(v) \in ClientMessage /\ Active(v) \notin Lists
    BY <1>6, NotLists DEF Active, ClientMessage
  <2> QED
    BY <1>4, <1>6, <2>1
<1> QED
  BY <1>3, <1>5, <1>6

\* The client's steps.
LEMMA ClientLists ==
  ASSUME BotInv, Listed(main, client, toClient),
         \/ \E g \in Gestures : ClientGesture(g)
         \/ \E i \in Ops : Confirm(i)
         \/ ClientSteps \/ TabsChange \/ UNCHANGED vars
  PROVE  Listed(main', client', toClient')
<1>0. /\ client \in [bot : BotValue, recents : SUBSET Bots, tabs : BOOLEAN]
      /\ toClient \in Seq(ClientMessage)
  BY StoresInState
<1>1. ASSUME NEW g \in Gestures, ClientGesture(g) PROVE Unlisted
  <2>1. main' = main /\ toClient' = toClient
    BY <1>1 DEF ClientGesture, ConfirmAndSwitchBots, ConfirmAndOpenBotFromFile, ConfirmAndCreateBot,
      ConfirmAndCloseBot, LaunchConnectedServiceEditor, RemoveServiceFromActiveBot,
      LaunchConnectedServicePicker, RemoveFromRecentBots, OpenDeepLink
  <2>2. client'.recents = client.recents
    <3>1. CASE \E b \in Bots : ConfirmAndSwitchBots(g, b) \/ ConfirmAndCreateBot(g, b)
      BY <3>1, GestureLists DEF ConfirmAndSwitchBots, ConfirmAndCreateBot
    <3>2. CASE \E b \in Bots : ConfirmAndOpenBotFromFile(g, b)
      BY <3>2, GestureLists DEF ConfirmAndOpenBotFromFile
    <3>3. CASE ConfirmAndCloseBot(g)
      BY <3>3, GestureLists DEF ConfirmAndCloseBot
    <3>4. CASE \/ \E b \in Bots : RemoveFromRecentBots(g, b) \/ \E o \in BOOLEAN : OpenDeepLink(g, b, o)
               \/ \E s \in Services : LaunchConnectedServiceEditor(g, s) \/ RemoveServiceFromActiveBot(g, s)
               \/ \E picked \in SUBSET Services : LaunchConnectedServicePicker(g, picked)
      BY <3>4 DEF LaunchConnectedServiceEditor, RemoveServiceFromActiveBot,
        LaunchConnectedServicePicker, RemoveFromRecentBots, OpenDeepLink
    <3> QED
      BY <1>1, <3>1, <3>2, <3>3, <3>4 DEF ClientGesture
  <2> QED
    BY <2>1, <2>2 DEF Unlisted
<1>2. ASSUME NEW i \in Ops, Confirm(i) PROVE Unlisted
  BY <1>2, GestureLists DEF Confirm, Unlisted
<1>3. CASE TabsChange \/ UNCHANGED vars
  <2>1. main' = main /\ toClient' = toClient /\ client'.recents = client.recents
    BY <1>0, <1>3 DEF TabsChange, vars
  <2> QED
    BY <2>1, UnlistedKeeps DEF Unlisted
<1>4. ASSUME Receives, main' = main, toClient' = Rest, Head(toClient).what # "recents",
             client'.recents = client.recents
      PROVE  Unlisted
  BY <1>4 DEF Unlisted, Receives, Rest, Lists
<1>5. CASE StoreFollows
  <2>1. CASE Head(toClient).what = "recents"
    BY <1>5, <2>1, ListTaken
  <2>2. CASE Head(toClient).what # "recents"
    <3>1. client'.recents = client.recents
      BY <1>0, <1>5, <2>2 DEF StoreFollows
    <3> QED
      BY <1>4, <1>5, <2>2, <3>1, UnlistedKeeps DEF StoreFollows
  <2> QED
    BY <2>1, <2>2
<1>6. CASE AnswersAtOnce \/ SetActiveInClient
  BY <1>4, <1>6, UnlistedKeeps DEF AnswersAtOnce, SetActiveInClient
<1>7. CASE LoadIsCalled
  BY <1>4, <1>7, GestureLists, UnlistedKeeps DEF LoadIsCalled
<1>8. ASSUME NEW i \in Ops,
             \/ OpenAnswered(i) \/ SetActiveAnswered(i) \/ CloseAnswered(i)
             \/ MenusAnswered(i) \/ OtherAnswered(i)
      PROVE  Unlisted
  <2>1. Answered(i)
    BY <1>8 DEF OpenAnswered, SetActiveAnswered, CloseAnswered, MenusAnswered,
      OtherAnswered
  <2>2. client'.recents = client.recents
    BY <1>0, <1>8, GestureLists DEF OpenAnswered, SetActiveAnswered, CloseAnswered, MenusAnswered,
      OtherAnswered
  <2> QED
    BY <1>4, <2>1, <2>2 DEF Answered, Msg
<1> QED
  BY <1>1, <1>2, <1>3, <1>5, <1>6, <1>7, <1>8, UnlistedKeeps DEF ClientSteps

\* A reload ends.
LEMMA ReloadedLists ==
  ASSUME BotInv, NEW r \in Ops, ReloadEnds(r)
  PROVE  Unlisted
<1> DEFINE v == op[r].val
           x == At(op[r], "telling")
           acts == <<Active(v)>>
<1>1. MainSends(r, x, acts, "told") /\ client' = client /\ "told" \in OfFlow /\ op[r].pc = "read"
  BY DEF ReloadEnds, OfFlow
<1>2. main'.recents = main.recents
  BY StoresInState DEF ReloadEnds
<1>3. v \in BotValue /\ v.path \in Bots
  BY <1>1, StoresInState DEF OpOK, HoldsAt, HoldsBot
<1>4. \E w \in BotValue : w.path \in Bots /\ acts = <<Active(w)>>
  BY <1>3
<1> HIDE DEF v, x, acts
<1>5. \E s \in Seq(ClientMessage) : FreeOf(s, Lists) /\ toClient' = toClient \o s
  BY <1>1, <1>4, SendsUnlisted
<1> QED
  BY <1>1, <1>2, <1>5 DEF Unlisted

\* Main's steps.
LEMMA MainLists ==
  ASSUME BotInv, Listed(main, client, toClient), NEW i \in Ops, MainSteps(i) \/ Tunnel(i)
  PROVE  Listed(main', client', toClient')
<1>0. /\ client \in [bot : BotValue, recents : SUBSET Bots, tabs : BOOLEAN]
      /\ main \in [bot : BotValue, dir : Bots \cup {NoPath}, recents : SUBSET Bots,
                   path : Bots \cup {NoPath}, watching : Bots \cup {NoPath}, endpoints : BotValue]
      /\ toClient \in Seq(ClientMessage) /\ op[i] \in OpType /\ OpOK(op[i]) /\ op[i].val \in BotValue
  BY StoresInState
<1>1. ASSUME NEW x, NEW what \in OfFlow, MainSends(i, x, <<>>, what), main'.recents = main.recents,
             client' = client
      PROVE  Unlisted
  <2>1. \E s \in Seq(ClientMessage) : FreeOf(s, Lists) /\ toClient' = toClient \o s
    <3> DEFINE acts == <<>>
    <3>1. acts = <<>> /\ MainSends(i, x, acts, what)
      BY <1>1
    <3> HIDE DEF acts
    <3> QED
      BY <3>1, SendsUnlisted
  <2> QED
    BY <1>1, <2>1 DEF Unlisted
<1>2. "clear" \in OfFlow /\ "paths" \in OfFlow /\ "load" \in OfFlow /\ "reply" \in OfFlow
  BY DEF OfFlow
<1>3. ASSUME main' = main, client' = client, toClient' = toClient PROVE Unlisted
  BY <1>3 DEF Unlisted
<1>4. CASE OpenBot(i) \/ SaveBot(i) \/ TunnelFails(i)
  BY <1>3, <1>4, UnlistedKeeps DEF OpenBot, SaveBot, TunnelFails
<1>5. CASE SetActiveBot(i) \/ TunnelConnects(i)
  <2>1. BeginsSetActive(i) /\ client' = client
    BY <1>5 DEF SetActiveBot, TunnelConnects
  <2>2. main'.recents = main.recents
    BY <1>0, <2>1 DEF BeginsSetActive
  <2> QED
    BY <1>1, <1>2, <2>1, <2>2, UnlistedKeeps DEF BeginsSetActive
<1>6. CASE Cleared(i)
  <2> DEFINE v == op[i].val
             x == At(op[i], "updating")
             acts == <<Active(v)>>
  <2>1. /\ MainSends(i, x, acts, "paths") /\ client' = client /\ op[i].pc = "clearing"
        /\ main'.recents = main.recents
    BY <1>0, <1>6 DEF Cleared, Replied
  <2>2. v.path \in Bots
    BY <1>0, <2>1 DEF OpOK, HoldsAt, HoldsBot
  <2>3. \E w \in BotValue : w.path \in Bots /\ acts = <<Active(w)>>
    BY <1>0, <2>2
  <2> HIDE DEF v, x, acts
  <2>4. \E s \in Seq(ClientMessage) : FreeOf(s, Lists) /\ toClient' = toClient \o s
    BY <1>2, <2>1, <2>3, SendsUnlisted
  <2> QED
    BY <2>1, <2>4, UnlistedKeeps DEF Unlisted
<1>7. CASE SetActiveEnds(i) \/ SetCurrentUser(i) \/ UpdateMenus(i)
  BY <1>1, <1>2, <1>7, UnlistedKeeps DEF SetActiveEnds, SetCurrentUser, UpdateMenus
<1>8. CASE CloseBot(i)
  <2> DEFINE x == At(op[i], "closed")
             acts == <<Closing>>
  <2>1. MainSends(i, x, acts, "reply") /\ client' = client /\ main'.recents = main.recents
    BY <1>0, <1>8 DEF CloseBot
  <2>2. acts = <<Closing>>
    OBVIOUS
  <2> HIDE DEF x, acts
  <2>3. \E s \in Seq(ClientMessage) : FreeOf(s, Lists) /\ toClient' = toClient \o s
    BY <1>2, <2>1, <2>2, SendsUnlisted
  <2> QED
    BY <2>1, <2>3, UnlistedKeeps DEF Unlisted
<1>9. ASSUME NEW command, NEW v, Changes(i, command, v) PROVE Unlisted
  BY <1>1, <1>2, <1>3, <1>9 DEF Changes
<1>10. CASE AddOrUpdateService(i) \/ RemoveService(i)
  BY <1>9, <1>10, UnlistedKeeps DEF AddOrUpdateService, RemoveService
<1>11. CASE CreateBot(i)
  <2> DEFINE known == main.recents \cup {op[i].bot}
  <2>1. op[i].pc = "create" /\ client' = client
    BY <1>11 DEF CreateBot, Called
  <2>2. known \in SUBSET Bots
    BY <1>0, <2>1 DEF OpOK, HoldsAt, NamesBot
  <2>3. main'.recents = known /\ toClient' = Append(toClient, Recents(known))
    BY <1>0, <1>11 DEF CreateBot
  <2> HIDE DEF known
  <2>4. toClient' = toClient \o <<Recents(known)>>
    <3>1. PICK a \in ClientMessage : a = Recents(known)
      BY <2>2 DEF Recents, ClientMessage
    <3>2. Append(toClient, a) = toClient \o <<a>>
      BY <1>0
    <3> QED
      BY <2>3, <3>1, <3>2
  <2> QED
    BY <2>2, <2>3, <2>4, ListSent
<1>12. CASE RemoveFromBotList(i)
  <2> DEFINE known == main.recents \ {op[i].bot}
             m == Msg("reply", i)
  <2>1. /\ client' = client /\ main'.recents = known /\ known \in SUBSET Bots
        /\ toClient' = toClient \o <<Recents(known)>> \o <<m>>
    BY <1>0, <1>12 DEF RemoveFromBotList, MainSends
  <2>2. m \in ClientMessage /\ m \notin Lists
    BY <1>2, NotLists DEF Msg, ClientMessage
  <2> HIDE DEF known, m
  <2>3. Recents(known) \in ClientMessage
    BY <2>1 DEF Recents, ClientMessage
  <2>4. toClient' = toClient \o (<<Recents(known)>> \o <<m>>)
    BY <1>0, <2>1, <2>2, <2>3, TwoAppended
  <2> QED
    BY <2>1, <2>2, <2>4, ListSent
<1>13. CASE ClientWasTold(i)
  BY <1>1, <1>2, <1>3, <1>13, UnlistedKeeps DEF ClientWasTold
<1>14. CASE MainSyncs(i)
  <2>1. /\ main'.recents = main.recents /\ client'.recents = client.recents
        /\ toClient' = toClient
    BY <1>0, <1>14 DEF MainSyncs
  <2> QED
    BY <2>1, UnlistedKeeps DEF Unlisted
<1> QED
  BY <1>4, <1>5, <1>6, <1>7, <1>8, <1>10, <1>11, <1>12, <1>13, <1>14, UnlistedKeeps
  DEF MainSteps, Tunnel

\* A bot was loaded, or none: its flow goes on, or the command answers.
LEMMA LoadedLists ==
  ASSUME BotInv, NEW i \in Ops, NEW v, NEW acts, Loaded(i, v, acts)
  PROVE  \/ toClient' = toClient \o acts
         \/ \E m \in ClientMessage : m \notin Lists /\ toClient' = toClient \o acts \o <<m>>
<1> DEFINE m == Msg("reply", i)
<1>1. m \in ClientMessage /\ m \notin Lists
  BY NotLists DEF Msg, ClientMessage, OfFlow
<1>2. toClient' = toClient \o acts \/ toClient' = toClient \o acts \o <<m>>
  BY DEF Loaded, MainSends
<1> QED
  BY <1>1, <1>2

\* ... and without a new list nothing about the lists changes.
LEMMA NoneLoaded ==
  ASSUME BotInv, NEW i \in Ops, NEW v, Loaded(i, v, <<>>), main'.recents = main.recents, client' = client
  PROVE  Unlisted
<1>1. toClient \in Seq(ClientMessage)
  BY StoresInState
<1>2. \/ toClient' = toClient \o <<>>
      \/ \E m \in ClientMessage : m \notin Lists /\ toClient' = toClient \o <<>> \o <<m>>
  <2> DEFINE acts == <<>>
  <2>1. Loaded(i, v, acts)
    OBVIOUS
  <2> HIDE DEF acts
  <2>2. \/ toClient' = toClient \o acts
        \/ \E m \in ClientMessage : m \notin Lists /\ toClient' = toClient \o acts \o <<m>>
    BY <2>1, LoadedLists
  <2> QED
    BY <2>2 DEF acts
<1>3. CASE toClient' = toClient \o <<>>
  <2>1. toClient' = toClient
    BY <1>1, <1>3
  <2> QED
    BY <2>1 DEF Unlisted
<1>4. ASSUME NEW m \in ClientMessage, m \notin Lists, toClient' = toClient \o <<>> \o <<m>>
      PROVE  Unlisted
  <2>1. <<m>> \in Seq(ClientMessage) /\ toClient' = toClient \o <<m>>
    BY <1>1, <1>4
  <2>2. FreeOf(<<m>>, Lists)
    BY <1>4, FewMessages
  <2> QED
    BY <2>1, <2>2 DEF Unlisted
<1> QED
  BY <1>2, <1>3, <1>4

\* Files are read and saved.
LEMMA FilesLists ==
  ASSUME BotInv, Listed(main, client, toClient), NEW i \in Ops, FileSteps(i) \/ PromptAnswered(i)
  PROVE  Listed(main', client', toClient')
<1>0. /\ main \in [bot : BotValue, dir : Bots \cup {NoPath}, recents : SUBSET Bots,
                   path : Bots \cup {NoPath}, watching : Bots \cup {NoPath}, endpoints : BotValue]
      /\ toClient \in Seq(ClientMessage) /\ op[i] \in OpType /\ OpOK(op[i]) /\ op[i].val \in BotValue
      /\ file \in [Bots -> SUBSET Services]
  BY StoresInState DEF BotInv, FilesOK
<1>1. ASSUME main' = main, client' = client, toClient' = toClient PROVE Unlisted
  BY <1>1 DEF Unlisted
<1>2. ASSUME NEW x, MainSends(i, x, <<>>, "reply"), main'.recents = main.recents, client' = client
      PROVE  Unlisted
  <2>1. \E s \in Seq(ClientMessage) : FreeOf(s, Lists) /\ toClient' = toClient \o s
    <3> DEFINE acts == <<>>
    <3>1. acts = <<>> /\ MainSends(i, x, acts, "reply") /\ "reply" \in OfFlow
      BY <1>2 DEF OfFlow
    <3> HIDE DEF acts
    <3> QED
      BY <3>1, SendsUnlisted
  <2> QED
    BY <1>2, <2>1 DEF Unlisted
<1>3. CASE LoadEnds(i)
  <2> DEFINE known == main.recents \cup {op[i].bot}
             v == BotAt(op[i].bot, file[op[i].bot])
  <2>1. /\ client' = client
        /\ \/ /\ Loaded(i, v, IF op[i].bot \in main.recents THEN <<>> ELSE <<Recents(known)>>)
              /\ main'.recents = known
           \/ Loaded(i, NoBot, <<>>) /\ main' = main
           \/ main' = main /\ toClient' = toClient
    BY <1>0, <1>3 DEF LoadEnds, LoadFails
  <2>2. known \in SUBSET Bots /\ (op[i].bot \in main.recents => known = main.recents)
    BY <1>0, <1>3 DEF LoadEnds, OpOK, HoldsAt, Reading
  <2> HIDE DEF v
  <2>3. CASE op[i].bot \in main.recents /\ Loaded(i, v, <<>>) /\ main'.recents = known
    BY <2>1, <2>2, <2>3, NoneLoaded, UnlistedKeeps
  <2>4. CASE Loaded(i, v, <<Recents(known)>>) /\ main'.recents = known
    <3> HIDE DEF known
    <3>1. Recents(known) \in ClientMessage
      BY <2>2 DEF Recents, ClientMessage
    <3>2. \/ toClient' = toClient \o <<Recents(known)>>
          \/ \E m \in ClientMessage : m \notin Lists /\ toClient' = toClient \o <<Recents(known)>> \o <<m>>
      <4> DEFINE acts == <<Recents(known)>>
      <4>1. Loaded(i, v, acts)
        BY <2>4
      <4> HIDE DEF acts
      <4>2. \/ toClient' = toClient \o acts
            \/ \E m \in ClientMessage : m \notin Lists /\ toClient' = toClient \o acts \o <<m>>
        BY <4>1, LoadedLists
      <4> QED
        BY <4>2 DEF acts
    <3>3. \A m \in ClientMessage :
            toClient \o <<Recents(known)>> \o <<m>> = toClient \o (<<Recents(known)>> \o <<m>>)
      BY <1>0, <3>1, TwoAppended
    <3> QED
      BY <2>2, <2>4, <3>2, <3>3, ListSent
  <2>5. CASE Loaded(i, NoBot, <<>>) /\ main' = main
    BY <2>1, <2>5, NoneLoaded, UnlistedKeeps
  <2>6. CASE main' = main /\ toClient' = toClient
    BY <1>1, <2>1, <2>6, UnlistedKeeps
  <2> QED
    BY <2>1, <2>3, <2>4, <2>5, <2>6
<1>4. CASE PromptAnswered(i)
  BY <1>1, <1>4, NoneLoaded, UnlistedKeeps DEF PromptAnswered, LoadFails
<1>5. CASE SaveEnds(i)
  <2>1. op[i].pc = "saving" /\ client' = client /\ Saved(i)
    BY <1>5 DEF SaveEnds
  <2>2. CASE op[i].kind \in {"add", "remove"}
    <3> DEFINE v == op[i].val
               x == At(op[i], "telling")
               acts == <<Active(v)>>
    <3>1. MainSends(i, x, acts, "told") /\ main'.recents = main.recents /\ "told" \in OfFlow
      BY <1>0, <2>1, <2>2 DEF Saved, OfFlow
    <3>2. \E w \in BotValue : w.path \in Bots /\ acts = <<Active(w)>>
      BY <1>0, <2>1 DEF OpOK, HoldsAt, HoldsBot
    <3> HIDE DEF v, x, acts
    <3>3. \E s \in Seq(ClientMessage) : FreeOf(s, Lists) /\ toClient' = toClient \o s
      BY <3>1, <3>2, SendsUnlisted
    <3> QED
      BY <2>1, <3>1, <3>3, UnlistedKeeps DEF Unlisted
  <2>3. CASE op[i].kind \notin {"add", "remove"}
    BY <1>2, <2>1, <2>3, UnlistedKeeps DEF Saved
  <2> QED
    BY <2>2, <2>3
<1>6. CASE SaveFails(i)
  BY <1>2, <1>6, UnlistedKeeps DEF SaveFails
<1>7. CASE ReloadEnds(i)
  BY <1>7, ReloadedLists, UnlistedKeeps
<1> QED
  BY <1>3, <1>4, <1>5, <1>6, <1>7 DEF FileSteps

\* Files change.
LEMMA OthersLists ==
  ASSUME BotInv, Listed(main, client, toClient),
         \/ \E r \in Reloads : OnFileChange(r)
         \/ \E b \in Bots, s \in Services : EditFile(b, s)
  PROVE  Listed(main', client', toClient')
<1>1. ASSUME main' = main, client' = client, toClient' = toClient PROVE Unlisted
  BY <1>1 DEF Unlisted
<1>2. ASSUME NEW r \in Reloads, OnFileChange(r) PROVE Unlisted
  BY <1>1, <1>2 DEF OnFileChange
<1>3. ASSUME NEW b \in Bots, NEW s \in Services, EditFile(b, s) PROVE Unlisted
  BY <1>1, <1>3 DEF EditFile
<1> QED
  BY <1>2, <1>3, UnlistedKeeps

\* The last list on its way is main's, whatever overlaps.
THEOREM ListsInvariant == Spec => []Listed(main, client, toClient)
<1>1. Init => Listed(main, client, toClient)
  <2> SUFFICES ASSUME Init PROVE Listed(main, client, toClient)
    OBVIOUS
  <2>1. client.recents = main.recents /\ toClient = <<>>
    BY DEF Init
  <2> QED
    BY <2>1, FewMessages DEF Listed
<1>2. BotInv /\ Listed(main, client, toClient) /\ [Next]_vars => Listed(main, client, toClient)'
  <2> SUFFICES ASSUME BotInv, Listed(main, client, toClient), [Next]_vars
               PROVE  Listed(main', client', toClient')
    OBVIOUS
  <2>1. ASSUME NEW i \in Ops, UserAnswers(i) \/ MainSteps(i) \/ FileSteps(i) \/ Tunnel(i)
        PROVE  Listed(main', client', toClient')
    BY <2>1, ClientLists, MainLists, FilesLists DEF UserAnswers
  <2> QED
    BY <2>1, ClientLists, OthersLists DEF Next
<1> QED
  BY <1>1, <1>2, BotInvariant, PTL DEF Spec

\* Once every message was taken, the client's recent bots are main's.
THEOREM ListsMeet == Spec => [](AtRest => client.recents = main.recents)
<1>1. Listed(main, client, toClient) => (AtRest => client.recents = main.recents)
  <2> SUFFICES ASSUME Listed(main, client, toClient), toClient = <<>>
               PROVE  client.recents = main.recents
    BY DEF AtRest
  <2>1. FreeOf(toClient, {Recents(main.recents)})
    BY FewMessages
  <2> QED
    BY <2>1 DEF Listed
<1> QED
  BY <1>1, ListsInvariant, PTL
=============================================================================
