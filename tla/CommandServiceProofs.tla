------------------------ MODULE CommandServiceProofs ------------------------
(***************************************************************************)
(* Proofs about CommandService, for every number of actions and of calls:  *)
(* its types, that it implements RemoteCalls, that no call or answer       *)
(* overtakes the actions dispatched before it, and that both stores reduce *)
(* each action once and those of a side in their order.                    *)
(***************************************************************************)
EXTENDS CommandService, TLAPS

-----------------------------------------------------------------------------
(* Lemmas on the channels and the stores                                   *)

\* What a sequence is after an Append.
LEMMA AppendAt ==
  ASSUME NEW S, NEW s \in Seq(S), NEW x \in S
  PROVE  /\ Append(s, x) \in Seq(S) /\ Len(Append(s, x)) = Len(s) + 1
         /\ \A n \in 1..Len(s) : Append(s, x)[n] = s[n]
         /\ Append(s, x)[Len(s) + 1] = x
OBVIOUS

\* What a sequence is after its head is taken.
LEMMA TailAt ==
  ASSUME NEW S, NEW s \in Seq(S), s # <<>>
  PROVE  /\ Tail(s) \in Seq(S) /\ Len(s) = Len(Tail(s)) + 1
         /\ \A n \in 1..Len(Tail(s)) : Tail(s)[n] = s[n + 1]
         /\ Head(s) \in S /\ Head(s) = s[1] /\ 1 \in 1..Len(s)
OBVIOUS

\* What a store has reduced after one more action.
LEMMA ToSetAppend ==
  ASSUME NEW S, NEW s \in Seq(S), NEW x \in S
  PROVE  ToSet(Append(s, x)) = ToSet(s) \cup {x} /\ ToSet(s) \subseteq S
<1>1. /\ ToSet(s) = {s[n] : n \in 1..Len(s)}
      /\ ToSet(Append(s, x)) = {Append(s, x)[n] : n \in 1..(Len(s) + 1)}
  BY AppendAt DEF ToSet
<1>2. \A n \in 1..(Len(s) + 1) : n \in 1..Len(s) \/ n = Len(s) + 1
  OBVIOUS
<1>3. Len(s) + 1 \in 1..(Len(s) + 1) /\ 1..Len(s) \subseteq 1..(Len(s) + 1)
  OBVIOUS
<1>4. \A n \in 1..Len(s) : s[n] \in S
  OBVIOUS
<1>5. ASSUME NEW e \in ToSet(Append(s, x)) PROVE e \in ToSet(s) \cup {x}
  <2>1. PICK n \in 1..(Len(s) + 1) : e = Append(s, x)[n]
    BY <1>1, <1>5
  <2> QED
    BY <1>1, <1>2, <2>1, AppendAt
<1>6. ASSUME NEW e \in ToSet(s) PROVE e \in ToSet(Append(s, x))
  <2>1. PICK n \in 1..Len(s) : e = s[n]
    BY <1>1, <1>6
  <2>2. n \in 1..(Len(s) + 1) /\ e = Append(s, x)[n]
    BY <1>3, <2>1, AppendAt
  <2> QED
    BY <1>1, <2>2
<1>7. x \in ToSet(Append(s, x))
  BY <1>1, <1>3, AppendAt
<1> QED
  BY <1>1, <1>4, <1>5, <1>6, <1>7

\* The two sides.
LEMMA PeerType == \A p \in Peers : Peer(p) \in Peers /\ Peer(p) # p /\ Peer(Peer(p)) = p
BY DEF Peers, Peer

\* Sending appends to one channel.
LEMMA SendLemma ==
  ASSUME net \in [Peers -> Seq(Message)], NEW p \in Peers, NEW m \in Message, Send(p, m)
  PROVE  /\ net' \in [Peers -> Seq(Message)]
         /\ Len(net[p]) \in Nat /\ Len(net'[p]) = Len(net[p]) + 1
         /\ \A n \in 1..Len(net[p]) : net'[p][n] = net[p][n]
         /\ net'[p][Len(net[p]) + 1] = m
         /\ \A q \in Peers : q # p => net'[q] = net[q]
<1>1. net'[p] = Append(net[p], m) /\ \A q \in Peers : q # p => net'[q] = net[q]
  BY DEF Send
<1>2. net[p] \in Seq(Message) /\ Append(net[p], m) \in Seq(Message)
  BY AppendAt
<1>3. net' \in [Peers -> Seq(Message)]
  BY <1>2 DEF Send
<1> QED
  BY <1>1, <1>2, <1>3, AppendAt

\* Receiving takes the head of one channel.
LEMMA ReceiveLemma ==
  ASSUME net \in [Peers -> Seq(Message)], NEW p \in Peers, net[p] # <<>>, Receive(p)
  PROVE  /\ net' \in [Peers -> Seq(Message)]
         /\ Len(net'[p]) \in Nat /\ Len(net[p]) = Len(net'[p]) + 1
         /\ \A n \in 1..Len(net'[p]) : net'[p][n] = net[p][n + 1]
         /\ Head(net[p]) = net[p][1] /\ 1 \in 1..Len(net[p])
         /\ \A q \in Peers : q # p => net'[q] = net[q]
<1>1. net'[p] = Tail(net[p]) /\ \A q \in Peers : q # p => net'[q] = net[q]
  BY DEF Receive
<1>2. net[p] \in Seq(Message) /\ Tail(net[p]) \in Seq(Message)
  BY TailAt
<1>3. net' \in [Peers -> Seq(Message)]
  BY <1>2 DEF Receive
<1> QED
  BY <1>1, <1>2, <1>3, TailAt

\* A message has the fields of its type.
LEMMA MessageTypes ==
  ASSUME NEW m \in Message
  PROVE  /\ m.type \in {"ping", "sync-store", "remote-call", "answer"}
         /\ m.type = "sync-store" => m.id \in Actions
         /\ m.type = "remote-call" => m.id \in Calls /\ m.seen \subseteq Actions
         /\ m.type = "answer" => /\ m.id \in Calls /\ m.seen \subseteq Actions
                                 /\ m.result \in Results
BY DEF Message

-----------------------------------------------------------------------------
(***************************************************************************)
(* Types.  A store gets only actions because there is at most one          *)
(* 'sync-store' on its way to main, for which the client waits.            *)
(***************************************************************************)
SyncShape ==
  /\ returned => syncing \in Actions
  /\ \A n, k \in 1..Len(net["main"]) :
       net["main"][n].type = "sync-store" =>
         /\ net["main"][n].id = syncing /\ ~returned
         /\ net["main"][k].type = "sync-store" => n = k

\* The inductive step when no message of the stores is sent or received.
LEMMA ShapeKeptBySend ==
  ASSUME TypeOK, SyncShape, NEW p \in Peers, NEW m \in Message, Send(p, m),
         p = "main" => m.type # "sync-store", UNCHANGED <<syncing, returned>>
  PROVE  SyncShape'
<1>1. \A n \in 1..Len(net'["main"]) :
        \/ n \in 1..Len(net["main"]) /\ net'["main"][n] = net["main"][n]
        \/ net'["main"][n].type # "sync-store"
  BY SendLemma DEF TypeOK, Peers
<1> QED
  BY <1>1 DEF SyncShape

\* The same for a message received.
LEMMA ShapeKeptByReceive ==
  ASSUME TypeOK, SyncShape, NEW p \in Peers, net[p] # <<>>, Receive(p),
         UNCHANGED <<syncing, returned>>
  PROVE  SyncShape'
<1>1. CASE p = "main"
  <2>1. /\ Len(net["main"]) = Len(net'["main"]) + 1 /\ Len(net'["main"]) \in Nat
        /\ \A n \in 1..Len(net'["main"]) : net'["main"][n] = net["main"][n + 1]
    BY <1>1, ReceiveLemma DEF TypeOK
  <2>2. \A n \in 1..Len(net'["main"]) : n + 1 \in 1..Len(net["main"])
    BY <2>1
  <2>3. ASSUME NEW n \in 1..Len(net'["main"]), NEW k \in 1..Len(net'["main"]),
               net'["main"][n].type = "sync-store"
        PROVE  /\ net'["main"][n].id = syncing /\ ~returned
               /\ net'["main"][k].type = "sync-store" => n = k
    <3>1. /\ n + 1 \in 1..Len(net["main"]) /\ k + 1 \in 1..Len(net["main"])
          /\ net["main"][n + 1].type = "sync-store"
          /\ net'["main"][n] = net["main"][n + 1] /\ net'["main"][k] = net["main"][k + 1]
      BY <2>1, <2>2, <2>3
    <3>2. net["main"][k + 1].type = "sync-store" => n + 1 = k + 1
      BY <3>1 DEF SyncShape
    <3>3. net["main"][n + 1].id = syncing /\ ~returned
      BY <3>1 DEF SyncShape
    <3> QED
      BY <3>1, <3>2, <3>3
  <2> QED
    BY <2>3 DEF SyncShape
<1>2. CASE p # "main"
  BY <1>2, ReceiveLemma DEF TypeOK, SyncShape, Peers
<1> QED
  BY <1>1, <1>2

\* The inductive invariant of the types.
TypeInv == TypeOK /\ SyncShape

\* What a step of the stores alone leaves.
StoreStep == UNCHANGED <<callVars, mainSender>>

\* A dispatch adds the action of the next number.
LEMMA DispatchType ==
  ASSUME TypeOK, NEW p \in Peers, Dispatches(p)
  PROVE  /\ dispatched' \in Seq(Peers) /\ Len(dispatched') <= MaxActions
         /\ NextAction \in Actions /\ Sync(NextAction) \in Message
BY SyncAssumption DEF TypeOK, SyncTypeOK, Dispatches, NextAction, Actions, Sync, Message

\* A store that reduces an action stays a sequence of actions.
LEMMA ReduceType ==
  ASSUME TypeOK, NEW p \in Peers, NEW a \in Actions, Reduce(p, a)
  PROVE  store' \in [Peers -> Seq(Actions)]
<1>1. Append(store[p], a) \in Seq(Actions)
  BY AppendAt DEF TypeOK, SyncTypeOK
<1> QED
  BY <1>1 DEF TypeOK, SyncTypeOK, Reduce

\* The stores' steps keep the invariant.
LEMMA SyncKeepsTypes ==
  ASSUME TypeInv, SyncNext, StoreStep
  PROVE  TypeInv'
<1> USE SyncAssumption, CallsAssumption DEF TypeInv, StoreStep, callVars
<1>0. "main" \in Peers /\ "client" \in Peers /\ NoAction \notin Actions
  BY DEF Peers, NoAction, Actions
<1>a. ASSUME SyncTypeOK', net' \in [Peers -> Seq(Message)] PROVE TypeOK'
  BY <1>a DEF TypeOK
<1>1. CASE MainDispatches
  <2>1. /\ dispatched' \in Seq(Peers) /\ Len(dispatched') <= MaxActions
        /\ NextAction \in Actions /\ Sync(NextAction) \in Message
    BY <1>0, <1>1, DispatchType DEF MainDispatches
  <2>2. store' \in [Peers -> Seq(Actions)]
    BY <1>0, <1>1, <2>1, ReduceType DEF MainDispatches
  <2>3. net' \in [Peers -> Seq(Message)]
    BY <1>0, <1>1, <2>1, SendLemma DEF MainDispatches, TypeOK
  <2>4. SyncShape'
    BY <1>0, <1>1, <2>1, ShapeKeptBySend DEF MainDispatches
  <2> QED
    BY <1>a, <1>1, <2>1, <2>2, <2>3, <2>4 DEF MainDispatches, TypeOK, SyncTypeOK
<1>2. CASE ClientDispatches
  <2>1. /\ dispatched' \in Seq(Peers) /\ Len(dispatched') <= MaxActions
        /\ NextAction \in Actions /\ Sync(NextAction) \in Message
    BY <1>0, <1>2, DispatchType DEF ClientDispatches
  <2>2. net' \in [Peers -> Seq(Message)]
    BY <1>0, <1>2, <2>1, SendLemma DEF ClientDispatches, TypeOK
  <2>3. ~returned /\ \A n \in 1..Len(net["main"]) : net["main"][n].type # "sync-store"
    <3>1. syncing = NoAction
      BY <1>2 DEF ClientDispatches, Dispatches, Runs
    <3>2. \A n \in 1..Len(net["main"]) : net["main"][n] \in Message
      BY <1>0 DEF TypeOK
    <3> QED
      BY <1>0, <3>1, <3>2, MessageTypes DEF SyncShape
  <2>4. SyncShape'
    <3>1. /\ Len(net["main"]) \in Nat /\ Len(net'["main"]) = Len(net["main"]) + 1
          /\ \A n \in 1..Len(net["main"]) : net'["main"][n] = net["main"][n]
          /\ net'["main"][Len(net["main"]) + 1] = Sync(NextAction)
      BY <1>0, <1>2, <2>1, SendLemma DEF ClientDispatches, TypeOK
    <3>2. \A n \in 1..Len(net'["main"]) :
            net'["main"][n].type = "sync-store" => n = Len(net["main"]) + 1
      BY <2>3, <3>1
    <3>3. syncing' = NextAction /\ ~returned'
      BY <1>2, <2>3 DEF ClientDispatches
    <3> QED
      BY <2>1, <3>1, <3>2, <3>3 DEF SyncShape, Sync
  <2> QED
    BY <1>a, <1>2, <2>1, <2>2, <2>4 DEF ClientDispatches, TypeOK, SyncTypeOK
<1>3. CASE MainSyncs
  <2>1. /\ net["main"] # <<>> /\ Head(net["main"]).type = "sync-store"
        /\ Head(net["main"]) = net["main"][1] /\ 1 \in 1..Len(net["main"])
        /\ net["main"][1] \in Message
    BY <1>0, <1>3, ReceiveLemma DEF MainSyncs, Gets, TypeOK
  <2>2. net["main"][1].id \in Actions /\ syncing \in Actions
    BY <2>1, MessageTypes DEF SyncShape
  <2>3. store' \in [Peers -> Seq(Actions)]
    BY <1>0, <1>3, <2>1, <2>2, ReduceType DEF MainSyncs
  <2>4. /\ net' \in [Peers -> Seq(Message)]
        /\ Len(net["main"]) = Len(net'["main"]) + 1 /\ Len(net'["main"]) \in Nat
        /\ \A n \in 1..Len(net'["main"]) : net'["main"][n] = net["main"][n + 1]
    BY <1>0, <1>3, <2>1, ReceiveLemma DEF MainSyncs, TypeOK
  <2>5. ASSUME NEW n \in 1..Len(net'["main"]) PROVE net'["main"][n].type # "sync-store"
    <3>1. n + 1 \in 1..Len(net["main"]) /\ n + 1 # 1
      BY <2>4
    <3> QED
      BY <2>1, <2>4, <3>1 DEF SyncShape
  <2>6. SyncShape'
    BY <1>3, <2>2, <2>5 DEF SyncShape, MainSyncs
  <2> QED
    BY <1>a, <1>3, <2>3, <2>4, <2>6 DEF MainSyncs, TypeOK, SyncTypeOK
<1>4. CASE SendSyncReturns
  <2>1. syncing \in Actions
    BY <1>4 DEF SendSyncReturns, SyncShape
  <2>2. store' \in [Peers -> Seq(Actions)]
    BY <1>0, <1>4, <2>1, ReduceType DEF SendSyncReturns
  <2>3. SyncShape'
    BY <1>4 DEF SendSyncReturns, SyncShape
  <2> QED
    BY <1>a, <1>4, <2>2, <2>3 DEF SendSyncReturns, TypeOK, SyncTypeOK
<1>5. CASE ClientSyncs
  <2>1. /\ net["client"] # <<>> /\ Head(net["client"]).type = "sync-store"
        /\ Head(net["client"]) \in Message
    BY <1>0, <1>5, ReceiveLemma DEF ClientSyncs, Gets, TypeOK
  <2>2. store' \in [Peers -> Seq(Actions)]
    BY <1>0, <1>5, <2>1, MessageTypes, ReduceType DEF ClientSyncs
  <2>3. net' \in [Peers -> Seq(Message)]
    BY <1>0, <1>5, <2>1, ReceiveLemma DEF ClientSyncs, TypeOK
  <2>4. SyncShape'
    BY <1>0, <1>5, <2>1, ShapeKeptByReceive DEF ClientSyncs
  <2> QED
    BY <1>a, <1>5, <2>2, <2>3, <2>4 DEF ClientSyncs, TypeOK, SyncTypeOK
<1> QED
  BY <1>1, <1>2, <1>3, <1>4, <1>5 DEF SyncNext, SyncProgress

\* What a store has reduced are actions.
LEMMA ReducedType ==
  ASSUME TypeOK, NEW p \in Peers
  PROVE  Reduced(p) \subseteq Actions
BY DEF TypeOK, SyncTypeOK, Reduced, ToSet

\* Before it is received a message is of its type.
LEMMA HeadType ==
  ASSUME TypeOK, NEW p \in Peers, net[p] # <<>>
  PROVE  /\ Head(net[p]) \in Message /\ Head(net[p]) = net[p][1]
         /\ 1 \in 1..Len(net[p])
BY TailAt DEF TypeOK

-----------------------------------------------------------------------------
(***************************************************************************)
(* The calls.  A call has at most one message on its way, which fits how   *)
(* far the call is: that is why no call executes or settles twice.         *)
(***************************************************************************)
IsCall(m) == m.type \in {"remote-call", "answer"}
SameCall(m, o) == IsCall(m) /\ IsCall(o) /\ m.id = o.id

\* ph, ca and re stand for phase, caller and result, of one state or the next.
Fits(p, m, ph, ca, re) ==
  /\ m.type = "remote-call" => ph[m.id] = "requested" /\ ca[m.id] = Peer(p)
  /\ m.type = "answer" => ph[m.id] = "ended" /\ ca[m.id] = p /\ m.result = re[m.id]

CallersKnown == \A c \in Calls : phase[c] # "none" => caller[c] \in Peers

CallShape ==
  /\ CallersKnown
  /\ \A p \in Peers : \A n \in 1..Len(net[p]) : Fits(p, net[p][n], phase, caller, result)
  /\ \A p \in Peers : \A n, k \in 1..Len(net[p]) :
       SameCall(net[p][n], net[p][k]) => n = k

\* The calls' steps keep the types.
LEMMA CallsKeepTypes ==
  ASSUME TypeInv, CallShape,
         \/ Delivery
         \/ \E c \in Calls : \/ \E p \in Peers : RemoteCall(p, c)
                             \/ \E r \in Results : CommandEnds(c, r)
  PROVE  TypeInv'
<1> USE SyncAssumption, CallsAssumption DEF TypeInv, StoresIdle, callVars
<1>0. "main" \in Peers /\ "client" \in Peers
  BY DEF Peers
<1>a. ASSUME StoresIdle PROVE SyncTypeOK'
  BY <1>a DEF TypeOK, SyncTypeOK
<1>1. ASSUME NEW c \in Calls, NEW p \in Peers, RemoteCall(p, c) PROVE TypeInv'
  <2>1. caller'[c] = p
    BY <1>1 DEF RemoteCall, TypeOK
  <2>2. Call(c) \in Message /\ Call(c).type = "remote-call"
    BY <1>1, <2>1, ReducedType DEF Call, Message
  <2>3. net' \in [Peers -> Seq(Message)] /\ SyncShape'
    <3>1. CASE HasSender(p)
      <4>1. Peer(p) \in Peers /\ Send(Peer(p), Call(c))
        BY <1>1, <3>1, PeerType DEF RemoteCall
      <4> HIDE DEF StoresIdle
      <4>2. UNCHANGED <<syncing, returned>>
        BY <1>1 DEF RemoteCall, StoresIdle
      <4>3. net' \in [Peers -> Seq(Message)]
        BY <2>2, <4>1, SendLemma DEF TypeOK
      <4> QED
        BY <2>2, <4>1, <4>2, <4>3, ShapeKeptBySend
    <3>2. CASE ~HasSender(p)
      BY <1>1, <3>2 DEF RemoteCall, TypeOK, SyncShape
    <3> QED
      BY <3>1, <3>2
  <2>4. caller' \in [Calls -> Peers \cup {Nothing}]
    BY <1>1 DEF RemoteCall, TypeOK
  <2>5. phase' \in [Calls -> {"none", "unsent", "requested", "executing", "ended", "settled"}]
    BY <1>1 DEF RemoteCall, TypeOK
  <2> QED
    BY <1>1, <1>a, <2>3, <2>4, <2>5 DEF RemoteCall, TypeOK
<1>2. CASE PingArrives
  <2>1. net["main"] # <<>> /\ Receive("main")
    BY <1>2 DEF PingArrives, Gets
  <2>2. net' \in [Peers -> Seq(Message)] /\ SyncShape'
    BY <1>0, <1>2, <2>1, ReceiveLemma, ShapeKeptByReceive DEF PingArrives, TypeOK
  <2> QED
    BY <1>2, <1>a, <2>2 DEF PingArrives, TypeOK
<1>3. ASSUME NEW p \in Peers, OnIpcMessage(p) PROVE TypeInv'
  <2>1. net[p] # <<>> /\ Receive(p) /\ Head(net[p]).type = "remote-call"
    BY <1>3 DEF OnIpcMessage, Gets
  <2>2. net' \in [Peers -> Seq(Message)] /\ SyncShape'
    BY <1>3, <2>1, ReceiveLemma, ShapeKeptByReceive DEF OnIpcMessage, TypeOK
  <2>3. phase' \in [Calls -> {"none", "unsent", "requested", "executing", "ended", "settled"}]
    BY <1>3 DEF OnIpcMessage, TypeOK
  <2> QED
    BY <1>3, <1>a, <2>2, <2>3 DEF OnIpcMessage, TypeOK
<1>4. ASSUME NEW p \in Peers, AnswerArrives(p) PROVE TypeInv'
  <2>1. /\ net[p] # <<>> /\ Receive(p) /\ Head(net[p]).type = "answer"
        /\ Head(net[p]).result \in Results
    BY <1>4, HeadType, MessageTypes DEF AnswerArrives, Gets
  <2>2. net' \in [Peers -> Seq(Message)] /\ SyncShape'
    BY <1>4, <2>1, ReceiveLemma, ShapeKeptByReceive DEF AnswerArrives, TypeOK
  <2>3. phase' \in [Calls -> {"none", "unsent", "requested", "executing", "ended", "settled"}]
    BY <1>4 DEF AnswerArrives, Settle, TypeOK
  <2>4. answer' \in [Calls -> {Delivered(r) : r \in Results} \cup {Nothing}]
    BY <1>4, <2>1 DEF AnswerArrives, Settle, TypeOK
  <2> QED
    BY <1>4, <1>a, <2>2, <2>3, <2>4 DEF AnswerArrives, TypeOK
<1>5. ASSUME NEW c \in Calls, NEW r \in Results, CommandEnds(c, r) PROVE TypeInv'
  <2>0. caller[c] \in Peers
    BY <1>5 DEF CommandEnds, Ended, CallShape, CallersKnown
  <2>1. Answer(c, r) \in Message /\ Answer(c, r).type = "answer"
    BY <1>5, <2>0, PeerType, ReducedType DEF Answer, Message
  <2>2. net' \in [Peers -> Seq(Message)] /\ SyncShape'
    <3>1. CASE r = "no reason"
      <4>1. UNCHANGED <<net, syncing, returned>>
        BY <1>5, <3>1 DEF CommandEnds, Ended
      <4> QED
        BY <4>1 DEF TypeOK, SyncShape
    <3>2. CASE r # "no reason"
      <4>1. Send(caller[c], Answer(c, r)) /\ UNCHANGED <<syncing, returned>>
        BY <1>5, <3>2 DEF CommandEnds, Ended
      <4>2. caller[c] \in Peers /\ Answer(c, r).type # "sync-store"
        BY <2>0, <2>1
      <4>3. net' \in [Peers -> Seq(Message)]
        BY <2>1, <4>1, <4>2, SendLemma DEF TypeOK
      <4>4. SyncShape'
        BY <2>1, <4>1, <4>2, ShapeKeptBySend
      <4> QED
        BY <4>3, <4>4
    <3> QED
      BY <3>1, <3>2
  <2>3. /\ phase' \in [Calls -> {"none", "unsent", "requested", "executing", "ended", "settled"}]
        /\ result' \in [Calls -> Results \cup {Nothing}]
    BY <1>5 DEF CommandEnds, Ended, TypeOK
  <2> QED
    BY <1>5, <1>a, <2>2, <2>3 DEF CommandEnds, Ended, TypeOK
<1> QED
  BY <1>1, <1>2, <1>3, <1>4, <1>5 DEF Delivery

\* A message on its way to p fits the state after the step.
FitsNext(p, m) == Fits(p, m, phase', caller', result')

\* CallShape after a message m was sent to p.
LEMMA CallShapeSend ==
  ASSUME TypeOK, CallShape, CallersKnown', NEW p \in Peers, NEW m \in Message, Send(p, m),
         \A q \in Peers : \A n \in 1..Len(net[q]) : FitsNext(q, net[q][n]),
         FitsNext(p, m),
         \A n \in 1..Len(net[p]) : ~SameCall(m, net[p][n])
  PROVE  CallShape'
<1>1. /\ Len(net[p]) \in Nat /\ Len(net'[p]) = Len(net[p]) + 1
      /\ \A n \in 1..Len(net[p]) : net'[p][n] = net[p][n]
      /\ net'[p][Len(net[p]) + 1] = m
      /\ \A q \in Peers : q # p => net'[q] = net[q]
  BY SendLemma DEF TypeOK
<1>2. ASSUME NEW q \in Peers, NEW n \in 1..Len(net'[q])
      PROVE  Fits(q, net'[q][n], phase', caller', result')
  <2>1. CASE q = p
    <3>1. n \in 1..Len(net[p]) \/ n = Len(net[p]) + 1
      BY <1>1, <2>1
    <3> QED
      BY <1>1, <2>1, <3>1 DEF FitsNext
  <2>2. CASE q # p
    BY <1>1, <2>2 DEF FitsNext
  <2> QED
    BY <2>1, <2>2
<1>3. ASSUME NEW q \in Peers, NEW n \in 1..Len(net'[q]), NEW k \in 1..Len(net'[q]),
             SameCall(net'[q][n], net'[q][k])
      PROVE  n = k
  <2>1. CASE q = p
    <3>1. n \in 1..Len(net[p]) \/ n = Len(net[p]) + 1
      BY <1>1, <2>1
    <3>2. k \in 1..Len(net[p]) \/ k = Len(net[p]) + 1
      BY <1>1, <2>1
    <3>3. SameCall(net'[q][k], net'[q][n])
      BY <1>3 DEF SameCall
    <3> QED
      BY <1>1, <1>3, <2>1, <3>1, <3>2, <3>3 DEF CallShape
  <2>2. CASE q # p
    BY <1>1, <1>3, <2>2 DEF CallShape
  <2> QED
    BY <2>1, <2>2
<1> QED
  BY <1>2, <1>3 DEF CallShape

\* CallShape after the head of p's channel was received.
LEMMA CallShapeReceive ==
  ASSUME TypeOK, CallShape, CallersKnown', NEW p \in Peers, net[p] # <<>>, Receive(p),
         \A q \in Peers : \A n \in 1..Len(net[q]) :
           q # p \/ n # 1 => FitsNext(q, net[q][n])
  PROVE  CallShape'
<1>1. /\ Len(net'[p]) \in Nat /\ Len(net[p]) = Len(net'[p]) + 1
      /\ \A n \in 1..Len(net'[p]) : net'[p][n] = net[p][n + 1]
      /\ \A q \in Peers : q # p => net'[q] = net[q]
  BY ReceiveLemma DEF TypeOK
<1>2. \A n \in 1..Len(net'[p]) : n + 1 \in 1..Len(net[p]) /\ n + 1 # 1
  BY <1>1
<1>3. ASSUME NEW q \in Peers, NEW n \in 1..Len(net'[q])
      PROVE  Fits(q, net'[q][n], phase', caller', result')
  BY <1>1, <1>2 DEF FitsNext
<1>4. ASSUME NEW q \in Peers, NEW n \in 1..Len(net'[q]), NEW k \in 1..Len(net'[q]),
             SameCall(net'[q][n], net'[q][k])
      PROVE  n = k
  <2>1. CASE q = p
    <3>1. SameCall(net[p][n + 1], net[p][k + 1])
      BY <1>1, <1>4, <2>1
    <3>2. n + 1 = k + 1
      BY <1>2, <2>1, <3>1 DEF CallShape
    <3> QED
      BY <3>2
  <2>2. CASE q # p
    BY <1>1, <1>4, <2>2 DEF CallShape
  <2> QED
    BY <2>1, <2>2
<1> QED
  BY <1>3, <1>4 DEF CallShape

\* A message on its way belongs to a call, and is of its type.
LEMMA OnItsWay ==
  ASSUME TypeOK, CallShape, NEW q \in Peers, NEW n \in 1..Len(net[q])
  PROVE  /\ net[q][n] \in Message
         /\ Fits(q, net[q][n], phase, caller, result)
         /\ IsCall(net[q][n]) => net[q][n].id \in Calls
<1>1. net[q][n] \in Message
  BY DEF TypeOK
<1> QED
  BY <1>1, MessageTypes DEF CallShape, IsCall

\* The steps of the stores keep CallShape.
LEMMA SyncKeepsCalls ==
  ASSUME TypeInv, CallShape, SyncNext, StoreStep
  PROVE  CallShape'
<1> USE DEF TypeInv
<1>1. UNCHANGED <<phase, caller, result>> /\ CallersKnown'
  BY DEF StoreStep, callVars, CallShape, CallersKnown
<1>2. \A q \in Peers : \A n \in 1..Len(net[q]) : FitsNext(q, net[q][n])
  BY <1>1 DEF CallShape, FitsNext, Fits
<1>3. "main" \in Peers /\ "client" \in Peers
  BY DEF Peers
<1>4. ASSUME NEW p \in Peers, Dispatches(Peer(p)), Send(p, Sync(NextAction)) PROVE CallShape'
  <2>1. Sync(NextAction) \in Message
    BY <1>4, PeerType, DispatchType
  <2>2. ~IsCall(Sync(NextAction)) /\ FitsNext(p, Sync(NextAction))
    BY DEF Sync, IsCall, FitsNext, Fits
  <2> QED
    BY <1>1, <1>2, <1>4, <2>1, <2>2, CallShapeSend DEF SameCall
<1>5. CASE MainDispatches
  BY <1>3, <1>4, <1>5 DEF MainDispatches, Peer
<1>6. CASE ClientDispatches
  BY <1>3, <1>4, <1>6 DEF ClientDispatches, Peer
<1>7. CASE MainSyncs
  BY <1>1, <1>2, <1>3, <1>7, CallShapeReceive DEF MainSyncs, Gets
<1>8. CASE SendSyncReturns
  BY <1>1, <1>8 DEF SendSyncReturns, CallShape
<1>9. CASE ClientSyncs
  BY <1>1, <1>2, <1>3, <1>9, CallShapeReceive DEF ClientSyncs, Gets
<1> QED
  BY <1>5, <1>6, <1>7, <1>8, <1>9 DEF SyncNext, SyncProgress

\* The steps of the calls keep CallShape.
LEMMA CallsKeepCalls ==
  ASSUME TypeInv, CallShape,
         \/ Delivery
         \/ \E c \in Calls : \/ \E p \in Peers : RemoteCall(p, c)
                             \/ \E r \in Results : CommandEnds(c, r)
  PROVE  CallShape'
<1> USE DEF TypeInv
<1>0. "main" \in Peers /\ "client" \in Peers
  BY DEF Peers
<1>1. ASSUME NEW c \in Calls, NEW p \in Peers, RemoteCall(p, c) PROVE CallShape'
  <2>1. /\ phase[c] = "none" /\ caller' = [caller EXCEPT ![c] = p]
        /\ phase' = [phase EXCEPT ![c] = IF HasSender(p) THEN "requested" ELSE "unsent"]
        /\ UNCHANGED result
    BY <1>1, CallsAssumption DEF RemoteCall, Calls
  <2>2. CallersKnown'
    BY <2>1 DEF CallShape, CallersKnown, TypeOK
  <2>3. \A q \in Peers : \A n \in 1..Len(net[q]) :
          FitsNext(q, net[q][n]) /\ (IsCall(net[q][n]) => net[q][n].id # c)
    <3> TAKE q \in Peers
    <3> TAKE n \in 1..Len(net[q])
    <3>1. IsCall(net[q][n]) => net[q][n].id \in Calls /\ net[q][n].id # c
      BY <2>1, OnItsWay DEF IsCall, Fits
    <3> QED
      BY <2>1, <3>1, OnItsWay DEF FitsNext, Fits, IsCall, TypeOK
  <2>4. CASE HasSender(p)
    <3>1. Send(Peer(p), Call(c)) /\ phase'[c] = "requested" /\ caller'[c] = p
      BY <1>1, <2>1, <2>4 DEF RemoteCall, TypeOK
    <3>2. Call(c) \in Message /\ Call(c).type = "remote-call" /\ Call(c).id = c
      BY <3>1, ReducedType DEF Call, Message
    <3>3. FitsNext(Peer(p), Call(c))
      BY <3>1, <3>2, PeerType DEF FitsNext, Fits
    <3>4. Peer(p) \in Peers
      BY PeerType
    <3>5. \A n \in 1..Len(net[Peer(p)]) : ~SameCall(Call(c), net[Peer(p)][n])
      BY <2>3, <3>2, <3>4 DEF SameCall
    <3> QED
      BY <2>2, <2>3, <3>1, <3>2, <3>3, <3>4, <3>5, CallShapeSend
  <2>5. CASE ~HasSender(p)
    <3>1. UNCHANGED net
      BY <1>1, <2>5 DEF RemoteCall
    <3> QED
      BY <2>2, <2>3, <3>1 DEF CallShape, FitsNext
  <2> QED
    BY <2>4, <2>5
<1>2. CASE PingArrives
  <2>1. UNCHANGED <<phase, caller, result>> /\ CallersKnown'
    BY <1>2 DEF PingArrives, callVars, CallShape, CallersKnown
  <2>2. \A q \in Peers : \A n \in 1..Len(net[q]) : FitsNext(q, net[q][n])
    BY <2>1 DEF CallShape, FitsNext, Fits
  <2> QED
    BY <1>0, <1>2, <2>1, <2>2, CallShapeReceive DEF PingArrives, Gets
<1>3. ASSUME NEW p \in Peers, NEW to \in {"executing", "settled"},
             net[p] # <<>>, Receive(p), IsCall(Head(net[p])),
             phase' = [phase EXCEPT ![Head(net[p]).id] = to],
             UNCHANGED <<caller, result>>
      PROVE  CallShape'
  <2> DEFINE h == net[p][1]
  <2>1. h = Head(net[p]) /\ 1 \in 1..Len(net[p]) /\ IsCall(h)
    BY <1>3, HeadType
  <2>2. h.id \in Calls /\ Fits(p, h, phase, caller, result)
    BY <2>1, OnItsWay
  <2>3. CallersKnown'
    BY <1>3, <2>1, <2>2 DEF Fits, IsCall, CallShape, CallersKnown, TypeOK
  <2>4. ASSUME NEW q \in Peers, NEW n \in 1..Len(net[q]), q # p \/ n # 1
        PROVE  FitsNext(q, net[q][n])
    <3>1. IsCall(net[q][n]) => net[q][n].id # h.id
      <4>1. CASE q = p
        BY <2>1, <2>4, <4>1 DEF CallShape, SameCall
      <4>2. CASE q # p
        BY <2>1, <2>2, <4>2, OnItsWay, PeerType DEF Fits, IsCall
      <4> QED
        BY <4>1, <4>2
    <3> QED
      BY <1>3, <2>1, <2>2, <3>1, OnItsWay DEF FitsNext, Fits, IsCall, TypeOK
  <2> QED
    BY <1>3, <2>3, <2>4, CallShapeReceive
<1>4. ASSUME NEW p \in Peers, OnIpcMessage(p) PROVE CallShape'
  BY <1>3, <1>4 DEF OnIpcMessage, Gets, IsCall
<1>5. ASSUME NEW p \in Peers, AnswerArrives(p) PROVE CallShape'
  <2>1. phase[Head(net[p]).id] = "ended" /\ IsCall(Head(net[p])) /\ net[p] # <<>>
    BY <1>5, HeadType, OnItsWay DEF AnswerArrives, Gets, IsCall, Fits
  <2>2. phase' = [phase EXCEPT ![Head(net[p]).id] = "settled"]
    BY <1>5, <2>1 DEF AnswerArrives, Settle
  <2> QED
    BY <1>3, <1>5, <2>1, <2>2 DEF AnswerArrives
<1>6. ASSUME NEW c \in Calls, NEW r \in Results, CommandEnds(c, r) PROVE CallShape'
  <2>1. /\ phase[c] = "executing" /\ phase' = [phase EXCEPT ![c] = "ended"]
        /\ result' = [result EXCEPT ![c] = r] /\ UNCHANGED caller
    BY <1>6 DEF CommandEnds, Ended
  <2>2. CallersKnown' /\ caller[c] \in Peers
    BY <2>1 DEF CallShape, CallersKnown, TypeOK
  <2>3. \A q \in Peers : \A n \in 1..Len(net[q]) :
          FitsNext(q, net[q][n]) /\ (IsCall(net[q][n]) => net[q][n].id # c)
    <3> TAKE q \in Peers
    <3> TAKE n \in 1..Len(net[q])
    <3>1. IsCall(net[q][n]) => net[q][n].id \in Calls /\ net[q][n].id # c
      BY <2>1, OnItsWay DEF IsCall, Fits
    <3> QED
      BY <2>1, <3>1, OnItsWay DEF FitsNext, Fits, IsCall, TypeOK
  <2>4. CASE r # "no reason"
    <3>1. Send(caller[c], Answer(c, r)) /\ phase'[c] = "ended" /\ result'[c] = r
      BY <1>6, <2>1, <2>4 DEF CommandEnds, TypeOK
    <3>2. /\ Answer(c, r) \in Message /\ Answer(c, r).type = "answer"
          /\ Answer(c, r).id = c /\ Answer(c, r).result = r
      BY <2>2, PeerType, ReducedType DEF Answer, Message
    <3>3. FitsNext(caller[c], Answer(c, r))
      BY <2>1, <3>1, <3>2 DEF FitsNext, Fits
    <3>4. \A n \in 1..Len(net[caller[c]]) : ~SameCall(Answer(c, r), net[caller[c]][n])
      BY <2>2, <2>3, <3>2 DEF SameCall
    <3> QED
      BY <2>2, <2>3, <3>1, <3>2, <3>3, <3>4, CallShapeSend
  <2>5. CASE r = "no reason"
    <3>1. UNCHANGED net
      BY <1>6, <2>5 DEF CommandEnds
    <3> QED
      BY <2>2, <2>3, <3>1 DEF CallShape, FitsNext
  <2> QED
    BY <2>4, <2>5
<1> QED
  BY <1>1, <1>2, <1>4, <1>5, <1>6 DEF Delivery

\* The inductive invariant of the link between the two processes.
LinkInv == TypeInv /\ CallShape

\* The types and shapes hold in every reachable state: sendSync blocks the
\* client, and a call has one message at a time on its way.
THEOREM LinkInvariant == Spec => []LinkInv
<1> USE SyncAssumption, CallsAssumption
<1>1. Init => LinkInv
  <2> SUFFICES ASSUME Init PROVE LinkInv
    OBVIOUS
  <2>1. /\ net \in [Peers -> Seq(Message)]
        /\ net["main"] = <<Ping>> /\ net["client"] = <<>>
        /\ Ping.type = "ping" /\ Peers = {"main", "client"}
    <3>1. Ping \in Message /\ Ping.type = "ping" /\ Peers = {"main", "client"}
      BY DEF Message, Ping, Peers
    <3>2. <<Ping>> \in Seq(Message) /\ <<>> \in Seq(Message)
      BY <3>1
    <3>3. net = [main |-> <<Ping>>, client |-> <<>>]
      BY DEF Init
    <3>4. /\ DOMAIN [main |-> <<Ping>>, client |-> <<>>] = Peers
          /\ net["main"] = <<Ping>> /\ net["client"] = <<>>
      BY <3>1, <3>3
    <3>5. net = [p \in Peers |-> IF p = "main" THEN <<Ping>> ELSE <<>>]
      BY <3>1, <3>3, <3>4
    <3> QED
      BY <3>1, <3>2, <3>4, <3>5
  <2>2. \A p \in Peers : \A n \in 1..Len(net[p]) : net[p][n] = Ping /\ n = 1
    <3> TAKE p \in Peers
    <3> TAKE n \in 1..Len(net[p])
    <3>1. net[p] = <<Ping>> \/ net[p] = <<>>
      BY <2>1
    <3>2. Len(<<Ping>>) = 1 /\ Len(<<>>) = 0 /\ <<Ping>>[1] = Ping
      OBVIOUS
    <3>3. n \in 1..Len(net[p]) /\ n \in Nat /\ n >= 1 /\ n <= Len(net[p])
      BY <3>1, <3>2
    <3>4. CASE net[p] = <<>>
      <4>1. Len(net[p]) = 0
        BY <3>2, <3>4
      <4> QED
        BY <3>3, <4>1
    <3>5. CASE net[p] = <<Ping>>
      <4>1. Len(net[p]) = 1
        BY <3>2, <3>5
      <4>2. n = 1
        BY <3>3, <4>1
      <4> QED
        BY <3>2, <3>5, <4>2
    <3> QED
      BY <3>1, <3>4, <3>5
  <2>3. TypeOK
    <3>0. <<>> \in Seq(Peers) /\ <<>> \in Seq(Actions) /\ Len(<<>>) = 0
      OBVIOUS
    <3>1. dispatched \in Seq(Peers) /\ Len(dispatched) <= MaxActions
      BY <3>0 DEF Init, SyncInit
    <3>2. store \in [Peers -> Seq(Actions)]
      BY <3>0 DEF Init, SyncInit
    <3>3. SyncTypeOK
      BY <3>1, <3>2 DEF Init, SyncInit, SyncTypeOK, NoAction
    <3> QED
      BY <2>1, <3>3 DEF Init, TypeOK
  <2>4. SyncShape
    BY <2>1, <2>2 DEF Init, SyncInit, SyncShape, Peers
  <2>5. CallShape
    BY <2>1, <2>2 DEF Init, CallShape, CallersKnown, Fits, SameCall, IsCall, TypeOK
  <2> QED
    BY <2>3, <2>4, <2>5 DEF LinkInv, TypeInv
<1>2. LinkInv /\ [Next]_vars => LinkInv'
  <2> SUFFICES ASSUME LinkInv, [Next]_vars PROVE LinkInv'
    OBVIOUS
  <2>1. CASE SyncNext /\ UNCHANGED <<callVars, mainSender>>
    BY <2>1, SyncKeepsTypes, SyncKeepsCalls DEF LinkInv, StoreStep
  <2>2. CASE \/ Delivery
             \/ \E c \in Calls : \/ \E p \in Peers : RemoteCall(p, c)
                                 \/ \E r \in Results : CommandEnds(c, r)
    BY <2>2, CallsKeepTypes, CallsKeepCalls DEF LinkInv
  <2>3. CASE UNCHANGED vars
    BY <2>3 DEF vars, syncVars, callVars, LinkInv, TypeInv, TypeOK, SyncTypeOK,
                SyncShape, CallShape, CallersKnown, Fits
  <2> QED
    BY <2>1, <2>2, <2>3 DEF Next
<1> QED
  BY <1>1, <1>2, PTL DEF Spec

\* Every variable keeps its type.
THEOREM TypeCorrect == Spec => []TypeOK
<1>1. LinkInv => TypeOK
  BY DEF LinkInv, TypeInv
<1> QED
  BY <1>1, LinkInvariant, PTL

-----------------------------------------------------------------------------
(***************************************************************************)
(* Order.  What main has reduced the client has too, once it has taken the *)
(* messages before a call or an answer, and sendSync has returned; what    *)
(* the client has reduced main has long had.                               *)
(***************************************************************************)
\* Has the client reduced action a by the time it takes its n-th message?
HasBefore(n, a) ==
  \/ a \in Reduced("client")
  \/ returned /\ a = syncing
  \/ \E k \in 1..Len(net["client"]) :
       k < n /\ net["client"][k].type = "sync-store" /\ net["client"][k].id = a

MainIsAhead ==
  /\ Reduced("client") \subseteq Reduced("main")
  /\ returned => syncing \in Reduced("main")
  /\ \A k \in 1..Len(net["client"]) :
       net["client"][k].type = "sync-store" => net["client"][k].id \in Reduced("main")
  /\ \A k \in 1..Len(net["main"]) :
       IsCall(net["main"][k]) => net["main"][k].seen \subseteq Reduced("main")

ClientCatchesUp ==
  /\ \A a \in Reduced("main") : HasBefore(Len(net["client"]) + 1, a)
  /\ \A n \in 1..Len(net["client"]) :
       IsCall(net["client"][n]) => \A a \in net["client"][n].seen : HasBefore(n, a)

OrderInv == MainIsAhead /\ ClientCatchesUp

\* Reducing an action adds it to one store.
LEMMA ReducedAfter ==
  ASSUME TypeOK, NEW p \in Peers, NEW a \in Actions, Reduce(p, a)
  PROVE  /\ Reduced(p)' = Reduced(p) \cup {a}
         /\ \A q \in Peers : q # p => Reduced(q)' = Reduced(q)
<1>1. store'[p] = Append(store[p], a) /\ \A q \in Peers : q # p => store'[q] = store[q]
  BY DEF TypeOK, SyncTypeOK, Reduce
<1>2. store[p] \in Seq(Actions)
  BY DEF TypeOK, SyncTypeOK
<1>3. Reduced(p)' = ToSet(store'[p])
  BY DEF Reduced
<1> QED
  BY <1>1, <1>2, <1>3, ToSetAppend DEF Reduced

\* A message sent to the client comes after all that main has reduced.
LEMMA OrderKeptToClient ==
  ASSUME TypeOK, OrderInv, NEW m \in Message, Send("client", m),
         UNCHANGED <<syncing, returned>>, Reduced("client")' = Reduced("client"),
         \/ /\ m.type = "sync-store" /\ Reduced("main")' = Reduced("main") \cup {m.id}
         \/ /\ IsCall(m) /\ m.seen = Reduced("main") /\ Reduced("main")' = Reduced("main")
  PROVE  OrderInv'
<1>0. PICK l \in Nat : l = Len(net["client"])
  BY SendLemma DEF TypeOK, Peers
<1>1. /\ Len(net["client"]) = l /\ Len(net'["client"]) = l + 1
      /\ \A n \in 1..l : net'["client"][n] = net["client"][n]
      /\ net'["client"][l + 1] = m /\ net'["main"] = net["main"]
  BY <1>0, SendLemma DEF TypeOK, Peers
<1>2. Reduced("main") \subseteq Reduced("main")'
  OBVIOUS
<1>3. IsCall(m) => m.type # "sync-store"
  BY DEF IsCall
<1>4. MainIsAhead'
  <2>1. ASSUME NEW k \in 1..Len(net'["client"]), net'["client"][k].type = "sync-store"
        PROVE  net'["client"][k].id \in Reduced("main")'
    BY <1>1, <1>2, <1>3, <2>1 DEF OrderInv, MainIsAhead
  <2> QED
    BY <1>1, <1>2, <2>1 DEF OrderInv, MainIsAhead
<1>5. ASSUME NEW a, NEW n \in 1..(l + 1), HasBefore(n, a)
      PROVE  /\ HasBefore(n, a)' /\ HasBefore(l + 2, a)'
  <2>1. 1..l \subseteq 1..(l + 1) /\ \A k \in 1..l : k < n => k < l + 2
    BY <1>1
  <2> QED
    BY <1>1, <1>5, <2>1 DEF HasBefore
<1>6. ASSUME NEW a \in Reduced("main")' PROVE HasBefore(l + 2, a)'
  <2>1. l + 1 \in 1..(l + 1) /\ l + 1 < l + 2 /\ l + 1 \in 1..Len(net'["client"])
    BY <1>1
  <2>2. CASE a \in Reduced("main")
    <3>1. HasBefore(l + 1, a)
      BY <1>1, <2>2 DEF OrderInv, ClientCatchesUp
    <3> QED
      BY <1>5, <2>1, <3>1
  <2>3. CASE a \notin Reduced("main")
    <3>1. m.type = "sync-store" /\ a = m.id
      BY <1>3, <1>6, <2>3
    <3> QED
      BY <1>1, <2>1, <3>1 DEF HasBefore
  <2> QED
    BY <2>2, <2>3
<1>7. ASSUME NEW n \in 1..Len(net'["client"]), IsCall(net'["client"][n]),
             NEW a \in net'["client"][n].seen
      PROVE  HasBefore(n, a)'
  <2>1. CASE n \in 1..l
    <3>1. HasBefore(n, a)
      BY <1>1, <1>7, <2>1 DEF OrderInv, ClientCatchesUp
    <3>2. n \in 1..(l + 1)
      BY <1>1, <2>1
    <3> QED
      BY <1>5, <3>1, <3>2
  <2>2. CASE n = l + 1
    <3>1. a \in Reduced("main")
      BY <1>1, <1>3, <1>7, <2>2 DEF IsCall
    <3>2. HasBefore(l + 1, a) /\ l + 1 \in 1..(l + 1)
      BY <1>1, <3>1 DEF OrderInv, ClientCatchesUp
    <3> QED
      BY <1>5, <2>2, <3>2
  <2> QED
    BY <1>1, <2>1, <2>2
<1>8. Len(net'["client"]) + 1 = l + 2
  BY <1>1
<1> QED
  BY <1>4, <1>6, <1>7, <1>8 DEF OrderInv, ClientCatchesUp

\* A message sent to main finds there what the client has reduced.
LEMMA OrderKeptToMain ==
  ASSUME TypeOK, OrderInv, NEW m \in Message, Send("main", m), ~returned,
         UNCHANGED <<store, returned>>,
         IsCall(m) => m.seen = Reduced("client")
  PROVE  OrderInv'
<1>1. /\ Len(net["main"]) \in Nat /\ Len(net'["main"]) = Len(net["main"]) + 1
      /\ \A n \in 1..Len(net["main"]) : net'["main"][n] = net["main"][n]
      /\ net'["main"][Len(net["main"]) + 1] = m /\ net'["client"] = net["client"]
  BY SendLemma DEF TypeOK, Peers
<1>2. \A p \in Peers : Reduced(p)' = Reduced(p)
  BY DEF Reduced
<1>3. "main" \in Peers /\ "client" \in Peers
  BY DEF Peers
<1>4. ASSUME NEW k \in 1..Len(net'["main"]), IsCall(net'["main"][k])
      PROVE  net'["main"][k].seen \subseteq Reduced("main")'
  <2>1. k \in 1..Len(net["main"]) \/ k = Len(net["main"]) + 1
    BY <1>1
  <2> QED
    BY <1>1, <1>2, <1>3, <1>4, <2>1 DEF OrderInv, MainIsAhead
<1>5. \A n, a : HasBefore(n, a) => HasBefore(n, a)'
  BY <1>1, <1>2, <1>3 DEF HasBefore
<1> QED
  BY <1>1, <1>2, <1>3, <1>4, <1>5 DEF OrderInv, MainIsAhead, ClientCatchesUp

\* A message taken by main may tell it an action, which the client then gets back.
LEMMA OrderKeptFromMain ==
  ASSUME TypeOK, OrderInv, net["main"] # <<>>, Receive("main"), UNCHANGED syncing,
         Reduced("client")' = Reduced("client"),
         \/ returned' = returned /\ Reduced("main")' = Reduced("main")
         \/ returned' /\ Reduced("main")' = Reduced("main") \cup {syncing}
  PROVE  OrderInv'
<1>1. /\ Len(net'["main"]) \in Nat /\ Len(net["main"]) = Len(net'["main"]) + 1
      /\ \A n \in 1..Len(net'["main"]) : net'["main"][n] = net["main"][n + 1]
      /\ net'["client"] = net["client"]
  BY ReceiveLemma DEF TypeOK, Peers
<1>2. \A n \in 1..Len(net'["main"]) : n + 1 \in 1..Len(net["main"])
  BY <1>1
<1>3. \A n, a : HasBefore(n, a) => HasBefore(n, a)'
  BY <1>1 DEF HasBefore
<1>4. MainIsAhead'
  <2>1. Reduced("main") \subseteq Reduced("main")'
    OBVIOUS
  <2>2. Reduced("client")' \subseteq Reduced("main")' /\ (returned' => syncing' \in Reduced("main")')
    BY DEF OrderInv, MainIsAhead
  <2>3. \A k \in 1..Len(net'["client"]) :
          net'["client"][k].type = "sync-store" => net'["client"][k].id \in Reduced("main")'
    BY <1>1, <2>1 DEF OrderInv, MainIsAhead
  <2>4. \A k \in 1..Len(net'["main"]) :
          IsCall(net'["main"][k]) => net'["main"][k].seen \subseteq Reduced("main")'
    BY <1>1, <1>2, <2>1 DEF OrderInv, MainIsAhead
  <2> QED
    BY <2>2, <2>3, <2>4 DEF MainIsAhead
<1>5. \A a \in Reduced("main")' : HasBefore(Len(net["client"]) + 1, a)'
  BY <1>1, <1>3 DEF OrderInv, ClientCatchesUp, HasBefore
<1> QED
  BY <1>1, <1>3, <1>4, <1>5 DEF OrderInv, ClientCatchesUp

\* A message taken by the client has told it all it carried.
LEMMA OrderKeptFromClient ==
  ASSUME TypeOK, OrderInv, net["client"] # <<>>, Receive("client"),
         UNCHANGED <<syncing, returned>>, Reduced("main")' = Reduced("main"),
         Reduced("client") \subseteq Reduced("client")',
         Reduced("client")' \subseteq Reduced("main"),
         net["client"][1].type = "sync-store" => net["client"][1].id \in Reduced("client")'
  PROVE  OrderInv'
<1>0. PICK l \in Nat : l = Len(net'["client"])
  BY ReceiveLemma DEF TypeOK, Peers
<1>1. /\ Len(net'["client"]) \in Nat /\ Len(net["client"]) = Len(net'["client"]) + 1
      /\ \A n \in 1..Len(net'["client"]) : net'["client"][n] = net["client"][n + 1]
      /\ net'["main"] = net["main"]
  BY ReceiveLemma DEF TypeOK, Peers
<1>2. \A n \in 1..Len(net'["client"]) : n + 1 \in 1..Len(net["client"])
  BY <1>1
<1>3. ASSUME NEW n \in Nat, NEW a, HasBefore(n + 1, a) PROVE HasBefore(n, a)'
  <2>1. CASE a \in Reduced("client") \/ (returned /\ a = syncing)
    BY <2>1 DEF HasBefore
  <2>2. CASE \E k \in 1..Len(net["client"]) :
               k < n + 1 /\ net["client"][k].type = "sync-store" /\ net["client"][k].id = a
    <3>1. PICK k \in 1..Len(net["client"]) :
            k < n + 1 /\ net["client"][k].type = "sync-store" /\ net["client"][k].id = a
      BY <2>2
    <3>2. CASE k = 1
      BY <3>1, <3>2 DEF HasBefore
    <3>3. CASE k # 1
      <4>1. k - 1 \in 1..Len(net'["client"]) /\ (k - 1) + 1 = k /\ k - 1 < n
        BY <1>1, <3>1, <3>3
      <4>2. net'["client"][k - 1] = net["client"][k]
        BY <1>1, <4>1
      <4> QED
        BY <3>1, <4>1, <4>2 DEF HasBefore
    <3> QED
      BY <3>2, <3>3
  <2> QED
    BY <1>3, <2>1, <2>2 DEF HasBefore
<1>4. MainIsAhead'
  BY <1>1, <1>2 DEF OrderInv, MainIsAhead
<1>5. ASSUME NEW a \in Reduced("main")' PROVE HasBefore(l + 1, a)'
  <2>1. HasBefore((l + 1) + 1, a)
    BY <1>0, <1>1 DEF OrderInv, ClientCatchesUp
  <2> QED
    BY <1>3, <2>1
<1>6. ASSUME NEW n \in 1..Len(net'["client"]), IsCall(net'["client"][n]),
             NEW a \in net'["client"][n].seen
      PROVE  HasBefore(n, a)'
  <2>1. HasBefore(n + 1, a)
    BY <1>1, <1>2, <1>6 DEF OrderInv, ClientCatchesUp
  <2> QED
    BY <1>3, <2>1
<1> QED
  BY <1>0, <1>4, <1>5, <1>6 DEF OrderInv, ClientCatchesUp

\* The steps of the stores keep the order.
LEMMA SyncKeepsOrder ==
  ASSUME TypeInv, OrderInv, SyncNext
  PROVE  OrderInv'
<1> USE DEF TypeInv
<1>0. "main" \in Peers /\ "client" \in Peers /\ "main" # "client"
  BY DEF Peers
<1>1. CASE MainDispatches
  <2>1. NextAction \in Actions /\ Sync(NextAction) \in Message
    BY <1>0, <1>1, DispatchType DEF MainDispatches
  <2>2. /\ Reduced("main")' = Reduced("main") \cup {NextAction}
        /\ Reduced("client")' = Reduced("client")
    BY <1>0, <1>1, <2>1, ReducedAfter DEF MainDispatches
  <2>3. Sync(NextAction).type = "sync-store" /\ Sync(NextAction).id = NextAction
    BY DEF Sync
  <2>4. Send("client", Sync(NextAction)) /\ UNCHANGED <<syncing, returned>>
    BY <1>1 DEF MainDispatches
  <2> QED
    BY <2>1, <2>2, <2>3, <2>4, OrderKeptToClient
<1>2. CASE ClientDispatches
  <2>1. Sync(NextAction) \in Message /\ ~IsCall(Sync(NextAction))
    BY <1>0, <1>2, DispatchType DEF ClientDispatches, Sync, IsCall
  <2>2. ~returned
    BY <1>2 DEF ClientDispatches, Dispatches, Runs, SyncShape, NoAction, Actions
  <2>3. Send("main", Sync(NextAction)) /\ UNCHANGED <<store, returned>>
    BY <1>2 DEF ClientDispatches
  <2> QED
    BY <2>1, <2>2, <2>3, OrderKeptToMain
<1>3. CASE MainSyncs
  <2>1. net["main"] # <<>> /\ Head(net["main"]).type = "sync-store"
    BY <1>3 DEF MainSyncs, Gets
  <2>2. /\ Head(net["main"]) = net["main"][1] /\ 1 \in 1..Len(net["main"])
        /\ Head(net["main"]) \in Message
    BY <1>0, <2>1, HeadType
  <2>3. Head(net["main"]).id = syncing /\ syncing \in Actions
    BY <2>1, <2>2, MessageTypes DEF SyncShape
  <2>4. /\ Reduced("main")' = Reduced("main") \cup {syncing}
        /\ Reduced("client")' = Reduced("client")
    BY <1>0, <1>3, <2>3, ReducedAfter DEF MainSyncs
  <2>5. Receive("main") /\ returned' /\ UNCHANGED syncing
    BY <1>3 DEF MainSyncs
  <2> QED
    BY <2>1, <2>4, <2>5, OrderKeptFromMain
<1>4. CASE SendSyncReturns
  <2>1. returned /\ syncing \in Actions /\ syncing \in Reduced("main")
    BY <1>4 DEF SendSyncReturns, SyncShape, OrderInv, MainIsAhead
  <2>2. /\ Reduced("client")' = Reduced("client") \cup {syncing}
        /\ Reduced("main")' = Reduced("main")
    BY <1>0, <1>4, <2>1, ReducedAfter DEF SendSyncReturns
  <2>3. ~returned' /\ UNCHANGED net
    BY <1>4 DEF SendSyncReturns
  <2>4. \A n, a : HasBefore(n, a) => HasBefore(n, a)'
    BY <2>2, <2>3 DEF HasBefore
  <2> QED
    BY <2>1, <2>2, <2>3, <2>4 DEF OrderInv, MainIsAhead, ClientCatchesUp
<1>5. CASE ClientSyncs
  <2>1. net["client"] # <<>> /\ Head(net["client"]).type = "sync-store"
    BY <1>5 DEF ClientSyncs, Gets
  <2>2. /\ Head(net["client"]) = net["client"][1] /\ 1 \in 1..Len(net["client"])
        /\ Head(net["client"]) \in Message
    BY <1>0, <2>1, HeadType
  <2>3. /\ net["client"][1].id \in Actions /\ net["client"][1].id \in Reduced("main")
    BY <2>1, <2>2, MessageTypes DEF OrderInv, MainIsAhead
  <2>4. /\ Reduced("client")' = Reduced("client") \cup {net["client"][1].id}
        /\ Reduced("main")' = Reduced("main")
    BY <1>0, <1>5, <2>2, <2>3, ReducedAfter DEF ClientSyncs
  <2>5. Receive("client") /\ UNCHANGED <<syncing, returned>>
    BY <1>5 DEF ClientSyncs
  <2>6. Reduced("client") \subseteq Reduced("main")
    BY DEF OrderInv, MainIsAhead
  <2> QED
    BY <2>1, <2>3, <2>4, <2>5, <2>6, OrderKeptFromClient
<1> QED
  BY <1>1, <1>2, <1>3, <1>4, <1>5 DEF SyncNext, SyncProgress

\* A message that tells no action is taken.
LEMMA OrderKeptByReceive ==
  ASSUME TypeOK, OrderInv, NEW p \in Peers, net[p] # <<>>, Receive(p), StoresIdle,
         Head(net[p]).type # "sync-store"
  PROVE  OrderInv'
<1>1. UNCHANGED <<syncing, returned>> /\ \A q \in Peers : Reduced(q)' = Reduced(q)
  BY DEF StoresIdle, Reduced
<1>2. "main" \in Peers /\ "client" \in Peers
  BY DEF Peers
<1>3. CASE p = "main"
  BY <1>1, <1>2, <1>3, OrderKeptFromMain
<1>4. CASE p = "client"
  <2>1. net["client"][1].type # "sync-store"
    BY <1>2, <1>4, HeadType
  <2> QED
    BY <1>1, <1>2, <1>4, <2>1, OrderKeptFromClient DEF OrderInv, MainIsAhead
<1> QED
  BY <1>3, <1>4 DEF Peers

\* A call or an answer is sent by one that runs.
LEMMA OrderKeptBySend ==
  ASSUME TypeInv, OrderInv, NEW p \in Peers, Runs(p), NEW m \in Message, IsCall(m),
         m.seen = Reduced(p), Send(Peer(p), m), StoresIdle
  PROVE  OrderInv'
<1> USE DEF TypeInv
<1>1. UNCHANGED <<store, syncing, returned>>
  BY DEF StoresIdle
<1>2. CASE p = "main"
  BY <1>1, <1>2, OrderKeptToClient DEF Peer, Reduced
<1>3. CASE p = "client"
  <2>1. ~returned
    BY <1>3 DEF Runs, SyncShape, NoAction, Actions
  <2> QED
    BY <1>1, <1>3, <2>1, OrderKeptToMain DEF Peer
<1> QED
  BY <1>2, <1>3 DEF Peers

\* The steps of the calls keep the order.
LEMMA CallsKeepOrder ==
  ASSUME LinkInv, OrderInv,
         \/ Delivery
         \/ \E c \in Calls : \/ \E p \in Peers : RemoteCall(p, c)
                             \/ \E r \in Results : CommandEnds(c, r)
  PROVE  OrderInv'
<1> USE DEF LinkInv, TypeInv
<1>0. "main" \in Peers /\ "client" \in Peers
  BY DEF Peers
<1>a. ASSUME UNCHANGED net, StoresIdle PROVE OrderInv'
  BY <1>a DEF StoresIdle, OrderInv, MainIsAhead, ClientCatchesUp, HasBefore, Reduced
<1>1. ASSUME NEW c \in Calls, NEW p \in Peers, RemoteCall(p, c) PROVE OrderInv'
  <2>1. caller'[c] = p /\ Runs(p) /\ StoresIdle
    BY <1>1 DEF RemoteCall, TypeOK
  <2>2. /\ Call(c) \in Message /\ IsCall(Call(c)) /\ Call(c).seen = Reduced(p)
    BY <2>1, ReducedType DEF Call, Message, IsCall
  <2>3. CASE HasSender(p)
    BY <1>1, <2>1, <2>2, <2>3, OrderKeptBySend DEF RemoteCall
  <2>4. CASE ~HasSender(p)
    BY <1>1, <1>a, <2>1, <2>4 DEF RemoteCall
  <2> QED
    BY <2>3, <2>4
<1>2. CASE PingArrives
  BY <1>0, <1>2, OrderKeptByReceive DEF PingArrives, Gets
<1>3. ASSUME NEW p \in Peers, OnIpcMessage(p) PROVE OrderInv'
  BY <1>3, OrderKeptByReceive DEF OnIpcMessage, Gets
<1>4. ASSUME NEW p \in Peers, AnswerArrives(p) PROVE OrderInv'
  BY <1>4, OrderKeptByReceive DEF AnswerArrives, Gets
<1>5. ASSUME NEW c \in Calls, NEW r \in Results, CommandEnds(c, r) PROVE OrderInv'
  <2>1. /\ caller[c] \in Peers /\ Runs(Peer(caller[c])) /\ StoresIdle
    BY <1>5 DEF CommandEnds, Ended, CallShape, CallersKnown
  <2>2. /\ Answer(c, r) \in Message /\ IsCall(Answer(c, r))
        /\ Answer(c, r).seen = Reduced(Peer(caller[c]))
    BY <2>1, PeerType, ReducedType DEF Answer, Message, IsCall
  <2>3. CASE r # "no reason"
    <3>1. Send(Peer(Peer(caller[c])), Answer(c, r)) /\ Peer(caller[c]) \in Peers
      BY <1>5, <2>1, <2>3, PeerType DEF CommandEnds
    <3> QED
      BY <2>1, <2>2, <3>1, OrderKeptBySend
  <2>4. CASE r = "no reason"
    BY <1>5, <1>a, <2>1, <2>4 DEF CommandEnds
  <2> QED
    BY <2>3, <2>4
<1> QED
  BY <1>1, <1>2, <1>3, <1>4, <1>5 DEF Delivery

\* At the head of a channel nothing is left that comes before.
LEMMA OrderAtHead == LinkInv /\ OrderInv => NothingOvertaken
<1> SUFFICES ASSUME LinkInv, OrderInv, NEW p \in Peers, Runs(p), net[p] # <<>>,
                    Head(net[p]).type \in {"remote-call", "answer"}
             PROVE  Head(net[p]).seen \subseteq Reduced(p)
  BY DEF NothingOvertaken
<1> USE DEF LinkInv, TypeInv
<1>1. Head(net[p]) = net[p][1] /\ 1 \in 1..Len(net[p]) /\ IsCall(net[p][1])
  BY HeadType DEF IsCall
<1>2. CASE p = "main"
  BY <1>1, <1>2 DEF OrderInv, MainIsAhead
<1>3. CASE p = "client"
  <2>1. ~returned
    BY <1>3 DEF Runs, SyncShape, NoAction, Actions
  <2>2. \A k \in 1..Len(net["client"]) : ~(k < 1)
    OBVIOUS
  <2> QED
    BY <1>1, <1>3, <2>1, <2>2 DEF OrderInv, ClientCatchesUp, HasBefore
<1> QED
  BY <1>2, <1>3 DEF Peers

\* Main has all the client has, and the client catches up with it.
THEOREM OrderInvariant == Spec => []OrderInv
<1>1. Init => OrderInv
  <2> SUFFICES ASSUME Init PROVE OrderInv
    OBVIOUS
  <2>1. net["main"] = <<Ping>> /\ net["client"] = <<>> /\ ~returned
    BY DEF Init, SyncInit
  <2>2. Reduced("main") = {} /\ Reduced("client") = {}
    <3>1. store["main"] = <<>> /\ store["client"] = <<>>
      BY DEF Init, SyncInit, Peers
    <3>2. ToSet(<<>>) = {}
      BY DEF ToSet
    <3> QED
      BY <3>1, <3>2 DEF Reduced
  <2>3. ~IsCall(net["main"][1]) /\ Len(net["main"]) = 1 /\ Len(net["client"]) = 0
    BY <2>1 DEF IsCall, Ping
  <2> QED
    BY <2>1, <2>2, <2>3 DEF OrderInv, MainIsAhead, ClientCatchesUp
<1>2. LinkInv /\ OrderInv /\ [Next]_vars => OrderInv'
  <2> SUFFICES ASSUME LinkInv, OrderInv, [Next]_vars PROVE OrderInv'
    OBVIOUS
  <2>1. CASE SyncNext
    BY <2>1, SyncKeepsOrder DEF LinkInv
  <2>2. CASE \/ Delivery
             \/ \E c \in Calls : \/ \E p \in Peers : RemoteCall(p, c)
                                 \/ \E r \in Results : CommandEnds(c, r)
    BY <2>2, CallsKeepOrder
  <2>3. CASE UNCHANGED vars
    BY <2>3 DEF vars, syncVars, OrderInv, MainIsAhead, ClientCatchesUp, HasBefore, Reduced
  <2> QED
    BY <2>1, <2>2, <2>3 DEF Next
<1> QED
  BY <1>1, <1>2, LinkInvariant, PTL DEF Spec

\* No call or answer overtakes the actions its sender had reduced.
THEOREM InOrder == Spec => []NothingOvertaken
<1> QED
  BY OrderAtHead, OrderInvariant, LinkInvariant, PTL

-----------------------------------------------------------------------------
(***************************************************************************)
(* Each side's actions are reduced once and in order.  The client waits    *)
(* for the action it is at, so it has reduced all it dispatched before;    *)
(* those of main are on their way to it in the order of their dispatch.    *)
(***************************************************************************)
Increasing(s) ==
  \A q \in Peers : \A k, n \in 1..Len(s) :
    k < n /\ {s[k], s[n]} \subseteq From(q) => s[k] < s[n]
NoGaps ==
  \A q \in Peers : \A a \in Reduced("main") \cap From(q), b \in Reduced("client") \cap From(q) :
    a < b => a \in Reduced("client")

MainsOwn == Reduced("main") \subseteq 1..Len(dispatched) /\ From("main") \subseteq Reduced("main")
ClientsOwn ==
  /\ syncing # NoAction => syncing \in From("client") /\ \A a \in From("client") : a <= syncing
  /\ \A a \in From("client") : a \in Reduced("client") \/ a = syncing
  /\ syncing \notin Reduced("client") /\ (~returned => syncing \notin Reduced("main"))
OnTheWay ==
  \A n \in 1..Len(net["client"]) : net["client"][n].type = "sync-store" =>
    /\ net["client"][n].id \in From("main")
    /\ \A a \in Reduced("client") \cap From("main") : a < net["client"][n].id
    /\ \A k \in 1..Len(net["client"]) :
         n < k /\ net["client"][k].type = "sync-store" => net["client"][n].id < net["client"][k].id

OnceInv ==
  /\ MainsOwn /\ ClientsOwn /\ OnTheWay /\ NoGaps
  /\ \A p \in Peers : Increasing(store[p])

\* A dispatch makes an action later than all.
LEMMA FromAfter ==
  ASSUME TypeOK, NEW p \in Peers, Dispatches(p)
  PROVE  /\ 1..Len(dispatched') = 1..Len(dispatched) \cup {NextAction}
         /\ NextAction \notin 1..Len(dispatched) /\ NextAction # NoAction
         /\ \A a \in 1..Len(dispatched) : a < NextAction /\ ~(NextAction < a) /\ ~(NextAction <= a)
         /\ From(p)' = From(p) \cup {NextAction}
         /\ \A q \in Peers \ {p} : From(q)' = From(q)
         /\ \A q \in Peers : From(q) \subseteq 1..Len(dispatched)
<1>1. dispatched \in Seq(Peers) /\ dispatched' = Append(dispatched, p)
  BY DEF TypeOK, SyncTypeOK, Dispatches
<1>2. /\ Len(dispatched) \in Nat /\ Len(dispatched') = Len(dispatched) + 1
      /\ \A n \in 1..Len(dispatched) : dispatched'[n] = dispatched[n]
      /\ dispatched'[Len(dispatched) + 1] = p
  BY <1>1, AppendAt
<1>3. 1..Len(dispatched') = 1..Len(dispatched) \cup {NextAction}
  BY <1>2 DEF NextAction
<1>4. /\ NextAction \notin 1..Len(dispatched) /\ NextAction # NoAction
      /\ \A a \in 1..Len(dispatched) : a < NextAction /\ ~(NextAction < a) /\ ~(NextAction <= a)
  BY <1>2 DEF NextAction, NoAction
<1>5. dispatched'[NextAction] = p
  BY <1>2 DEF NextAction
<1> HIDE DEF NextAction
<1> QED
  BY <1>2, <1>3, <1>4, <1>5 DEF From

\* No side has dispatched what the other has.
LEMMA Sides ==
  /\ From("main") \cap From("client") = {}
  /\ \A q \in Peers : From(q) \subseteq 1..Len(dispatched)
BY DEF From

\* A store stays increasing when it reduces an action later than its others.
LEMMA IncreasingStays ==
  ASSUME TypeOK, NEW p \in Peers, store'[p] = store[p], Increasing(store[p]),
         \A q \in Peers : From(q)' \cap Reduced(p) \subseteq From(q)
  PROVE  Increasing(store[p])'
<1>1. \A n \in 1..Len(store[p]) : store[p][n] \in Reduced(p)
  BY DEF TypeOK, SyncTypeOK, Reduced, ToSet
<1> QED
  BY <1>1 DEF Increasing

LEMMA IncreasingAfter ==
  ASSUME TypeOK, NEW p \in Peers, NEW a \in Actions, Reduce(p, a), Increasing(store[p]),
         \A q \in Peers : From(q)' \cap Reduced(p) \subseteq From(q),
         \A q \in Peers, b \in Reduced(p) : {a, b} \subseteq From(q)' => b < a
  PROVE  Increasing(store[p])'
<1>1. PICK l \in Nat : l = Len(store[p])
  BY DEF TypeOK, SyncTypeOK
<1>2. /\ Len(store'[p]) = l + 1 /\ store'[p][l + 1] = a
      /\ \A n \in 1..l : store'[p][n] = store[p][n] /\ store[p][n] \in Reduced(p)
  <2>1. store[p] \in Seq(Actions) /\ store'[p] = Append(store[p], a)
    BY DEF TypeOK, SyncTypeOK, Reduce
  <2>2. \A n \in 1..l : store[p][n] \in Reduced(p)
    BY <1>1, <2>1 DEF Reduced, ToSet
  <2> QED
    BY <1>1, <2>1, <2>2, AppendAt
<1>3. ASSUME NEW q \in Peers, NEW k \in 1..(l + 1), NEW n \in 1..(l + 1), k < n,
             {store'[p][k], store'[p][n]} \subseteq From(q)'
      PROVE  store'[p][k] < store'[p][n]
  <2>1. k \in 1..l /\ (n \in 1..l \/ n = l + 1)
    BY <1>3
  <2>2. CASE n \in 1..l
    BY <1>1, <1>2, <1>3, <2>1, <2>2 DEF Increasing
  <2>3. CASE n = l + 1
    BY <1>2, <1>3, <2>1, <2>3
  <2> QED
    BY <2>1, <2>2, <2>3
<1> QED
  BY <1>2, <1>3 DEF Increasing

LEMMA MainDispatchOnce ==
  ASSUME TypeInv, OrderInv, OnceInv, MainDispatches
  PROVE  OnceInv'
<1> USE DEF TypeInv
<1>0. "main" \in Peers /\ "client" \in Peers /\ "main" # "client" /\ \A q \in Peers : q \in {"main", "client"}
  BY DEF Peers
<1>1. NextAction \in Actions /\ Sync(NextAction) \in Message
  BY <1>0, DispatchType DEF MainDispatches
<1>2. /\ Reduced("main")' = Reduced("main") \cup {NextAction}
      /\ Reduced("client")' = Reduced("client")
      /\ Reduce("main", NextAction) /\ UNCHANGED <<syncing, returned>>
      /\ store'["client"] = store["client"]
  <2>1. Reduce("main", NextAction) /\ UNCHANGED <<syncing, returned>>
    BY DEF MainDispatches
  <2>2. store'["client"] = store["client"]
    BY <1>0, <2>1 DEF Reduce, TypeOK, SyncTypeOK
  <2> QED
    BY <1>0, <1>1, <2>1, <2>2, ReducedAfter
<1>3. /\ 1..Len(dispatched') = 1..Len(dispatched) \cup {NextAction}
      /\ NextAction \notin 1..Len(dispatched) /\ NextAction # NoAction
      /\ \A a \in 1..Len(dispatched) : a < NextAction /\ ~(NextAction < a)
      /\ From("main")' = From("main") \cup {NextAction}
      /\ From("client")' = From("client")
      /\ \A q \in Peers : From(q) \subseteq 1..Len(dispatched)
  BY <1>0, FromAfter DEF MainDispatches
<1>4. /\ Reduced("client") \subseteq Reduced("main")
      /\ Reduced("main") \subseteq 1..Len(dispatched)
  BY DEF OrderInv, MainIsAhead, OnceInv, MainsOwn
<1>5. MainsOwn'
  BY <1>2, <1>3 DEF OnceInv, MainsOwn
<1>6. ClientsOwn'
  <2>1. syncing # NextAction
    BY <1>0, <1>3 DEF OnceInv, ClientsOwn
  <2> QED
    BY <1>2, <1>3, <2>1 DEF OnceInv, ClientsOwn
<1>7. OnTheWay'
  <2>1. PICK l \in Nat : l = Len(net["client"])
    BY <1>0, <1>1, SendLemma DEF MainDispatches, TypeOK
  <2>2. /\ Len(net'["client"]) = l + 1 /\ net'["client"][l + 1].id = NextAction
        /\ \A n \in 1..l : net'["client"][n] = net["client"][n]
    <3>1. net \in [Peers -> Seq(Message)] /\ Send("client", Sync(NextAction))
      BY DEF MainDispatches, TypeOK
    <3>2. Sync(NextAction).id = NextAction
      BY DEF Sync
    <3> HIDE DEF TypeInv
    <3> QED
      BY <1>0, <1>1, <2>1, <3>1, <3>2, SendLemma
  <2>3. ASSUME NEW n \in 1..(l + 1), net'["client"][n].type = "sync-store"
        PROVE  /\ net'["client"][n].id \in From("main")'
               /\ \A a \in Reduced("client")' \cap From("main")' : a < net'["client"][n].id
               /\ \A k \in 1..(l + 1) :
                    n < k /\ net'["client"][k].type = "sync-store"
                      => net'["client"][n].id < net'["client"][k].id
    <3>1. CASE n = l + 1
      <4>1. \A a \in Reduced("client") : a < NextAction
        BY <1>3, <1>4
      <4>2. \A k \in 1..(l + 1) : ~(n < k)
        BY <3>1
      <4> QED
        BY <1>2, <1>3, <2>2, <3>1, <4>1, <4>2
    <3>2. CASE n \in 1..l
      <4>1. /\ net["client"][n].id \in From("main")
            /\ \A a \in Reduced("client") \cap From("main") : a < net["client"][n].id
            /\ \A k \in 1..l :
                 n < k /\ net["client"][k].type = "sync-store"
                   => net["client"][n].id < net["client"][k].id
        BY <2>1, <2>2, <2>3, <3>2 DEF OnceInv, OnTheWay
      <4>2. net["client"][n].id < NextAction /\ NextAction \notin Reduced("client")
        BY <1>0, <1>3, <1>4, <4>1
      <4>3. \A k \in 1..(l + 1) : k \in 1..l \/ k = l + 1
        BY <2>1
      <4> QED
        BY <1>2, <1>3, <2>2, <3>2, <4>1, <4>2, <4>3
    <3> QED
      BY <2>1, <3>1, <3>2
  <2> QED
    BY <2>2, <2>3 DEF OnTheWay
<1>8. NoGaps'
  BY <1>0, <1>2, <1>3, <1>4 DEF OnceInv, NoGaps
<1>9. \A p, q \in Peers : From(q)' \cap Reduced(p) \subseteq From(q)
  BY <1>0, <1>3, <1>4
<1>10. Increasing(store["main"])' /\ Increasing(store["client"])'
  <2>1. \A b \in Reduced("main") : b < NextAction
    BY <1>3, <1>4
  <2> QED
    BY <1>0, <1>1, <1>2, <1>9, <2>1, IncreasingAfter, IncreasingStays DEF OnceInv
<1> QED
  BY <1>0, <1>5, <1>6, <1>7, <1>8, <1>10 DEF OnceInv

LEMMA ClientDispatchOnce ==
  ASSUME TypeInv, OrderInv, OnceInv, ClientDispatches
  PROVE  OnceInv'
<1> USE DEF TypeInv
<1>0. "main" \in Peers /\ "client" \in Peers /\ "main" # "client" /\ \A q \in Peers : q \in {"main", "client"}
  BY DEF Peers
<1>1. /\ Sync(NextAction) \in Message /\ syncing = NoAction /\ syncing' = NextAction
      /\ store' = store /\ returned' = returned /\ ~returned
  <2>1. syncing = NoAction
    BY DEF ClientDispatches, Dispatches, Runs
  <2> QED
    BY <1>0, <2>1, DispatchType DEF ClientDispatches, SyncShape, NoAction, Actions
<1>2. /\ Reduced("main")' = Reduced("main") /\ Reduced("client")' = Reduced("client")
      /\ net'["client"] = net["client"]
  BY <1>0, <1>1, SendLemma DEF ClientDispatches, TypeOK, Reduced
<1>3. /\ 1..Len(dispatched') = 1..Len(dispatched) \cup {NextAction}
      /\ NextAction \notin 1..Len(dispatched) /\ NextAction # NoAction /\ NextAction \in Nat
      /\ \A a \in 1..Len(dispatched) : a < NextAction /\ ~(NextAction < a)
      /\ From("client")' = From("client") \cup {NextAction}
      /\ From("main")' = From("main")
      /\ \A q \in Peers : From(q) \subseteq 1..Len(dispatched)
  BY <1>0, FromAfter DEF ClientDispatches, NextAction, TypeOK, SyncTypeOK
<1>4. /\ Reduced("client") \subseteq Reduced("main")
      /\ Reduced("main") \subseteq 1..Len(dispatched)
  BY DEF OrderInv, MainIsAhead, OnceInv, MainsOwn
<1>5. MainsOwn'
  BY <1>2, <1>3 DEF OnceInv, MainsOwn
<1>6. ClientsOwn'
  <2>1. \A a \in From("client")' : a <= NextAction
    <3>1. \A a \in 1..Len(dispatched) : a <= NextAction
      <4>1. \A a \in 1..Len(dispatched) : a < NextAction /\ a \in Nat
        BY <1>3
      <4> QED
        BY <1>3, <4>1
    <3>2. NextAction <= NextAction
      BY <1>3
    <3> QED
      BY <1>0, <1>3, <3>1, <3>2
  <2>2. \A a \in From("client") : a \in Reduced("client")
    BY <1>1 DEF OnceInv, ClientsOwn, MainsOwn, From, NoAction
  <2> QED
    BY <1>1, <1>2, <1>3, <1>4, <2>1, <2>2 DEF ClientsOwn
<1>7. OnTheWay'
  BY <1>2, <1>3 DEF OnceInv, OnTheWay
<1>8. NoGaps'
  BY <1>0, <1>2, <1>3, <1>4 DEF OnceInv, NoGaps
<1>9. \A p, q \in Peers : From(q)' \cap Reduced(p) \subseteq From(q)
  BY <1>0, <1>3, <1>4
<1>10. \A p \in Peers : Increasing(store[p])'
  BY <1>1, <1>9, IncreasingStays DEF OnceInv
<1> QED
  BY <1>5, <1>6, <1>7, <1>8, <1>10 DEF OnceInv

LEMMA MainSyncsOnce ==
  ASSUME TypeInv, OrderInv, OnceInv, MainSyncs
  PROVE  OnceInv'
<1> USE DEF TypeInv
<1>0. "main" \in Peers /\ "client" \in Peers /\ "main" # "client" /\ \A q \in Peers : q \in {"main", "client"}
  BY DEF Peers
<1>1. net["main"] # <<>> /\ Head(net["main"]).type = "sync-store"
  BY DEF MainSyncs, Gets
<1>2. Head(net["main"]).id = syncing /\ syncing \in Actions /\ ~returned /\ syncing # NoAction
  BY <1>0, <1>1, HeadType, MessageTypes DEF SyncShape, NoAction, Actions
<1>3. /\ Reduced("main")' = Reduced("main") \cup {syncing}
      /\ Reduced("client")' = Reduced("client") /\ Reduce("main", syncing)
      /\ syncing' = syncing /\ returned' /\ dispatched' = dispatched
  BY <1>0, <1>2, ReducedAfter DEF MainSyncs
<1>4. net'["client"] = net["client"] /\ store'["client"] = store["client"]
  BY <1>0, <1>1, <1>3, ReceiveLemma DEF MainSyncs, TypeOK, SyncTypeOK, Reduce
<1>5. \A q \in Peers : From(q)' = From(q)
  BY <1>3 DEF From
<1>6. /\ syncing \in From("client") /\ syncing \notin From("main")
      /\ syncing \notin Reduced("main") /\ \A a \in From("client") : a <= syncing /\ a \in Nat
  BY <1>2, Sides DEF OnceInv, ClientsOwn, From
<1>7. MainsOwn'
  BY <1>0, <1>3, <1>5, <1>6, Sides DEF OnceInv, MainsOwn
<1>8. ClientsOwn'
  BY <1>0, <1>3, <1>5 DEF OnceInv, ClientsOwn
<1>9. OnTheWay'
  BY <1>0, <1>3, <1>4, <1>5 DEF OnceInv, OnTheWay
<1>10. NoGaps'
  <2>1. \A b \in From("client") : ~(syncing < b)
    BY <1>2, <1>6 DEF Actions
  <2> QED
    BY <1>0, <1>3, <1>5, <1>6, <2>1 DEF OnceInv, NoGaps
<1>11. Increasing(store["client"])'
  BY <1>0, <1>4, <1>5, IncreasingStays DEF OnceInv
<1>12. Increasing(store["main"])'
  <2>1. ASSUME NEW b \in Reduced("main") \cap From("client") PROVE b < syncing
    <3>1. b <= syncing /\ b # syncing /\ b \in Nat /\ syncing \in Nat
      BY <1>2, <1>6 DEF Actions
    <3> QED
      BY <3>1
  <2>2. \A q \in Peers, b \in Reduced("main") : {syncing, b} \subseteq From(q)' => b < syncing
    BY <1>0, <1>5, <1>6, <2>1
  <2> QED
    BY <1>0, <1>2, <1>3, <1>5, <2>2, IncreasingAfter DEF OnceInv
<1> QED
  BY <1>0, <1>7, <1>8, <1>9, <1>10, <1>11, <1>12 DEF OnceInv

LEMMA SendSyncReturnsOnce ==
  ASSUME TypeInv, OrderInv, OnceInv, SendSyncReturns
  PROVE  OnceInv'
<1> USE DEF TypeInv
<1>0. "main" \in Peers /\ "client" \in Peers /\ "main" # "client" /\ \A q \in Peers : q \in {"main", "client"}
  BY DEF Peers
<1>1. returned /\ syncing \in Actions /\ syncing # NoAction /\ syncing' = NoAction
  BY DEF SendSyncReturns, SyncShape, NoAction, Actions
<1>2. /\ Reduced("client")' = Reduced("client") \cup {syncing}
      /\ Reduced("main")' = Reduced("main") /\ Reduce("client", syncing)
      /\ UNCHANGED <<net, dispatched>>
  BY <1>0, <1>1, ReducedAfter DEF SendSyncReturns
<1>3. store'["main"] = store["main"]
  BY <1>0, <1>2 DEF TypeOK, SyncTypeOK, Reduce
<1>4. \A q \in Peers : From(q)' = From(q)
  BY <1>2 DEF From
<1>5. /\ syncing \in From("client") /\ syncing \notin From("main")
      /\ syncing \notin Reduced("client") /\ \A a \in From("client") : a <= syncing /\ a \in Nat
      /\ \A a \in From("client") : a \in Reduced("client") \/ a = syncing
  BY <1>1, Sides DEF OnceInv, ClientsOwn, From
<1>6. MainsOwn'
  BY <1>0, <1>2, <1>4 DEF OnceInv, MainsOwn
<1>7. ClientsOwn'
  <2>1. NoAction \notin Reduced("client")' /\ NoAction \notin Reduced("main")
    BY <1>0, <1>1, <1>2, ReducedType DEF NoAction, Actions
  <2> QED
    BY <1>0, <1>1, <1>2, <1>4, <1>5, <2>1 DEF ClientsOwn
<1>8. OnTheWay'
  <2>1. Reduced("client")' \cap From("main")' = Reduced("client") \cap From("main")
    BY <1>0, <1>2, <1>4, <1>5
  <2> QED
    BY <1>0, <1>2, <1>4, <2>1 DEF OnceInv, OnTheWay
<1>9. NoGaps'
  BY <1>0, <1>2, <1>4, <1>5 DEF OnceInv, NoGaps
<1>10. Increasing(store["main"])'
  BY <1>0, <1>3, <1>4, IncreasingStays DEF OnceInv
<1>11. Increasing(store["client"])'
  <2>1. ASSUME NEW b \in Reduced("client") \cap From("client") PROVE b < syncing
    <3>1. b <= syncing /\ b # syncing /\ b \in Nat /\ syncing \in Nat
      BY <1>1, <1>5 DEF Actions
    <3> QED
      BY <3>1
  <2>2. \A q \in Peers, b \in Reduced("client") : {syncing, b} \subseteq From(q)' => b < syncing
    BY <1>0, <1>4, <1>5, <2>1
  <2> QED
    BY <1>0, <1>1, <1>2, <1>4, <2>2, IncreasingAfter DEF OnceInv
<1> QED
  BY <1>0, <1>6, <1>7, <1>8, <1>9, <1>10, <1>11 DEF OnceInv

\* The messages that stay when the client takes one keep their order.
LEMMA WayAfterReceive ==
  ASSUME TypeOK, OnTheWay, net["client"] # <<>>, Receive("client"), dispatched' = dispatched,
         \A a \in Reduced("client")' : a \in Reduced("client")
           \/ (net["client"][1].type = "sync-store" /\ a = net["client"][1].id)
  PROVE  OnTheWay'
<1>1. /\ Len(net'["client"]) \in Nat /\ Len(net["client"]) = Len(net'["client"]) + 1
      /\ \A n \in 1..Len(net'["client"]) : net'["client"][n] = net["client"][n + 1]
      /\ 1 \in 1..Len(net["client"])
  BY ReceiveLemma DEF TypeOK, Peers
<1>2. \A n \in 1..Len(net'["client"]) : n + 1 \in 1..Len(net["client"]) /\ 1 < n + 1
  BY <1>1
<1>3. From("main")' = From("main")
  BY DEF From
<1>4. ASSUME NEW n \in 1..Len(net'["client"]), net'["client"][n].type = "sync-store"
      PROVE  /\ net'["client"][n].id \in From("main")'
             /\ \A a \in Reduced("client")' \cap From("main")' : a < net'["client"][n].id
             /\ \A k \in 1..Len(net'["client"]) :
                  n < k /\ net'["client"][k].type = "sync-store"
                    => net'["client"][n].id < net'["client"][k].id
  <2>1. net'["client"][n] = net["client"][n + 1] /\ n + 1 \in 1..Len(net["client"]) /\ 1 < n + 1
    BY <1>1, <1>2
  <2>2. /\ net["client"][n + 1].id \in From("main")
        /\ \A a \in Reduced("client") \cap From("main") : a < net["client"][n + 1].id
        /\ \A k \in 1..Len(net["client"]) :
             n + 1 < k /\ net["client"][k].type = "sync-store"
               => net["client"][n + 1].id < net["client"][k].id
    BY <1>4, <2>1 DEF OnTheWay
  <2>3. net["client"][1].type = "sync-store" => net["client"][1].id < net["client"][n + 1].id
    BY <1>1, <1>4, <2>1 DEF OnTheWay
  <2>4. \A k \in 1..Len(net'["client"]) : n < k => n + 1 < k + 1
    OBVIOUS
  <2> QED
    BY <1>1, <1>2, <1>3, <2>1, <2>2, <2>3, <2>4
<1> QED
  BY <1>4 DEF OnTheWay

LEMMA ClientSyncsOnce ==
  ASSUME TypeInv, OrderInv, OnceInv, ClientSyncs
  PROVE  OnceInv'
<1> USE DEF TypeInv
<1> DEFINE h == net["client"][1].id
<1>0. "main" \in Peers /\ "client" \in Peers /\ "main" # "client" /\ \A q \in Peers : q \in {"main", "client"}
  BY DEF Peers
<1>1. /\ net["client"] # <<>> /\ Head(net["client"]) = net["client"][1]
      /\ 1 \in 1..Len(net["client"]) /\ net["client"][1].type = "sync-store" /\ syncing = NoAction
  BY <1>0, HeadType DEF ClientSyncs, Gets, Runs
<1>2. h \in Actions /\ h \in From("main") /\ h \notin From("client") /\ h # NoAction
  BY <1>0, <1>1, HeadType, MessageTypes, Sides DEF OnceInv, OnTheWay, NoAction, Actions
<1>3. /\ Reduced("client")' = Reduced("client") \cup {h}
      /\ Reduced("main")' = Reduced("main") /\ Reduce("client", h)
      /\ Receive("client") /\ UNCHANGED <<syncing, returned, dispatched>>
  BY <1>0, <1>1, <1>2, ReducedAfter DEF ClientSyncs
<1>4. store'["main"] = store["main"]
  BY <1>0, <1>3 DEF TypeOK, SyncTypeOK, Reduce
<1>5. \A q \in Peers : From(q)' = From(q)
  BY <1>3 DEF From
<1>6. \A a \in Reduced("client") \cap From("main") : a < h
  BY <1>1 DEF OnceInv, OnTheWay
<1>7. MainsOwn'
  BY <1>0, <1>3, <1>5 DEF OnceInv, MainsOwn
<1>8. ClientsOwn'
  BY <1>0, <1>1, <1>2, <1>3, <1>5 DEF OnceInv, ClientsOwn
<1>9. OnTheWay'
  <2>1. /\ TypeOK /\ OnTheWay /\ net["client"] # <<>> /\ Receive("client")
        /\ dispatched' = dispatched
    BY <1>1, <1>3 DEF OnceInv
  <2>2. \A a \in Reduced("client")' : a \in Reduced("client")
          \/ (net["client"][1].type = "sync-store" /\ a = net["client"][1].id)
    BY <1>1, <1>3
  <2> HIDE DEF h, TypeInv
  <2> QED
    BY <2>1, <2>2, WayAfterReceive
\* What main dispatched before the message was ahead of it on the way.
<1>10. ASSUME NEW a \in Reduced("main") \cap From("main"), a < h PROVE a \in Reduced("client")
  <2>1. HasBefore(Len(net["client"]) + 1, a) /\ ~returned
    BY <1>1 DEF OrderInv, ClientCatchesUp, SyncShape, NoAction, Actions
  <2>2. ASSUME NEW k \in 1..Len(net["client"]), net["client"][k].type = "sync-store",
               net["client"][k].id = a
        PROVE  FALSE
    <3>1. a \in Nat /\ h \in Nat /\ (k = 1 \/ 1 < k)
      BY <1>2, Sides DEF Actions, From
    <3>2. k # 1 => h < a
      BY <1>1, <2>2, <3>1 DEF OnceInv, OnTheWay
    <3>3. k = 1 => a = h
      BY <2>2
    <3> HIDE DEF h
    <3> QED
      BY <1>10, <3>1, <3>2, <3>3
  <2> QED
    BY <2>1, <2>2 DEF HasBefore
<1> HIDE DEF h
<1>11. NoGaps'
  <2>1. ASSUME NEW q \in Peers, NEW a \in Reduced("main") \cap From(q),
               NEW b \in (Reduced("client") \cup {h}) \cap From(q), a < b
        PROVE  a \in Reduced("client")
    BY <1>0, <1>2, <1>10, <2>1 DEF OnceInv, NoGaps
  <2> QED
    BY <1>3, <1>5, <2>1 DEF NoGaps
<1>12. Increasing(store["main"])'
  BY <1>0, <1>4, <1>5, IncreasingStays DEF OnceInv
<1>13. Increasing(store["client"])'
  <2>1. \A q \in Peers, b \in Reduced("client") : {h, b} \subseteq From(q)' => b < h
    BY <1>0, <1>2, <1>5, <1>6
  <2> QED
    BY <1>0, <1>2, <1>3, <1>5, <2>1, IncreasingAfter DEF OnceInv
<1> QED
  BY <1>0, <1>7, <1>8, <1>9, <1>11, <1>12, <1>13 DEF OnceInv

\* Calls and answers leave the stores and what is on its way to them.
LEMMA StoresIdleOnce ==
  ASSUME TypeOK, OnceInv, StoresIdle, OnTheWay'
  PROVE  OnceInv'
BY DEF StoresIdle, OnceInv, MainsOwn, ClientsOwn, NoGaps, Increasing, Reduced, From

LEMMA CallsKeepOnce ==
  ASSUME LinkInv, OnceInv,
         \/ Delivery
         \/ \E c \in Calls : \/ \E p \in Peers : RemoteCall(p, c)
                             \/ \E r \in Results : CommandEnds(c, r)
  PROVE  OnceInv'
<1> USE DEF LinkInv, TypeInv
<1>0. "main" \in Peers /\ "client" \in Peers
  BY DEF Peers
<1>1. StoresIdle
  BY DEF Delivery, PingArrives, OnIpcMessage, AnswerArrives, RemoteCall, CommandEnds, Ended
<1>2. dispatched' = dispatched /\ Reduced("client")' = Reduced("client") /\ From("main")' = From("main")
  BY <1>1 DEF StoresIdle, Reduced, From
<1>3. ASSUME net'["client"] = net["client"] PROVE OnTheWay'
  BY <1>2, <1>3 DEF OnceInv, OnTheWay
<1>4. ASSUME NEW p \in Peers, net[p] # <<>>, Receive(p) PROVE OnTheWay'
  <2>1. CASE p = "client"
    <3>1. /\ TypeOK /\ OnTheWay /\ net["client"] # <<>> /\ Receive("client")
          /\ dispatched' = dispatched
      BY <1>2, <1>4, <2>1 DEF OnceInv
    <3>2. \A a \in Reduced("client")' : a \in Reduced("client")
            \/ (net["client"][1].type = "sync-store" /\ a = net["client"][1].id)
      BY <1>2
    <3> HIDE DEF LinkInv, TypeInv
    <3> QED
      BY <3>1, <3>2, WayAfterReceive
  <2>2. CASE p = "main"
    <3>1. net'["client"] = net["client"]
      BY <1>0, <1>4, <2>2, ReceiveLemma DEF TypeOK
    <3> QED
      BY <1>3, <3>1
  <2> QED
    BY <2>1, <2>2 DEF Peers
<1>5. ASSUME NEW p \in Peers, NEW m \in Message, m.type # "sync-store", Send(p, m) PROVE OnTheWay'
  <2>1. CASE p = "client"
    <3>1. PICK l \in Nat : l = Len(net["client"])
      BY <1>0, <1>5, SendLemma DEF TypeOK
    <3>2. /\ Len(net'["client"]) = l + 1 /\ net'["client"][l + 1] = m
          /\ \A n \in 1..l : net'["client"][n] = net["client"][n]
      BY <1>0, <1>5, <2>1, <3>1, SendLemma DEF TypeOK
    <3>3. \A n \in 1..(l + 1) : n \in 1..l \/ n = l + 1
      BY <3>1
    <3> QED
      BY <1>2, <1>5, <3>1, <3>2, <3>3 DEF OnceInv, OnTheWay
  <2>2. CASE p = "main"
    <3>1. net'["client"] = net["client"]
      BY <1>0, <1>5, <2>2, SendLemma DEF TypeOK
    <3> QED
      BY <1>3, <3>1
  <2> QED
    BY <2>1, <2>2 DEF Peers
<1>6. ASSUME Delivery PROVE OnTheWay'
  BY <1>0, <1>4, <1>6 DEF Delivery, PingArrives, OnIpcMessage, AnswerArrives, Gets
<1>7. ASSUME NEW c \in Calls, NEW p \in Peers, RemoteCall(p, c) PROVE OnTheWay'
  <2>1. CASE HasSender(p)
    <3>1. caller'[c] = p
      BY <1>7 DEF RemoteCall, TypeOK
    <3>2. Call(c) \in Message /\ Call(c).type # "sync-store"
      BY <3>1, ReducedType DEF Call, Message
    <3> QED
      BY <1>5, <1>7, <2>1, <3>2, PeerType DEF RemoteCall
  <2>2. CASE ~HasSender(p)
    BY <1>3, <1>7, <2>2 DEF RemoteCall
  <2> QED
    BY <2>1, <2>2
<1>8. ASSUME NEW c \in Calls, NEW r \in Results, CommandEnds(c, r) PROVE OnTheWay'
  <2>1. caller[c] \in Peers
    BY <1>8 DEF CommandEnds, Ended, CallShape, CallersKnown
  <2>2. Answer(c, r) \in Message /\ Answer(c, r).type # "sync-store"
    BY <2>1, PeerType, ReducedType DEF Answer, Message
  <2>3. net' = net \/ Send(caller[c], Answer(c, r))
    BY <1>8 DEF CommandEnds
  <2> QED
    BY <1>3, <1>5, <2>1, <2>2, <2>3
<1>9. OnTheWay'
  BY <1>6, <1>7, <1>8
<1> QED
  BY <1>1, <1>9, StoresIdleOnce

\* Each action is reduced once by either side, those of one side in their order, and the
\* client leaves none out: no forwarded action comes back.
THEOREM Once == Spec => []ReducedOnce
<1>1. Init => OnceInv
  <2> SUFFICES ASSUME Init PROVE OnceInv
    OBVIOUS
  <2>1. /\ dispatched = <<>> /\ Len(dispatched) = 0 /\ Len(net["client"]) = 0
        /\ syncing = NoAction /\ \A p \in Peers : store[p] = <<>>
    BY DEF Init, SyncInit
  <2>2. \A p \in Peers : Reduced(p) = {} /\ Len(store[p]) = 0
    <3>1. ToSet(<<>>) = {} /\ Len(<<>>) = 0
      BY DEF ToSet
    <3> QED
      BY <2>1, <3>1 DEF Reduced
  <2>3. Reduced("main") = {} /\ Reduced("client") = {} /\ \A q \in Peers : From(q) = {}
    BY <2>1, <2>2 DEF Peers, From
  <2>4. From("main") = {} /\ From("client") = {}
    BY <2>3 DEF Peers
  <2> QED
    BY <2>1, <2>2, <2>3, <2>4 DEF OnceInv, MainsOwn, ClientsOwn, OnTheWay, NoGaps, Increasing
<1>2. LinkInv /\ OrderInv /\ OnceInv /\ [Next]_vars => OnceInv'
  <2> SUFFICES ASSUME LinkInv, OrderInv, OnceInv, [Next]_vars PROVE OnceInv'
    OBVIOUS
  <2>1. CASE SyncNext
    BY <2>1, MainDispatchOnce, ClientDispatchOnce, MainSyncsOnce, SendSyncReturnsOnce,
       ClientSyncsOnce DEF LinkInv, SyncNext, SyncProgress
  <2>2. CASE \/ Delivery
             \/ \E c \in Calls : \/ \E p \in Peers : RemoteCall(p, c)
                                 \/ \E r \in Results : CommandEnds(c, r)
    BY <2>2, CallsKeepOnce
  <2>3. CASE UNCHANGED vars
    BY <2>3, StoresIdleOnce DEF vars, syncVars, StoresIdle, LinkInv, TypeInv, OnceInv, OnTheWay,
                               Reduced, From
  <2> QED
    BY <2>1, <2>2, <2>3 DEF Next
<1>3. OrderInv /\ OnceInv => ReducedOnce
  BY DEF OrderInv, MainIsAhead, OnceInv, NoGaps, Increasing, ReducedOnce
<1> QED
  BY <1>1, <1>2, <1>3, OrderInvariant, LinkInvariant, PTL DEF Spec

-----------------------------------------------------------------------------
(***************************************************************************)
(* Refinement: a request, its execution, its end and its settlement are    *)
(* each one step, and every other step leaves the calls alone.             *)
(***************************************************************************)
Mapped(ph) == [c \in Calls |-> IF ph[c] = "unsent" THEN "requested" ELSE ph[c]]

\* How the mapped phase of one call changes.
LEMMA MappedStep ==
  ASSUME phase \in [Calls -> {"none", "unsent", "requested", "executing", "ended", "settled"}],
         NEW c \in Calls, NEW to, phase' = [phase EXCEPT ![c] = to]
  PROVE  Mapped(phase') =
           [Mapped(phase) EXCEPT ![c] = IF to = "unsent" THEN "requested" ELSE to]
BY DEF Mapped

\* Every call executes at most once and settles with its own outcome.
THEOREM Refinement == Spec => ImplementsRemoteCalls
<1>1. Init => Abstract!CallsInit
  BY DEF Init, Abstract!CallsInit
<1>2. LinkInv /\ [Next]_vars => [Abstract!CallsNext]_(Abstract!callVars)
  <2> SUFFICES ASSUME LinkInv, [Next]_vars
               PROVE  Abstract!CallsNext \/ UNCHANGED Abstract!callVars
    OBVIOUS
  <2> USE DEF LinkInv, TypeInv
  <2>0. phase \in [Calls -> {"none", "unsent", "requested", "executing", "ended", "settled"}]
    BY DEF TypeOK
  <2>1. ASSUME NEW c \in Calls, NEW p \in Peers, RemoteCall(p, c) PROVE Abstract!CallsNext
    <3>1. /\ phase[c] = "none" /\ UNCHANGED <<result, answer>>
          /\ phase' = [phase EXCEPT ![c] = IF HasSender(p) THEN "requested" ELSE "unsent"]
      BY <2>1, CallsAssumption DEF RemoteCall, Calls
    <3>2. Mapped(phase') = [Mapped(phase) EXCEPT ![c] = "requested"]
      BY <2>0, <3>1, MappedStep
    <3>3. Abstract!Request(c)
      BY <3>1, <3>2 DEF Abstract!Request, Abstract!Step, Mapped
    <3> QED
      BY <3>3 DEF Abstract!CallsNext
  <2>2. ASSUME NEW p \in Peers, OnIpcMessage(p) PROVE Abstract!CallsNext
    <3>0. PICK c \in Calls : c = Head(net[p]).id
      BY <2>2, HeadType, OnItsWay DEF OnIpcMessage, Gets, IsCall
    <3>1. phase[c] = "requested"
      BY <2>2, <3>0, HeadType, OnItsWay DEF OnIpcMessage, Gets, Fits, IsCall
    <3>2. phase' = [phase EXCEPT ![c] = "executing"] /\ UNCHANGED <<result, answer>>
      BY <2>2, <3>0 DEF OnIpcMessage
    <3>3. Mapped(phase') = [Mapped(phase) EXCEPT ![c] = "executing"]
      BY <2>0, <3>1, <3>2, MappedStep
    <3>4. Abstract!Execute(c)
      BY <3>1, <3>2, <3>3 DEF Abstract!Execute, Abstract!Step, Mapped
    <3> QED
      BY <3>4 DEF Abstract!CallsNext
  <2>3. ASSUME NEW p \in Peers, AnswerArrives(p) PROVE Abstract!CallsNext
    <3>0. PICK c \in Calls : c = Head(net[p]).id
      BY <2>3, HeadType, OnItsWay DEF AnswerArrives, Gets, IsCall
    <3>1. phase[c] = "ended" /\ Head(net[p]).result = result[c]
      BY <2>3, <3>0, HeadType, OnItsWay DEF AnswerArrives, Gets, Fits, IsCall
    <3>2. /\ phase' = [phase EXCEPT ![c] = "settled"] /\ UNCHANGED result
          /\ answer' = [answer EXCEPT ![c] = Delivered(result[c])]
      BY <2>3, <3>0, <3>1 DEF AnswerArrives, Settle
    <3>3. Mapped(phase') = [Mapped(phase) EXCEPT ![c] = "settled"]
      BY <2>0, <3>1, <3>2, MappedStep
    <3>4. Abstract!Settle(c)
      BY <3>1, <3>2, <3>3 DEF Abstract!Settle, Abstract!Step, Mapped
    <3> QED
      BY <3>4 DEF Abstract!CallsNext
  <2>4. ASSUME NEW c \in Calls, NEW r \in Results, CommandEnds(c, r)
        PROVE  Abstract!CallsNext
    <3>1. /\ phase[c] = "executing" /\ phase' = [phase EXCEPT ![c] = "ended"]
          /\ result' = [result EXCEPT ![c] = r] /\ UNCHANGED answer
      BY <2>4 DEF CommandEnds, Ended
    <3>2. Mapped(phase') = [Mapped(phase) EXCEPT ![c] = "ended"]
      BY <2>0, <3>1, MappedStep
    <3>3. Abstract!End(c)
      BY <3>1, <3>2 DEF Abstract!End, Abstract!Step, Mapped
    <3> QED
      BY <3>3 DEF Abstract!CallsNext
  <2>5. ASSUME UNCHANGED <<phase, result, answer>> PROVE UNCHANGED Abstract!callVars
    BY <2>5 DEF Abstract!callVars
  <2>6. CASE SyncNext /\ UNCHANGED <<callVars, mainSender>>
    BY <2>5, <2>6 DEF callVars
  <2>7. CASE PingArrives
    BY <2>5, <2>7 DEF PingArrives, callVars
  <2>8. CASE UNCHANGED vars
    BY <2>5, <2>8 DEF vars, callVars
  <2> QED
    BY <2>1, <2>2, <2>3, <2>4, <2>6, <2>7, <2>8 DEF Next, Delivery
<1> QED
  BY <1>1, <1>2, LinkInvariant, PTL DEF Spec, ImplementsRemoteCalls, Abstract!CallsSpec
=============================================================================
