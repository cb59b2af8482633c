--------------------------- MODULE CommandService ---------------------------
(***************************************************************************)
(* The remote calls of main and client (sdk/shared/src/command/service.ts) *)
(* over the channels they share with the stores.  The model begins when    *)
(* the client has loaded: its 'ping' is on its way to main.                *)
(***************************************************************************)
EXTENDS StoreSync

CONSTANT MaxCalls   \* bound: remote calls made by either side
ASSUME CallsAssumption == MaxCalls \in Nat

Calls == 1..MaxCalls
Nothing == "nothing"

\* What a command may end with; "no reason" is a rejection without a value.
Results == {"value", "array", "empty array", "error", "no reason"}
\* onIpcMessage spreads an array over the arguments, of which the caller takes
\* the first.
Delivered(r) ==
  CASE r = "array" -> "first element" [] r = "empty array" -> "undefined"
    [] OTHER -> r

VARIABLES
  caller,      \* the side that made each call
  phase,       \* how far each call is
  result,      \* what its command ended with
  answer,      \* what the caller got
  mainSender   \* has main got an ipcSender?

callVars == <<caller, phase, result, answer>>
vars == <<syncVars, callVars, mainSender>>

Ping == [type |-> "ping", id |-> 0]
\* `seen` is not in the code: what the sender's store had reduced.
Call(c) == [type |-> "remote-call", id |-> c, seen |-> Reduced(caller'[c])]
Answer(c, r) == [type |-> "answer", id |-> c, result |-> r, seen |-> Reduced(Peer(caller[c]))]

Message ==
  [type : {"ping"}, id : {0}] \cup [type : {"sync-store"}, id : Actions]
    \cup [type : {"remote-call"}, id : Calls, seen : SUBSET Actions]
    \cup [type : {"answer"}, id : Calls, result : Results, seen : SUBSET Actions]

\* Calls and answers have their shapes, and the stores theirs (StoreSync).
TypeOK ==
  /\ SyncTypeOK
  /\ net \in [Peers -> Seq(Message)]
  /\ caller \in [Calls -> Peers \cup {Nothing}]
  /\ phase \in [Calls -> {"none", "unsent", "requested", "executing", "ended", "settled"}]
  /\ result \in [Calls -> Results \cup {Nothing}]
  /\ answer \in [Calls -> {Delivered(r) : r \in Results} \cup {Nothing}]
  /\ mainSender \in BOOLEAN

Init ==
  /\ SyncInit
  /\ net = [main |-> <<Ping>>, client |-> <<>>]
  /\ caller = [c \in Calls |-> Nothing]
  /\ phase = [c \in Calls |-> "none"]
  /\ result = [c \in Calls |-> Nothing]
  /\ answer = [c \in Calls |-> Nothing]
  /\ mainSender = FALSE

-----------------------------------------------------------------------------
HasSender(p) == p = "client" \/ mainSender
StoresIdle == UNCHANGED <<dispatched, store, syncing, returned>>

\* Without a sender the call waits for an answer but is not sent.
RemoteCall(p, c) ==
  /\ Runs(p)
  /\ \A d \in Calls : phase[d] = "none" <=> d >= c
  /\ caller' = [caller EXCEPT ![c] = p]
  /\ phase' = [phase EXCEPT ![c] = IF HasSender(p) THEN "requested" ELSE "unsent"]
  /\ IF HasSender(p) THEN Send(Peer(p), Call(c)) ELSE UNCHANGED net
  /\ UNCHANGED <<result, answer, mainSender>> /\ StoresIdle

PingArrives ==
  /\ Gets("main", "ping")
  /\ mainSender' = TRUE
  /\ Receive("main")
  /\ UNCHANGED callVars /\ StoresIdle

\* Mutant of OnIpcMessage: the request is handled again.
MutOnIpcMessage(p) ==
  /\ Gets(p, "remote-call")
  /\ phase' = [phase EXCEPT ![Head(net[p]).id] = "executing"]
  /\ UNCHANGED <<net, caller, result, answer, mainSender>> /\ StoresIdle

OnIpcMessage(p) ==
  /\ Gets(p, "remote-call")
  /\ phase' = [phase EXCEPT ![Head(net[p]).id] = "executing"]
  /\ Receive(p)
  /\ UNCHANGED <<caller, result, answer, mainSender>> /\ StoresIdle

Ended(c, r) ==
  /\ Runs(Peer(caller[c]))
  /\ phase[c] = "executing"
  /\ phase' = [phase EXCEPT ![c] = "ended"]
  /\ result' = [result EXCEPT ![c] = r]
  /\ UNCHANGED <<caller, answer, mainSender>> /\ StoresIdle

\* Mutant of CommandEnds: a rejection is not answered.
MutCommandEnds(c, r) ==
  /\ Ended(c, r)
  /\ IF r \in {"error", "no reason"} THEN UNCHANGED net ELSE Send(caller[c], Answer(c, r))

\* Without a reason the catch clause fails as well, and nothing is sent.
CommandEnds(c, r) ==
  /\ Ended(c, r)
  /\ IF r = "no reason" THEN UNCHANGED net ELSE Send(caller[c], Answer(c, r))

Settle(m) ==
  /\ phase' = [phase EXCEPT ![m.id] = "settled"]
  /\ answer' = [answer EXCEPT ![m.id] = Delivered(m.result)]

\* The listener was registered with once: it is gone when the call has settled.
AnswerArrives(p) ==
  /\ Gets(p, "answer")
  /\ IF phase[Head(net[p]).id] = "settled" THEN UNCHANGED <<phase, answer>>
     ELSE Settle(Head(net[p]))
  /\ Receive(p)
  /\ UNCHANGED <<caller, result, mainSender>> /\ StoresIdle

Delivery ==
  \/ PingArrives
  \/ \E p \in Peers : OnIpcMessage(p) \/ AnswerArrives(p)

Next ==
  \/ SyncNext /\ UNCHANGED <<callVars, mainSender>>
  \/ Delivery
  \/ \E c \in Calls :
       \/ \E p \in Peers : RemoteCall(p, c)
       \/ \E r \in Results : CommandEnds(c, r)

Spec == Init /\ [][Next]_vars

\* The event loops take the next message, and sendSync returns once main has
\* answered it.  A command need not end: it may wait for the user.
Fairness ==
  /\ WF_vars(MainSyncs /\ UNCHANGED <<callVars, mainSender>>)
  /\ WF_vars(SendSyncReturns /\ UNCHANGED <<callVars, mainSender>>)
  /\ WF_vars(ClientSyncs /\ UNCHANGED <<callVars, mainSender>>)
  /\ WF_vars(PingArrives)
  /\ \A p \in Peers : WF_vars(OnIpcMessage(p)) /\ WF_vars(AnswerArrives(p))
FairSpec == Spec /\ Fairness

-----------------------------------------------------------------------------
(* Properties *)

\* A call executes at most once, and its caller gets what its own execution
\* returned, once (remoteCall and onIpcMessage).
Abstract == INSTANCE RemoteCalls WITH
  phase <- [c \in Calls |-> IF phase[c] = "unsent" THEN "requested" ELSE phase[c]]
ImplementsRemoteCalls == Abstract!CallsSpec

\* Who handles a call or an answer has reduced everything its sender had, so
\* the client goes on from what the command did to main's store, as setActiveBot
\* does (activeBotHelper.ts:92-94).
NothingOvertaken ==
  \A p \in Peers :
    Runs(p) /\ net[p] # <<>> /\ Head(net[p]).type \in {"remote-call", "answer"}
      => Head(net[p]).seen \subseteq Reduced(p)

\* Every request that was sent is executed, and settles once its command has
\* ended, unless with a rejection that has no reason.
EveryCallSettles ==
  \A c \in Calls :
    /\ phase[c] = "requested" ~> phase[c] \in {"executing", "ended", "settled"}
    /\ phase[c] = "ended" /\ result[c] # "no reason" ~> phase[c] = "settled"
=============================================================================
