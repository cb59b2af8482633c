----------------------------- MODULE StoreSync ------------------------------
(***************************************************************************)
(* The Redux stores of the main process and of the client, kept alike by   *)
(* forwarding actions over IPC: forwardToRenderer and forwardToMain, and   *)
(* the 'sync-store' listeners of the two store.ts.  The channels are       *)
(* ordered, one each way, and CommandService shares them.                  *)
(*                                                                         *)
(* A store is the sequence of the actions its reducers have seen: they are *)
(* the same functions on both sides.  An action is named by its number.    *)
(***************************************************************************)
EXTENDS Naturals, SequencesExt

CONSTANT MaxActions   \* bound: actions dispatched by either side
ASSUME SyncAssumption == MaxActions \in Nat

Actions == 1..MaxActions
NoAction == 0

VARIABLES
  dispatched,  \* the side that dispatched each action, in the order of their numbers
  store,       \* what each side's store has reduced
  net,         \* net[p]: the messages on their way to p
  syncing,     \* the action the client awaits sendSync for, or NoAction
  returned     \* has sendSync returned?

syncVars == <<dispatched, store, net, syncing, returned>>

Peers == {"main", "client"}
Peer(p) == IF p = "main" THEN "client" ELSE "main"
Sync(a) == [type |-> "sync-store", id |-> a]

SyncTypeOK ==
  /\ dispatched \in Seq(Peers) /\ Len(dispatched) <= MaxActions
  /\ store \in [Peers -> Seq(Actions)]
  /\ syncing \in Actions \cup {NoAction}
  /\ returned \in BOOLEAN

SyncInit ==
  /\ dispatched = <<>>
  /\ store = [p \in Peers |-> <<>>]
  /\ syncing = NoAction
  /\ returned = FALSE

Send(p, m) == net' = [net EXCEPT ![p] = Append(@, m)]
Receive(p) == net' = [net EXCEPT ![p] = Tail(@)]

\* Mutant of Runs: the client goes on while main handles its action.
MutRuns(p) == TRUE

\* The client runs nothing while it is in sendSync.
Runs(p) == p = "client" => syncing = NoAction
Gets(p, type) == Runs(p) /\ net[p] # <<>> /\ Head(net[p]).type = type

Reduce(p, a) == store' = [store EXCEPT ![p] = Append(@, a)]
NextAction == Len(dispatched) + 1
Dispatches(p) ==
  /\ Runs(p)
  /\ NextAction \in Actions
  /\ dispatched' = Append(dispatched, p)

-----------------------------------------------------------------------------
(* The steps of the two middlewares and listeners                          *)

\* Mutant of MainDispatches: the action is not forwarded.
MutMainDispatches ==
  /\ Dispatches("main")
  /\ Reduce("main", NextAction)
  /\ UNCHANGED <<net, syncing, returned>>

\* forwardToRenderer sends and reduces.
MainDispatches ==
  /\ Dispatches("main")
  /\ Send("client", Sync(NextAction))
  /\ Reduce("main", NextAction)
  /\ UNCHANGED <<syncing, returned>>

\* Mutant of ClientDispatches: send instead of sendSync.
MutClientDispatches ==
  /\ Dispatches("client")
  /\ Send("main", Sync(NextAction))
  /\ Reduce("client", NextAction)
  /\ UNCHANGED <<syncing, returned>>

\* forwardToMain: the action is reduced when sendSync returns.
ClientDispatches ==
  /\ Dispatches("client")
  /\ Send("main", Sync(NextAction))
  /\ syncing' = NextAction
  /\ UNCHANGED <<store, returned>>

\* Main's listener marks the action doNotForward, dispatches it, and unblocks the client.
MainSyncs ==
  /\ Gets("main", "sync-store")
  /\ Reduce("main", Head(net["main"]).id)
  /\ Receive("main")
  /\ returned' = TRUE
  /\ UNCHANGED <<dispatched, syncing>>

\* Mutant of SendSyncReturns: the call returns again.
MutReturns ==
  /\ returned
  /\ Reduce("client", syncing)
  /\ syncing' = NoAction
  /\ UNCHANGED <<dispatched, net, returned>>

SendSyncReturns ==
  /\ returned
  /\ Reduce("client", syncing)
  /\ syncing' = NoAction
  /\ returned' = FALSE
  /\ UNCHANGED <<dispatched, net>>

\* The client's listener, which may run between any two of its tasks.
ClientSyncs ==
  /\ Gets("client", "sync-store")
  /\ Reduce("client", Head(net["client"]).id)
  /\ Receive("client")
  /\ UNCHANGED <<dispatched, syncing, returned>>

SyncProgress == MainSyncs \/ SendSyncReturns \/ ClientSyncs
SyncNext == MainDispatches \/ ClientDispatches \/ SyncProgress

-----------------------------------------------------------------------------
(* Properties *)

Reduced(p) == ToSet(store[p])
From(p) == {a \in 1..Len(dispatched) : dispatched[a] = p}
Quiet == net = [p \in Peers |-> <<>>] /\ syncing = NoAction

\* No action comes back to where it was dispatched, or is forwarded twice (the endless
\* loop the listeners' comments speak of, store.ts:152); whatever the client has reduced
\* main has too; both reduce the actions of one side in the order of their dispatch,
\* and the client without leaving any out.
ReducedOnce ==
  /\ Reduced("client") \subseteq Reduced("main")
  /\ \A p, q \in Peers : \A k, n \in 1..Len(store[p]) :
       k < n /\ {store[p][k], store[p][n]} \subseteq From(q) => store[p][k] < store[p][n]
  /\ \A q \in Peers : \A a \in Reduced("main") \cap From(q), b \in Reduced("client") \cap From(q) :
       a < b => a \in Reduced("client")

\* Both stores reduced the same action last, hence agree on a value that every
\* action replaces, as setFrameworkSettings does.
StoresAgree ==
  Quiet /\ dispatched # <<>> => Last(store["main"]) = Last(store["client"])

\* Every action dispatched is reduced by both in the end.
EveryActionReduced ==
  \A a \in Actions :
    a <= Len(dispatched) ~> a \in Reduced("main") \cap Reduced("client")
=============================================================================
