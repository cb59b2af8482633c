---------------------------- MODULE NgrokProofs -----------------------------
(***************************************************************************)
(* Proofs about NgrokService and its instance, for every value of the      *)
(* constants: whatever recycles, kills, changes of settings and late        *)
(* events interleave, no recycle overlaps another, no child is leaked and   *)
(* nobody is given the tunnel of a child that was replaced.                 *)
(***************************************************************************)
EXTENDS NgrokService, TLAPS

\* Whatever names a spawn names the latest one: the tracked child, the pending
\* recycle and the service URL.
Latest ==
  /\ ngrokProcess # NoProc => ngrokProcess = spawned
  /\ pendingRecycle # NoProc => pendingRecycle = spawned
  /\ serviceUrl \in Procs => serviceUrl = spawned

\* A call has no answer before it is answered.
NoEarlyAnswer == \A c \in Callers : call[c] # "answered" => answer[c] = None

\* What AnswersAreLatest says of a step.
LatestAnswers ==
  \A c \in Callers : call[c] # "answered" /\ answer'[c] \in Procs => answer'[c] = spawned'

\* The inductive invariant of the service, but for the types: what concerns the
\* recycles, and what concerns the calls.
RecycleInv == OneRecycle /\ NoStrayChild /\ Latest
ServiceInv == RecycleInv /\ NoEarlyAnswer

RecycleTypeOK ==
  /\ ngrokPath \in Paths \cup {NoPath}
  /\ serviceUrl \in Procs \cup {Local}
  /\ spawnErr \in BOOLEAN /\ triedToSpawn \in BOOLEAN
  /\ pendingRecycle \in Procs \cup {NoProc}

CallTypeOK ==
  /\ call \in [Callers -> {"idle", "pending", "startup", "answered"}]
  /\ waitFor \in [Callers -> Procs \cup {NoProc}]
  /\ answer \in [Callers -> Procs \cup {Local, Bypass, None}]

\* recycle() up to its await, as every caller of it starts it.
Recycle(path) == RecycleStarts(path) \/ RecycleWithoutPath(path) \/ RecycleJoins

\* A step of connect(), of the child or of the timer.
InstanceEvent ==
  \/ \E p \in Procs : \/ AddrLine(p) \/ ChildReplies(p) \/ TunnelRetries(p)
                      \/ ChildDies(p) \/ OnExit(p) \/ OnClose(p) \/ OrphanFires(p)
  \/ TunnelAges \/ TimerFires

\* The last step of connect(), which ends its recycle.
ConnectEnds(p) ==
  TunnelOpens(p) \/ ReadyTimeout(p) \/ MissingExecutable(p) \/ TunnelFails(p)

(***************************************************************************)
(* Types                                                                   *)
(***************************************************************************)
\* The next spawn has a number, which is not NoProc.
LEMMA NextIsProc ==
  ASSUME InstanceTypeOK, SpawnsLeft
  PROVE  NextProc \in Procs /\ NextProc \in 1..MaxSpawns /\ NextProc # NoProc
BY NgrokAssumption DEF InstanceTypeOK, SpawnsLeft, NextProc, Procs, NoProc

\* kill() leaves a child in a state children have.
LEMMA KilledType ==
  ASSUME InstanceTypeOK
  PROVE  ChildAfterKill \in [Procs -> ChildStates]
BY DEF InstanceTypeOK, ChildAfterKill, ChildStates

\* kill() keeps the types of an instance.
LEMMA KillType ==
  ASSUME InstanceTypeOK, Kill
  PROVE  InstanceTypeOK'
BY KilledType DEF Kill, KillBookkeeping, CleanUp, InstanceTypeOK

\* So does kill() followed by connect().
LEMMA ConnectType ==
  ASSUME InstanceTypeOK, SpawnsLeft, NEW outcome \in SpawnOutcomes,
         KillAndConnect(NextProc, outcome)
  PROVE  InstanceTypeOK'
<1>1. child' \in [Procs -> ChildStates]
  BY KilledType, NextIsProc DEF KillAndConnect, SpawnOutcomes, ChildStates, NoPid
<1>2. conn' \in [Procs -> ConnStates]
  BY DEF KillAndConnect, InstanceTypeOK, ConnStates, InFlight
<1>3. spawned' \in 0..MaxSpawns /\ ngrokProcess' \in Procs \cup {NoProc}
  BY NextIsProc, NgrokAssumption DEF KillAndConnect
<1> QED
  BY <1>1, <1>2, <1>3 DEF KillAndConnect, KillBookkeeping, CleanUp, InstanceTypeOK

\* The events of a child and of the timer keep the types of an instance.
LEMMA EventType ==
  ASSUME InstanceTypeOK, InstanceEvent
  PROVE  InstanceTypeOK'
<1>1. ASSUME NEW p \in Procs, AddrLine(p) \/ ChildReplies(p) \/ TunnelRetries(p)
      PROVE  InstanceTypeOK'
  <2>1. Retries \in 0..Retries /\ \A n \in 0..Retries : n > 0 => n - 1 \in 0..Retries
    BY NgrokAssumption
  <2>2. retries' \in [Procs -> 0..Retries]
    BY <1>1, <2>1 DEF AddrLine, ChildReplies, TunnelRetries, InstanceTypeOK
  <2> QED
    BY <1>1, <2>2
      DEF AddrLine, ChildReplies, TunnelRetries, InstanceTypeOK, expiryVars, ConnStates, InFlight
<1>2. ASSUME NEW p \in Procs, ChildDies(p) \/ OnExit(p) \/ OnClose(p)
      PROVE  InstanceTypeOK'
  BY <1>2 DEF ChildDies, OnExit, OnClose, InstanceTypeOK, expiryVars, CleanUp,
              ChildStates, NoPid
<1>3. ASSUME TunnelAges PROVE InstanceTypeOK'
  BY <1>3 DEF TunnelAges, InstanceTypeOK
<1>4. ASSUME NEW p \in Procs, Announce(p)
      PROVE  announced' \in [Procs -> 0..MaxAnnounced] /\ told' \subseteq Procs
  BY <1>4 DEF Announce, InstanceTypeOK, MaxAnnounced
<1>5. ASSUME TimerFires PROVE InstanceTypeOK'
  <2>1. timer \in Procs
    BY <1>5 DEF TimerFires, InstanceTypeOK
  <2> QED
    BY <1>4, <1>5, <2>1 DEF TimerFires, CleanUp, InstanceTypeOK
<1>6. ASSUME NEW p \in Procs, OrphanFires(p) PROVE InstanceTypeOK'
  <2>1. orphans' \subseteq Procs /\ timer' \in Procs \cup {NoProc}
    BY <1>6 DEF OrphanFires, CleanUp, InstanceTypeOK
  <2>2. announced' \in [Procs -> 0..MaxAnnounced] /\ told' \subseteq Procs
    BY <1>4, <1>6 DEF OrphanFires, InstanceTypeOK
  <2>3. ngrokStartTime' \in {"null", "fresh", "old"}
    BY <1>6 DEF OrphanFires, CleanUp, InstanceTypeOK
  <2> QED
    BY <1>6, <2>1, <2>2, <2>3 DEF OrphanFires, InstanceTypeOK
<1> QED
  BY <1>1, <1>2, <1>3, <1>5, <1>6, Zenon DEF InstanceEvent

\* The end of connect() keeps the types of an instance.
LEMMA EndType ==
  ASSUME InstanceTypeOK, NEW p \in Procs, ConnectEnds(p)
  PROVE  InstanceTypeOK'
<1>1. conn' \in [Procs -> ConnStates]
  BY DEF ConnectEnds, TunnelOpens, ReadyTimeout, MissingExecutable, TunnelFails,
         InstanceTypeOK, ConnStates, Settled, Opened
<1>2. CASE TunnelOpens(p)
  <2>1. orphans' \subseteq Procs
    BY <1>2 DEF TunnelOpens, InstanceTypeOK
  <2> QED
    BY <1>1, <1>2, <2>1 DEF TunnelOpens, InstanceTypeOK
<1>3. CASE ReadyTimeout(p) \/ MissingExecutable(p) \/ TunnelFails(p)
  BY <1>1, <1>3 DEF ReadyTimeout, MissingExecutable, TunnelFails, InstanceTypeOK, expiryVars
<1> QED
  BY <1>2, <1>3 DEF ConnectEnds

\* recycle() keeps the types of the instance and of its own state.
LEMMA RecycleType ==
  ASSUME TypeOK, NEW path \in Paths \cup {NoPath}, Recycle(path)
  PROVE  InstanceTypeOK' /\ RecycleTypeOK'
<1>1. CASE RecycleStarts(path)
  BY <1>1, ConnectType, NextIsProc DEF RecycleStarts, TypeOK, RecycleTypeOK
<1>2. CASE RecycleWithoutPath(path)
  BY <1>2, KillType DEF RecycleWithoutPath, TypeOK, RecycleTypeOK
<1>3. CASE RecycleJoins
  BY <1>3 DEF RecycleJoins, TypeOK, RecycleTypeOK, InstanceTypeOK, instanceVars, recycleVars
<1> QED
  BY <1>1, <1>2, <1>3 DEF Recycle

\* Answering a call keeps the types of the calls.
LEMMA AnswerType ==
  ASSUME CallTypeOK, NEW c \in Callers, NEW url \in Procs \cup {Local, Bypass}, Answer(c, url)
  PROVE  CallTypeOK'
BY DEF Answer, CallTypeOK

\* So does awaiting a recycle.
LEMMA AwaitType ==
  ASSUME CallTypeOK, NEW c \in Callers, NEW stage \in {"pending", "startup"},
         NEW p \in Procs, Await(c, stage, p)
  PROVE  CallTypeOK'
BY DEF Await, CallTypeOK

\* What getServiceUrl does after its first await keeps every type.
LEMMA AfterPendingType ==
  ASSUME TypeOK, NEW c \in Callers, AfterPending(c)
  PROVE  InstanceTypeOK' /\ RecycleTypeOK' /\ CallTypeOK'
<1>0. CallTypeOK /\ settings \in Paths \cup {NoPath} /\ InstanceTypeOK
      /\ pendingRecycle \in Procs \cup {NoProc} /\ serviceUrl \in Procs \cup {Local}
  BY DEF TypeOK, CallTypeOK
<1>1. CASE /\ Answer(c, serviceUrl) \/ Answer(c, Bypass)
           /\ UNCHANGED instanceVars /\ UNCHANGED recycleVars
  <2>1. CallTypeOK'
    BY <1>0, <1>1, AnswerType
  <2> QED
    BY <2>1, <1>1 DEF TypeOK, InstanceTypeOK, RecycleTypeOK, instanceVars, recycleVars
<1>2. CASE RecycleStarts(settings) /\ Await(c, "startup", NextProc)
  <2>1. NextProc \in Procs
    BY <1>0, <1>2, NextIsProc DEF RecycleStarts
  <2>2. CallTypeOK'
    BY <1>0, <1>2, <2>1, AwaitType
  <2> QED
    BY <1>0, <1>2, <2>2, RecycleType DEF Recycle
<1>3. CASE RecycleWithoutPath(settings) /\ Answer(c, Local)
  <2>1. CallTypeOK'
    BY <1>0, <1>3, AnswerType
  <2> QED
    BY <1>0, <1>3, <2>1, RecycleType DEF Recycle
<1>4. CASE RecycleJoins /\ Await(c, "startup", pendingRecycle)
  <2>1. pendingRecycle \in Procs
    BY <1>0, <1>4 DEF RecycleJoins
  <2>2. CallTypeOK'
    BY <1>0, <1>4, <2>1, AwaitType
  <2> QED
    BY <1>0, <1>4, <2>2, RecycleType DEF Recycle
<1> QED
  BY <1>1, <1>2, <1>3, <1>4 DEF AfterPending

\* Every step keeps every type.
LEMMA TypeStep ==
  ASSUME TypeOK, [Next]_vars
  PROVE  TypeOK'
<1>0. /\ InstanceTypeOK /\ RecycleTypeOK /\ CallTypeOK
      /\ settings \in Paths \cup {NoPath} /\ recon \in Procs \cup {NoProc}
  BY DEF TypeOK, RecycleTypeOK, CallTypeOK
<1> SUFFICES /\ InstanceTypeOK' /\ RecycleTypeOK' /\ CallTypeOK'
             /\ settings' \in Paths \cup {NoPath} /\ recon' \in Procs \cup {NoProc}
  BY DEF TypeOK, RecycleTypeOK, CallTypeOK
<1>1. CASE InstanceStep
  <2>1. InstanceEvent /\ UNCHANGED serviceVars
    BY <1>1 DEF InstanceStep, InstanceEvent
  <2> QED
    BY <1>0, <2>1, EventType DEF serviceVars, RecycleTypeOK, CallTypeOK
<1>2. ASSUME NEW p \in Procs, ConnectSettles(p)
      PROVE  /\ InstanceTypeOK' /\ RecycleTypeOK' /\ CallTypeOK'
             /\ settings' \in Paths \cup {NoPath} /\ recon' \in Procs \cup {NoProc}
  <2>1. ConnectEnds(p)
    BY <1>2 DEF ConnectSettles, RecycleSucceeds, RecycleFails, ConnectEnds
  <2>2. RecycleTypeOK'
    BY <1>0, <1>2 DEF ConnectSettles, RecycleSucceeds, RecycleFails, RecycleTypeOK
  <2> QED
    BY <1>0, <1>2, <2>1, <2>2, EndType DEF ConnectSettles, callVars, CallTypeOK
<1>3. ASSUME NEW c \in Callers, GetServiceUrl(c)
      PROVE  /\ InstanceTypeOK' /\ RecycleTypeOK' /\ CallTypeOK'
             /\ settings' \in Paths \cup {NoPath} /\ recon' \in Procs \cup {NoProc}
  <2>1. CASE /\ pendingRecycle # NoProc /\ Await(c, "pending", pendingRecycle)
             /\ UNCHANGED instanceVars /\ UNCHANGED recycleVars
    <3>1. CallTypeOK'
      BY <1>0, <2>1, AwaitType DEF RecycleTypeOK
    <3> QED
      BY <1>0, <1>3, <2>1, <3>1
        DEF GetServiceUrl, instanceVars, recycleVars, InstanceTypeOK, RecycleTypeOK
  <2> QED
    BY <1>0, <1>3, <2>1, AfterPendingType DEF GetServiceUrl
<1>4. ASSUME NEW c \in Callers, ResumeAfterPending(c)
      PROVE  /\ InstanceTypeOK' /\ RecycleTypeOK' /\ CallTypeOK'
             /\ settings' \in Paths \cup {NoPath} /\ recon' \in Procs \cup {NoProc}
  BY <1>0, <1>4, AfterPendingType DEF ResumeAfterPending
<1>5. ASSUME NEW c \in Callers, ResumeAfterStartup(c)
      PROVE  /\ InstanceTypeOK' /\ RecycleTypeOK' /\ CallTypeOK'
             /\ settings' \in Paths \cup {NoPath} /\ recon' \in Procs \cup {NoProc}
  <2>1. CallTypeOK'
    BY <1>0, <1>5, AnswerType DEF ResumeAfterStartup, RecycleTypeOK
  <2> QED
    BY <1>0, <1>5, <2>1
      DEF ResumeAfterStartup, instanceVars, recycleVars, InstanceTypeOK, RecycleTypeOK
<1>6. ASSUME NEW c \in Callers, UseAnswer(c)
      PROVE  /\ InstanceTypeOK' /\ RecycleTypeOK' /\ CallTypeOK'
             /\ settings' \in Paths \cup {NoPath} /\ recon' \in Procs \cup {NoProc}
  <2>1. CallTypeOK'
    BY <1>0, <1>6 DEF UseAnswer, CallTypeOK
  <2> QED
    BY <1>0, <1>6, <2>1
      DEF UseAnswer, instanceVars, recycleVars, InstanceTypeOK, RecycleTypeOK
<1>7. CASE Reconnect
  <2>1. Recycle(settings)
    BY <1>7 DEF Reconnect, Recycle
  <2>2. recon' \in Procs \cup {NoProc}
    BY <1>0, <1>7, NextIsProc DEF Reconnect, RecycleStarts, RecycleTypeOK
  <2> QED
    BY <1>0, <1>7, <2>1, <2>2, RecycleType DEF Reconnect, callVars, CallTypeOK
<1>8. CASE ResumeReconnect
  BY <1>0, <1>8 DEF ResumeReconnect, callVars, instanceVars, recycleVars,
                    InstanceTypeOK, RecycleTypeOK, CallTypeOK
<1>9. CASE KillProcess
  BY <1>0, <1>9, KillType DEF KillProcess, serviceVars, RecycleTypeOK, CallTypeOK
<1>10. ASSUME NEW path \in Paths \cup {NoPath}, UpdateNgrokFromSettings(path)
       PROVE  /\ InstanceTypeOK' /\ RecycleTypeOK' /\ CallTypeOK'
              /\ settings' \in Paths \cup {NoPath} /\ recon' \in Procs \cup {NoProc}
  <2>1. settings' = path /\ UNCHANGED recon /\ CallTypeOK'
    BY <1>0, <1>10 DEF UpdateNgrokFromSettings, callVars, CallTypeOK
  <2>2. CASE Recycle(path)
    BY <1>0, <2>1, <2>2, RecycleType
  <2>3. CASE /\ ngrokPath' \in {ngrokPath, path}
             /\ UNCHANGED <<serviceUrl, spawnErr, triedToSpawn, pendingRecycle>>
             /\ UNCHANGED instanceVars
    BY <1>0, <2>1, <2>3 DEF instanceVars, InstanceTypeOK, RecycleTypeOK
  <2> QED
    BY <1>10, <2>2, <2>3 DEF UpdateNgrokFromSettings, Recycle
<1>11. CASE UNCHANGED vars
  BY <1>0, <1>11 DEF vars, serviceVars, instanceVars, InstanceTypeOK, RecycleTypeOK, CallTypeOK
<1> QED
  BY <1>1, <1>2, <1>3, <1>4, <1>5, <1>6, <1>7, <1>8, <1>9, <1>10, <1>11 DEF Next

\* Every variable of the service and of its instance keeps its type.
THEOREM TypeCorrect == Spec => []TypeOK
<1>1. Init => TypeOK
  <2> SUFFICES ASSUME Init PROVE TypeOK
    OBVIOUS
  <2>1. InstanceInit => InstanceTypeOK
    <3>1. 0 \in 0..MaxSpawns /\ 0 \in 0..Retries /\ 0 \in 0..MaxAnnounced /\ 0 \in Nat
      BY NgrokAssumption DEF MaxAnnounced
    <3>2. "none" \in ChildStates /\ "none" \in ConnStates
      BY DEF ChildStates, ConnStates
    <3> QED
      BY <3>1, <3>2 DEF InstanceInit, InstanceTypeOK
  <2> QED
    BY <2>1 DEF Init, TypeOK
<1>2. TypeOK /\ [Next]_vars => TypeOK'
  BY TypeStep
<1> QED
  BY <1>1, <1>2, PTL DEF Spec

(***************************************************************************)
(* Safety                                                                  *)
(***************************************************************************)
\* connect() is in flight before its last step and not after it.
LEMMA FlightLemma ==
  /\ {"waiting", "posting", "replying", "rejecting"} = InFlight
  /\ "none" \notin InFlight /\ "failed" \notin InFlight
  /\ "open" \notin InFlight /\ "astray" \notin InFlight
BY DEF InFlight

\* After kill() every live child that was not signalled is gone.
LEMMA KilledLemma ==
  ASSUME InstanceTypeOK, NoStrayChild
  PROVE  \A p \in Procs : ChildAfterKill[p] # "up"
BY DEF InstanceTypeOK, NoStrayChild, ChildAfterKill

\* kill() keeps the invariant of the recycles.
LEMMA KillInv ==
  ASSUME TypeOK, RecycleInv, Kill, serviceUrl' \in {serviceUrl, Local}, UNCHANGED pendingRecycle
  PROVE  RecycleInv'
<1>1. OneRecycle'
  BY DEF Kill, RecycleInv, OneRecycle
<1>2. NoStrayChild'
  BY KilledLemma DEF Kill, RecycleInv, NoStrayChild, TypeOK
<1>3. Latest'
  <2>1. Local \notin Procs
    BY ValueAssumption DEF Procs
  <2> QED
    BY <2>1 DEF Kill, RecycleInv, Latest, Procs
<1> QED
  BY <1>1, <1>2, <1>3 DEF RecycleInv

\* So does recycle() up to its await.
LEMMA RecycleKeepsInv ==
  ASSUME TypeOK, RecycleInv, NEW path \in Paths \cup {NoPath}, Recycle(path)
  PROVE  RecycleInv'
<1>1. CASE RecycleStarts(path)
  <2> USE <1>1 DEF RecycleStarts
  <2>1. PICK outcome \in SpawnOutcomes : KillAndConnect(NextProc, outcome)
    OBVIOUS
  <2>2. NextProc \in Procs /\ NextProc # NoProc /\ InstanceTypeOK
    BY NextIsProc DEF TypeOK
  <2>3. OneRecycle'
    <3>1. \A p \in Procs : conn[p] \notin InFlight
      BY DEF RecycleInv, OneRecycle, Procs, NoProc
    <3>2. conn' = [conn EXCEPT ![NextProc] = IF outcome = "missing" THEN "rejecting"
                                                                    ELSE "waiting"]
      BY <2>1 DEF KillAndConnect
    <3> QED
      BY <2>2, <3>1, <3>2, FlightLemma DEF OneRecycle, InstanceTypeOK
  <2>4. NoStrayChild'
    <3>1. \A p \in Procs : ChildAfterKill[p] # "up"
      BY <2>2, KilledLemma DEF RecycleInv
    <3>2. /\ child' = [ChildAfterKill EXCEPT ![NextProc] = outcome]
          /\ ngrokProcess' = IF outcome = "missing" THEN NoProc ELSE NextProc
      BY <2>1 DEF KillAndConnect
    <3> QED
      BY <2>2, <3>1, <3>2, KilledType DEF NoStrayChild
  <2>5. Latest'
    <3>1. Local \notin Procs
      BY ValueAssumption DEF Procs
    <3>2. spawned' = NextProc /\ ngrokProcess' \in {NoProc, NextProc}
      BY <2>1 DEF KillAndConnect
    <3> QED
      BY <3>1, <3>2 DEF Latest, Procs
  <2> QED
    BY <2>3, <2>4, <2>5 DEF RecycleInv
<1>2. CASE RecycleWithoutPath(path)
  BY <1>2, KillInv DEF RecycleWithoutPath
<1>3. CASE RecycleJoins
  BY <1>3 DEF RecycleJoins, RecycleInv, OneRecycle, NoStrayChild, Latest, Procs,
              instanceVars, recycleVars
<1> QED
  BY <1>1, <1>2, <1>3 DEF Recycle

\* So do the events of the children, of the current one as of those replaced,
\* and of the timer.
LEMMA EventKeepsInv ==
  ASSUME TypeOK, RecycleInv, InstanceEvent, UNCHANGED serviceVars
  PROVE  RecycleInv'
<1>1. UNCHANGED <<spawned, ngrokProcess>>
  BY DEF InstanceEvent, AddrLine, ChildReplies, TunnelRetries, ChildDies, OnExit, OnClose,
         TunnelAges, TimerFires, OrphanFires
<1>2. \A p \in Procs : conn'[p] \in InFlight <=> conn[p] \in InFlight
  <2>1. ASSUME NEW q \in Procs, AddrLine(q) \/ ChildReplies(q) \/ TunnelRetries(q),
               NEW p \in Procs
        PROVE  conn'[p] \in InFlight <=> conn[p] \in InFlight
    BY <2>1, FlightLemma DEF AddrLine, ChildReplies, TunnelRetries, TypeOK, InstanceTypeOK
  <2>2. CASE UNCHANGED conn
    BY <2>2
  <2>3. (\E q \in Procs : AddrLine(q) \/ ChildReplies(q) \/ TunnelRetries(q)) \/ UNCHANGED conn
    BY DEF InstanceEvent, ChildDies, OnExit, OnClose, TunnelAges, TimerFires, OrphanFires
  <2> QED
    BY <2>1, <2>2, <2>3
<1>3. \A p \in Procs : child'[p] = "up" => child[p] = "up"
  <2>1. ASSUME NEW q \in Procs, ChildDies(q) \/ OnExit(q) \/ OnClose(q), NEW p \in Procs
        PROVE  child'[p] = "up" => child[p] = "up"
    BY <2>1 DEF ChildDies, OnExit, OnClose, TypeOK, InstanceTypeOK
  <2>2. CASE UNCHANGED child
    BY <2>2
  <2>3. (\E q \in Procs : ChildDies(q) \/ OnExit(q) \/ OnClose(q)) \/ UNCHANGED child
    BY DEF InstanceEvent, AddrLine, ChildReplies, TunnelRetries, TunnelAges,
           TimerFires, OrphanFires
  <2> QED
    BY <2>1, <2>2, <2>3
<1> QED
  BY <1>1, <1>2, <1>3 DEF RecycleInv, OneRecycle, NoStrayChild, Latest, Procs, serviceVars

\* So does the end of connect(): the child it is for is the latest one, as it is
\* the pending recycle's.
LEMMA EndKeepsInv ==
  ASSUME TypeOK, RecycleInv, NEW p \in Procs, ConnectSettles(p)
  PROVE  RecycleInv' /\ p = spawned /\ UNCHANGED spawned
<1>1. conn[p] \in InFlight
  BY FlightLemma DEF ConnectSettles, RecycleSucceeds, RecycleFails, TunnelOpens, ReadyTimeout,
                     MissingExecutable, TunnelFails
<1>2. p = pendingRecycle /\ p = spawned
  BY <1>1, NgrokAssumption DEF RecycleInv, OneRecycle, Latest, Procs, NoProc
<1>3. /\ \E end \in {"open", "astray", "failed"} : conn' = [conn EXCEPT ![p] = end]
      /\ UNCHANGED <<spawned, ngrokProcess, child>>
      /\ serviceUrl' \in {p, serviceUrl} /\ pendingRecycle' = NoProc
  BY DEF ConnectSettles, RecycleSucceeds, RecycleFails, TunnelOpens, ReadyTimeout,
         MissingExecutable, TunnelFails
<1>4. ASSUME NEW q \in Procs PROVE conn'[q] \in InFlight <=> q = pendingRecycle'
  <2>1. p # NoProc /\ conn'[p] \in {"open", "astray", "failed"}
    BY <1>3, NgrokAssumption DEF TypeOK, InstanceTypeOK, Procs, NoProc
  <2>2. CASE q = p
    BY <1>3, <2>1, <2>2, FlightLemma
  <2>3. CASE q # p
    <3>1. conn'[q] = conn[q] /\ q # NoProc
      BY <1>3, <2>3, NgrokAssumption DEF TypeOK, InstanceTypeOK, Procs, NoProc
    <3> QED
      BY <1>2, <1>3, <2>3, <3>1 DEF RecycleInv, OneRecycle
  <2> QED
    BY <2>2, <2>3
<1>5. NoStrayChild' /\ Latest'
  BY <1>2, <1>3 DEF RecycleInv, NoStrayChild, Latest, Procs
<1> QED
  BY <1>2, <1>3, <1>4, <1>5 DEF RecycleInv, OneRecycle

\* getServiceUrl after its first await keeps it, and answers with the latest
\* tunnel if with one.
LEMMA AfterPendingKeepsInv ==
  ASSUME TypeOK, RecycleInv, NEW c \in Callers, AfterPending(c)
  PROVE  /\ RecycleInv'
         /\ \/ \E url \in {serviceUrl, Local, Bypass} :
                 Answer(c, url) /\ (url \in Procs => url = spawned')
            \/ \E p : Await(c, "startup", p)
<1>0. settings \in Paths \cup {NoPath} /\ Local \notin Procs /\ Bypass \notin Procs
  BY ValueAssumption DEF TypeOK, Procs
<1>1. CASE /\ Answer(c, serviceUrl) \/ Answer(c, Bypass)
           /\ UNCHANGED instanceVars /\ UNCHANGED recycleVars
  BY <1>0, <1>1 DEF RecycleInv, OneRecycle, NoStrayChild, Latest, Procs, instanceVars, recycleVars
<1>2. CASE Recycle(settings) /\ (Answer(c, Local) \/ \E p : Await(c, "startup", p))
  BY <1>0, <1>2, RecycleKeepsInv
<1> QED
  BY <1>1, <1>2 DEF AfterPending, Recycle

\* Answering a call with the latest tunnel, or with no tunnel, breaks nothing that
\* is said of the answers.
LEMMA AnswerKeepsCalls ==
  ASSUME CallTypeOK, NoEarlyAnswer, NEW c \in Callers, NEW url, Answer(c, url),
         url \in Procs => url = spawned'
  PROVE  NoEarlyAnswer' /\ LatestAnswers
<1>1. None \notin Procs
  BY ValueAssumption DEF Procs
<1> QED
  BY <1>1 DEF Answer, CallTypeOK, NoEarlyAnswer, LatestAnswers

\* Nor does a call that awaits a recycle.
LEMMA AwaitKeepsCalls ==
  ASSUME CallTypeOK, NoEarlyAnswer, NEW c \in Callers, NEW stage, NEW p,
         call[c] # "answered", Await(c, stage, p)
  PROVE  NoEarlyAnswer' /\ LatestAnswers
<1>1. None \notin Procs
  BY ValueAssumption DEF Procs
<1> QED
  BY <1>1 DEF Await, CallTypeOK, NoEarlyAnswer, LatestAnswers

\* Nor does a step without the calls.
LEMMA SameCalls ==
  ASSUME NoEarlyAnswer, UNCHANGED <<call, answer>>
  PROVE  NoEarlyAnswer' /\ LatestAnswers
<1>1. None \notin Procs
  BY ValueAssumption DEF Procs
<1> QED
  BY <1>1 DEF NoEarlyAnswer, LatestAnswers

\* Every step keeps the invariant and gives no answer that is out of date.
LEMMA ServiceStep ==
  ASSUME TypeOK, ServiceInv, [Next]_vars
  PROVE  ServiceInv' /\ LatestAnswers
<1>0. /\ RecycleInv /\ NoEarlyAnswer /\ CallTypeOK
      /\ settings \in Paths \cup {NoPath} /\ pendingRecycle \in Procs \cup {NoProc}
  BY DEF ServiceInv, TypeOK, CallTypeOK
<1> SUFFICES RecycleInv' /\ NoEarlyAnswer' /\ LatestAnswers
  BY DEF ServiceInv
<1>1. CASE InstanceStep
  <2>1. InstanceEvent /\ UNCHANGED serviceVars
    BY <1>1 DEF InstanceStep, InstanceEvent
  <2> QED
    BY <1>0, <2>1, EventKeepsInv, SameCalls DEF serviceVars
<1>2. ASSUME NEW p \in Procs, ConnectSettles(p)
      PROVE  RecycleInv' /\ NoEarlyAnswer' /\ LatestAnswers
  BY <1>0, <1>2, EndKeepsInv, SameCalls DEF ConnectSettles, callVars
<1>3. ASSUME NEW c \in Callers, call[c] # "answered", AfterPending(c)
      PROVE  RecycleInv' /\ NoEarlyAnswer' /\ LatestAnswers
  <2>1. RecycleInv'
    BY <1>0, <1>3, AfterPendingKeepsInv
  <2>2. CASE \E url \in {serviceUrl, Local, Bypass} :
               Answer(c, url) /\ (url \in Procs => url = spawned')
    BY <1>0, <2>1, <2>2, AnswerKeepsCalls
  <2>3. CASE \E p : Await(c, "startup", p)
    BY <1>0, <1>3, <2>1, <2>3, AwaitKeepsCalls
  <2> QED
    BY <1>0, <1>3, <2>2, <2>3, AfterPendingKeepsInv
<1>4. ASSUME UNCHANGED instanceVars, UNCHANGED recycleVars
      PROVE  RecycleInv'
  BY <1>0, <1>4 DEF RecycleInv, OneRecycle, NoStrayChild, Latest, instanceVars, recycleVars
<1>5. ASSUME NEW c \in Callers, GetServiceUrl(c)
      PROVE  RecycleInv' /\ NoEarlyAnswer' /\ LatestAnswers
  <2>1. CASE /\ Await(c, "pending", pendingRecycle)
             /\ UNCHANGED instanceVars /\ UNCHANGED recycleVars
    BY <1>0, <1>4, <1>5, <2>1, AwaitKeepsCalls DEF GetServiceUrl
  <2>2. CASE AfterPending(c)
    BY <1>3, <1>5, <2>2 DEF GetServiceUrl
  <2> QED
    BY <1>5, <2>1, <2>2 DEF GetServiceUrl
<1>6. ASSUME NEW c \in Callers, ResumeAfterPending(c)
      PROVE  RecycleInv' /\ NoEarlyAnswer' /\ LatestAnswers
  BY <1>3, <1>6 DEF ResumeAfterPending
<1>7. ASSUME NEW c \in Callers, ResumeAfterStartup(c)
      PROVE  RecycleInv' /\ NoEarlyAnswer' /\ LatestAnswers
  <2>1. serviceUrl \in Procs => serviceUrl = spawned'
    BY <1>0, <1>7 DEF ResumeAfterStartup, RecycleInv, Latest, instanceVars
  <2> QED
    BY <1>0, <1>4, <1>7, <2>1, AnswerKeepsCalls DEF ResumeAfterStartup
<1>8. ASSUME NEW c \in Callers, UseAnswer(c)
      PROVE  RecycleInv' /\ NoEarlyAnswer' /\ LatestAnswers
  <2>1. None \notin Procs
    BY ValueAssumption DEF Procs
  <2>2. NoEarlyAnswer' /\ LatestAnswers
    BY <1>0, <1>8, <2>1 DEF UseAnswer, CallTypeOK, NoEarlyAnswer, LatestAnswers
  <2> QED
    BY <1>4, <1>8, <2>2 DEF UseAnswer
<1>9. CASE Reconnect
  <2>1. Recycle(settings)
    BY <1>9 DEF Reconnect, Recycle
  <2> QED
    BY <1>0, <1>9, <2>1, RecycleKeepsInv, SameCalls DEF Reconnect, callVars
<1>10. CASE ResumeReconnect
  BY <1>0, <1>4, <1>10, SameCalls DEF ResumeReconnect, callVars
<1>11. CASE KillProcess
  BY <1>0, <1>11, KillInv, SameCalls DEF KillProcess, serviceVars
<1>12. ASSUME NEW path \in Paths \cup {NoPath}, UpdateNgrokFromSettings(path)
       PROVE  RecycleInv' /\ NoEarlyAnswer' /\ LatestAnswers
  <2>1. NoEarlyAnswer' /\ LatestAnswers
    BY <1>0, <1>12, SameCalls DEF UpdateNgrokFromSettings, callVars
  <2>2. CASE Recycle(path)
    BY <1>0, <2>1, <2>2, RecycleKeepsInv
  <2>3. CASE UNCHANGED <<serviceUrl, pendingRecycle>> /\ UNCHANGED instanceVars
    BY <1>0, <2>1, <2>3 DEF RecycleInv, OneRecycle, NoStrayChild, Latest, instanceVars
  <2> QED
    BY <1>12, <2>2, <2>3 DEF UpdateNgrokFromSettings, Recycle
<1>13. CASE UNCHANGED vars
  BY <1>0, <1>4, <1>13, SameCalls DEF vars, serviceVars, recycleVars
<1> QED
  BY <1>1, <1>2, <1>5, <1>6, <1>7, <1>8, <1>9, <1>10, <1>11, <1>12, <1>13 DEF Next

\* The inductive invariant holds in every reachable state.
THEOREM ServiceInvariant == Spec => []ServiceInv
<1>1. Init => ServiceInv
  BY ValueAssumption DEF Init, InstanceInit, ServiceInv, RecycleInv, OneRecycle, NoStrayChild,
       Latest, NoEarlyAnswer, InFlight, Procs, NoProc
<1>2. TypeOK /\ ServiceInv /\ [Next]_vars => ServiceInv'
  BY ServiceStep
<1> QED
  BY <1>1, <1>2, TypeCorrect, PTL DEF Spec

\* There is one recycle at a time.
THEOREM RecyclesDoNotOverlap == Spec => []OneRecycle
<1>1. ServiceInv => OneRecycle
  BY DEF ServiceInv, RecycleInv
<1> QED
  BY <1>1, ServiceInvariant, PTL

\* Every live child that was not signalled is the tracked one.
THEOREM NoChildLeaked == Spec => []NoStrayChild
<1>1. ServiceInv => NoStrayChild
  BY DEF ServiceInv, RecycleInv
<1> QED
  BY <1>1, ServiceInvariant, PTL

\* While ngrok is reported running, the service URL is no other child's tunnel.
THEOREM UrlOfTrackedChild == Spec => []ServiceUrlIsCurrent
<1>1. ServiceInv => ServiceUrlIsCurrent
  BY DEF ServiceInv, RecycleInv, Latest, ServiceUrlIsCurrent, Running
<1> QED
  BY <1>1, ServiceInvariant, PTL

\* No call is answered with the tunnel of a child that was replaced.
THEOREM LatestTunnelAnswered == Spec => AnswersAreLatest
<1>1. TypeOK /\ ServiceInv /\ [Next]_vars => [LatestAnswers]_vars
  BY ServiceStep
<1> QED
  BY <1>1, TypeCorrect, ServiceInvariant, PTL DEF Spec, AnswersAreLatest, LatestAnswers

(***************************************************************************)
(* Expiration                                                              *)
(***************************************************************************)
\* What a step is to the instance.
InstanceStart ==
  pendingRecycle = NoProc /\ SpawnsLeft /\ \E outcome \in SpawnOutcomes : KillAndConnect(NextProc, outcome)

LEMMA StepShape ==
  ASSUME [Next]_vars
  PROVE  \/ InstanceEvent \/ \E p \in Procs : ConnectSettles(p)
         \/ InstanceStart \/ Kill \/ UNCHANGED instanceVars
<1>1. ASSUME NEW path, RecycleStarts(path) \/ RecycleWithoutPath(path) \/ RecycleJoins
      PROVE  InstanceStart \/ Kill \/ UNCHANGED instanceVars
  BY <1>1 DEF RecycleStarts, RecycleWithoutPath, RecycleJoins, InstanceStart
<1>2. ASSUME NEW c \in Callers, AfterPending(c)
      PROVE  InstanceStart \/ Kill \/ UNCHANGED instanceVars
  BY <1>1, <1>2 DEF AfterPending
<1>3. CASE InstanceStep
  BY <1>3 DEF InstanceStep, InstanceEvent
<1>4. CASE \E c \in Callers : GetServiceUrl(c) \/ ResumeAfterPending(c)
                              \/ ResumeAfterStartup(c) \/ UseAnswer(c)
  BY <1>2, <1>4 DEF GetServiceUrl, ResumeAfterPending, ResumeAfterStartup, UseAnswer
<1>5. CASE Reconnect \/ ResumeReconnect
  BY <1>1, <1>5 DEF Reconnect, ResumeReconnect
<1>6. CASE KillProcess
  BY <1>6 DEF KillProcess
<1>7. CASE \E path \in Paths \cup {NoPath} : UpdateNgrokFromSettings(path)
  BY <1>1, <1>7 DEF UpdateNgrokFromSettings
<1>8. CASE UNCHANGED vars
  BY <1>8 DEF vars
<1> QED
  BY <1>3, <1>4, <1>5, <1>6, <1>7, <1>8 DEF Next

\* What is in the future is untouched.
Unspawned == \A p \in Procs : p > spawned => conn[p] = "none" /\ child[p] = "none"

LEMMA UnspawnedStep ==
  ASSUME TypeOK, RecycleInv, Unspawned, [Next]_vars
  PROVE  Unspawned'
<1>0. InstanceTypeOK /\ spawned \in Nat
  BY NgrokAssumption DEF TypeOK, InstanceTypeOK
<1>1. CASE InstanceEvent
  <2>1. ASSUME NEW q \in Procs, AddrLine(q) \/ ChildReplies(q) \/ TunnelRetries(q) PROVE Unspawned'
    BY <1>0, <2>1 DEF AddrLine, ChildReplies, TunnelRetries, Unspawned, InstanceTypeOK
  <2>2. ASSUME NEW q \in Procs, ChildDies(q) \/ OnExit(q) \/ OnClose(q) PROVE Unspawned'
    BY <1>0, <2>2 DEF ChildDies, OnExit, OnClose, Unspawned, InstanceTypeOK
  <2>3. CASE UNCHANGED <<spawned, conn, child>>
    BY <2>3 DEF Unspawned
  <2> QED
    BY <1>1, <2>1, <2>2, <2>3 DEF InstanceEvent, TunnelAges, TimerFires, OrphanFires
<1>2. ASSUME NEW p \in Procs, ConnectSettles(p) PROVE Unspawned'
  <2>1. p = spawned /\ UNCHANGED spawned
    BY <1>2, EndKeepsInv
  <2>2. UNCHANGED child /\ \E end : conn' = [conn EXCEPT ![p] = end]
    BY <1>2 DEF ConnectSettles, RecycleSucceeds, RecycleFails, TunnelOpens, ReadyTimeout,
                MissingExecutable, TunnelFails
  <2> QED
    BY <1>0, <2>1, <2>2 DEF Unspawned, InstanceTypeOK
<1>3. CASE InstanceStart
  <2>1. PICK outcome \in SpawnOutcomes : KillAndConnect(NextProc, outcome)
    BY <1>3 DEF InstanceStart
  <2>2. spawned' = spawned + 1
    BY <2>1 DEF KillAndConnect, NextProc
  <2>3. ASSUME NEW q \in Procs, q > spawned' PROVE conn'[q] = conn[q] /\ child'[q] = child[q] /\ q > spawned
    <3>1. q # NextProc /\ q > spawned /\ child[q] = "none"
      BY <1>0, <2>2, <2>3 DEF NextProc, Procs, Unspawned
    <3> QED
      BY <1>0, <2>1, <3>1 DEF KillAndConnect, ChildAfterKill, InstanceTypeOK
  <2> QED
    BY <2>3 DEF Unspawned
<1>4. CASE Kill
  BY <1>0, <1>4 DEF Kill, ChildAfterKill, Unspawned
<1>5. CASE UNCHANGED instanceVars
  BY <1>5 DEF instanceVars, Unspawned
<1> QED
  BY <1>1, <1>2, <1>3, <1>4, <1>5, StepShape

LEMMA UnspawnedInit == Init => Unspawned
BY DEF Init, InstanceInit, Unspawned

\* What ExpiryWatched says of a step.
WatchKept ==
  \A p \in Procs : TunnelUp(p)' /\ ~Watched(p)'
    => \/ TunnelUp(p) /\ ~Watched(p)
       \/ \E q \in Procs : q < p /\ child[q] \in {"exited", "drained", "nopid"}
                                 /\ child'[q] # child[q]

\* Events of an older child may stop the timer; those of the tracked one end its tunnel,
\* and a timer that fires arms its successor or announces.
LEMMA EventKeepsWatch ==
  ASSUME TypeOK, Latest, Unspawned, InstanceEvent
  PROVE  WatchKept
<1>0. InstanceTypeOK /\ spawned \in Nat /\ NoProc \notin Procs
  BY NgrokAssumption DEF TypeOK, InstanceTypeOK, NoProc, Procs
<1> SUFFICES ASSUME NEW p \in Procs, TunnelUp(p)', ~Watched(p)'
             PROVE  \/ TunnelUp(p) /\ ~Watched(p)
                    \/ \E q \in Procs : q < p /\ child[q] \in {"exited", "drained", "nopid"}
                                              /\ child'[q] # child[q]
  BY DEF WatchKept
<1>1. ASSUME NEW q \in Procs, AddrLine(q) \/ ChildReplies(q) \/ TunnelRetries(q)
      PROVE  TunnelUp(p) /\ ~Watched(p)
  BY <1>0, <1>1 DEF AddrLine, ChildReplies, TunnelRetries, InstanceTypeOK, expiryVars,
                    TunnelUp, Watched
<1>2. ASSUME NEW q \in Procs, ChildDies(q) PROVE TunnelUp(p) /\ ~Watched(p)
  BY <1>0, <1>2 DEF ChildDies, InstanceTypeOK, expiryVars, TunnelUp, Watched
<1>3. ASSUME NEW q \in Procs, OnExit(q) \/ OnClose(q)
      PROVE  q < p /\ child[q] \in {"exited", "drained", "nopid"} /\ child'[q] # child[q]
  <2>1. child[q] \in {"exited", "drained", "nopid"} /\ child'[q] # child[q] /\ child'[q] # "up"
    BY <1>0, <1>3 DEF OnExit, OnClose, InstanceTypeOK
  <2>2. ngrokProcess = p /\ q # p
    BY <1>3, <2>1 DEF OnExit, OnClose, TunnelUp
  <2>3. p = spawned /\ ~(q > spawned)
    BY <1>0, <2>1, <2>2 DEF Latest, Unspawned
  <2> QED
    BY <1>0, <2>1, <2>2, <2>3, NgrokAssumption DEF Procs
<1>4. ASSUME NEW o, Expired, Announce(o), UNCHANGED <<ngrokProcess, child, conn>>
      PROVE  TunnelUp(p) /\ ~Watched(p)
  <2>1. TunnelUp(p) /\ p \notin told /\ ngrokStartTime # "old"
    BY <1>4 DEF Announce, TunnelUp, Watched
  <2> QED
    BY <1>0, <1>4, <2>1 DEF Watched, Expired, InstanceTypeOK
<1>5. CASE TunnelAges
  BY <1>0, <1>5 DEF TunnelAges, TunnelUp, Watched
<1>6. CASE TimerFires
  BY <1>4, <1>6 DEF TimerFires
<1>7. ASSUME NEW o \in Procs, OrphanFires(o) PROVE TunnelUp(p) /\ ~Watched(p)
  <2>1. CASE Expired /\ Announce(o)
    BY <1>4, <1>7, <2>1 DEF OrphanFires
  <2>2. CASE ~Expired /\ timer' = o /\ UNCHANGED ngrokStartTime
    BY <1>0, <1>7, <2>2 DEF Expired, Watched
  <2> QED
    BY <1>7, <2>1, <2>2 DEF OrphanFires
<1> QED
  BY <1>1, <1>2, <1>3, <1>5, <1>6, <1>7 DEF InstanceEvent

\* Of the other steps, one that opens a tunnel arms its timer, and recycles and kills
\* leave no open tunnel tracked.
LEMMA WatchStep ==
  ASSUME TypeOK, RecycleInv, Unspawned, [Next]_vars
  PROVE  WatchKept
<1>0. InstanceTypeOK /\ spawned \in Nat /\ NoProc \notin Procs
  BY NgrokAssumption DEF TypeOK, InstanceTypeOK, NoProc, Procs
<1>1. CASE InstanceEvent
  BY <1>1, EventKeepsWatch DEF RecycleInv
<1>2. ASSUME NEW p \in Procs, ConnectSettles(p) PROVE WatchKept
  <2>1. CASE TunnelOpens(p)
    BY <1>0, <2>1 DEF TunnelOpens, WatchKept, Watched
  <2>2. CASE ReadyTimeout(p) \/ MissingExecutable(p) \/ TunnelFails(p)
    BY <1>0, <2>2 DEF ReadyTimeout, MissingExecutable, TunnelFails, InstanceTypeOK, expiryVars,
                      WatchKept, Watched, TunnelUp
  <2> QED
    BY <1>2, <2>1, <2>2 DEF ConnectSettles, RecycleSucceeds, RecycleFails
<1>3. CASE InstanceStart
  <2>1. PICK outcome \in SpawnOutcomes : KillAndConnect(NextProc, outcome)
    BY <1>3 DEF InstanceStart
  <2>2. ngrokProcess' \in {NoProc, NextProc} /\ conn'[NextProc] # "open"
    BY <1>0, <1>3, <2>1, NextIsProc DEF KillAndConnect, InstanceTypeOK, InstanceStart
  <2> QED
    BY <1>0, <2>2 DEF WatchKept, TunnelUp
<1>4. CASE Kill
  BY <1>0, <1>4 DEF Kill, WatchKept, TunnelUp
<1>5. CASE UNCHANGED instanceVars
  BY <1>5 DEF instanceVars, WatchKept, Watched, TunnelUp
<1> QED
  BY <1>1, <1>2, <1>3, <1>4, <1>5, StepShape

\* Only the late exit or close of an older child leaves an open tunnel of the tracked,
\* living child without its timer (ExpiryWatched).
THEOREM TunnelWatched == Spec => ExpiryWatched
<1>1. TypeOK /\ ServiceInv /\ Unspawned /\ [Next]_vars => Unspawned' /\ [WatchKept]_vars
  BY UnspawnedStep, WatchStep DEF ServiceInv
<1> QED
  BY <1>1, UnspawnedInit, TypeCorrect, ServiceInvariant, PTL DEF Spec, ExpiryWatched, WatchKept

\* An armed timer is that of a tunnel that opened and has announced nothing; until a
\* tunnel opens whose child was killed, it is the tracked child's and the only one.
Armed == orphans \cup ({timer} \ {NoProc})
NoneAstray == \A q \in Procs : conn[q] # "astray"
TimerInv ==
  /\ timer \notin orphans
  /\ \A p \in Armed : announced[p] = 0 /\ conn[p] \in Opened
  /\ \A p \in Procs : conn[p] \notin Opened => announced[p] = 0
  /\ NoneAstray => orphans = {} /\ (timer # NoProc => timer = ngrokProcess)

\* What ExpiryIsGenuine says of a step.
GenuineOnly ==
  \A p \in Procs : announced'[p] # announced[p]
    => /\ announced[p] = 0 /\ conn[p] \in Opened
       /\ ngrokProcess = p \/ \E q \in Procs : conn[q] = "astray"

\* A step that arms no timer and announces nothing, and by which connect() may go on.
LEMMA TimersKept ==
  ASSUME TypeOK, TimerInv, UNCHANGED <<orphans, announced>>, timer' \in {timer, NoProc},
         \A p \in Procs : conn'[p] = conn[p] \/ {conn[p], conn'[p]} \cap Opened = {},
         timer' # NoProc => UNCHANGED ngrokProcess
  PROVE  TimerInv' /\ GenuineOnly
<1>0. InstanceTypeOK /\ NoProc \notin Procs /\ "astray" \in Opened
  BY DEF TypeOK, NoProc, Procs, Opened
<1>1. Armed \subseteq Procs /\ Armed' \subseteq Armed
  BY <1>0 DEF Armed, InstanceTypeOK
<1>2. NoneAstray' => NoneAstray
  BY <1>0 DEF NoneAstray
<1> QED
  BY <1>0, <1>1, <1>2 DEF TimerInv, GenuineOnly, InstanceTypeOK

\* A timer that announces is disarmed.
LEMMA AnnouncedOnce ==
  ASSUME TypeOK, TimerInv, NEW o \in Armed, Announce(o), UNCHANGED <<ngrokProcess, conn>>,
         timer' = NoProc, orphans' = orphans \ {o}
  PROVE  TimerInv' /\ GenuineOnly
<1>0. InstanceTypeOK /\ NoProc \notin Procs /\ Armed \subseteq Procs
  BY DEF TypeOK, NoProc, Procs, InstanceTypeOK, Armed
<1>1. announced[o] = 0 /\ conn[o] \in Opened
  BY DEF TimerInv
<1>2. announced' = [announced EXCEPT ![o] = 1]
  BY <1>0, <1>1 DEF Announce, InstanceTypeOK, MaxAnnounced
<1>3. Armed' = orphans \ {o} /\ Armed' \subseteq Armed
  BY DEF Armed
<1>4. NoneAstray => o = ngrokProcess
  BY DEF TimerInv, Armed
<1>5. GenuineOnly
  BY <1>0, <1>1, <1>2, <1>4 DEF GenuineOnly, InstanceTypeOK, NoneAstray
<1>6. TimerInv'
  <2>1. \A p \in Armed' : announced'[p] = 0 /\ conn'[p] \in Opened
    BY <1>0, <1>2, <1>3 DEF TimerInv, InstanceTypeOK
  <2>2. \A p \in Procs : conn'[p] \notin Opened => announced'[p] = 0
    BY <1>0, <1>1, <1>2 DEF TimerInv, InstanceTypeOK
  <2>3. timer' \notin orphans' /\ (NoneAstray' => orphans' = {})
    BY <1>0 DEF TimerInv, NoneAstray, InstanceTypeOK
  <2> QED
    BY <2>1, <2>2, <2>3 DEF TimerInv
<1> QED
  BY <1>5, <1>6

LEMMA EventKeepsTimer ==
  ASSUME TypeOK, TimerInv, InstanceEvent
  PROVE  TimerInv' /\ GenuineOnly
<1>0. InstanceTypeOK /\ NoProc \notin Procs /\ {"waiting", "posting", "replying"} \cap Opened = {}
  BY DEF TypeOK, NoProc, Procs, Opened
<1>1. ASSUME NEW q \in Procs, AddrLine(q) \/ ChildReplies(q) \/ TunnelRetries(q)
      PROVE  TimerInv' /\ GenuineOnly
  <2>1. UNCHANGED <<ngrokProcess, timer, orphans, announced>>
    BY <1>1 DEF AddrLine, ChildReplies, TunnelRetries, expiryVars
  <2>2. PICK to \in {"posting", "replying"} :
          conn[q] \in {"waiting", "posting", "replying"} /\ conn' = [conn EXCEPT ![q] = to]
    BY <1>1 DEF AddrLine, ChildReplies, TunnelRetries
  <2>3. \A p \in Procs : conn'[p] = conn[p] \/ {conn[p], conn'[p]} \cap Opened = {}
    BY <1>0, <2>2 DEF InstanceTypeOK
  <2> QED
    BY <2>1, <2>3, TimersKept
<1>2. CASE UNCHANGED <<ngrokProcess, conn, orphans, announced>> /\ timer' \in {timer, NoProc}
  BY <1>2, TimersKept
<1>3. ASSUME NEW q \in Procs, ChildDies(q) \/ OnExit(q) \/ OnClose(q)
      PROVE  TimerInv' /\ GenuineOnly
  BY <1>2, <1>3 DEF ChildDies, OnExit, OnClose, CleanUp, expiryVars
<1>4. CASE TunnelAges
  BY <1>2, <1>4 DEF TunnelAges
<1>5. CASE TimerFires
  <2>1. timer \in Armed /\ orphans' = orphans \ {timer}
    BY <1>5 DEF TimerFires, Armed, TimerInv
  <2> QED
    BY <1>5, <2>1, AnnouncedOnce DEF TimerFires, CleanUp
<1>6. ASSUME NEW o \in Procs, OrphanFires(o) PROVE TimerInv' /\ GenuineOnly
  <2>1. o \in Armed /\ UNCHANGED <<ngrokProcess, conn>>
    BY <1>6 DEF OrphanFires, Armed
  <2>2. CASE Announce(o) /\ CleanUp /\ orphans' = orphans \ {o}
    BY <2>1, <2>2, AnnouncedOnce DEF CleanUp
  <2>3. CASE /\ timer' = o /\ UNCHANGED announced
             /\ orphans' = (orphans \ {o}) \cup ({timer} \ {NoProc})
    <3>1. Armed' = Armed /\ timer' \notin orphans' /\ ~NoneAstray
      BY <1>0, <1>6, <2>3 DEF Armed, OrphanFires, TimerInv
    <3> QED
      BY <2>1, <2>3, <3>1 DEF TimerInv, GenuineOnly, NoneAstray
  <2> QED
    BY <1>6, <2>2, <2>3 DEF OrphanFires
<1> QED
  BY <1>1, <1>3, <1>4, <1>5, <1>6 DEF InstanceEvent

\* A tunnel that opens arms a timer that was not armed, and orphans one only if the child
\* was killed, or one was before.
LEMMA OpenKeepsTimer ==
  ASSUME TypeOK, TimerInv, NEW p \in Procs, TunnelOpens(p)
  PROVE  TimerInv' /\ GenuineOnly
<1>0. InstanceTypeOK /\ NoProc \notin Procs /\ "replying" \notin Opened
      /\ {"open", "astray"} = Opened
  BY DEF TypeOK, NoProc, Procs, Opened
<1>1. conn[p] = "replying" /\ announced[p] = 0 /\ p \notin Armed
  BY <1>0 DEF TunnelOpens, TimerInv
<1>2. /\ UNCHANGED <<ngrokProcess, announced>> /\ timer' = p
      /\ orphans' = Armed /\ Armed' = Armed \cup {p}
      /\ conn' = [conn EXCEPT ![p] = IF ngrokProcess = p THEN "open" ELSE "astray"]
  BY <1>0 DEF TunnelOpens, Armed
<1>3. \A q \in Procs : q # p => conn'[q] = conn[q]
  BY <1>2 DEF InstanceTypeOK
<1>4. conn'[p] \in Opened /\ (conn'[p] # "astray" => ngrokProcess = p)
  BY <1>0, <1>2 DEF InstanceTypeOK
<1>5. ASSUME NoneAstray' PROVE orphans' = {} /\ timer' = ngrokProcess'
  <2>1. NoneAstray /\ ngrokProcess = p
    BY <1>1, <1>3, <1>4, <1>5 DEF NoneAstray
  <2> QED
    BY <1>1, <1>2, <2>1 DEF TimerInv, Armed
<1>6. \A q \in Armed' : announced'[q] = 0 /\ conn'[q] \in Opened
  <2>1. Armed \subseteq Procs
    BY <1>0 DEF Armed, InstanceTypeOK
  <2> QED
    BY <1>1, <1>2, <1>3, <1>4, <2>1 DEF TimerInv
<1>7. \A q \in Procs : conn'[q] \notin Opened => announced'[q] = 0
  BY <1>1, <1>2, <1>3 DEF TimerInv
<1>8. GenuineOnly /\ timer' \notin orphans'
  BY <1>1, <1>2 DEF GenuineOnly
<1> QED
  BY <1>5, <1>6, <1>7, <1>8 DEF TimerInv

LEMMA TimerStep ==
  ASSUME TypeOK, RecycleInv, Unspawned, TimerInv, [Next]_vars
  PROVE  TimerInv' /\ GenuineOnly
<1>0. /\ InstanceTypeOK /\ spawned \in Nat /\ NoProc \notin Procs
      /\ {"replying", "posting", "waiting", "rejecting", "none", "failed"} \cap Opened = {}
  BY NgrokAssumption DEF TypeOK, InstanceTypeOK, NoProc, Procs, Opened
<1>1. CASE InstanceEvent
  BY <1>1, EventKeepsTimer
<1>2. ASSUME NEW p \in Procs, ConnectSettles(p) PROVE TimerInv' /\ GenuineOnly
  <2>1. CASE TunnelOpens(p)
    BY <2>1, OpenKeepsTimer
  <2>2. CASE ReadyTimeout(p) \/ MissingExecutable(p) \/ TunnelFails(p)
    <3>1. /\ UNCHANGED <<ngrokProcess, announced, orphans, timer>>
          /\ conn[p] \notin Opened /\ conn' = [conn EXCEPT ![p] = "failed"]
      BY <1>0, <2>2 DEF ReadyTimeout, MissingExecutable, TunnelFails, expiryVars
    <3>2. \A q \in Procs : conn'[q] = conn[q] \/ {conn[q], conn'[q]} \cap Opened = {}
      BY <1>0, <3>1 DEF InstanceTypeOK
    <3> QED
      BY <3>1, <3>2, TimersKept
  <2> QED
    BY <1>2, <2>1, <2>2 DEF ConnectSettles, RecycleSucceeds, RecycleFails
<1>3. ASSUME KillBookkeeping PROVE timer' \in {timer, NoProc} /\ (timer' # NoProc => ngrokProcess = NoProc)
  BY <1>3 DEF KillBookkeeping, CleanUp
<1>4. CASE InstanceStart
  <2>1. PICK outcome \in SpawnOutcomes : KillAndConnect(NextProc, outcome)
    BY <1>4 DEF InstanceStart
  <2>2. /\ KillBookkeeping /\ UNCHANGED <<orphans, announced>>
        /\ conn' = [conn EXCEPT ![NextProc] = IF outcome = "missing" THEN "rejecting" ELSE "waiting"]
    BY <2>1 DEF KillAndConnect
  <2>3. NextProc \in Procs /\ conn[NextProc] = "none"
    BY <1>0, <1>4, NextIsProc DEF InstanceStart, Unspawned, NextProc
  <2>4. \A q \in Procs : conn'[q] = conn[q] \/ {conn[q], conn'[q]} \cap Opened = {}
    BY <1>0, <2>2, <2>3 DEF InstanceTypeOK
  <2>5. CASE timer' = NoProc
    BY <2>2, <2>4, <2>5, TimersKept
  <2>6. CASE timer' # NoProc
    <3>1. timer' = timer /\ ngrokProcess = NoProc /\ ~NoneAstray
      BY <1>3, <2>2, <2>6 DEF TimerInv
    <3>2. ~NoneAstray'
      BY <2>2, <2>3, <3>1 DEF NoneAstray, InstanceTypeOK
    <3>3. Armed' = Armed /\ Armed \subseteq Procs
      BY <1>0, <2>2, <3>1 DEF Armed, InstanceTypeOK
    <3> QED
      BY <2>2, <2>4, <3>1, <3>2, <3>3 DEF TimerInv, GenuineOnly
  <2> QED
    BY <2>5, <2>6
<1>5. CASE Kill
  <2>1. KillBookkeeping /\ UNCHANGED <<conn, orphans, announced>> /\ ngrokProcess' = NoProc
    BY <1>5 DEF Kill
  <2>2. timer' # NoProc => UNCHANGED ngrokProcess
    BY <1>3, <2>1
  <2> QED
    BY <1>3, <2>1, <2>2, TimersKept
<1>6. CASE UNCHANGED instanceVars
  BY <1>6, TimersKept DEF instanceVars
<1> QED
  BY <1>1, <1>2, <1>4, <1>5, <1>6, StepShape

\* A timer announces once, and another tunnel's than the tracked one only when some tunnel
\* opened after kill() had dropped its child (ExpiryIsGenuine).
THEOREM ExpiryTold == Spec => ExpiryIsGenuine
<1>1. Init => Unspawned /\ TimerInv
  <2> SUFFICES ASSUME Init PROVE TimerInv
    BY UnspawnedInit
  <2> QED
    BY DEF Init, InstanceInit, TimerInv, Armed
<1>2. TypeOK /\ ServiceInv /\ Unspawned /\ TimerInv /\ [Next]_vars
        => Unspawned' /\ TimerInv' /\ [GenuineOnly]_vars
  BY UnspawnedStep, TimerStep DEF ServiceInv
<1> QED
  BY <1>1, <1>2, TypeCorrect, ServiceInvariant, PTL DEF Spec, ExpiryIsGenuine, GenuineOnly

=============================================================================
