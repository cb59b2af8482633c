--------------------------- MODULE NgrokInstance ---------------------------
(***************************************************************************)
(* One NgrokInstance (app/main/src/ngrok.ts): the ngrok child processes it  *)
(* spawns, the tunnel it asks each of them for, and the timer that watches  *)
(* for the tunnel's expiration.                                            *)
(*                                                                         *)
(* Every spawn has a number p \in Procs: it names the child process, the   *)
(* connect() call that spawned it and the URLs that child hands out.  The  *)
(* operating system, the child and the event loop decide when the events   *)
(* of a child arrive; a child that was told to die may report its exit     *)
(* long after its successor was spawned.                                   *)
(***************************************************************************)
EXTENDS Naturals, FiniteSets

CONSTANTS
  MaxSpawns,  \* bound: child processes spawned in a behaviour
  Retries     \* tries left to runTunnel after the first (100 in the code)

ASSUME NgrokAssumption == MaxSpawns \in Nat \ {0} /\ Retries \in Nat

Procs == 1..MaxSpawns
NoProc == 0                          \* null

VARIABLES
  spawned,        \* how many children connect() has tried to spawn
  ngrokProcess,   \* the tracked child, or NoProc
  child,          \* what became of every child
  conn,           \* the progress of the connect() that spawned each child
  retries,        \* runTunnel's retries, per connect()
  tunnels,        \* the tunnels believed open, each by its child
  inspectUrl,     \* the address last logged by a child
  ngrokStartTime, \* age of the tunnel: null, under or over expirationTime
  timer,          \* the armed timer ngrokExpirationTimer refers to, or NoProc
  orphans,        \* the armed timers nothing refers to any more
  announced,      \* 'expired' events so far, by the timer that emitted them
  told            \* children whose open tunnel was announced expired

instanceVars == <<spawned, ngrokProcess, child, conn, retries, tunnels,
                  inspectUrl, ngrokStartTime, timer, orphans, announced, told>>
expiryVars == <<ngrokStartTime, timer, orphans, announced, told>>

\* "missing": no executable, spawn threw.  "nopid": spawn failed, so the object
\* has no pid.  "up" -> "dying" (signalled) -> "exited" (the process is gone)
\* -> "drained" ('exit' was handled) -> "closed" ('close' was handled).
NoPid == {"nopid", "nopidClosed"}
ChildStates == {"none", "missing", "up", "dying", "exited", "drained", "closed"}
               \cup NoPid

\* "waiting" for the address line, "posting" a tunnel request, "replying": the
\* child has answered it.  "rejecting": spawnNgrok threw, the catch is queued.
\* "astray": the tunnel opened, though kill() had dropped its child meanwhile.
InFlight == {"rejecting", "waiting", "posting", "replying"}
Opened == {"open", "astray"}
Settled == Opened \cup {"failed"}
ConnStates == {"none"} \cup InFlight \cup Settled
MaxAnnounced == 2                    \* bound on counting 'expired' events

InstanceTypeOK ==
  /\ spawned \in 0..MaxSpawns
  /\ ngrokProcess \in Procs \cup {NoProc}
  /\ child \in [Procs -> ChildStates]
  /\ conn \in [Procs -> ConnStates]
  /\ retries \in [Procs -> 0..Retries]
  /\ tunnels \subseteq Procs
  /\ inspectUrl \in Procs \cup {NoProc}
  /\ ngrokStartTime \in {"null", "fresh", "old"}
  /\ timer \in Procs \cup {NoProc}
  /\ orphans \subseteq Procs
  /\ announced \in [Procs -> 0..MaxAnnounced]
  /\ told \subseteq Procs

InstanceInit ==
  /\ spawned = 0
  /\ ngrokProcess = NoProc
  /\ child = [p \in Procs |-> "none"]
  /\ conn = [p \in Procs |-> "none"]
  /\ retries = [p \in Procs |-> 0]
  /\ tunnels = {}
  /\ inspectUrl = NoProc
  /\ ngrokStartTime = "null"
  /\ timer = NoProc
  /\ orphans = {}
  /\ announced = [p \in Procs |-> 0]
  /\ told = {}

-----------------------------------------------------------------------------
SpawnsLeft == spawned < MaxSpawns
NextProc == spawned + 1

\* running(): the object has a pid, which it keeps after the process is gone.
Running == ngrokProcess # NoProc /\ child[ngrokProcess] \notin NoPid

\* cleanUpNgrokExpirationTimer(): only the latest timer can be cleared.
CleanUp == ngrokStartTime' = "null" /\ timer' = NoProc

\* Mutant of ChildAfterKill: the process object is dropped and not signalled.
MutChildAfterKill == child

\* What kill() leaves behind; it returns early when no child is tracked.
ChildAfterKill == [p \in Procs |-> IF p = ngrokProcess /\ child[p] = "up"
                                     THEN "dying" ELSE child[p]]
\* Mutant of KillBookkeeping: kill() forgets the expiration timer.
MutKillBookkeeping ==
  /\ tunnels' = (IF ngrokProcess = NoProc THEN tunnels ELSE {})
  /\ UNCHANGED <<ngrokStartTime, timer>>
KillBookkeeping ==
  IF ngrokProcess = NoProc
    THEN UNCHANGED <<tunnels, ngrokStartTime, timer>>
    ELSE tunnels' = {} /\ CleanUp

Kill ==
  /\ ngrokProcess' = NoProc
  /\ child' = ChildAfterKill
  /\ KillBookkeeping
  /\ UNCHANGED <<spawned, conn, retries, inspectUrl, orphans, announced, told>>

\* kill() and then connect() up to its first await, which is how the one caller
\* of connect() uses it: no child is tracked, so getNgrokInspectUrl spawns one.
KillAndConnect(p, outcome) ==
  /\ spawned' = p
  /\ child' = [ChildAfterKill EXCEPT ![p] = outcome]
  /\ ngrokProcess' = IF outcome = "missing" THEN NoProc ELSE p
  /\ conn' = [conn EXCEPT ![p] = IF outcome = "missing" THEN "rejecting"
                                                         ELSE "waiting"]
  /\ KillBookkeeping
  /\ UNCHANGED <<retries, inspectUrl, orphans, announced, told>>
SpawnOutcomes == {"missing", "nopid", "up"}

-----------------------------------------------------------------------------
(* The awaits of connect(): getNgrokInspectUrl, then runTunnel.            *)

\* The address line arrives: not after kill(), which pauses stdout.
AddrLine(p) ==
  /\ conn[p] = "waiting" /\ ngrokProcess = p
  /\ child[p] \in {"up", "exited", "drained"}
  /\ inspectUrl' = p
  /\ conn' = [conn EXCEPT ![p] = "posting"]
  /\ retries' = [retries EXCEPT ![p] = Retries]
  /\ UNCHANGED <<spawned, ngrokProcess, child, tunnels>> /\ UNCHANGED expiryVars

\* Mutant of ReadyTimeout: only a child that is gone is given up.
MutReadyTimeout(p) ==
  /\ conn[p] = "waiting" /\ child[p] \in {"closed", "nopidClosed"}
  /\ conn' = [conn EXCEPT ![p] = "failed"]
  /\ UNCHANGED <<spawned, ngrokProcess, child, retries, tunnels, inspectUrl>>
  /\ UNCHANGED expiryVars

\* No address within 15 seconds: 'error' is emitted and the promise rejected.
ReadyTimeout(p) ==
  /\ conn[p] = "waiting"
  /\ conn' = [conn EXCEPT ![p] = "failed"]
  /\ UNCHANGED <<spawned, ngrokProcess, child, retries, tunnels, inspectUrl>>
  /\ UNCHANGED expiryVars

\* spawnNgrok threw inside the async function: its rejection is delivered.
MissingExecutable(p) ==
  /\ conn[p] = "rejecting"
  /\ conn' = [conn EXCEPT ![p] = "failed"]
  /\ UNCHANGED <<spawned, ngrokProcess, child, retries, tunnels, inspectUrl>>
  /\ UNCHANGED expiryVars

\* External: the child answers the POST /api/tunnels request it was sent.
ChildReplies(p) ==
  /\ conn[p] = "posting" /\ child[p] \in {"up", "dying"}
  /\ conn' = [conn EXCEPT ![p] = "replying"]
  /\ UNCHANGED <<spawned, ngrokProcess, child, retries, tunnels, inspectUrl>>
  /\ UNCHANGED expiryVars

\* Mutant of TunnelOpens: the timer is armed before connect(), not here.
MutTunnelOpens(p) ==
  /\ conn[p] = "replying"
  /\ conn' = [conn EXCEPT ![p] = IF ngrokProcess = p THEN "open" ELSE "astray"]
  /\ tunnels' = tunnels \cup {p}
  /\ ngrokStartTime' = "fresh"
  /\ UNCHANGED <<spawned, ngrokProcess, child, retries, inspectUrl>>
  /\ UNCHANGED <<timer, orphans, announced, told>>

\* The reply names a public URL, whatever happened to the child meanwhile.  The
\* new timer is named by its tunnel; one that is still armed is orphaned.
TunnelOpens(p) ==
  /\ conn[p] = "replying"
  /\ conn' = [conn EXCEPT ![p] = IF ngrokProcess = p THEN "open" ELSE "astray"]
  /\ tunnels' = tunnels \cup {p}
  /\ ngrokStartTime' = "fresh"
  /\ timer' = p
  /\ orphans' = orphans \cup ({timer} \ {NoProc})
  /\ UNCHANGED <<spawned, ngrokProcess, child, retries, inspectUrl, announced, told>>

\* Mutant of TunnelRetries: nothing counts the retries out.
MutTunnelRetries(p) ==
  /\ conn[p] = "replying"
  /\ conn' = [conn EXCEPT ![p] = "posting"]
  /\ retries' = [retries EXCEPT ![p] = @ - 1]
  /\ UNCHANGED <<spawned, ngrokProcess, child, tunnels, inspectUrl>>
  /\ UNCHANGED expiryVars

\* The reply is not ok and there are retries left.
TunnelRetries(p) ==
  /\ conn[p] = "replying" /\ retries[p] > 0
  /\ conn' = [conn EXCEPT ![p] = "posting"]
  /\ retries' = [retries EXCEPT ![p] = @ - 1]
  /\ UNCHANGED <<spawned, ngrokProcess, child, tunnels, inspectUrl>>
  /\ UNCHANGED expiryVars

\* Retries exhausted, a reply without a public URL, or fetch() rejected.
TunnelFails(p) ==
  /\ conn[p] \in {"posting", "replying"}
  /\ conn' = [conn EXCEPT ![p] = "failed"]
  /\ UNCHANGED <<spawned, ngrokProcess, child, retries, tunnels, inspectUrl>>
  /\ UNCHANGED expiryVars

-----------------------------------------------------------------------------
(* The events of a child, from spawnNgrok's listeners.  An 'error' event    *)
(* changes nothing: the emitter's listener is kill() called on the emitter, *)
(* which tracks no process.                                                *)

\* External: the process ends, on its own or because it was signalled.
ChildDies(p) ==
  /\ child[p] \in {"up", "dying"}
  /\ child' = [child EXCEPT ![p] = "exited"]
  /\ UNCHANGED <<spawned, ngrokProcess, conn, retries, tunnels, inspectUrl>>
  /\ UNCHANGED expiryVars

\* 'exit' clears the tunnels and the timer of whichever child is tracked now.
OnExit(p) ==
  /\ child[p] = "exited"
  /\ child' = [child EXCEPT ![p] = "drained"]
  /\ tunnels' = {}
  /\ CleanUp
  /\ UNCHANGED <<spawned, ngrokProcess, conn, retries, inspectUrl, orphans, announced, told>>

OnClose(p) ==
  /\ child[p] \in {"drained", "nopid"}
  /\ child' = [child EXCEPT ![p] = IF @ = "nopid" THEN "nopidClosed" ELSE "closed"]
  /\ CleanUp
  /\ UNCHANGED <<spawned, ngrokProcess, conn, retries, tunnels, inspectUrl, orphans,
                 announced, told>>

-----------------------------------------------------------------------------
(* The expiration timer.                                                   *)

\* External: expirationTime (eight hours) has passed since ngrokStartTime.
TunnelAges ==
  /\ ngrokStartTime = "fresh"
  /\ ngrokStartTime' = "old"
  /\ UNCHANGED <<spawned, ngrokProcess, child, conn, retries, tunnels, inspectUrl,
                 timer, orphans, announced, told>>

\* now - null is past any expiration time too.
Expired == ngrokStartTime # "fresh"

\* The tunnel of p is open, its child lives and is the tracked one.
TunnelUp(p) == ngrokProcess = p /\ child[p] = "up" /\ conn[p] = "open"

\* Timer p emits 'expired', which says so of the tunnel whose time has passed.
Announce(p) ==
  /\ announced' = [announced EXCEPT ![p] = IF @ < MaxAnnounced THEN @ + 1 ELSE @]
  /\ told' = told \cup {q \in Procs : ngrokStartTime = "old" /\ TunnelUp(q)}

\* Mutant of TimerFires: the timer is cleaned up and nothing is emitted.
MutTimerFires ==
  /\ timer # NoProc /\ Expired
  /\ CleanUp
  /\ UNCHANGED <<spawned, ngrokProcess, child, conn, retries, tunnels, inspectUrl, orphans,
                 announced, told>>

\* checkForNgrokExpiration() in the latest timer; before the expiration it only
\* arms its own successor, which changes nothing here.
TimerFires ==
  /\ timer # NoProc /\ Expired
  /\ CleanUp /\ Announce(timer)
  /\ UNCHANGED <<spawned, ngrokProcess, child, conn, retries, tunnels, inspectUrl, orphans>>

\* The same in an orphaned timer, whose successor becomes the latest one and
\* orphans the one that was.
OrphanFires(o) ==
  /\ o \in orphans
  /\ \/ /\ Expired /\ orphans' = orphans \ {o}
        /\ CleanUp /\ Announce(o)
     \/ /\ ~Expired /\ timer' = o
        /\ orphans' = (orphans \ {o}) \cup ({timer} \ {NoProc})
        /\ UNCHANGED <<ngrokStartTime, announced, told>>
  /\ UNCHANGED <<spawned, ngrokProcess, child, conn, retries, tunnels, inspectUrl>>

=============================================================================
