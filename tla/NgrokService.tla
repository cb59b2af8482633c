---------------------------- MODULE NgrokService ----------------------------
(***************************************************************************)
(* NgrokService (app/main/src/ngrokService.ts) over its NgrokInstance: who  *)
(* gets which service URL while the tunnel is being recycled.              *)
(*                                                                         *)
(* JavaScript runs a promise's continuations before the next event, so the *)
(* continuations that are due (Due) come before every other action; among  *)
(* themselves they run in any order.                                       *)
(***************************************************************************)
EXTENDS NgrokInstance

CONSTANTS
  Callers,    \* concurrent calls of getServiceUrl
  Paths,      \* ngrok executables the settings may name
  NoPath,     \* the empty ngrokPath
  Local,      \* the service URL http://localhost:port
  Bypass,     \* the same URL, given because ngrok is not to be used
  None        \* no answer yet
ASSUME ValueAssumption ==
  /\ NoPath \notin Paths
  /\ {Local, Bypass, None} \cap Nat = {}
  /\ Local # Bypass /\ Local # None /\ Bypass # None

VARIABLES
  settings,        \* getSettings().framework.ngrokPath
  ngrokPath,       \* the cached path
  serviceUrl,      \* Local, or the tunnel of a child
  spawnErr, triedToSpawn,
  pendingRecycle,  \* the recycle whose promise is pending, named by its spawn
  call,            \* where each getServiceUrl call is
  waitFor,         \* the recycle each call awaits
  answer,          \* what each call was answered
  recon            \* the recycle the Reconnect command awaits

serviceVars == <<settings, ngrokPath, serviceUrl, spawnErr, triedToSpawn,
                 pendingRecycle, call, waitFor, answer, recon>>
vars == <<instanceVars, serviceVars>>
callVars == <<call, waitFor, answer>>
recycleVars == <<ngrokPath, serviceUrl, spawnErr, triedToSpawn, pendingRecycle>>

\* The instance and the service name spawns, paths and answers of their kinds.
TypeOK ==
  /\ InstanceTypeOK
  /\ settings \in Paths \cup {NoPath}
  /\ ngrokPath \in Paths \cup {NoPath}
  /\ serviceUrl \in Procs \cup {Local}
  /\ spawnErr \in BOOLEAN /\ triedToSpawn \in BOOLEAN
  /\ pendingRecycle \in Procs \cup {NoProc}
  /\ call \in [Callers -> {"idle", "pending", "startup", "answered"}]
  /\ waitFor \in [Callers -> Procs \cup {NoProc}]
  /\ answer \in [Callers -> Procs \cup {Local, Bypass, None}]
  /\ recon \in Procs \cup {NoProc}

Init ==
  /\ InstanceInit
  /\ settings \in Paths \cup {NoPath}
  /\ ngrokPath = NoPath
  /\ serviceUrl = Local
  /\ spawnErr = FALSE /\ triedToSpawn = FALSE
  /\ pendingRecycle = NoProc
  /\ call = [c \in Callers |-> "idle"]
  /\ waitFor = [c \in Callers |-> NoProc]
  /\ answer = [c \in Callers |-> None]
  /\ recon = NoProc

-----------------------------------------------------------------------------
(* recycle(): at most one at a time, a second request joins the first.     *)

\* Mutants of RecycleStarts: the pending recycle is not looked at; the old
\* service URL is kept until the new tunnel is there.
MutOverlap(path) ==
  /\ path # NoPath /\ SpawnsLeft
  /\ \E outcome \in SpawnOutcomes : KillAndConnect(NextProc, outcome)
  /\ ngrokPath' = path
  /\ serviceUrl' = Local
  /\ spawnErr' = FALSE /\ triedToSpawn' = TRUE
  /\ pendingRecycle' = NextProc
MutKeepUrl(path) ==
  /\ pendingRecycle = NoProc /\ path # NoPath /\ SpawnsLeft
  /\ \E outcome \in SpawnOutcomes : KillAndConnect(NextProc, outcome)
  /\ ngrokPath' = path
  /\ UNCHANGED serviceUrl
  /\ spawnErr' = FALSE /\ triedToSpawn' = TRUE
  /\ pendingRecycle' = NextProc

RecycleStarts(path) ==
  /\ pendingRecycle = NoProc /\ path # NoPath /\ SpawnsLeft
  /\ \E outcome \in SpawnOutcomes : KillAndConnect(NextProc, outcome)
  /\ ngrokPath' = path
  /\ serviceUrl' = Local
  /\ spawnErr' = FALSE /\ triedToSpawn' = TRUE
  /\ pendingRecycle' = NextProc

RecycleWithoutPath(path) ==
  /\ pendingRecycle = NoProc /\ path = NoPath
  /\ Kill
  /\ ngrokPath' = NoPath
  /\ serviceUrl' = Local
  /\ spawnErr' = FALSE /\ triedToSpawn' = FALSE
  /\ UNCHANGED pendingRecycle

RecycleJoins ==
  /\ pendingRecycle # NoProc
  /\ UNCHANGED instanceVars /\ UNCHANGED recycleVars

\* The rest of recycle()'s promise, in the microtasks after connect() settles.
RecycleSucceeds(p) ==
  /\ TunnelOpens(p)
  /\ serviceUrl' = p
  /\ pendingRecycle' = NoProc
  /\ UNCHANGED <<ngrokPath, spawnErr, triedToSpawn>>

RecycleFails(p) ==
  /\ ReadyTimeout(p) \/ MissingExecutable(p) \/ TunnelFails(p)
  /\ spawnErr' = TRUE
  /\ pendingRecycle' = NoProc
  /\ UNCHANGED <<ngrokPath, serviceUrl, triedToSpawn>>

-----------------------------------------------------------------------------
(* getServiceUrl()                                                         *)

Answer(c, url) ==
  /\ answer' = [answer EXCEPT ![c] = url]
  /\ call' = [call EXCEPT ![c] = "answered"]
  /\ waitFor' = [waitFor EXCEPT ![c] = NoProc]

Await(c, stage, p) ==
  /\ call' = [call EXCEPT ![c] = stage]
  /\ waitFor' = [waitFor EXCEPT ![c] = p]
  /\ UNCHANGED answer

\* Everything after the first await.  Whether ngrok is wanted depends on two
\* settings and the bot's URL: any answer is possible.
AfterPending(c) ==
  \/ /\ Running
     /\ Answer(c, serviceUrl)
     /\ UNCHANGED instanceVars /\ UNCHANGED recycleVars
  \/ /\ ~Running
     /\ Answer(c, Bypass)
     /\ UNCHANGED instanceVars /\ UNCHANGED recycleVars
  \/ /\ ~Running
     /\ \/ RecycleStarts(settings) /\ Await(c, "startup", NextProc)
        \/ RecycleWithoutPath(settings) /\ Answer(c, Local)
        \/ RecycleJoins /\ Await(c, "startup", pendingRecycle)

\* Promise continuations that are due.
CallDue(c) == call[c] \in {"pending", "startup"} /\ conn[waitFor[c]] \in Settled
ReconDue == recon # NoProc /\ conn[recon] \in Settled
RejectionDue == \E p \in Procs : conn[p] = "rejecting"
Due == RejectionDue \/ ReconDue \/ \E c \in Callers : CallDue(c)

GetServiceUrl(c) ==
  /\ ~Due /\ call[c] = "idle"
  /\ \/ /\ pendingRecycle # NoProc
        /\ Await(c, "pending", pendingRecycle)
        /\ UNCHANGED instanceVars /\ UNCHANGED recycleVars
     \/ pendingRecycle = NoProc /\ AfterPending(c)
  /\ UNCHANGED <<settings, recon>>

ResumeAfterPending(c) ==
  /\ CallDue(c) /\ call[c] = "pending"
  /\ AfterPending(c)
  /\ UNCHANGED <<settings, recon>>

ResumeAfterStartup(c) ==
  /\ CallDue(c) /\ call[c] = "startup"
  /\ Answer(c, serviceUrl)
  /\ UNCHANGED <<settings, recon>> /\ UNCHANGED instanceVars
  /\ UNCHANGED recycleVars

\* External: the caller uses its answer and may call again later.
UseAnswer(c) ==
  /\ call[c] = "answered"
  /\ call' = [call EXCEPT ![c] = "idle"]
  /\ answer' = [answer EXCEPT ![c] = None]
  /\ UNCHANGED <<waitFor, settings, recon>>
  /\ UNCHANGED instanceVars /\ UNCHANGED recycleVars

-----------------------------------------------------------------------------
(* The other entry points: commands and settings.                          *)

\* ngrok:reconnect broadcasts "ngrok reconnected" once recycle() is over, which
\* never rejects: also when nothing was spawned.
Reconnect ==
  /\ ~Due /\ recon = NoProc
  /\ \/ RecycleStarts(settings) /\ recon' = NextProc
     \/ RecycleWithoutPath(settings) /\ UNCHANGED recon
     \/ RecycleJoins /\ recon' = pendingRecycle
  /\ UNCHANGED settings /\ UNCHANGED callVars

ResumeReconnect ==
  /\ ReconDue
  /\ recon' = NoProc
  /\ UNCHANGED settings /\ UNCHANGED callVars /\ UNCHANGED instanceVars
  /\ UNCHANGED recycleVars

KillProcess ==
  /\ ~Due /\ ngrokProcess # NoProc
  /\ Kill
  /\ UNCHANGED serviceVars

\* The settings saga, after the reducer stored the new path.
UpdateNgrokFromSettings(path) ==
  /\ ~Due /\ path # settings
  /\ settings' = path
  /\ LET cached == IF ngrokPath = NoPath THEN path ELSE ngrokPath IN
       \/ /\ cached # path /\ Running
          /\ RecycleStarts(path) \/ RecycleWithoutPath(path) \/ RecycleJoins
       \/ /\ cached = path \/ ~Running
          /\ ngrokPath' = cached
          /\ UNCHANGED <<serviceUrl, spawnErr, triedToSpawn, pendingRecycle>>
          /\ UNCHANGED instanceVars
  /\ UNCHANGED recon /\ UNCHANGED callVars

-----------------------------------------------------------------------------
\* A step of connect(), of the child or of the timer that only the instance sees.
InstanceStep ==
  /\ ~Due
  /\ \/ \E p \in Procs : \/ AddrLine(p) \/ ChildReplies(p) \/ TunnelRetries(p)
                         \/ ChildDies(p) \/ OnExit(p) \/ OnClose(p) \/ OrphanFires(p)
     \/ TunnelAges \/ TimerFires
  /\ UNCHANGED serviceVars

ConnectSettles(p) ==
  /\ ~Due \/ conn[p] = "rejecting"
  /\ RecycleSucceeds(p) \/ RecycleFails(p)
  /\ UNCHANGED <<settings, recon>> /\ UNCHANGED callVars

Next ==
  \/ InstanceStep
  \/ \E p \in Procs : ConnectSettles(p)
  \/ \E c \in Callers : \/ GetServiceUrl(c) \/ ResumeAfterPending(c)
                        \/ ResumeAfterStartup(c) \/ UseAnswer(c)
  \/ Reconnect \/ ResumeReconnect \/ KillProcess
  \/ \E path \in Paths \cup {NoPath} : UpdateNgrokFromSettings(path)

Spec == Init /\ [][Next]_vars

\* External: the child holds a request of connect() and may never answer it.
ChildMayBeMute(p) == conn[p] = "posting" /\ child[p] \in {"up", "dying"}

(***************************************************************************)
(* Fairness: the event loop runs what is due, the 15 second timeout fires,  *)
(* a request settles that was answered or whose child has exited, the       *)
(* operating system ends a signalled child and reports what became of every *)
(* child, and an armed timer fires.  Nothing is assumed of the user, of the *)
(* settings, or of a child living or dying; and a request to a living child *)
(* has no timeout, so nothing says that it is ever answered.               *)
(***************************************************************************)
Fairness ==
  /\ \A p \in Procs : /\ WF_vars(~ChildMayBeMute(p) /\ ConnectSettles(p))
                      /\ WF_vars(~Due /\ OnExit(p) /\ UNCHANGED serviceVars)
                      /\ WF_vars(~Due /\ OnClose(p) /\ UNCHANGED serviceVars)
                      /\ WF_vars(~Due /\ ChildDies(p) /\ child[p] = "dying"
                                 /\ UNCHANGED serviceVars)
                      /\ WF_vars(~Due /\ OrphanFires(p) /\ UNCHANGED serviceVars)
  /\ \A c \in Callers : WF_vars(ResumeAfterPending(c) \/ ResumeAfterStartup(c))
  /\ WF_vars(ResumeReconnect)
  /\ WF_vars(~Due /\ TimerFires /\ UNCHANGED serviceVars)

FairSpec == Spec /\ Fairness

-----------------------------------------------------------------------------
(* Properties                                                              *)

\* There is one recycle at a time: a connect() is in flight exactly when its
\* recycle is the pending one (recycle, ngrokService.ts:142-177).
OneRecycle ==
  \A p \in Procs : conn[p] \in InFlight <=> p = pendingRecycle

\* While ngrok is reported running, the service URL is never the tunnel of a
\* child that was replaced or killed (recycle and kill against connect's awaits).
ServiceUrlIsCurrent ==
  Running /\ serviceUrl \in Procs => serviceUrl = ngrokProcess

\* No call is answered with the tunnel of a child that has been replaced, however
\* its awaits interleave with recycles and kills (getServiceUrl); a kill alone
\* may overtake the answer, since the tunnel request may be in flight already.
AnswersAreLatest ==
  [][\A c \in Callers :
       call[c] # "answered" /\ answer'[c] \in Procs => answer'[c] = spawned']_vars

\* Every live child nobody signalled is the tracked one: none is leaked by a
\* recycle, a kill or a change of settings.
NoStrayChild == \A p \in Procs : child[p] = "up" => p = ngrokProcess

\* Every getServiceUrl call is answered, whatever fails, exits, is killed or
\* replaced, unless some living child holds on to a tunnel request for ever: then
\* connect(), its recycle and every caller wait with it (runTunnel's fetch).
EveryCallAnswered ==
  \/ \E p \in Procs : <>[](conn[p] = "posting" /\ child[p] = "up")
  \/ \A c \in Callers : call[c] \in {"pending", "startup"} ~> call[c] = "answered"

\* The expiration of p's tunnel was announced, or its time is known and a timer
\* will look at it.
Watched(p) == p \in told \/ (ngrokStartTime # "null" /\ timer # NoProc)

\* Only the late exit or close of an older child can leave an open tunnel of the
\* tracked, living child without its timer (the listeners of spawnNgrok against
\* runTunnel's timer); no kill, recycle or orphaned timer does.
ExpiryWatched ==
  [][\A p \in Procs : TunnelUp(p)' /\ ~Watched(p)'
       => \/ TunnelUp(p) /\ ~Watched(p)
          \/ \E q \in Procs : q < p /\ child[q] \in {"exited", "drained", "nopid"}
                                    /\ child'[q] # child[q]]_vars

\* A timer announces once, and only the tunnel that is tracked: another one's
\* only when some tunnel opened after kill() had dropped its child, which no
\* kill cleans up after (checkForNgrokExpiration against kill and connect).
ExpiryIsGenuine ==
  [][\A p \in Procs : announced'[p] # announced[p]
       => /\ announced[p] = 0 /\ conn[p] \in Opened
          /\ ngrokProcess = p \/ \E q \in Procs : conn[q] = "astray"]_vars

\* A tunnel that outlives its expiration time is announced or given up, when no
\* older child is left that may still exit and stop its timer.
OlderGone(p) ==
  \A q \in Procs : q < p => child[q] \in {"missing", "closed", "nopidClosed"}
ExpiryAnnounced ==
  \A p \in Procs : TunnelUp(p) /\ ngrokStartTime = "old" /\ OlderGone(p)
                     ~> (p \in told \/ ~TunnelUp(p))

-----------------------------------------------------------------------------
(* What a comment in the code says, and the code does not do.              *)

\* "If a recycle is pending, await on it before reporting the service url
\* otherwise, it will report the wrong one" (ngrokService.ts:71-74).
AnsweredOnlyWhenSettled ==
  [][\A c \in Callers :
       call[c] = "pending" /\ call'[c] = "answered" /\ answer'[c] # Bypass
         => pendingRecycle' = NoProc]_vars

=============================================================================
