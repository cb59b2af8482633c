-------------------------------- MODULE Dialogs --------------------------------
(***************************************************************************)
(* The dialogs of the client (dialogService.ts), of which one is shown at a *)
(* time, and the flows that wait for their answers: the handlers of the     *)
(* updater's events in the main process (appUpdater.ts), which call the     *)
(* commands of uiCommands.ts, and the client's sagas that connect services  *)
(* (servicesExplorerSagas.ts) after a sign-in to Azure (azureAuthSaga.ts).  *)
(*                                                                         *)
(* Bounds: the slots Handlers and Sagas of flows under way, MaxChecks.      *)
(***************************************************************************)
EXTENDS Naturals

CONSTANTS
  Handlers,   \* runs of the updater's handlers that may overlap
  Sagas,      \* runs of the services saga that may overlap
  MaxChecks,  \* bound: checks for updates
  Unheard,    \* the promise of a dialog that nobody awaits
  NoOne       \* no dialog is shown: _resolve is null

ASSUME OwnerAssumption ==
  Handlers \cap Sagas = {} /\ {Unheard, NoOne} \cap (Handlers \cup Sagas) = {} /\ Unheard # NoOne
ASSUME CheckAssumption == MaxChecks \in Nat

Flows == Handlers \cup Sagas

VARIABLES
  shown, resolve,  \* the DialogService: what is rendered, and whose promise is resolved
  calls,           \* calls of the main process that are to show a dialog
  flow,            \* the flows, and the dialogs they wait for
  token,           \* client: has its store an ARM token?
  settings,        \* main: the setting autoUpdate
  updater,         \* main: the fields of EmulatorUpdater
  electron,        \* electron's updater: is it checking, how many downloads run silently?
  checks,          \* checks made so far
  quit,            \* has electron been told to quit and install?  Windows may close much later
  asked            \* history: has the user asked for the downloads under way to be installed?

dialogVars == <<shown, resolve>>
updateVars == <<settings, updater, electron, checks, quit, asked>>
vars == <<shown, resolve, calls, flow, token, settings, updater, electron, checks, quit, asked>>

Offered(what) ==
  CASE what = "available" -> {"download", "install", "auto"}
    [] what = "prompt" -> {"signIn", "manual"}
    [] what = "getStarted" -> {"manual"}
    [] what = "picker" -> {"manual", "services"}
    [] what = "editor" -> {"services"}
    [] OTHER -> {}
Values == {"dismiss", "download", "install", "auto", "signIn", "manual", "services"}

Awaited == {"available", "unavailable", "prompt", "success", "failed", "getStarted", "picker", "editor"}
Dialogs == Awaited \cup {"progress", "other"}

\* What a flow is at: an await of the main process or the client, or its dialog.
At(pc, what, val) == [pc |-> pc, what |-> what, val |-> val]
Idle == At("idle", "none", "dismiss")
Waiting(what) == At("waiting", what, "dismiss")
Busy(pc) == At(pc, "none", "dismiss")

\* A saga whose root saga has ended.
Ended == Busy("ended")

FlowType == [pc : {"idle", "waiting", "answered", "calling", "progress", "downloading", "signIn",
                   "persist", "retrieving", "saving", "ended"},
             what : Awaited \cup {"none"}, val : Values]
CallType == [what : {"available", "unavailable"}, for : Handlers] \cup [what : {"progress"}, for : {Unheard}]
UpdaterType ==
  [status : {"Idle", "UpdateDownloading", "UpdateReadyToInstall"},
   autoDownload : BOOLEAN, userInitiated : BOOLEAN, downloaded : BOOLEAN, installAfter : BOOLEAN]

DialogTypeOK == shown \in Dialogs \cup {"none"} /\ resolve \in Flows \cup {Unheard, NoOne}
FlowTypeOK == calls \subseteq CallType /\ flow \in [Flows -> FlowType]
StateTypeOK ==
  /\ token \in BOOLEAN /\ settings \in BOOLEAN /\ quit \in BOOLEAN /\ asked \in BOOLEAN
  /\ updater \in UpdaterType
  /\ electron \in [checking : BOOLEAN, silent : Nat]
  /\ checks \in 0..MaxChecks

\* Every variable has its type: the dialog service's, the flows' and the rest.
TypeOK == DialogTypeOK /\ FlowTypeOK /\ StateTypeOK

Init ==
  /\ shown = "none" /\ resolve = NoOne /\ calls = {} /\ flow = [f \in Flows |-> Idle]
  /\ token \in BOOLEAN /\ settings \in BOOLEAN
  /\ updater = [status |-> "Idle", autoDownload |-> FALSE, userInitiated |-> FALSE,
                downloaded |-> FALSE, installAfter |-> FALSE]
  /\ electron = [checking |-> FALSE, silent |-> 0]
  /\ checks = 0 /\ quit = FALSE /\ asked = FALSE

-----------------------------------------------------------------------------
(* DialogService                                                           *)

\* showDialog(): the promise of the dialog it replaces is forgotten.
\* Mutant of Shows: the resolver of an earlier dialog is kept.
MutShows(what, f) ==
  /\ shown' = what
  /\ resolve' = IF resolve = NoOne THEN f ELSE resolve
Shows(what, f) == shown' = what /\ resolve' = f

\* The flows after hideDialog(v).  Mutant of Resolved: the promise is not resolved.
MutResolved(v) == flow
Resolved(v) ==
  IF resolve \in Flows THEN [flow EXCEPT ![resolve].pc = "answered", ![resolve].val = v] ELSE flow

\* hideDialog(): by a button of the dialog, by a click beside it.
UserAnswers(v) ==
  /\ resolve # NoOne /\ v \in Offered(shown) \cup {"dismiss"}
  /\ shown' = "none" /\ resolve' = NoOne /\ flow' = Resolved(v)
  /\ asked' = (asked \/ v \in {"install", "auto"})
  /\ UNCHANGED <<calls, token, settings, updater, electron, checks, quit>>

\* Another dialog is opened, from a menu or by a deep link, and its promise is let go.
OtherDialog ==
  /\ Shows("other", Unheard)
  /\ UNCHANGED <<calls, flow, token, updateVars>>

\* A command of uiCommands.ts that main has called.
ShowCommand(c) ==
  /\ c \in calls /\ calls' = calls \ {c}
  /\ Shows(c.what, c.for)
  /\ flow' = IF c.for \in Handlers THEN [flow EXCEPT ![c.for] = Waiting(c.what)] ELSE flow
  /\ UNCHANGED <<token, updateVars>>

-----------------------------------------------------------------------------
(* The updater of the main process                                         *)

Goes(f, at) == flow' = [flow EXCEPT ![f] = at]
Asks(h, what) ==
  /\ Goes(h, At("calling", what, "dismiss")) /\ calls' = calls \cup {[what |-> what, for |-> h]}

\* checkForUpdates(): at the start, from the menus that offer it; electron's joins a check
\* under way.
CheckForUpdates ==
  /\ checks < MaxChecks /\ checks' = checks + 1
  /\ updater.status = "Idle"
  /\ updater' = [updater EXCEPT !.autoDownload = settings, !.userInitiated = checks > 0]
  /\ electron' = [electron EXCEPT !.checking = TRUE]
  /\ UNCHANGED <<dialogVars, calls, flow, token, settings, quit, asked>>

\* The updater after downloadUpdate(): one field for all the downloads that may overlap.
\* Mutant of DownloadUpdate: a wish to install is kept for later downloads.
MutDownloadUpdate(install) == [updater EXCEPT !.installAfter = @ \/ install]
DownloadUpdate(install) == [updater EXCEPT !.installAfter = install]

OnUpdateAvailable(h) ==
  /\ electron.checking /\ ~updater.autoDownload /\ flow[h] = Idle
  /\ electron' = [electron EXCEPT !.checking = FALSE]
  /\ updater' = [updater EXCEPT !.status = "Idle"]
  /\ Asks(h, "available")
  /\ UNCHANGED <<dialogVars, token, settings, checks, quit, asked>>

\* The update is downloaded silently; a download that electron starts by itself when
\* autoDownload is set is taken as one with it.
OnUpdateAvailableAuto ==
  /\ electron.checking /\ updater.autoDownload
  /\ updater' = DownloadUpdate(FALSE)
  /\ electron' = [checking |-> FALSE, silent |-> electron.silent + 1]
  /\ UNCHANGED <<dialogVars, calls, flow, token, settings, checks, quit, asked>>

OnUpdateNotAvailable(h) ==
  /\ electron.checking /\ flow[h] = Idle
  /\ electron' = [electron EXCEPT !.checking = FALSE]
  /\ updater' = [updater EXCEPT !.status = "Idle"]
  /\ IF updater.userInitiated /\ ~updater.downloaded THEN Asks(h, "unavailable")
     ELSE UNCHANGED <<calls, flow>>
  /\ UNCHANGED <<dialogVars, token, settings, checks, quit, asked>>

\* The handler of the available update goes on with the answer of its dialog, and awaits
\* that the progress indicator is reset.
AvailableAnswered(h) ==
  /\ flow[h].pc = "answered"
  /\ IF flow[h].what = "available" /\ flow[h].val # "dismiss"
     THEN Goes(h, [flow[h] EXCEPT !.pc = "progress"]) ELSE Goes(h, Idle)
  /\ settings' = (settings \/ flow[h].val = "auto")
  /\ UNCHANGED <<dialogVars, calls, token, updater, electron, checks, quit, asked>>

Downloads(h) ==
  /\ flow[h].pc = "progress"
  /\ calls' = calls \cup {[what |-> "progress", for |-> Unheard]}
  /\ updater' = DownloadUpdate(flow[h].val \in {"install", "auto"})
  /\ Goes(h, [flow[h] EXCEPT !.pc = "downloading"])
  /\ UNCHANGED <<dialogVars, token, settings, electron, checks, quit, asked>>

Downloading == electron.silent > 0 \/ \E h \in Handlers : flow[h].pc = "downloading"

\* A download ends: a handler's, which awaits it, or a silent one.
DownloadEnds ==
  \/ electron.silent > 0 /\ electron' = [electron EXCEPT !.silent = @ - 1] /\ UNCHANGED flow
  \/ \E h \in Handlers : flow[h].pc = "downloading" /\ Goes(h, Idle) /\ UNCHANGED electron

OnDownloadProgress ==
  /\ Downloading /\ updater.status # "UpdateDownloading"
  /\ updater' = [updater EXCEPT !.status = "UpdateDownloading"]
  /\ UNCHANGED <<dialogVars, calls, flow, token, settings, electron, checks, quit, asked>>

OnUpdateDownloaded ==
  /\ DownloadEnds
  /\ IF updater.installAfter THEN quit' = TRUE /\ UNCHANGED updater
     ELSE /\ updater' = [updater EXCEPT !.status = "UpdateReadyToInstall", !.downloaded = TRUE]
          /\ UNCHANGED quit
  /\ UNCHANGED <<dialogVars, calls, token, settings, checks, asked>>

\* Is an installation asked for that a handler is yet to start the download of?
Wanted(at) == at.pc \in {"answered", "progress"} /\ at.val \in {"install", "auto"}

\* onError(): a check or a download has failed.
OnError ==
  /\ \/ electron.checking /\ electron' = [electron EXCEPT !.checking = FALSE] /\ UNCHANGED flow
     \/ DownloadEnds
  /\ updater' = [updater EXCEPT !.status = "Idle"]
  /\ asked' = (asked /\ (Downloading' \/ \E h \in Handlers : Wanted(flow[h])))
  /\ UNCHANGED <<dialogVars, calls, token, settings, checks, quit>>

\* quitAndInstall(), from the menu or the notification.
Restart ==
  /\ updater.downloaded /\ quit' = TRUE /\ asked' = TRUE
  /\ UNCHANGED <<dialogVars, calls, flow, token, settings, updater, electron, checks>>

-----------------------------------------------------------------------------
(* The sagas that connect services                                         *)

ShowsFor(f, what) == Shows(what, f) /\ Goes(f, Waiting(what))

\* retrieveServicesByServiceType(), under a progress indicator that is not awaited.
\* Mutant of Retrieves: it is.
MutRetrieves(s) == ShowsFor(s, "progress")
Retrieves(s) == Shows("progress", Unheard) /\ Goes(s, Busy("retrieving"))

\* launchConnectedServicePicker(), and getArmToken() without a token.
LaunchPicker(s) ==
  /\ flow[s] = Idle
  /\ IF token THEN Retrieves(s) ELSE ShowsFor(s, "prompt")
  /\ UNCHANGED <<calls, token, updateVars>>

\* A token arrived meanwhile is in the store: getArmToken() is not asked again.
PromptAnswered(s) ==
  /\ flow[s].pc = "answered" /\ flow[s].what = "prompt"
  /\ CASE flow[s].val = "signIn" -> Goes(s, Busy("signIn")) /\ UNCHANGED dialogVars
       [] flow[s].val = "manual" -> ShowsFor(s, "editor")
       [] OTHER -> Goes(s, Idle) /\ UNCHANGED dialogVars
  /\ UNCHANGED <<calls, token, updateVars>>

\* RetrieveArmToken is answered with a token, an error or nothing.
SignedIn(s, ok) ==
  /\ flow[s].pc = "signIn"
  /\ ShowsFor(s, IF ok THEN "success" ELSE "failed")
  /\ UNCHANGED <<calls, token, updateVars>>

\* After a failure the token of the answer is put in the store, which is none, or one that
\* was found invalid.
SignInAnswered(s) ==
  /\ flow[s].pc = "answered" /\ flow[s].what \in {"success", "failed"}
  /\ IF flow[s].what = "success" THEN Goes(s, Busy("persist")) /\ UNCHANGED token
     ELSE Goes(s, Idle) /\ token' \in BOOLEAN
  /\ UNCHANGED <<dialogVars, calls, updateVars>>

Persisted(s) ==
  /\ flow[s].pc = "persist"
  /\ token' = TRUE /\ Retrieves(s)
  /\ UNCHANGED <<calls, updateVars>>

\* The saga hides the dialog that is shown and shows its own.
ServicesRetrieved(s, found) ==
  /\ flow[s].pc = "retrieving"
  /\ LET what == IF found THEN "picker" ELSE "getStarted" IN
       /\ Shows(what, s)
       /\ flow' = [Resolved("dismiss") EXCEPT ![s] = Waiting(what)]
  /\ UNCHANGED <<calls, token, updateVars>>

ServicesAnswered(s) ==
  /\ flow[s].pc = "answered" /\ flow[s].what \in {"getStarted", "picker", "editor"}
  /\ CASE flow[s].val = "manual" -> ShowsFor(s, "editor")
       [] flow[s].val = "services" -> Goes(s, Busy("saving")) /\ UNCHANGED dialogVars
       [] OTHER -> Goes(s, Idle) /\ UNCHANGED dialogVars
  /\ UNCHANGED <<calls, token, updateVars>>

Saved(s) ==
  /\ flow[s].pc = "saving" /\ Goes(s, Idle)
  /\ UNCHANGED <<dialogVars, calls, token, updateVars>>

\* An error leaves the saga: an answer that is nothing has no token to put, or a command is
\* rejected.  It ends the root saga, which cancels all and starts none again.
SagaFails(s) ==
  /\ \/ flow[s].pc \in {"signIn", "saving"}
     \/ flow[s].pc = "answered" /\ flow[s].what = "failed"
  /\ flow' = [f \in Flows |-> IF f \in Sagas THEN Ended ELSE flow[f]]
  /\ resolve' = IF resolve \in Sagas THEN Unheard ELSE resolve
  /\ UNCHANGED <<shown, calls, token, updateVars>>

SignOut ==
  /\ token /\ token' = FALSE
  /\ UNCHANGED <<dialogVars, calls, flow, updateVars>>

-----------------------------------------------------------------------------
UserActs == OtherDialog \/ Restart \/ SignOut \/ \E s \in Sagas : LaunchPicker(s)

Electron ==
  \/ OnUpdateAvailableAuto \/ OnDownloadProgress \/ OnUpdateDownloaded \/ OnError
  \/ \E h \in Handlers : OnUpdateAvailable(h) \/ OnUpdateNotAvailable(h)

Runs(f) ==
  \/ f \in Handlers /\ (AvailableAnswered(f) \/ Downloads(f))
  \/ /\ f \in Sagas
     /\ \/ PromptAnswered(f) \/ SignInAnswered(f) \/ Persisted(f) \/ ServicesAnswered(f) \/ Saved(f)
        \/ SagaFails(f)
        \/ \E b \in BOOLEAN : SignedIn(f, b) \/ ServicesRetrieved(f, b)

Next ==
  \/ UserActs \/ Electron \/ CheckForUpdates
  \/ \E v \in Values : UserAnswers(v)
  \/ \E c \in calls : ShowCommand(c)
  \/ \E f \in Flows : Runs(f)

Spec == Init /\ [][Next]_vars

\* Commands are run and answered, and the user answers the dialog that is shown.
Fairness ==
  /\ WF_vars(\E v \in Values : UserAnswers(v))
  /\ \A h \in Handlers : WF_vars(\E c \in calls : c.for = h /\ ShowCommand(c))
  /\ \A f \in Flows : WF_vars(Runs(f))

FairSpec == Spec /\ Fairness

-----------------------------------------------------------------------------
(* Properties                                                              *)

\* What hideDialog() resolves is the promise of the dialog that is shown: no flow goes on
\* with the answer to a dialog of another, or to an earlier one of its own.
AnswersItsDialog ==
  /\ shown = "none" <=> resolve = NoOne
  /\ resolve \in Flows => flow[resolve] = Waiting(shown)

\* The app quits to install an update only when the user asked for it: in the dialog of
\* an update still being downloaded, or by a restart, never after a silent download.
InstallsOnlyAsked == [][quit' # quit => asked']_vars

\* The dialog that f waits for is replaced by another.
Replaced(f) == flow[f].pc = "waiting" /\ resolve \notin {f, NoOne}

\* Every flow ends (the handler returns to the updater, the saga to its takeEvery, or with
\* all its kind) or awaits a download, which may take any time, unless another dialog
\* replaces the one it waits for.
EveryFlowEnds ==
  \A f \in Flows :
    flow[f] # Idle /\ (flow[f].pc = "waiting" => resolve = f) ~>
      flow[f] \in {Idle, Ended} \/ flow[f].pc = "downloading" \/ Replaced(f)

\* showDialog() returns a thenable that gets the value of hideDialog() (dialogService.ts:54).
EveryShowAnswered == \A f \in Flows : flow[f].pc = "waiting" ~> flow[f].pc # "waiting"
================================================================================
