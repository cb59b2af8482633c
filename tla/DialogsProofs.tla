---------------------------- MODULE DialogsProofs -----------------------------
(***************************************************************************)
(* Proofs about Dialogs, for any number of handlers, sagas and checks:      *)
(* whatever replaces a dialog, its answer goes to the flow that waits for   *)
(* it, and the app quits to install only what the user asked for.           *)
(***************************************************************************)
EXTENDS Dialogs, TLAPS

\* A download that is to be installed when it ends was asked for, and so was one that a
\* handler is about to start.
InstallInv ==
  /\ updater.installAfter /\ Downloading => asked
  /\ \A h \in Handlers : Wanted(flow[h]) => asked

\* The values that flows take are of their type.
LEMMA FlowValues ==
  /\ Idle \in FlowType
  /\ \A what \in Awaited : Waiting(what) \in FlowType /\ At("calling", what, "dismiss") \in FlowType
  /\ \A pc \in {"signIn", "persist", "retrieving", "saving"} : Busy(pc) \in FlowType
  /\ Ended \in FlowType
BY DEF FlowType, Idle, Ended, Waiting, Busy, At, Awaited, Values

LEMMA OfferedValues == \A what : Offered(what) \cup {"dismiss"} \subseteq Values
BY DEF Offered, Values

\* A flow that goes on keeps the type of all.
LEMMA GoesTyped ==
  ASSUME FlowTypeOK, NEW f \in Flows, NEW at \in FlowType, Goes(f, at)
  PROVE  flow' \in [Flows -> FlowType]
BY DEF FlowTypeOK, Goes

\* So do the flows whose dialog is hidden.
LEMMA ResolvedTyped ==
  ASSUME FlowTypeOK, NEW v \in Values
  PROVE  Resolved(v) \in [Flows -> FlowType]
BY DEF FlowTypeOK, Resolved, FlowType

(***************************************************************************)
(* Types                                                                   *)
(***************************************************************************)
\* A step keeps the types: the dialog service's, the flows' and the rest.
LEMMA InitTyped == Init => TypeOK
<1> SUFFICES ASSUME Init PROVE TypeOK
    OBVIOUS
<1>1. DialogTypeOK
      BY DEF Init, DialogTypeOK
<1>2. FlowTypeOK
      BY FlowValues DEF Init, FlowTypeOK
<1>3. updater \in UpdaterType
      BY DEF Init, UpdaterType
<1>4. electron \in [checking : BOOLEAN, silent : Nat] /\ checks \in 0..MaxChecks
      BY CheckAssumption DEF Init
<1>5. StateTypeOK
      BY <1>3, <1>4, Zenon DEF Init, StateTypeOK
<1> QED BY <1>1, <1>2, <1>5 DEF TypeOK

\* The user and the commands of main.
LEMMA DialogStepsTyped ==
  ASSUME TypeOK,
         \/ UserActs
         \/ \E v \in Values : UserAnswers(v)
         \/ \E c \in calls : ShowCommand(c)
  PROVE  TypeOK'
<1> USE DEF TypeOK
<1>1. ASSUME NEW v \in Values, UserAnswers(v) PROVE TypeOK'
      <2>1. DialogTypeOK'
            BY <1>1 DEF UserAnswers, DialogTypeOK
      <2>2. FlowTypeOK'
            BY <1>1, ResolvedTyped DEF UserAnswers, FlowTypeOK
      <2>3. StateTypeOK'
            BY <1>1 DEF UserAnswers, StateTypeOK
      <2> QED BY <2>1, <2>2, <2>3
<1>2. CASE OtherDialog
      <2>1. DialogTypeOK'
            BY <1>2 DEF OtherDialog, Shows, DialogTypeOK, Dialogs
      <2>2. FlowTypeOK' /\ StateTypeOK'
            BY <1>2 DEF OtherDialog, FlowTypeOK, StateTypeOK, updateVars
      <2> QED BY <2>1, <2>2
<1>3. ASSUME NEW c \in calls, ShowCommand(c) PROVE TypeOK'
      <2>1. \/ c.what \in {"available", "unavailable"} /\ c.for \in Handlers
            \/ c.what = "progress" /\ c.for = Unheard
            BY DEF FlowTypeOK, CallType
      <2>2. DialogTypeOK'
            BY <1>3, <2>1 DEF ShowCommand, Shows, DialogTypeOK, Dialogs, Awaited, Flows
      <2>3. FlowTypeOK'
        <3>1. CASE c.for \in Handlers
              <4>1. c.what \in Awaited
                    BY <2>1, <3>1, OwnerAssumption DEF Awaited, Flows
              <4>2. Waiting(c.what) \in FlowType
                    BY <4>1, FlowValues
              <4>3. c.for \in Flows /\ flow' = [flow EXCEPT ![c.for] = Waiting(c.what)]
                    BY <1>3, <3>1 DEF ShowCommand, Flows
              <4> QED BY <1>3, <4>2, <4>3 DEF ShowCommand, FlowTypeOK
        <3>2. CASE c.for \notin Handlers
              BY <1>3, <3>2 DEF ShowCommand, FlowTypeOK
        <3> QED BY <3>1, <3>2
      <2>4. StateTypeOK'
            BY <1>3 DEF ShowCommand, StateTypeOK, updateVars
      <2> QED BY <2>2, <2>3, <2>4
<1>4. CASE Restart
      BY <1>4 DEF Restart, dialogVars, DialogTypeOK, FlowTypeOK, StateTypeOK
<1>5. CASE SignOut
      BY <1>5 DEF SignOut, dialogVars, updateVars, DialogTypeOK, FlowTypeOK, StateTypeOK
<1>6. ASSUME NEW s \in Sagas, LaunchPicker(s) PROVE TypeOK'
      <2>1. DialogTypeOK'
            BY <1>6 DEF LaunchPicker, Retrieves, ShowsFor, Shows, DialogTypeOK, Dialogs, Awaited, Flows
      <2>2. FlowTypeOK'
            BY <1>6, FlowValues, GoesTyped
            DEF LaunchPicker, Retrieves, ShowsFor, FlowTypeOK, Awaited, Flows
      <2>3. StateTypeOK'
            BY <1>6 DEF LaunchPicker, StateTypeOK, updateVars
      <2> QED BY <2>1, <2>2, <2>3
<1> QED BY <1>1, <1>2, <1>3, <1>4, <1>5, <1>6 DEF UserActs

\* The updates that the handlers make of the updater's fields keep its type.
LEMMA UpdaterFields ==
  ASSUME NEW u \in UpdaterType, NEW b \in BOOLEAN, NEW c \in BOOLEAN,
         NEW s \in {"Idle", "UpdateDownloading", "UpdateReadyToInstall"}
  PROVE  /\ [u EXCEPT !.autoDownload = b, !.userInitiated = c] \in UpdaterType
         /\ [u EXCEPT !.installAfter = b] \in UpdaterType
         /\ [u EXCEPT !.status = s] \in UpdaterType
         /\ [u EXCEPT !.status = s, !.downloaded = TRUE] \in UpdaterType
<1>1. CASE b /\ c
      BY <1>1 DEF UpdaterType
<1>2. CASE b /\ ~c
      BY <1>2 DEF UpdaterType
<1>3. CASE ~b /\ c
      BY <1>3 DEF UpdaterType
<1>4. CASE ~b /\ ~c
      BY <1>4 DEF UpdaterType
<1> QED BY <1>1, <1>2, <1>3, <1>4

\* So do a handler that goes on and a download that ends.
LEMMA DownloadEndsTyped ==
  ASSUME TypeOK, DownloadEnds
  PROVE  flow' \in [Flows -> FlowType] /\ electron' \in [checking : BOOLEAN, silent : Nat]
<1>1. flow \in [Flows -> FlowType] /\ electron \in [checking : BOOLEAN, silent : Nat]
      BY DEF TypeOK, FlowTypeOK, StateTypeOK
<1>2. CASE electron.silent > 0 /\ electron' = [electron EXCEPT !.silent = @ - 1] /\ UNCHANGED flow
      BY <1>1, <1>2
<1>3. ASSUME NEW h \in Handlers, Goes(h, Idle), UNCHANGED electron
      PROVE  flow' \in [Flows -> FlowType] /\ electron' \in [checking : BOOLEAN, silent : Nat]
      BY <1>1, <1>3, FlowValues, GoesTyped DEF TypeOK, Flows
<1> QED BY <1>2, <1>3 DEF DownloadEnds

\* The updater.
LEMMA UpdaterTyped ==
  ASSUME TypeOK, \/ Electron \/ CheckForUpdates
                 \/ \E h \in Handlers : AvailableAnswered(h) \/ Downloads(h)
  PROVE  TypeOK'
<1> USE DEF TypeOK, dialogVars
<1>1. CASE CheckForUpdates
      <2>1. (checks > 0) \in BOOLEAN
            OBVIOUS
      <2>2. updater' \in UpdaterType
            BY <1>1, <2>1, UpdaterFields, Zenon DEF CheckForUpdates, StateTypeOK
      <2>3. checks' \in 0..MaxChecks
            BY <1>1, CheckAssumption DEF CheckForUpdates, StateTypeOK
      <2>4. electron' \in [checking : BOOLEAN, silent : Nat]
            BY <1>1 DEF CheckForUpdates, StateTypeOK
      <2> QED BY <1>1, <2>2, <2>3, <2>4 DEF CheckForUpdates, DialogTypeOK, FlowTypeOK, StateTypeOK
<1>2. ASSUME NEW h \in Handlers, OnUpdateAvailable(h) PROVE TypeOK'
      <2>1. At("calling", "available", "dismiss") \in FlowType
            BY FlowValues DEF Awaited
      <2>2. FlowTypeOK'
            BY <1>2, <2>1, GoesTyped DEF OnUpdateAvailable, Asks, FlowTypeOK, CallType, Flows
      <2>3. StateTypeOK'
            BY <1>2 DEF OnUpdateAvailable, StateTypeOK, UpdaterType
      <2> QED BY <1>2, <2>2, <2>3 DEF OnUpdateAvailable, DialogTypeOK
<1>3. CASE OnUpdateAvailableAuto
      <2>1. updater' \in UpdaterType
            BY <1>3, UpdaterFields, Zenon DEF OnUpdateAvailableAuto, DownloadUpdate, StateTypeOK
      <2>2. electron.silent + 1 \in Nat
            BY DEF StateTypeOK
      <2>3. electron' \in [checking : BOOLEAN, silent : Nat]
            BY <1>3, <2>2 DEF OnUpdateAvailableAuto
      <2> QED BY <1>3, <2>1, <2>3 DEF OnUpdateAvailableAuto, DialogTypeOK, FlowTypeOK, StateTypeOK
<1>4. ASSUME NEW h \in Handlers, OnUpdateNotAvailable(h) PROVE TypeOK'
      <2>1. At("calling", "unavailable", "dismiss") \in FlowType
            BY FlowValues DEF Awaited
      <2>2. FlowTypeOK'
            BY <1>4, <2>1, GoesTyped DEF OnUpdateNotAvailable, Asks, FlowTypeOK, CallType, Flows
      <2>3. StateTypeOK'
            BY <1>4 DEF OnUpdateNotAvailable, StateTypeOK, UpdaterType
      <2> QED BY <1>4, <2>2, <2>3 DEF OnUpdateNotAvailable, DialogTypeOK
<1>5. CASE OnDownloadProgress
      BY <1>5 DEF OnDownloadProgress, DialogTypeOK, FlowTypeOK, StateTypeOK, UpdaterType
<1>6. CASE OnUpdateDownloaded
      <2>1. updater' \in UpdaterType /\ quit' \in BOOLEAN
            BY <1>6, UpdaterFields, Zenon DEF OnUpdateDownloaded, StateTypeOK
      <2>2. flow' \in [Flows -> FlowType] /\ electron' \in [checking : BOOLEAN, silent : Nat]
            BY <1>6, DownloadEndsTyped DEF OnUpdateDownloaded
      <2> QED BY <1>6, <2>1, <2>2 DEF OnUpdateDownloaded, DialogTypeOK, FlowTypeOK, StateTypeOK
<1>7. CASE OnError
      <2>1. updater' \in UpdaterType
            BY <1>7, UpdaterFields, Zenon DEF OnError, StateTypeOK
      <2>2. flow' \in [Flows -> FlowType] /\ electron' \in [checking : BOOLEAN, silent : Nat]
        <3>1. CASE electron' = [electron EXCEPT !.checking = FALSE] /\ UNCHANGED flow
              BY <3>1 DEF FlowTypeOK, StateTypeOK
        <3> QED BY <1>7, <3>1, DownloadEndsTyped DEF OnError
      <2>3. asked' \in BOOLEAN
            BY <1>7, Zenon DEF OnError
      <2> QED BY <1>7, <2>1, <2>2, <2>3 DEF OnError, DialogTypeOK, FlowTypeOK, StateTypeOK
<1>8. ASSUME NEW h \in Handlers, AvailableAnswered(h) PROVE TypeOK'
      <2>1. [flow[h] EXCEPT !.pc = "progress"] \in FlowType /\ h \in Flows
            BY DEF FlowTypeOK, FlowType, Flows
      <2>2. FlowTypeOK'
            BY <1>8, <2>1, FlowValues, GoesTyped DEF AvailableAnswered, FlowTypeOK
      <2>3. StateTypeOK'
            BY <1>8 DEF AvailableAnswered, StateTypeOK
      <2> QED BY <1>8, <2>2, <2>3 DEF AvailableAnswered, DialogTypeOK
<1>9. ASSUME NEW h \in Handlers, Downloads(h) PROVE TypeOK'
      <2>0. [flow[h] EXCEPT !.pc = "downloading"] \in FlowType /\ h \in Flows
            BY DEF FlowTypeOK, FlowType, Flows
      <2>1. FlowTypeOK'
            BY <1>9, <2>0, GoesTyped DEF Downloads, FlowTypeOK, CallType
      <2>2. (flow[h].val \in {"install", "auto"}) \in BOOLEAN
            OBVIOUS
      <2>3. updater' \in UpdaterType
            BY <1>9, <2>2, UpdaterFields, Zenon DEF Downloads, DownloadUpdate, StateTypeOK
      <2> QED BY <1>9, <2>1, <2>3 DEF Downloads, DialogTypeOK, StateTypeOK
<1> QED BY <1>1, <1>2, <1>3, <1>4, <1>5, <1>6, <1>7, <1>8, <1>9 DEF Electron

\* The sagas.
LEMMA SagasTyped ==
  ASSUME TypeOK, NEW s \in Sagas,
         \/ PromptAnswered(s) \/ SignInAnswered(s) \/ Persisted(s) \/ ServicesAnswered(s) \/ Saved(s)
         \/ SagaFails(s)
         \/ \E b \in BOOLEAN : SignedIn(s, b) \/ ServicesRetrieved(s, b)
  PROVE  TypeOK'
<1> USE DEF TypeOK, dialogVars, updateVars
<1>0. s \in Flows
      BY DEF Flows
<1>1. CASE PromptAnswered(s)
      <2>1. DialogTypeOK'
            BY <1>0, <1>1 DEF PromptAnswered, ShowsFor, Shows, DialogTypeOK, Dialogs, Awaited
      <2>2. FlowTypeOK'
            BY <1>0, <1>1, FlowValues, GoesTyped DEF PromptAnswered, ShowsFor, FlowTypeOK, Awaited
      <2> QED BY <1>1, <2>1, <2>2 DEF PromptAnswered, StateTypeOK
<1>2. CASE SignInAnswered(s)
      <2>1. FlowTypeOK'
            BY <1>0, <1>2, FlowValues, GoesTyped DEF SignInAnswered, FlowTypeOK
      <2>2. token' \in BOOLEAN
            BY <1>2 DEF SignInAnswered, StateTypeOK
      <2> QED BY <1>2, <2>1, <2>2 DEF SignInAnswered, DialogTypeOK, StateTypeOK
<1>3. CASE Persisted(s)
      <2>1. DialogTypeOK'
            BY <1>3 DEF Persisted, Retrieves, Shows, DialogTypeOK, Dialogs
      <2>2. FlowTypeOK'
            BY <1>0, <1>3, FlowValues, GoesTyped DEF Persisted, Retrieves, FlowTypeOK
      <2> QED BY <1>3, <2>1, <2>2 DEF Persisted, StateTypeOK
<1>4. CASE ServicesAnswered(s)
      <2>1. DialogTypeOK'
            BY <1>0, <1>4 DEF ServicesAnswered, ShowsFor, Shows, DialogTypeOK, Dialogs, Awaited
      <2>2. FlowTypeOK'
            BY <1>0, <1>4, FlowValues, GoesTyped DEF ServicesAnswered, ShowsFor, FlowTypeOK, Awaited
      <2> QED BY <1>4, <2>1, <2>2 DEF ServicesAnswered, StateTypeOK
<1>5. CASE Saved(s)
      BY <1>0, <1>5, FlowValues, GoesTyped DEF Saved, DialogTypeOK, FlowTypeOK, StateTypeOK
<1>6. ASSUME NEW b \in BOOLEAN, SignedIn(s, b) PROVE TypeOK'
      <2>1. DialogTypeOK'
            BY <1>0, <1>6 DEF SignedIn, ShowsFor, Shows, DialogTypeOK, Dialogs, Awaited
      <2>2. FlowTypeOK'
            BY <1>0, <1>6, FlowValues, GoesTyped DEF SignedIn, ShowsFor, FlowTypeOK, Awaited
      <2> QED BY <1>6, <2>1, <2>2 DEF SignedIn, StateTypeOK
<1>7. ASSUME NEW b \in BOOLEAN, ServicesRetrieved(s, b) PROVE TypeOK'
      <2> DEFINE what == IF b THEN "picker" ELSE "getStarted"
      <2>1. what \in Awaited
            BY DEF Awaited
      <2>2. DialogTypeOK'
            BY <1>0, <1>7, <2>1 DEF ServicesRetrieved, Shows, DialogTypeOK, Dialogs
      <2>3. Waiting(what) \in FlowType /\ Resolved("dismiss") \in [Flows -> FlowType]
            BY <2>1, FlowValues, ResolvedTyped DEF Values
      <2>4. FlowTypeOK'
            BY <1>7, <2>3 DEF ServicesRetrieved, FlowTypeOK
      <2> QED BY <1>7, <2>2, <2>4 DEF ServicesRetrieved, StateTypeOK
<1>8. CASE SagaFails(s)
      BY <1>8, FlowValues DEF SagaFails, DialogTypeOK, FlowTypeOK, StateTypeOK
<1> QED BY <1>1, <1>2, <1>3, <1>4, <1>5, <1>6, <1>7, <1>8

\* Every step is one of those.
LEMMA NextTyped == TypeOK /\ [Next]_vars => TypeOK'
<1> SUFFICES ASSUME TypeOK, [Next]_vars PROVE TypeOK'
    OBVIOUS
<1>1. CASE UNCHANGED vars
      BY <1>1 DEF vars, TypeOK, DialogTypeOK, FlowTypeOK, StateTypeOK
<1>2. ASSUME NEW f \in Flows, Runs(f) PROVE TypeOK'
      BY <1>2, UpdaterTyped, SagasTyped DEF Runs
<1>3. CASE Next
      BY <1>2, <1>3, DialogStepsTyped, UpdaterTyped, Zenon DEF Next
<1> QED BY <1>1, <1>3

\* Every variable keeps its type (TypeOK), whatever dialogs and downloads overlap.
THEOREM TypeCorrect == Spec => []TypeOK
BY InitTyped, NextTyped, PTL DEF Spec

(***************************************************************************)
(* Whose answer                                                            *)
(***************************************************************************)
\* The answer goes to the flow that waits for the dialog shown: a step of another flow
\* either leaves the dialog alone or takes its place.
LEMMA ShowsAnswered ==
  ASSUME TypeOK, NEW f \in Flows, NEW what \in Awaited, ShowsFor(f, what)
  PROVE  AnswersItsDialog'
<1>1. shown' # "none" /\ resolve' = f /\ resolve' # NoOne
      BY OwnerAssumption DEF ShowsFor, Shows, Awaited, Flows
<1>2. flow'[f] = Waiting(shown')
      BY DEF ShowsFor, Shows, Goes, TypeOK, FlowTypeOK
<1> QED BY <1>1, <1>2 DEF AnswersItsDialog

LEMMA UnheardAnswered ==
  ASSUME NEW what \in Dialogs, Shows(what, Unheard)
  PROVE  AnswersItsDialog'
BY OwnerAssumption DEF Shows, AnswersItsDialog, Dialogs, Awaited, Flows

\* A flow that is not waiting goes on and leaves the dialog alone.
LEMMA GoesAnswered ==
  ASSUME TypeOK, AnswersItsDialog, NEW f \in Flows, flow[f].pc # "waiting", NEW at, Goes(f, at),
         UNCHANGED dialogVars
  PROVE  AnswersItsDialog'
<1>1. resolve # f
      BY DEF AnswersItsDialog, Waiting, At
<1> QED BY <1>1 DEF AnswersItsDialog, Goes, dialogVars, TypeOK, FlowTypeOK

\* A flow goes on, or shows its next dialog.
LEMMA FlowsAnswered ==
  ASSUME TypeOK, AnswersItsDialog, NEW f \in Flows, Runs(f)
  PROVE  AnswersItsDialog'
<1>1. ASSUME f \in Handlers, AvailableAnswered(f) PROVE AnswersItsDialog'
      BY <1>1, GoesAnswered DEF AvailableAnswered
<1>2. ASSUME f \in Handlers, Downloads(f) PROVE AnswersItsDialog'
      BY <1>2, GoesAnswered DEF Downloads
<1>3. CASE PromptAnswered(f)
      BY <1>3, GoesAnswered, ShowsAnswered DEF PromptAnswered, Awaited
<1>4. CASE SignInAnswered(f)
      BY <1>4, GoesAnswered DEF SignInAnswered
<1>5. CASE Persisted(f)
      BY <1>5, UnheardAnswered DEF Persisted, Retrieves, Dialogs
<1>6. CASE ServicesAnswered(f)
      BY <1>6, GoesAnswered, ShowsAnswered DEF ServicesAnswered, Awaited
<1>7. CASE Saved(f)
      BY <1>7, GoesAnswered DEF Saved
<1>8. ASSUME NEW b \in BOOLEAN, SignedIn(f, b) PROVE AnswersItsDialog'
      BY <1>8, ShowsAnswered DEF SignedIn, Awaited
<1>9. ASSUME NEW b \in BOOLEAN, ServicesRetrieved(f, b) PROVE AnswersItsDialog'
      <2> DEFINE what == IF b THEN "picker" ELSE "getStarted"
      <2>1. shown' = what /\ resolve' = f
            BY <1>9 DEF ServicesRetrieved, Shows
      <2>2. Resolved("dismiss") \in [Flows -> FlowType]
            BY ResolvedTyped DEF Values, TypeOK
      <2>3. flow'[f] = Waiting(what)
            BY <1>9, <2>2 DEF ServicesRetrieved
      <2>4. resolve' # NoOne
            BY <2>1, OwnerAssumption DEF Flows
      <2> QED BY <2>1, <2>3, <2>4 DEF AnswersItsDialog
\* The dialog of a saga that is cancelled is nobody's.
<1>10. ASSUME f \in Sagas, SagaFails(f) PROVE AnswersItsDialog'
      <2>1. shown' = "none" <=> resolve' = NoOne
            BY <1>10, OwnerAssumption DEF SagaFails, AnswersItsDialog, Flows
      <2>2. ASSUME resolve' \in Flows PROVE flow'[resolve'] = Waiting(shown')
        <3>1. resolve' = resolve /\ resolve \in Flows /\ resolve \notin Sagas
              BY <1>10, <2>2, OwnerAssumption DEF SagaFails, Flows
        <3> QED BY <1>10, <3>1 DEF SagaFails, AnswersItsDialog
      <2> QED BY <2>1, <2>2 DEF AnswersItsDialog
<1> QED BY <1>1, <1>2, <1>3, <1>4, <1>5, <1>6, <1>7, <1>8, <1>9, <1>10 DEF Runs

\* The updater's handlers leave the dialog alone; one that begins was not waiting.
LEMMA UpdaterAnswered ==
  ASSUME TypeOK, AnswersItsDialog, Electron \/ CheckForUpdates
  PROVE  AnswersItsDialog'
<1>1. ASSUME NEW h \in Handlers, OnUpdateAvailable(h) \/ OnUpdateNotAvailable(h)
      PROVE  AnswersItsDialog'
      <2>1. h \in Flows /\ flow[h].pc # "waiting" /\ UNCHANGED dialogVars
            BY <1>1 DEF OnUpdateAvailable, OnUpdateNotAvailable, Flows, Idle, At
      <2>2. CASE UNCHANGED flow
            BY <2>1, <2>2 DEF AnswersItsDialog, dialogVars
      <2>3. ASSUME NEW what, Asks(h, what) PROVE AnswersItsDialog'
            BY <2>1, <2>3, GoesAnswered DEF Asks
      <2> QED BY <1>1, <2>2, <2>3 DEF OnUpdateAvailable, OnUpdateNotAvailable
<1>2. CASE UNCHANGED <<dialogVars, flow>>
      BY <1>2 DEF AnswersItsDialog, dialogVars
<1>3. CASE UNCHANGED dialogVars /\ DownloadEnds
      <2>1. ASSUME NEW h \in Handlers, flow[h].pc = "downloading", Goes(h, Idle)
            PROVE  AnswersItsDialog'
            BY <1>3, <2>1, GoesAnswered DEF Flows
      <2> QED BY <1>2, <1>3, <2>1 DEF DownloadEnds
<1> QED BY <1>1, <1>2, <1>3
        DEF Electron, CheckForUpdates, OnUpdateAvailableAuto, OnDownloadProgress, OnUpdateDownloaded, OnError

\* The user and the commands of main show, hide and replace dialogs.
LEMMA DialogsAnswered ==
  ASSUME TypeOK, AnswersItsDialog,
         \/ UserActs
         \/ \E v \in Values : UserAnswers(v)
         \/ \E c \in calls : ShowCommand(c)
  PROVE  AnswersItsDialog'
<1>1. ASSUME NEW v \in Values, UserAnswers(v) PROVE AnswersItsDialog'
      BY <1>1, OwnerAssumption DEF UserAnswers, AnswersItsDialog, Flows
<1>2. ASSUME NEW c \in calls, ShowCommand(c) PROVE AnswersItsDialog'
      <2>1. \/ c.what \in {"available", "unavailable"} /\ c.for \in Handlers
            \/ c.what = "progress" /\ c.for = Unheard
            BY DEF TypeOK, FlowTypeOK, CallType
      <2>2. CASE c.for \in Handlers
        <3>1. ShowsFor(c.for, c.what) /\ c.what \in Awaited /\ c.for \in Flows
              BY <1>2, <2>1, <2>2, OwnerAssumption DEF ShowCommand, ShowsFor, Goes, Awaited, Flows
        <3> QED BY <3>1, ShowsAnswered
      <2>3. CASE c.for = Unheard
            BY <1>2, <2>1, <2>3, OwnerAssumption, UnheardAnswered DEF ShowCommand, Dialogs, Awaited, Flows
      <2> QED BY <2>1, <2>2, <2>3
<1>3. CASE OtherDialog
      BY <1>3, UnheardAnswered DEF OtherDialog, Dialogs
<1>4. CASE Restart \/ SignOut
      BY <1>4 DEF Restart, SignOut, dialogVars, AnswersItsDialog
<1>5. ASSUME NEW s \in Sagas, LaunchPicker(s) PROVE AnswersItsDialog'
      BY <1>5, ShowsAnswered, UnheardAnswered DEF LaunchPicker, Retrieves, Dialogs, Awaited, Flows
<1> QED BY <1>1, <1>2, <1>3, <1>4, <1>5 DEF UserActs

\* What hideDialog() resolves is the promise of the dialog that is shown
\* (AnswersItsDialog), however many flows show theirs over each other's.
THEOREM AnswersGoHome == Spec => []AnswersItsDialog
<1>1. Init => AnswersItsDialog
      BY OwnerAssumption DEF Init, AnswersItsDialog, Flows
<1>2. TypeOK /\ AnswersItsDialog /\ [Next]_vars => AnswersItsDialog'
  <2> SUFFICES ASSUME TypeOK, AnswersItsDialog, [Next]_vars PROVE AnswersItsDialog'
      OBVIOUS
  <2>1. CASE UNCHANGED vars
        BY <2>1 DEF vars, AnswersItsDialog
  <2>2. CASE Next
        BY <2>2, FlowsAnswered, UpdaterAnswered, DialogsAnswered, Zenon DEF Next
  <2> QED BY <2>1, <2>2
<1> QED BY <1>1, <1>2, TypeCorrect, PTL DEF Spec

(***************************************************************************)
(* What is installed                                                       *)
(***************************************************************************)
\* A download is under way while the silent ones and the handlers' are.
LEMMA DownloadingStays ==
  ASSUME electron'.silent = electron.silent,
         \A h \in Handlers : flow'[h].pc = "downloading" => flow[h].pc = "downloading"
  PROVE  Downloading' => Downloading
BY DEF Downloading

LEMMA GoesDownloading ==
  ASSUME TypeOK, NEW f \in Flows, NEW at, Goes(f, at), at.pc # "downloading", UNCHANGED electron
  PROVE  Downloading' => Downloading
<1>1. \A h \in Handlers : h \in Flows /\ flow'[h] = IF h = f THEN at ELSE flow[h]
      BY DEF Goes, TypeOK, FlowTypeOK, Flows
<1> QED BY <1>1, DownloadingStays

\* No download is added, and no wish but with a download that was asked for.
LEMMA InstallStays ==
  ASSUME InstallInv, updater'.installAfter = updater.installAfter,
         Downloading' => Downloading, asked => asked',
         \A h \in Handlers : Wanted(flow'[h]) => asked'
  PROVE  InstallInv'
BY DEF InstallInv

\* A flow that goes on without a wish to install, or with the one it had.
LEMMA GoesWanted ==
  ASSUME TypeOK, InstallInv, NEW f \in Flows, NEW at, Goes(f, at), Wanted(at) => Wanted(flow[f])
  PROVE  \A h \in Handlers : Wanted(flow'[h]) => asked
<1> SUFFICES ASSUME NEW h \in Handlers, Wanted(flow'[h]) PROVE asked
    OBVIOUS
<1>1. h \in Flows /\ flow'[h] = IF h = f THEN at ELSE flow[h]
      BY DEF Goes, TypeOK, FlowTypeOK, Flows
<1> QED BY <1>1 DEF InstallInv

LEMMA FlowsInstall ==
  ASSUME TypeOK, InstallInv, NEW f \in Flows, Runs(f)
  PROVE  InstallInv'
<1> USE DEF updateVars
<1>1. \A pc, what : pc \notin {"answered", "progress"} =>
        ~Wanted(Waiting(what)) /\ ~Wanted(Busy(pc)) /\ ~Wanted(Idle)
      BY DEF Wanted, Waiting, Busy, Idle, At
<1>2. ASSUME f \in Handlers, AvailableAnswered(f) PROVE InstallInv'
      <2>1. Wanted([flow[f] EXCEPT !.pc = "progress"]) => Wanted(flow[f])
            BY <1>2 DEF AvailableAnswered, Wanted, TypeOK, FlowTypeOK, FlowType
      <2>2. \A h \in Handlers : Wanted(flow'[h]) => asked
            BY <1>1, <1>2, <2>1, GoesWanted DEF AvailableAnswered
      <2>3. \A at : Goes(f, at) /\ at.pc # "downloading" => (Downloading' => Downloading)
            BY <1>2, GoesDownloading DEF AvailableAnswered
      <2>4. Idle.pc # "downloading" /\ [flow[f] EXCEPT !.pc = "progress"].pc # "downloading"
            BY DEF Idle, At, TypeOK, FlowTypeOK, FlowType
      <2>5. Downloading' => Downloading
            BY <1>2, <2>3, <2>4 DEF AvailableAnswered
      <2> QED BY <1>2, <2>2, <2>5, InstallStays DEF AvailableAnswered
<1>3. ASSUME f \in Handlers, Downloads(f) PROVE InstallInv'
      <2>0. ~Wanted([flow[f] EXCEPT !.pc = "downloading"])
            BY DEF Wanted, TypeOK, FlowTypeOK, FlowType
      <2>1. \A h \in Handlers : Wanted(flow'[h]) => asked
            BY <1>3, <2>0, GoesWanted DEF Downloads
      <2>2. updater'.installAfter => asked
        <3>1. updater'.installAfter => Wanted(flow[f])
              BY <1>3 DEF Downloads, DownloadUpdate, Wanted, TypeOK, StateTypeOK, UpdaterType
        <3> QED BY <1>3, <3>1 DEF InstallInv
      <2> QED BY <1>3, <2>1, <2>2 DEF Downloads, InstallInv
<1>4. ASSUME NEW s \in Sagas, NEW at, Goes(s, at), ~Wanted(at), at.pc # "downloading",
             UNCHANGED <<updater, electron, asked>>
      PROVE  InstallInv'
      BY <1>4, GoesWanted, GoesDownloading, InstallStays DEF Flows
\* What a saga goes on with is neither a wish nor a download.
<1>a. \A at : (at = Idle \/ (\E what : at = Waiting(what))
               \/ \E pc \in {"signIn", "persist", "retrieving", "saving"} : at = Busy(pc))
              => ~Wanted(at) /\ at.pc # "downloading"
      BY DEF Wanted, Waiting, Busy, Idle, At
<1>b. ASSUME f \in Sagas, UNCHANGED updateVars,
             \/ Goes(f, Idle) \/ \E what : Goes(f, Waiting(what))
             \/ \E pc \in {"signIn", "persist", "retrieving", "saving"} : Goes(f, Busy(pc))
      PROVE  InstallInv'
      BY <1>a, <1>4, <1>b
<1>5. ASSUME f \in Sagas, \/ PromptAnswered(f) \/ SignInAnswered(f) \/ Persisted(f)
                         \/ ServicesAnswered(f) \/ Saved(f) \/ \E b \in BOOLEAN : SignedIn(f, b)
      PROVE  InstallInv'
  <2>1. CASE PromptAnswered(f)
        BY <1>5, <1>b, <2>1 DEF PromptAnswered, ShowsFor
  <2>2. CASE SignInAnswered(f)
        BY <1>5, <1>b, <2>2 DEF SignInAnswered
  <2>3. CASE Persisted(f)
        BY <1>5, <1>b, <2>3 DEF Persisted, Retrieves
  <2>4. CASE ServicesAnswered(f)
        BY <1>5, <1>b, <2>4 DEF ServicesAnswered, ShowsFor
  <2>5. CASE Saved(f)
        BY <1>5, <1>b, <2>5 DEF Saved
  <2>6. ASSUME NEW b \in BOOLEAN, SignedIn(f, b) PROVE InstallInv'
        BY <1>5, <1>b, <2>6 DEF SignedIn, ShowsFor
  <2> QED BY <1>5, <2>1, <2>2, <2>3, <2>4, <2>5, <2>6
<1>6. ASSUME f \in Sagas, NEW b \in BOOLEAN, ServicesRetrieved(f, b) PROVE InstallInv'
      <2>1. ASSUME NEW h \in Handlers, Wanted(flow'[h]) PROVE asked
        <3>1. h \in Flows /\ h # f /\ flow'[h] = Resolved("dismiss")[h]
              BY <1>6, <2>1, ResolvedTyped, OwnerAssumption DEF ServicesRetrieved, Flows, Values, TypeOK
        <3>2. Wanted(flow[h])
              BY <2>1, <3>1 DEF Resolved, Wanted, TypeOK, FlowTypeOK, FlowType
        <3> QED BY <3>2 DEF InstallInv
      <2>2. ASSUME NEW h \in Handlers, flow'[h].pc = "downloading"
            PROVE  flow[h].pc = "downloading"
        <3>1. h \in Flows /\ h # f /\ flow'[h] = Resolved("dismiss")[h]
              BY <1>6, ResolvedTyped, OwnerAssumption DEF ServicesRetrieved, Flows, Values, TypeOK
        <3> QED BY <2>2, <3>1 DEF Resolved, TypeOK, FlowTypeOK, FlowType
      <2> QED BY <1>6, <2>1, <2>2, DownloadingStays, InstallStays DEF ServicesRetrieved
<1>7. ASSUME f \in Sagas, SagaFails(f) PROVE InstallInv'
      <2>1. \A h \in Handlers : flow'[h] = flow[h]
            BY <1>7, OwnerAssumption DEF SagaFails, Flows
      <2>2. Downloading' => Downloading
            BY <1>7, <2>1, DownloadingStays DEF SagaFails
      <2> QED BY <1>7, <2>1, <2>2 DEF SagaFails, InstallInv
<1>8. \/ f \in Handlers /\ (AvailableAnswered(f) \/ Downloads(f))
      \/ f \in Sagas /\ \/ PromptAnswered(f) \/ SignInAnswered(f) \/ Persisted(f)
                        \/ ServicesAnswered(f) \/ Saved(f) \/ \E b \in BOOLEAN : SignedIn(f, b)
      \/ f \in Sagas /\ (SagaFails(f) \/ \E b \in BOOLEAN : ServicesRetrieved(f, b))
      BY Zenon DEF Runs
<1>9. CASE f \in Handlers /\ (AvailableAnswered(f) \/ Downloads(f))
      BY <1>2, <1>3, <1>9, Zenon
<1>10. CASE f \in Sagas /\ (SagaFails(f) \/ \E b \in BOOLEAN : ServicesRetrieved(f, b))
      BY <1>6, <1>7, <1>10, Zenon
<1> QED BY <1>5, <1>8, <1>9, <1>10, Zenon

LEMMA UpdaterInstalls ==
  ASSUME TypeOK, InstallInv, Electron \/ CheckForUpdates
  PROVE  InstallInv' /\ (quit' # quit => asked')
<1>1. ASSUME NEW h \in Handlers, OnUpdateAvailable(h) \/ OnUpdateNotAvailable(h)
      PROVE  InstallInv' /\ UNCHANGED quit
      <2>1. \A g \in Handlers : Wanted(flow'[g]) => asked
        <3>1. \A what : ~Wanted(At("calling", what, "dismiss"))
              BY DEF Wanted, At
        <3>2. ASSUME NEW what, Asks(h, what) PROVE \A g \in Handlers : Wanted(flow'[g]) => asked
              BY <3>1, <3>2, GoesWanted DEF Asks, Flows
        <3> QED BY <1>1, <3>2 DEF OnUpdateAvailable, OnUpdateNotAvailable, InstallInv
      <2>2. updater'.installAfter = updater.installAfter /\ electron'.silent = electron.silent
            BY <1>1 DEF OnUpdateAvailable, OnUpdateNotAvailable, TypeOK, StateTypeOK, UpdaterType
      <2>3. ASSUME NEW g \in Handlers, flow'[g].pc = "downloading" PROVE flow[g].pc = "downloading"
        <3>1. flow' = flow \/ \E what : flow' = [flow EXCEPT ![h] = At("calling", what, "dismiss")]
              BY <1>1 DEF OnUpdateAvailable, OnUpdateNotAvailable, Asks, Goes
        <3>2. g \in Flows
              BY DEF Flows
        <3> QED BY <2>3, <3>1, <3>2 DEF At, TypeOK, FlowTypeOK
      <2>4. Downloading' => Downloading
            BY <2>2, <2>3, DownloadingStays
      <2> QED BY <1>1, <2>1, <2>2, <2>4, InstallStays DEF OnUpdateAvailable, OnUpdateNotAvailable
<1>2. CASE CheckForUpdates
      <2>1. electron'.silent = electron.silent /\ updater'.installAfter = updater.installAfter
            BY <1>2 DEF CheckForUpdates, TypeOK, StateTypeOK, UpdaterType
      <2>2. Downloading' => Downloading
            BY <1>2, <2>1, DownloadingStays DEF CheckForUpdates
      <2> QED BY <1>2, <2>1, <2>2 DEF CheckForUpdates, InstallInv
<1>3. CASE OnUpdateAvailableAuto
      BY <1>3 DEF OnUpdateAvailableAuto, DownloadUpdate, InstallInv, TypeOK, StateTypeOK, UpdaterType
<1>4. CASE OnDownloadProgress
      <2>1. updater'.installAfter = updater.installAfter
            BY <1>4 DEF OnDownloadProgress, TypeOK, StateTypeOK, UpdaterType
      <2>2. Downloading' => Downloading
            BY <1>4, DownloadingStays DEF OnDownloadProgress
      <2> QED BY <1>4, <2>1, <2>2 DEF OnDownloadProgress, InstallInv
\* A download that ends was one under way, and adds no wish.
<1>d. ASSUME DownloadEnds
      PROVE  /\ Downloading /\ \A h \in Handlers : Wanted(flow'[h]) => Wanted(flow[h])
  <2>1. ASSUME NEW h \in Handlers, flow[h].pc = "downloading", Goes(h, Idle)
        PROVE  /\ Downloading /\ \A g \in Handlers : Wanted(flow'[g]) => Wanted(flow[g])
    <3>1. \A g \in Handlers : flow'[g] = IF g = h THEN Idle ELSE flow[g]
          BY <2>1 DEF Goes, TypeOK, FlowTypeOK, Flows
    <3>2. ~Wanted(Idle)
          BY DEF Wanted, Idle, At
    <3> QED BY <2>1, <3>1, <3>2 DEF Downloading
  <2>2. CASE electron.silent > 0 /\ UNCHANGED flow
        BY <2>2 DEF Downloading
  <2> QED BY <1>d, <2>1, <2>2 DEF DownloadEnds
<1>5. CASE OnUpdateDownloaded
      <2>1. /\ updater'.installAfter = updater.installAfter
            /\ ~updater.installAfter => UNCHANGED quit
            /\ DownloadEnds /\ UNCHANGED asked
            BY <1>5 DEF OnUpdateDownloaded, TypeOK, StateTypeOK, UpdaterType
      <2> QED BY <1>d, <2>1 DEF InstallInv
<1>6. CASE OnError
      <2>1. updater'.installAfter = updater.installAfter /\ UNCHANGED quit
            BY <1>6 DEF OnError, TypeOK, StateTypeOK, UpdaterType
      <2>2. /\ asked /\ Downloading' => asked'
            /\ \A h \in Handlers : asked /\ Wanted(flow[h]) => asked'
            BY <1>6, Zenon DEF OnError
      <2>3. /\ Downloading' => Downloading
            /\ \A h \in Handlers : Wanted(flow'[h]) => Wanted(flow[h])
        <3>1. CASE electron' = [electron EXCEPT !.checking = FALSE] /\ UNCHANGED flow
          <4>1. electron'.silent = electron.silent
                BY <3>1 DEF TypeOK, StateTypeOK
          <4> QED BY <3>1, <4>1, DownloadingStays
        <3> QED BY <1>d, <1>6, <3>1 DEF OnError
      <2> QED BY <2>1, <2>2, <2>3 DEF InstallInv
<1> QED BY <1>1, <1>2, <1>3, <1>4, <1>5, <1>6
        DEF Electron, CheckForUpdates, OnUpdateAvailableAuto, OnDownloadProgress, OnError

\* The user's own steps, and the commands of main.
LEMMA DialogsInstall ==
  ASSUME TypeOK, InstallInv,
         \/ UserActs
         \/ \E v \in Values : UserAnswers(v)
         \/ \E c \in calls : ShowCommand(c)
  PROVE  InstallInv' /\ (quit' # quit => asked')
<1> USE DEF updateVars
<1>1. ASSUME NEW v \in Values, UserAnswers(v) PROVE InstallInv' /\ UNCHANGED quit
      <2>1. ASSUME NEW h \in Handlers, Wanted(flow'[h]) PROVE asked'
        <3>1. flow'[h] = flow[h] \/ flow'[h].val = v
              BY <1>1 DEF UserAnswers, Resolved, TypeOK, FlowTypeOK, FlowType, Flows
        <3>2. CASE flow'[h] = flow[h]
              BY <1>1, <2>1, <3>2 DEF UserAnswers, InstallInv
        <3>3. CASE flow'[h].val = v
              BY <1>1, <2>1, <3>3 DEF UserAnswers, Wanted
        <3> QED BY <3>1, <3>2, <3>3
      <2>2. ASSUME NEW h \in Handlers, flow'[h].pc = "downloading"
            PROVE  flow[h].pc = "downloading"
            BY <1>1, <2>2 DEF UserAnswers, Resolved, TypeOK, FlowTypeOK, FlowType, Flows
      <2>3. Downloading' => Downloading
            BY <1>1, <2>2, DownloadingStays DEF UserAnswers
      <2> QED BY <1>1, <2>1, <2>3, InstallStays DEF UserAnswers
<1>2. ASSUME NEW c \in calls, ShowCommand(c) PROVE InstallInv' /\ UNCHANGED quit
      <2>1. ASSUME NEW h \in Handlers, Wanted(flow'[h]) PROVE Wanted(flow[h])
            BY <1>2, <2>1 DEF ShowCommand, Wanted, Waiting, At, TypeOK, FlowTypeOK, FlowType, Flows
      <2>2. ASSUME NEW h \in Handlers, flow'[h].pc = "downloading"
            PROVE  flow[h].pc = "downloading"
            BY <1>2, <2>2 DEF ShowCommand, Waiting, At, TypeOK, FlowTypeOK, FlowType, Flows
      <2>3. Downloading' => Downloading
            BY <1>2, <2>2, DownloadingStays DEF ShowCommand
      <2> QED BY <1>2, <2>1, <2>3 DEF ShowCommand, InstallInv
<1>3. CASE OtherDialog \/ SignOut
      BY <1>3, DownloadingStays DEF OtherDialog, SignOut, InstallInv
<1>4. CASE Restart
      BY <1>4, DownloadingStays DEF Restart, InstallInv
<1>5. ASSUME NEW s \in Sagas, LaunchPicker(s) PROVE InstallInv' /\ UNCHANGED quit
      <2>1. ASSUME NEW what
            PROVE  /\ ~Wanted(Waiting(what)) /\ ~Wanted(Busy("retrieving"))
                   /\ Waiting(what).pc # "downloading" /\ Busy("retrieving").pc # "downloading"
            BY DEF Wanted, Waiting, Busy, At
      <2>2. \A h \in Handlers : Wanted(flow'[h]) => asked
            BY <1>5, <2>1, GoesWanted DEF LaunchPicker, Retrieves, ShowsFor, Flows
      <2>3. Downloading' => Downloading
            BY <1>5, <2>1, GoesDownloading DEF LaunchPicker, Retrieves, ShowsFor, Flows
      <2> QED BY <1>5, <2>2, <2>3 DEF LaunchPicker, InstallInv
<1> QED BY <1>1, <1>2, <1>3, <1>4, <1>5 DEF UserActs, OtherDialog, SignOut

LEMMA NextInstalls ==
  ASSUME TypeOK, InstallInv, [Next]_vars
  PROVE  InstallInv' /\ (quit' # quit => asked')
<1>1. CASE UNCHANGED vars
      BY <1>1, DownloadingStays DEF vars, InstallInv
<1>2. ASSUME NEW f \in Flows, Runs(f) PROVE UNCHANGED quit
      BY <1>2 DEF Runs, AvailableAnswered, Downloads, PromptAnswered, SignInAnswered, Persisted,
                  ServicesAnswered, Saved, SignedIn, ServicesRetrieved, SagaFails, updateVars
<1>3. CASE Next
      BY <1>2, <1>3, FlowsInstall, UpdaterInstalls, DialogsInstall, Zenon DEF Next
<1> QED BY <1>1, <1>3

\* The app quits to install an update only when the user asked for it
\* (InstallsOnlyAsked), however checks, dialogs and downloads overlap: the one field
\* _installAfterDownload never speaks for a download that nobody wanted installed.
THEOREM NothingUnasked == Spec => InstallsOnlyAsked
<1>1. Init => InstallInv
      BY DEF Init, InstallInv, Downloading, Wanted, Idle, At, Flows
<1>2. TypeOK /\ InstallInv /\ [Next]_vars => InstallInv'
      BY NextInstalls
<1>3. Spec => []InstallInv
      BY <1>1, <1>2, TypeCorrect, PTL DEF Spec
<1>4. TypeOK /\ InstallInv /\ [Next]_vars => [quit' # quit => asked']_vars
      BY NextInstalls
<1> QED BY <1>3, <1>4, TypeCorrect, PTL DEF Spec, InstallsOnlyAsked

===============================================================================
