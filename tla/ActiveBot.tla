------------------------------ MODULE ActiveBot ------------------------------
(***************************************************************************)
(* The active bot: both processes keep it in their stores, the main process *)
(* watches its file and fills the server's endpoints from it.  Gestures of  *)
(* the client (ui/helpers/activeBotHelper.ts, the sagas), deep links and    *)
(* changes of the file call the commands of app/main/src/commands/          *)
(* botCommands.ts and client/src/commands/botCommands.ts.                   *)
(*                                                                         *)
(* A slot of Gestures or Reloads is an asynchronous flow; its pc says which *)
(* await it is at.  The processes exchange messages in order.               *)
(***************************************************************************)
EXTENDS Naturals, Sequences

CONSTANTS
  Bots,         \* paths of bot files
  Services,     \* what a bot file may list
  Gestures,     \* flows of the user and of deep links that may overlap
  Reloads,      \* reloads of the bot file that may overlap
  Kinds,        \* the gestures and changes from outside that are considered
  NoPath, NoOp

ASSUME SlotAssumption == Gestures \cap Reloads = {} /\ NoOp \notin Gestures \cup Reloads
ASSUME PathAssumption == NoPath \notin Bots

Ops == Gestures \cup Reloads

\* A bot as the stores, the flows and the endpoints hold it.
BotValue == [path : Bots \cup {NoPath}, services : SUBSET Services, overrides : BOOLEAN]
NoBot == [path |-> NoPath, services |-> {}, overrides |-> FALSE]
\* Mutant of BotAt: what is read from a file lacks the overrides.
MutBotAt(b, s) == [path |-> b, services |-> s]
BotAt(b, s) == [path |-> b, services |-> s, overrides |-> FALSE]

VARIABLES
  main,      \* its store's bot, directory and recent bots; the watcher; the endpoints
  client,    \* its store's bot and recent bots; are there tabs of a bot?
  file,      \* the services listed in each bot file
  changed,   \* has the watched file changed since the watcher last reported?
  op,        \* the flows
  toMain, toClient,  \* messages on their way
  blocked,   \* the flow whose sendSync the client is blocked in
  kept,      \* history: the services added by the emulator, not removed nor overlooked
  doubt      \* history: did the last flow to set, close or reload the bot fail, or another
             \* flow or a change of its file come between?

vars == <<main, client, file, changed, op, toMain, toClient, blocked, kept, doubt>>

Idle == [kind |-> "none", bot |-> NoPath, services |-> {}, pc |-> "idle", val |-> NoBot]
AtUser == {"confirm", "prompt", "tunnel"}
\* The awaits a flow may be at; a flow of a gesture, a deep link or a reload.
\* "retrying" is the read of a bot whose stored secret is wrong.
Reading == {"loading", "retrying"}
Points == {"idle", "read", "saving", "open", "user", "set", "create", "close", "add", "remove",
           "save", "forget", "menus", "clearing", "updating", "telling", "load", "echo",
           "opened", "userSet", "wasSet", "closed", "shown", "ended"} \cup Reading \cup AtUser
OpType ==
  [kind : {"none", "switch", "open", "create", "close", "add", "remove", "pick", "forget",
           "link", "reload"},
   bot : Bots \cup {NoPath}, services : SUBSET Services, pc : Points, val : BotValue]

\* Both stores, the watcher, the endpoints and the flows hold bots whose paths are known.
TypeOK ==
  /\ main \in [bot : BotValue, dir : Bots \cup {NoPath}, recents : SUBSET Bots,
               path : Bots \cup {NoPath}, watching : Bots \cup {NoPath}, endpoints : BotValue]
  /\ client \in [bot : BotValue, recents : SUBSET Bots, tabs : BOOLEAN]
  /\ file \in [Bots -> SUBSET Services] /\ changed \in BOOLEAN
  /\ op \in [Ops -> OpType]
  /\ blocked \in Ops \cup {NoOp}
  /\ kept \in [Bots -> SUBSET Services] /\ doubt \in BOOLEAN

Init ==
  /\ main = [bot |-> NoBot, dir |-> NoPath, recents |-> Bots, path |-> NoPath,
             watching |-> NoPath, endpoints |-> NoBot]
  /\ client = [bot |-> NoBot, recents |-> Bots, tabs |-> FALSE]
  /\ file = [b \in Bots |-> {}] /\ changed = FALSE
  /\ op = [i \in Ops |-> Idle]
  /\ toMain = <<>> /\ toClient = <<>> /\ blocked = NoOp
  /\ kept = [b \in Bots |-> {}] /\ doubt = FALSE

-----------------------------------------------------------------------------
(* Stores and messages                                                     *)

\* bot reducer, setActive: the overrides in the store win over those of the same bot.
Reduced(cur, v) ==
  IF v.path = cur.path THEN [v EXCEPT !.overrides = cur.overrides] ELSE v

Active(v) == [what |-> "active", val |-> v]
Closing == [what |-> "closed"]
Recents(l) == [what |-> "recents", list |-> l]
Msg(what, i) == [what |-> what, flow |-> i]

Goes(i, o) == op' = [op EXCEPT ![i] = o]
At(o, pc) == [o EXCEPT !.pc = pc]
Ends(i) == Goes(i, Idle)

Runs == blocked = NoOp
ClientCalls(i, o) ==
  /\ Goes(i, o)
  /\ toMain' = Append(toMain, Msg("call", i))
  /\ UNCHANGED blocked
\* The main process forwards the actions it dispatched, and calls or answers.
MainSends(i, o, acts, what) ==
  /\ Goes(i, o)
  /\ toClient' = toClient \o acts \o <<Msg(what, i)>>
\* store.dispatch in the client: sendSync blocks it until main has reduced.
Dispatches(i, o) ==
  /\ Goes(i, o)
  /\ toMain' = Append(toMain, Msg("sync", i))
  /\ blocked' = i

-----------------------------------------------------------------------------
(* The client's gestures (activeBotHelper.ts, servicesExplorerSagas.ts)     *)

FirstCall(o) ==
  CASE o.kind = "switch" -> IF o.val = NoBot THEN "open" ELSE "set"
    [] o.kind = "open" -> "open"
    [] o.kind = "create" -> "create"
    [] o.kind = "close" -> "close"

\* closeNonGlobalTabs(), and the first call of the main process.
Proceeds(g, o) ==
  /\ ClientCalls(g, At(o, FirstCall(o)))
  /\ client' = [client EXCEPT !.tabs = FALSE]

\* confirmSwitchBot(), confirmCloseBot(): the user is asked if a tab would be closed.
AsksFirst(g, o) ==
  IF client.tabs
  THEN Goes(g, At(o, "confirm")) /\ UNCHANGED <<client, toMain, blocked>>
  ELSE Proceeds(g, o)

\* A live chat with the bot's endpoint, if it has one.
NewLiveChat(g) ==
  /\ Ends(g)
  /\ \E chat \in BOOLEAN : client' = [client EXCEPT !.tabs = @ \/ chat]

SwitchTo(g, o) ==
  IF client.bot.path = o.bot
  THEN NewLiveChat(g) /\ UNCHANGED <<toMain, blocked>>
  ELSE AsksFirst(g, o)

Starts(g, k) == Runs /\ g \in Gestures /\ op[g] = Idle /\ k \in Kinds

ConfirmAndSwitchBots(g, b) ==
  /\ Starts(g, "switch")
  /\ SwitchTo(g, [Idle EXCEPT !.kind = "switch", !.bot = b])
  /\ UNCHANGED <<main, file, changed, toClient, kept, doubt>>

\* The promise of confirmSwitchBot() is not awaited, and a promise is truthy.
ConfirmAndOpenBotFromFile(g, b) ==
  /\ Starts(g, "open")
  /\ LET o == [Idle EXCEPT !.kind = "open", !.bot = b]
     IN IF client.bot.path = b THEN SwitchTo(g, o) ELSE Proceeds(g, o)
  /\ UNCHANGED <<main, file, changed, toClient, kept, doubt>>

ConfirmAndCreateBot(g, b) ==
  /\ Starts(g, "create")
  /\ AsksFirst(g, [Idle EXCEPT !.kind = "create", !.bot = b, !.val = BotAt(b, {})])
  /\ UNCHANGED <<main, file, changed, toClient, kept, doubt>>

ConfirmAndCloseBot(g) ==
  /\ Starts(g, "close") /\ client.bot # NoBot
  /\ AsksFirst(g, [Idle EXCEPT !.kind = "close"])
  /\ UNCHANGED <<main, file, changed, toClient, kept, doubt>>

\* The user answers the box of AsksFirst, or that of a removal.
Confirm(g) ==
  /\ Runs /\ op[g].pc = "confirm"
  /\ \/ Ends(g) /\ UNCHANGED <<client, toMain, blocked>>
     \/ IF op[g].kind \in {"remove", "forget"}
        THEN ClientCalls(g, At(op[g], op[g].kind)) /\ UNCHANGED client
        ELSE Proceeds(g, op[g])
  /\ UNCHANGED <<main, file, changed, toClient, kept, doubt>>

\* The services that the editor of a connected service was closed with.
LaunchConnectedServiceEditor(g, s) ==
  /\ Starts(g, "add") /\ client.bot # NoBot
  /\ ClientCalls(g, [Idle EXCEPT !.kind = "add", !.services = {s}, !.pc = "add"])
  /\ UNCHANGED <<main, client, file, changed, toClient, kept, doubt>>

RemoveServiceFromActiveBot(g, s) ==
  /\ Starts(g, "remove") /\ s \in client.bot.services
  /\ Goes(g, [Idle EXCEPT !.kind = "remove", !.services = {s}, !.pc = "confirm"])
  /\ UNCHANGED <<main, client, file, changed, toMain, toClient, blocked, kept, doubt>>

\* The services picked from a list are pushed on the client's copy, which is saved.
LaunchConnectedServicePicker(g, picked) ==
  /\ Starts(g, "pick") /\ client.bot # NoBot /\ picked # {}
  /\ ClientCalls(g, [Idle EXCEPT !.kind = "pick", !.services = picked, !.pc = "save",
                                 !.val = [client.bot EXCEPT !.services = @ \cup picked]])
  /\ UNCHANGED <<main, client, file, changed, toClient, kept, doubt>>

\* RemoveFromBotList asks from the main process; the question comes first here.
RemoveFromRecentBots(g, b) ==
  /\ Starts(g, "forget") /\ b \in client.recents
  /\ Goes(g, [Idle EXCEPT !.kind = "forget", !.bot = b, !.pc = "confirm"])
  /\ UNCHANGED <<main, client, file, changed, toMain, toClient, blocked, kept, doubt>>

\* External: tabs come and go (EditorTabs).
TabsChange ==
  /\ Runs /\ client.bot # NoBot /\ "tabs" \in Kinds
  /\ client' = [client EXCEPT !.tabs = ~@]
  /\ UNCHANGED <<main, file, changed, op, toMain, toClient, blocked, kept, doubt>>

-----------------------------------------------------------------------------
(* The client's messages                                                   *)

Receives == Runs /\ toClient # <<>>
Rest == Tail(toClient)

\* Forwarded actions of the main process.
StoreFollows ==
  /\ Receives
  /\ LET m == Head(toClient) IN
       \/ m.what = "active" /\ client' = [client EXCEPT !.bot = Reduced(@, m.val)]
       \/ m.what = "closed" /\ client' = [client EXCEPT !.bot = NoBot]
       \/ m.what = "recents" /\ client' = [client EXCEPT !.recents = m.list]
  /\ toClient' = Rest
  /\ UNCHANGED <<main, file, changed, op, toMain, blocked, kept, doubt>>

\* File.Clear, ChatsPathUpdated and TranscriptsPathUpdated are answered at once.
AnswersAtOnce ==
  /\ Receives /\ Head(toClient).what \in {"clear", "paths"}
  /\ toMain' = Append(toMain, Msg("reply", Head(toClient).flow))
  /\ toClient' = Rest
  /\ UNCHANGED <<main, client, file, changed, op, blocked, kept, doubt>>

\* Bot.SetActive, called by the main process, dispatches the bot once more, then calls back.
SetActiveInClient ==
  /\ Receives /\ Head(toClient).what = "told"
  /\ LET i == Head(toClient).flow IN Dispatches(i, At(op[i], "echo"))
  /\ toClient' = Rest
  /\ UNCHANGED <<main, client, file, changed, kept, doubt>>

\* Bot.Load, called by a deep link, or by confirmAndOpenBotFromFile itself.
LoadBot(g, o) ==
  IF o.bot \notin client.recents
  THEN AsksFirst(g, [o EXCEPT !.kind = "create"])
  ELSE SwitchTo(g, [o EXCEPT !.kind = "switch"])

LoadIsCalled ==
  /\ Receives /\ Head(toClient).what = "load"
  /\ LET i == Head(toClient).flow IN LoadBot(i, op[i])
  /\ toClient' = Rest
  /\ UNCHANGED <<main, file, changed, kept, doubt>>

\* A call of the main process is answered; a flow that failed is idle already.
Answered(i) ==
  /\ Receives /\ Head(toClient) = Msg("reply", i)
  /\ toClient' = Rest
  /\ UNCHANGED <<main, file, changed, kept, doubt>>

\* Bot.Open and Bot.Create bring the bot to be set; confirmAndOpenBotFromFile() first
\* awaits SetCurrentUser.
OpenAnswered(i) ==
  /\ Answered(i) /\ op[i].pc \in {"opened", "userSet"}
  /\ IF op[i].pc = "opened" /\ op[i].val = NoBot
     THEN Ends(i) /\ UNCHANGED <<client, toMain, blocked>>
     ELSE LET first == op[i].kind = "open" /\ op[i].pc = "opened"
          IN ClientCalls(i, At(op[i], IF first THEN "user" ELSE "set")) /\ UNCHANGED client

\* setActiveBot() of the helper dispatches; confirmAndOpenBotFromFile() loads.
SetActiveAnswered(i) ==
  /\ Answered(i) /\ op[i].pc = "wasSet"
  /\ IF op[i].kind = "open" THEN LoadBot(i, op[i]) ELSE Dispatches(i, op[i]) /\ UNCHANGED client

CloseAnswered(i) ==
  /\ Answered(i) /\ op[i].pc = "closed"
  /\ Dispatches(i, op[i]) /\ UNCHANGED client

\* UpdateFileMenu and SetTitleBar are answered: Bot.SetActive answers the main process,
\* a gesture opens a chat.
MenusAnswered(i) ==
  /\ Answered(i) /\ op[i].pc = "shown"
  /\ IF op[i].kind \in {"add", "remove", "reload"}
     THEN /\ Goes(i, At(op[i], "telling"))
          /\ toMain' = Append(toMain, Msg("reply", i))
          /\ UNCHANGED <<client, blocked>>
     ELSE /\ Ends(i)
          /\ \E chat \in {FALSE, op[i].kind # "close"} : client' = [client EXCEPT !.tabs = @ \/ chat]
          /\ UNCHANGED <<toMain, blocked>>

OtherAnswered(i) ==
  /\ Answered(i) /\ op[i].pc = "ended"
  /\ Ends(i) /\ UNCHANGED <<client, toMain, blocked>>

-----------------------------------------------------------------------------
(* Commands of the main process (botCommands.ts, botHelpers.ts)             *)

Called(i, command) ==
  /\ toMain # <<>> /\ Head(toMain) = Msg("call", i) /\ op[i].pc = command
  /\ toMain' = Tail(toMain)
Replied(i, pc) ==
  /\ toMain # <<>> /\ Head(toMain) = Msg("reply", i) /\ op[i].pc = pc
  /\ toMain' = Tail(toMain)

OpenBot(i) ==
  /\ Called(i, "open")
  /\ Goes(i, At(op[i], "loading"))
  /\ UNCHANGED <<main, client, file, changed, toClient, blocked, kept, doubt>>

\* SetCurrentUser, UpdateFileMenu and SetTitleBar concern state that is not modelled here.
SetCurrentUser(i) ==
  /\ Called(i, "user")
  /\ MainSends(i, At(op[i], "userSet"), <<>>, "reply")
  /\ UNCHANGED <<main, client, file, changed, blocked, kept, doubt>>
UpdateMenus(i) ==
  /\ Called(i, "menus")
  /\ MainSends(i, At(op[i], "shown"), <<>>, "reply")
  /\ UNCHANGED <<main, client, file, changed, blocked, kept, doubt>>

\* loadBotWithRetry() has its bot, or nothing: then Open rejects, a link or a reload ends.
Loaded(i, v, acts) ==
  CASE op[i].kind \in {"link", "reload"} /\ v = NoBot -> Ends(i) /\ toClient' = toClient \o acts
    [] op[i].kind = "link" /\ v # NoBot ->
         /\ Goes(i, [op[i] EXCEPT !.pc = "tunnel", !.val = [v EXCEPT !.overrides = op[i].val.overrides]])
         /\ toClient' = toClient \o acts
    [] op[i].kind = "reload" /\ v # NoBot ->
         Goes(i, [op[i] EXCEPT !.pc = "read", !.val = v]) /\ toClient' = toClient \o acts
    [] OTHER -> MainSends(i, [op[i] EXCEPT !.pc = "opened", !.val = v], acts, "reply")

LoadFails(i) ==
  /\ Loaded(i, NoBot, <<>>)
  /\ doubt' = (doubt \/ op[i].kind = "reload")
  /\ UNCHANGED main

\* loadBotWithRetry(): a bot that is read becomes a recent one.  A file that needs a secret
\* is tried with that of the credential store, wrong as it may be again and again; the user
\* is asked if it has none.
LoadEnds(i) ==
  /\ op[i].pc \in Reading
  /\ LET b == op[i].bot
         known == main.recents \cup {b}
     IN \/ /\ Loaded(i, BotAt(b, file[b]), IF b \in main.recents THEN <<>> ELSE <<Recents(known)>>)
           /\ main' = [main EXCEPT !.recents = known]
           /\ UNCHANGED doubt
        \/ LoadFails(i)
        \/ /\ op[i].pc = "loading"
           /\ \E pc \in {"retrying", "prompt"} : Goes(i, At(op[i], pc))
           /\ UNCHANGED <<main, toClient, doubt>>
  /\ UNCHANGED <<client, file, changed, toMain, blocked, kept>>

\* promptForSecretAndRetry(): a secret is tried, a dismissed dialog ends it.
PromptAnswered(i) ==
  /\ op[i].pc = "prompt"
  /\ \/ Goes(i, At(op[i], "loading")) /\ UNCHANGED <<main, toClient, doubt>>
     \/ LoadFails(i)
  /\ UNCHANGED <<client, file, changed, toMain, blocked, kept>>

\* setActiveBot(), up to the await of File.Clear.
BeginsSetActive(i) ==
  /\ main' = [main EXCEPT !.path = op[i].val.path]
  /\ MainSends(i, At(op[i], "clearing"), <<>>, "clear")
SetActiveBot(i) ==
  /\ Called(i, "set")
  /\ BeginsSetActive(i)
  /\ UNCHANGED <<client, file, changed, blocked, kept, doubt>>

\* Mutant of Cleared: the watcher follows the bot that the store still has.
MutCleared(i) ==
  /\ Replied(i, "clearing")
  /\ LET v == op[i].val
         b == Reduced(main.bot, v)
     IN /\ main' = [main EXCEPT !.watching = main.bot.path, !.bot = b, !.dir = v.path, !.endpoints = b]
        /\ MainSends(i, At(op[i], "updating"), <<Active(v)>>, "paths")
  /\ changed' = FALSE
  /\ UNCHANGED <<client, file, blocked, kept, doubt>>

\* No other flow holds a bot that it will set.
Undisturbed(i) == \A j \in Ops \ {i} : op[j].pc \in {"idle"} \cup AtUser \cup Reading

\* ... then the watcher, the store and restartEndpointService(), up to the next await.
Cleared(i) ==
  /\ Replied(i, "clearing")
  /\ LET v == op[i].val
         b == Reduced(main.bot, v)
     IN /\ main' = [main EXCEPT !.watching = v.path, !.bot = b, !.dir = v.path, !.endpoints = b]
        /\ MainSends(i, At(op[i], "updating"), <<Active(v)>>, "paths")
  /\ changed' = FALSE
  /\ doubt' = ~(/\ Undisturbed(i) /\ op[i].val.services = file[op[i].val.path]
               /\ Reduced(client.bot, op[i].val) = Reduced(main.bot, op[i].val))
  /\ UNCHANGED <<client, file, blocked, kept>>

\* ... and to the end: a deep link goes on to Bot.Load.
SetActiveEnds(i) ==
  /\ Replied(i, "updating")
  /\ IF op[i].kind = "link"
     THEN MainSends(i, At(op[i], "load"), <<>>, "load")
     ELSE MainSends(i, At(op[i], "wasSet"), <<>>, "reply")
  /\ UNCHANGED <<main, client, file, changed, blocked, kept, doubt>>

CloseBot(i) ==
  /\ Called(i, "close")
  /\ main' = [main EXCEPT !.watching = NoPath, !.bot = NoBot]
  /\ changed' = FALSE
  /\ MainSends(i, At(op[i], "closed"), <<Closing>>, "reply")
  /\ doubt' = ~Undisturbed(i)
  /\ UNCHANGED <<client, file, blocked, kept>>

\* addOrUpdateService() and removeService() take the store's bot before they await.
Changes(i, command, v) ==
  /\ Called(i, command)
  /\ IF main.bot # NoBot /\ main.bot.path \in main.recents
     THEN Goes(i, [op[i] EXCEPT !.pc = "saving", !.val = v]) /\ UNCHANGED toClient
     ELSE MainSends(i, At(op[i], "ended"), <<>>, "reply")
  /\ UNCHANGED <<main, client, file, changed, blocked, kept, doubt>>
AddOrUpdateService(i) == Changes(i, "add", [main.bot EXCEPT !.services = @ \cup op[i].services])
RemoveService(i) == Changes(i, "remove", [main.bot EXCEPT !.services = @ \ op[i].services])

SaveBot(i) ==
  /\ Called(i, "save")
  /\ Goes(i, At(op[i], "saving"))
  /\ UNCHANGED <<main, client, file, changed, toClient, blocked, kept, doubt>>

CreateBot(i) ==
  /\ Called(i, "create")
  /\ LET known == main.recents \cup {op[i].bot}
     IN main' = [main EXCEPT !.recents = known] /\ toClient' = Append(toClient, Recents(known))
  /\ Goes(i, At(op[i], "saving"))
  /\ UNCHANGED <<client, file, changed, blocked, kept, doubt>>

RemoveFromBotList(i) ==
  /\ Called(i, "forget")
  /\ LET known == main.recents \ {op[i].bot}
     IN /\ main' = [main EXCEPT !.recents = known]
        /\ MainSends(i, At(op[i], "ended"), <<Recents(known)>>, "reply")
  /\ UNCHANGED <<client, file, changed, blocked, kept, doubt>>

\* What follows a save: a changed service is dispatched and told to the client.
Saved(i) ==
  IF op[i].kind \in {"add", "remove"}
  THEN /\ main' = [main EXCEPT !.bot = Reduced(@, op[i].val)]
       /\ MainSends(i, At(op[i], "telling"), <<Active(op[i].val)>>, "told")
  ELSE /\ MainSends(i, At(op[i], IF op[i].kind = "create" THEN "opened" ELSE "ended"), <<>>, "reply")
       /\ UNCHANGED main

KeptAfter(o) ==
  CASE o.kind \in {"add", "pick"} -> kept[o.val.path] \cup o.services
    [] o.kind = "remove" -> kept[o.val.path] \ o.services
    [] o.kind = "create" -> o.val.services

\* Mutant of SaveEnds: the store's bot is saved, not the changed copy.
MutSaveEnds(i) ==
  /\ op[i].pc = "saving"
  /\ LET v == op[i].val IN
       /\ file' = [file EXCEPT ![v.path] = main.bot.services]
       /\ changed' = (changed \/ main.watching = v.path)
       /\ kept' = [kept EXCEPT ![v.path] = KeptAfter(op[i])]
  /\ Saved(i)
  /\ UNCHANGED <<client, toMain, blocked, doubt>>

SaveEnds(i) ==
  /\ op[i].pc = "saving"
  /\ LET v == op[i].val IN
       /\ file' = [file EXCEPT ![v.path] = v.services]
       /\ changed' = (changed \/ main.watching = v.path)
       /\ kept' = [kept EXCEPT ![v.path] = KeptAfter(op[i])]
  /\ Saved(i)
  /\ UNCHANGED <<client, toMain, blocked, doubt>>

SaveFails(i) ==
  /\ op[i].pc = "saving"
  /\ MainSends(i, IF op[i].kind = "create" THEN [op[i] EXCEPT !.pc = "opened", !.val = NoBot]
                  ELSE At(op[i], "ended"), <<>>, "reply")
  /\ UNCHANGED <<main, client, file, changed, toMain, blocked, kept, doubt>>

\* Mutant of ClientWasTold: the command never answers.
MutClientWasTold(i) ==
  /\ Replied(i, "telling")
  /\ Goes(i, IF op[i].kind = "reload" THEN Idle ELSE At(op[i], "ended"))
  /\ UNCHANGED <<main, client, file, changed, toClient, blocked, kept, doubt>>

ClientWasTold(i) ==
  /\ Replied(i, "telling")
  /\ IF op[i].kind = "reload" THEN Ends(i) /\ UNCHANGED toClient
     ELSE MainSends(i, At(op[i], "ended"), <<>>, "reply")
  /\ UNCHANGED <<main, client, file, changed, blocked, kept, doubt>>

\* Mutant of MainSyncs: main does not reduce what the client dispatched.
MutMainSyncs(i) ==
  /\ toMain # <<>> /\ Head(toMain) = Msg("sync", i)
  /\ LET v == IF op[i].pc = "closed" THEN NoBot ELSE op[i].val
     IN client' = [client EXCEPT !.bot = Reduced(@, v)]
  /\ toMain' = Append(Tail(toMain), Msg("call", i)) /\ Goes(i, At(op[i], "menus"))
  /\ blocked' = NoOp
  /\ UNCHANGED <<main, file, changed, toClient, kept, doubt>>

\* The 'sync-store' listener reduces, sendSync returns and the client reduces; it goes on
\* with UpdateFileMenu and SetTitleBar.
MainSyncs(i) ==
  /\ toMain # <<>> /\ Head(toMain) = Msg("sync", i)
  /\ LET v == IF op[i].pc = "closed" THEN NoBot ELSE op[i].val IN
       /\ main' = [main EXCEPT !.bot = Reduced(@, v)]
       /\ client' = [client EXCEPT !.bot = Reduced(@, v)]
  /\ toMain' = Append(Tail(toMain), Msg("call", i)) /\ Goes(i, At(op[i], "menus"))
  /\ blocked' = NoOp
  /\ UNCHANGED <<file, changed, toClient, kept, doubt>>

-----------------------------------------------------------------------------
(* Deep links (protocolHandler.ts) and the watcher (botProjectFileWatcher)  *)

OpenDeepLink(g, b, overrides) ==
  /\ g \in Gestures /\ op[g] = Idle /\ "link" \in Kinds
  /\ Goes(g, [Idle EXCEPT !.kind = "link", !.bot = b, !.pc = "loading", !.val.overrides = overrides])
  /\ UNCHANGED <<main, client, file, changed, toMain, toClient, blocked, kept, doubt>>

\* ngrok runs, or is not configured; else the link waits for the next 'connect'.
TunnelConnects(i) ==
  /\ op[i].pc = "tunnel"
  /\ BeginsSetActive(i)
  /\ UNCHANGED <<client, file, changed, toMain, blocked, kept, doubt>>
TunnelFails(i) ==
  /\ op[i].pc = "tunnel"
  /\ Ends(i)
  /\ UNCHANGED <<main, client, file, changed, toMain, toClient, blocked, kept, doubt>>

\* onFileChange(): a change of a file that is not botFilePath is ignored.
OnFileChange(r) ==
  /\ changed /\ op[r] = Idle
  /\ changed' = FALSE
  /\ IF main.watching # main.path \/ main.bot = NoBot THEN UNCHANGED op
     ELSE Goes(r, [Idle EXCEPT !.kind = "reload", !.bot = main.watching, !.pc = "loading"])
  /\ UNCHANGED <<main, client, file, toMain, toClient, blocked, kept, doubt>>

\* The file is as it was read, or will be read again.
UpToDate(v) == v.services = file[v.path] \/ changed

\* Mutant of ReloadEnds: the endpoint service is not restarted.
MutReloadEnds(r) ==
  /\ op[r].pc = "read"
  /\ LET v == op[r].val IN
       /\ main' = [main EXCEPT !.bot = Reduced(@, v)]
       /\ MainSends(r, At(op[r], "telling"), <<Active(v)>>, "told")
       /\ kept' = [kept EXCEPT ![v.path] = @ \cap v.services]
       /\ doubt' = ~(Undisturbed(r) /\ {main.bot.path, main.watching, main.dir} = {v.path} /\ UpToDate(v))
  /\ UNCHANGED <<client, file, changed, toMain, blocked>>

\* ... and to its end, the last await being that of the stored secret: whichever bot is
\* active by now.  What was added since the file was read is overlooked.
ReloadEnds(r) ==
  /\ op[r].pc = "read"
  /\ LET v == op[r].val
         b == Reduced(main.bot, v)
     IN /\ main' = [main EXCEPT !.bot = b, !.endpoints = b]
        /\ MainSends(r, At(op[r], "telling"), <<Active(v)>>, "told")
        /\ kept' = [kept EXCEPT ![v.path] = @ \cap v.services]
        /\ doubt' = ~(Undisturbed(r) /\ {main.bot.path, main.watching, main.dir} = {v.path} /\ UpToDate(v))
  /\ UNCHANGED <<client, file, changed, toMain, blocked>>

AtRest == toMain = <<>> /\ toClient = <<>> /\ \A i \in Ops : op[i] = Idle

\* External: the file is edited in another program.
EditFile(b, s) ==
  /\ "edit" \in Kinds
  /\ file' = [file EXCEPT ![b] = IF s \in @ THEN @ \ {s} ELSE @ \cup {s}]
  /\ kept' = [kept EXCEPT ![b] = @ \ {s}]
  /\ changed' = (changed \/ main.watching = b)
  /\ UNCHANGED <<main, client, op, toMain, toClient, blocked, doubt>>

-----------------------------------------------------------------------------
ClientGesture(g) ==
  \/ \E b \in Bots : \/ ConfirmAndSwitchBots(g, b) \/ ConfirmAndOpenBotFromFile(g, b)
                     \/ ConfirmAndCreateBot(g, b) \/ RemoveFromRecentBots(g, b)
                     \/ \E o \in BOOLEAN : OpenDeepLink(g, b, o)
  \/ ConfirmAndCloseBot(g)
  \/ \E s \in Services : LaunchConnectedServiceEditor(g, s) \/ RemoveServiceFromActiveBot(g, s)
  \/ \E picked \in SUBSET Services : LaunchConnectedServicePicker(g, picked)

\* The user answers a question.
UserAnswers(i) == Confirm(i) \/ PromptAnswered(i)

\* The client's event loop, and the main process's; files and tunnels.
ClientSteps ==
  \/ StoreFollows \/ AnswersAtOnce \/ SetActiveInClient \/ LoadIsCalled
  \/ \E i \in Ops : \/ OpenAnswered(i) \/ SetActiveAnswered(i) \/ CloseAnswered(i)
                   \/ MenusAnswered(i) \/ OtherAnswered(i)
MainSteps(i) ==
  \/ OpenBot(i) \/ SetCurrentUser(i) \/ UpdateMenus(i) \/ SetActiveBot(i) \/ Cleared(i) \/ SetActiveEnds(i) \/ CloseBot(i)
  \/ AddOrUpdateService(i) \/ RemoveService(i) \/ SaveBot(i) \/ CreateBot(i)
  \/ RemoveFromBotList(i) \/ ClientWasTold(i) \/ MainSyncs(i)
FileSteps(i) == LoadEnds(i) \/ SaveEnds(i) \/ SaveFails(i) \/ ReloadEnds(i)
Tunnel(i) == TunnelConnects(i) \/ TunnelFails(i)

Next ==
  \/ \E g \in Gestures : ClientGesture(g)
  \/ \E i \in Ops : UserAnswers(i) \/ MainSteps(i) \/ FileSteps(i) \/ Tunnel(i)
  \/ ClientSteps \/ TabsChange
  \/ \E r \in Reloads : OnFileChange(r)
  \/ \E b \in Bots, s \in Services : EditFile(b, s)

Spec == Init /\ [][Next]_vars

\* The event loops take their messages; reads, writes and chokidar's reports end, but
\* the retries with a wrong secret need not.
Fairness ==
  /\ WF_vars(ClientSteps)
  /\ \A i \in Ops : WF_vars(MainSteps(i)) /\ WF_vars(op[i].pc # "retrying" /\ FileSteps(i))
  /\ \A r \in Reloads : WF_vars(OnFileChange(r))

FairSpec == Spec /\ Fairness

-----------------------------------------------------------------------------
(* Properties                                                              *)

\* The file watcher is that of the last setActiveBot() to begin, unless that one
\* still awaits File.Clear: of overlapping switches none leaves its watcher behind.
WatcherFollowsPath ==
  main.watching \in {NoPath, main.path} \/ \E i \in Ops : op[i].pc = "clearing"

\* One bot everywhere.
OneBot ==
  /\ client.bot = main.bot /\ client.recents = main.recents
  /\ main.bot = NoBot => main.watching = NoPath
  /\ main.bot # NoBot =>
       /\ main.watching = main.bot.path /\ main.path = main.bot.path /\ main.dir = main.bot.path
       /\ main.bot.services = file[main.bot.path]
       /\ main.endpoints = main.bot

\* Once every flow has ended and every change was reported, both stores, the watcher, the
\* directory, the endpoints and the file hold one and the same bot: unless the last flow
\* to set, close or reload it failed, or something came between, and then from the next
\* one on to which nothing happens.
SettlesOnOneBot == AtRest /\ ~changed /\ ~doubt => OneBot

\* However switches, picks, creations and changes of services overlap with each other and
\* with reloads of the file, both stores end with the same bot.
StoresMeet == AtRest => client.bot = main.bot

\* A service that was added stays in the file until it is removed, or a reload sets the
\* bot as it was before.
ServicesKept == \A b \in Bots : kept[b] \subseteq file[b]

\* The tabs of a bot are closed only when the user agreed to it.
TabsClosedOnConsent ==
  [][\A g \in Gestures : client.tabs /\ op[g].pc = "idle" /\ op'[g].pc # "idle" => client'.tabs]_vars

\* Calls nest both ways, the client's under the main process's and conversely, and the
\* client blocks: still each flow ends, waits for the user or ngrok, or has a wrong secret.
FlowsEnd == \A i \in Ops : op[i].pc # "idle" ~> op[i].pc \in {"idle", "retrying"} \cup AtUser
=============================================================================
