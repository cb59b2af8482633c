------------------------------- MODULE LiveChat -------------------------------
(***************************************************************************)
(* Chats: a tab of the client shows a chat of its store (reducers/chat.ts)  *)
(* over a DirectLine to a conversation of the main process's server         *)
(* (conversationSet.ts).  The Emulator component starts conversations       *)
(* (emulator.tsx), the server opens tabs for those that are new             *)
(* (restServer.ts), and sagas close and restart chats (chatSagas.ts,        *)
(* botSagas.ts).  What a conversation does is module Conversation.          *)
(*                                                                         *)
(* Bounds: a document has one component and one restart at a time, and one  *)
(* conversation is opened by URL at a time.                                 *)
(***************************************************************************)
EXTENDS Naturals, Sequences, FiniteSets

CONSTANTS
  Docs,         \* documents of chats, each made once (uniqueId)
  Urls,         \* what an endpoint's URL may be, edited or overridden by a deep link
  MaxConvs,     \* bound: conversation ids made
  Gestures,     \* what the user does
  Speech,       \* has the bot credentials, so that a speech token is fetched?
  None

ASSUME BoundAssumption == MaxConvs \in Nat /\ None \notin Docs \cup Nat \cup Urls
ASSUME SpeechAssumption == Speech \in BOOLEAN

Convs == 1..MaxConvs

VARIABLES
  ids,            \* the ids made so far: a mode, which the id of the number ends with
  conversations,  \* server: the conversations of the ConversationSet
  requests,       \* POSTs on their way to the server
  opens,          \* calls of NewLiveChat on their way to the client
  deletes,        \* calls of DeleteConversation on their way to main
  mode,           \* of the documents made so far
  chats,          \* client: the chats of its store
  tabs,           \* client: the documents with a tab, whose components are mounted
  start,          \* the components' startNewConversation()
  flow,           \* the restarts of chats
  saga,           \* the latest newChat saga, and the resolver it was given
  pending         \* client: pendingSpeechTokenRetrieval

serverVars == <<conversations, opens>>
vars == <<ids, conversations, requests, opens, deletes, mode, chats, tabs, start, flow,
          saga, pending>>

Modes == {"livechat", "debug"}
\* A chat keeps the URL its endpoint had when it was opened.
Chat(conv, url) == [is |-> "chat", conv |-> conv, url |-> url, line |-> "none"]
NoChat == [is |-> "none", conv |-> None, url |-> None, line |-> "none"]
\* What setInspectorObjects makes of a chat that was closed: an empty object.
Ghost == [is |-> "ghost", conv |-> None, url |-> None, line |-> "none"]
Stored(d) == chats[d].is = "chat"

NotStarting == [pc |-> "idle", conv |-> None]
NoFlow == [kind |-> "none", conv |-> None, pc |-> "idle"]
NoSaga == [doc |-> None, conv |-> None, resolver |-> FALSE, pc |-> "idle"]

\* Every conversation, request, call and chat is of an id that was made.
TypeOK ==
  /\ ids \in Seq(Modes) /\ Len(ids) <= MaxConvs
  /\ conversations \subseteq DOMAIN ids
  /\ \A r \in requests : r.what = "connect" => r.conv \in DOMAIN ids
  /\ requests \subseteq [what : {"connect", "create"}, doc : Docs \cup {None},
                         conv : Convs \cup {None}, as : Modes]
  /\ opens \subseteq [conv : DOMAIN ids, focus : BOOLEAN, as : Modes]
  /\ deletes \subseteq DOMAIN ids
  /\ mode \in [Docs -> Modes \cup {"none"}] /\ tabs \subseteq Docs
  /\ chats \in [Docs -> [is : {"none", "chat", "ghost"}, conv : Convs \cup {None},
                            url : Urls \cup {None},
                            line : {"none", "made", "asking", "connected", "ended"}]]
  /\ start \in [Docs -> [pc : {"idle", "user"}, conv : Convs \cup {None}]]
  /\ flow \in [Docs -> [kind : {"none", "over", "reconnect"}, conv : Convs \cup {None},
                           pc : {"idle", "endpoint", "log", "cleared", "post"}]]
  /\ saga \in [doc : Docs \cup {None}, conv : Convs \cup {None}, resolver : BOOLEAN,
               pc : {"idle", "endpoint", "speech"}]
  /\ pending \in BOOLEAN

Init ==
  /\ ids = <<>> /\ conversations = {} /\ requests = {} /\ opens = {} /\ deletes = {}
  /\ mode = [d \in Docs |-> "none"]
  /\ chats = [d \in Docs |-> NoChat] /\ tabs = {}
  /\ start = [d \in Docs |-> NotStarting] /\ flow = [d \in Docs |-> NoFlow]
  /\ saga = NoSaga /\ pending = FALSE

-----------------------------------------------------------------------------
(* The server's conversations                                              *)

\* hasLiveChat(): asked when the conversation is in the set already.
\* Mutant of HasLiveChat: a conversation new to the server is new to the client too.
MutHasLiveChat(suffix) == FALSE
HasLiveChat(suffix) == suffix = "livechat"

\* newConversation() and onNewConversation(): the client is to show it.
NewConversation(c, suffix, as) ==
  /\ conversations' = conversations \cup {c}
  /\ opens' = opens \cup {[conv |-> c, focus |-> HasLiveChat(suffix), as |-> as]}

Replaced(d, chat) == chats' = [chats EXCEPT ![d] = chat]
Line(d, l) == chats' = [chats EXCEPT ![d].line = l]

\* The DirectLine's POST: startConversation() makes or joins the conversation.  Its
\* answer awaits the bot; without one the DirectLine asks again.
StartConversation(r, l) ==
  /\ r \in requests /\ r.what = "connect"
  /\ requests' = requests \ {r}
  /\ IF r.conv \in conversations THEN UNCHANGED serverVars
     ELSE NewConversation(r.conv, ids[r.conv], "livechat")
  /\ IF chats[r.doc].conv = r.conv /\ chats[r.doc].line = "asking"
     THEN Line(r.doc, l) ELSE UNCHANGED chats
  /\ UNCHANGED <<ids, deletes, mode, tabs, start, flow, saga, pending>>

\* createConversation(): without an id a new one is made, for a live chat.
CreateConversation(r) ==
  /\ r \in requests /\ r.what = "create"
  /\ requests' = requests \ {r}
  /\ \/ /\ r.conv = None
        /\ ids' = Append(ids, "livechat")
        /\ NewConversation(Len(ids'), "livechat", r.as)
     \/ /\ r.conv # None /\ r.conv \notin conversations
        /\ NewConversation(r.conv, ids[r.conv], r.as)
        /\ UNCHANGED ids
     \/ r.conv \in conversations /\ UNCHANGED <<ids, conversations, opens>>
  /\ flow' = IF r.doc # None /\ flow[r.doc].pc = "post" THEN [flow EXCEPT ![r.doc] = NoFlow] ELSE flow
  /\ UNCHANGED <<deletes, mode, chats, tabs, start, saga, pending>>

DeleteConversation(c) ==
  /\ c \in deletes
  /\ deletes' = deletes \ {c} /\ conversations' = conversations \ {c}
  /\ UNCHANGED <<ids, requests, opens, mode, chats, tabs, start, flow, saga, pending>>

-----------------------------------------------------------------------------
(* The newChat saga, of which takeLatest keeps one (chatSagas.ts)           *)

\* The awaiter of a restart goes on when its saga calls the resolver.
Resolved(s, f) == IF s.resolver /\ f[s.doc].pc = "log" THEN [f EXCEPT ![s.doc].pc = "cleared"] ELSE f

\* newChat or clearLog is dispatched; the saga of an earlier one is cancelled.  The
\* endpoint is in the bot file, or it is asked of the server.
RunsNewChat(d, conv, resolver, f) ==
  LET s(pc) == [doc |-> d, conv |-> conv, resolver |-> resolver, pc |-> pc] IN
    \/ saga' = s("endpoint") /\ flow' = f /\ UNCHANGED pending
    \/ IF Speech THEN saga' = s("speech") /\ flow' = f /\ pending' = TRUE
       ELSE saga' = NoSaga /\ flow' = Resolved(s("endpoint"), f) /\ UNCHANGED pending

EndpointAnswered ==
  /\ saga.pc = "endpoint"
  /\ IF Speech /\ saga.conv \in conversations
     THEN saga' = [saga EXCEPT !.pc = "speech"] /\ pending' = TRUE /\ UNCHANGED flow
     ELSE saga' = NoSaga /\ flow' = Resolved(saga, flow) /\ UNCHANGED pending
  /\ UNCHANGED <<ids, conversations, requests, opens, deletes, mode, chats, tabs, start>>

SpeechTokenArrives ==
  /\ saga.pc = "speech"
  /\ saga' = NoSaga /\ flow' = Resolved(saga, flow) /\ pending' = FALSE
  /\ UNCHANGED <<ids, conversations, requests, opens, deletes, mode, chats, tabs, start>>

-----------------------------------------------------------------------------
(* The Emulator component (emulator.tsx)                                    *)

\* Bound: a gesture that ends in a new id is made only while there is one for it.
Room ==
  Len(ids) + Cardinality({d \in Docs : flow[d].kind = "over"})
           + Cardinality({r \in requests : r.what = "create" /\ r.conv = None}) < MaxConvs

\* startNewConversation(), up to the await of SetCurrentUser: the chat's id, or a new one.
Begins(d, as, conv, new) ==
  IF start[d] # NotStarting THEN UNCHANGED <<start, ids>>
  ELSE IF new \/ conv = None
       THEN /\ ids' = Append(ids, as)
            /\ start' = [start EXCEPT ![d] = [pc |-> "user", conv |-> Len(ids')]]
       ELSE start' = [start EXCEPT ![d] = [pc |-> "user", conv |-> conv]] /\ UNCHANGED ids

\* Mutant of UserIsSet: conversationInitRequested is not reset.
MutUserIsSet(d) ==
  /\ start[d].pc = "user"
  /\ IF Stored(d) THEN Replaced(d, [chats[d] EXCEPT !.conv = start[d].conv, !.line = "made"])
                  ELSE UNCHANGED chats
  /\ start' = [start EXCEPT ![d].pc = "idle"]
  /\ UNCHANGED <<ids, conversations, requests, opens, deletes, mode, tabs, flow, saga, pending>>

\* Mutant of UserIsSet: the DirectLine is made from the properties, not from the options.
MutFromProps(d) ==
  /\ start[d].pc = "user"
  /\ IF Stored(d) THEN Line(d, "made") ELSE UNCHANGED chats
  /\ start' = [start EXCEPT ![d] = NotStarting]
  /\ UNCHANGED <<ids, conversations, requests, opens, deletes, mode, tabs, flow, saga, pending>>

\* initConversation(): newConversation() of the reducer ignores a chat that is gone.
UserIsSet(d) ==
  /\ start[d].pc = "user"
  /\ IF Stored(d) THEN Replaced(d, [chats[d] EXCEPT !.conv = start[d].conv, !.line = "made"])
                  ELSE UNCHANGED chats
  /\ start' = [start EXCEPT ![d] = NotStarting]
  /\ UNCHANGED <<ids, conversations, requests, opens, deletes, mode, tabs, flow, saga, pending>>

\* componentWillReceiveProps(): some property changes while there is no DirectLine.
ReceivesProps(d) ==
  /\ d \in tabs /\ Stored(d) /\ chats[d].line = "none" /\ start[d] = NotStarting
  /\ chats[d].conv = None => Room
  /\ Begins(d, mode[d], chats[d].conv, FALSE)
  /\ UNCHANGED <<conversations, requests, opens, deletes, mode, chats, tabs, flow, saga, pending>>

\* Web Chat is rendered, unless a speech token is waited for, and subscribes.
LineConnects(d) ==
  /\ d \in tabs /\ chats[d].line = "made" /\ ~pending
  /\ Line(d, "asking")
  /\ requests' = requests \cup {[what |-> "connect", doc |-> d, conv |-> chats[d].conv,
                                 as |-> "livechat"]}
  /\ UNCHANGED <<ids, conversations, opens, deletes, mode, tabs, start, flow, saga, pending>>

-----------------------------------------------------------------------------
(* Opening and closing                                                     *)

\* newChat and open: the component is mounted, and starts a conversation.
OpensChat(d, as, conv, url) ==
  /\ start[d] = NotStarting /\ flow[d] = NoFlow
  /\ Replaced(d, Chat(conv, url))
  /\ RunsNewChat(d, conv, FALSE, flow)
  /\ tabs' = tabs \cup {d}
  /\ Begins(d, as, conv, FALSE)

NewLiveChat(d, as, conv, url) ==
  /\ mode[d] = "none" /\ mode' = [mode EXCEPT ![d] = as]
  /\ OpensChat(d, as, conv, url)

\* The command of the same name, called by the server for a new conversation with the
\* URL it knows for the endpoint, which need not be the one the client read: the chat
\* looked for has both.
NewLiveChatIsCalled(o, url) ==
  /\ o \in opens /\ opens' = opens \ {o}
  /\ IF o.focus /\ \E d \in Docs : chats[d].url = url /\ chats[d].conv = o.conv
     THEN UNCHANGED <<ids, mode, chats, tabs, start, flow, saga, pending>>
     ELSE \E d \in Docs : NewLiveChat(d, o.as, o.conv, url)
  /\ UNCHANGED <<conversations, requests, deletes>>

\* An endpoint is opened from the explorer or with the bot.
OpenEndpoint(d) ==
  /\ "endpoint" \in Gestures /\ Room
  /\ \E url \in Urls : NewLiveChat(d, "livechat", None, url)
  /\ UNCHANGED <<conversations, requests, opens, deletes>>

OpenBotViaUrl(as) ==
  /\ "url" \in Gestures /\ Room /\ \A r \in requests : r.what # "create"
  /\ requests' = requests \cup {[what |-> "create", doc |-> None, conv |-> None, as |-> as]}
  /\ UNCHANGED <<ids, conversations, opens, deletes, mode, chats, tabs, start, flow, saga, pending>>

\* closeTab(): the tab, then closeConversation(), which ends the DirectLine.
CloseTab(d) ==
  /\ "close" \in Gestures /\ d \in tabs
  /\ tabs' = tabs \ {d}
  /\ Replaced(d, NoChat)
  /\ deletes' = deletes \cup ({chats[d].conv} \ {None})
  /\ UNCHANGED <<ids, conversations, requests, opens, mode, start, flow, saga, pending>>

\* closeNonGlobalTabs(), when another bot is opened, resets the chat store.
CloseNonGlobalTabs ==
  /\ "bot" \in Gestures /\ tabs # {}
  /\ tabs' = {} /\ chats' = [d \in Docs |-> NoChat] /\ pending' = FALSE
  /\ UNCHANGED <<ids, conversations, requests, opens, deletes, mode, start, flow, saga>>

-----------------------------------------------------------------------------
(* Restarts                                                                *)

Goes(d, kind, pc) == [flow EXCEPT ![d].kind = kind, ![d].pc = pc]

\* clearLog with a resolver, which the restart then awaits.
ClearsLog(d, kind) == RunsNewChat(d, chats[d].conv, TRUE, Goes(d, kind, "log"))

\* onStartOverClick(), from the button of a live chat or from the keyboard.
StartOver(d) ==
  /\ d \in tabs /\ Stored(d) /\ flow[d] = NoFlow /\ Room
  /\ \/ "startOver" \in Gestures /\ mode[d] = "livechat"
     \/ "keyboard" \in Gestures
  /\ Line(d, IF chats[d].line = "none" THEN "none" ELSE "ended")
  /\ ClearsLog(d, "over")
  /\ UNCHANGED <<ids, conversations, requests, opens, deletes, mode, tabs, start>>

StartsOver(d) ==
  /\ flow[d].kind = "over" /\ flow[d].pc = "cleared"
  /\ Begins(d, mode[d], None, TRUE)
  /\ flow' = [flow EXCEPT ![d] = NoFlow]
  /\ UNCHANGED <<conversations, requests, opens, deletes, mode, chats, tabs, saga, pending>>

\* restartConversation(), from the button of a debug chat, asks for the endpoint.
Reconnect(d) ==
  /\ "reconnect" \in Gestures /\ d \in tabs /\ mode[d] = "debug" /\ flow[d] = NoFlow
  /\ flow' = [flow EXCEPT ![d] = [kind |-> "reconnect", conv |-> chats[d].conv, pc |-> "endpoint"]]
  /\ UNCHANGED <<ids, conversations, requests, opens, deletes, mode, chats, tabs, start, saga, pending>>

ReconnectEndpoint(d) ==
  /\ flow[d].pc = "endpoint"
  /\ IF flow[d].conv \in conversations /\ Stored(d)
     THEN Line(d, "none") /\ ClearsLog(d, "reconnect")
     ELSE flow' = [flow EXCEPT ![d] = NoFlow] /\ UNCHANGED <<chats, saga, pending>>
  /\ UNCHANGED <<ids, conversations, requests, opens, deletes, mode, tabs, start>>

\* setInspectorObjects, then openBotViaUrl() with the id of the conversation.
ReconnectCleared(d) ==
  /\ flow[d].kind = "reconnect" /\ flow[d].pc = "cleared"
  /\ IF Stored(d) THEN UNCHANGED chats ELSE Replaced(d, Ghost)
  /\ flow' = Goes(d, "reconnect", "post")
  /\ requests' = requests \cup {[what |-> "create", doc |-> d, conv |-> flow[d].conv,
                                 as |-> "debug"]}
  /\ UNCHANGED <<ids, conversations, opens, deletes, mode, tabs, start, saga, pending>>

-----------------------------------------------------------------------------
UserActs ==
  \/ \E d \in Docs : OpenEndpoint(d)
  \/ \E as \in Modes : OpenBotViaUrl(as)
  \/ \E d \in Docs : CloseTab(d) \/ StartOver(d) \/ Reconnect(d)
  \/ CloseNonGlobalTabs

Answers(d, l) == \E r \in requests : r.doc = d /\ StartConversation(r, l)
Creates == \E r \in requests : CreateConversation(r)
Deletes == \E c \in deletes : DeleteConversation(c)
Opens == \E o \in opens, url \in Urls : NewLiveChatIsCalled(o, url)
SagaSteps == EndpointAnswered \/ SpeechTokenArrives
Restarts(d) == StartsOver(d) \/ ReconnectEndpoint(d) \/ ReconnectCleared(d)

Next ==
  \/ UserActs \/ Creates \/ Deletes \/ Opens \/ SagaSteps
  \/ \E d \in Docs :
       \/ UserIsSet(d) \/ LineConnects(d) \/ Restarts(d) \/ ReceivesProps(d)
       \/ Answers(d, "connected") \/ Answers(d, "made")

Spec == Init /\ [][Next]_vars

\* Calls are answered, a bot is reachable at last, and Web Chat is rendered as soon as no
\* token is waited for.  Nothing need change the properties of a component.
Fairness ==
  /\ WF_vars(EndpointAnswered) /\ WF_vars(SpeechTokenArrives)
  /\ \A d \in Docs :
       /\ SF_vars(Answers(d, "connected"))
       /\ WF_vars(UserIsSet(d)) /\ SF_vars(LineConnects(d)) /\ WF_vars(Restarts(d))

FairSpec == Spec /\ Fairness

-----------------------------------------------------------------------------
(* Properties                                                              *)

\* No two chats of the store are of the same conversation at the same URL of the bot: a
\* restart finds the tab it comes from (hasLiveChat() of the server, focusExistingChat of
\* NewLiveChat), whatever is closed, restarted or reconnected meanwhile, unless the URL
\* was edited or overridden since that tab was opened.
OneChatPerConversation ==
  \A d, e \in Docs :
    /\ Stored(d) /\ Stored(e) /\ chats[d].conv # None
    /\ chats[d].conv = chats[e].conv /\ chats[d].url = chats[e].url
    => d = e

\* takeLatest cancelled the saga that had the resolver of this restart.
Lost(d) == flow[d].pc = "log" /\ ~(saga.doc = d /\ saga.resolver)

\* takeLatest cancelled the saga that would have ended the wait for a speech token.
Orphaned == pending /\ saga.pc # "speech"

\* A live chat connects unless it is closed, or the saga of another chat cancels the one
\* it waits for: its own restart's, or the one whose speech token all chats wait for.
EveryChatConnects ==
  \A d \in Docs : d \in tabs /\ mode[d] = "livechat" ~>
    chats[d].line = "connected" \/ d \notin tabs \/ Lost(d) \/ []Orphaned
===============================================================================
