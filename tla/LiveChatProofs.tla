---------------------------- MODULE LiveChatProofs ----------------------------
(***************************************************************************)
(* Proofs about LiveChat, for any number of documents and conversations: as *)
(* long as debug chats are not restarted from the keyboard, no two chats    *)
(* are of the same conversation at the same URL; and whatever the user      *)
(* does, nothing is sent, shown or deleted for a conversation that was      *)
(* never made.                                                              *)
(***************************************************************************)
EXTENDS LiveChat, FiniteSetTheorems, TLAPS

Ids == 1..Len(ids)

ChatType == [is : {"none", "chat", "ghost"}, conv : Ids \cup {None}, url : Urls \cup {None},
             line : {"none", "made", "asking", "connected", "ended"}]
StartType == [pc : {"idle", "user"}, conv : Ids \cup {None}]
FlowType == [kind : {"none", "over", "reconnect"}, conv : Ids \cup {None},
             pc : {"idle", "endpoint", "log", "cleared", "post"}]
SagaType == [doc : Docs \cup {None}, conv : Ids \cup {None}, resolver : BOOLEAN,
             pc : {"idle", "endpoint", "speech"}]
RequestType == [what : {"connect", "create"}, doc : Docs \cup {None},
                conv : Ids \cup {None}, as : Modes]
OpenType == [conv : Ids, focus : {TRUE}, as : Modes]

\* Every id was made for a live chat, so the server asks the client to look for a tab.
SentOK ==
  /\ ids \in Seq({"livechat"})
  /\ conversations \subseteq Ids
  /\ requests \subseteq RequestType
  /\ \A r \in requests : r.what = "connect" => r.conv # None
  /\ opens \subseteq OpenType
  /\ saga \in SagaType
  /\ saga.resolver => saga.doc # None

\* A DirectLine is of some conversation; only a live chat is without one for a while.
DocOK(d) ==
  /\ ~Stored(d) => chats[d].conv = None
  /\ chats[d].line # "none" => chats[d].conv # None
  /\ Stored(d) /\ chats[d].conv = None => mode[d] = "livechat"
  /\ start[d].pc = "user" <=> start[d].conv # None
  /\ flow[d].kind = "over" => mode[d] = "livechat"
DocsOK ==
  /\ mode \in [Docs -> Modes \cup {"none"}]
  /\ chats \in [Docs -> ChatType] /\ start \in [Docs -> StartType] /\ flow \in [Docs -> FlowType]
  /\ \A d \in Docs : DocOK(d)

\* The id that a chat is about to take is that of nothing else.
Used ==
  conversations \cup {r.conv : r \in requests} \cup {o.conv : o \in opens}
    \cup {chats[d].conv : d \in Docs} \cup {flow[d].conv : d \in Docs}
Awaits(d) == Stored(d) /\ start[d].pc = "user" /\ start[d].conv # chats[d].conv
FreshOK ==
  \A d \in Docs : Awaits(d) =>
    start[d].conv \notin Used /\ \A e \in Docs \ {d} : start[e].conv # start[d].conv

UniqueOK ==
  \A d, e \in Docs :
    chats[d].conv = chats[e].conv /\ chats[d].url = chats[e].url /\ chats[d].conv # None
      => d = e

ChatInv == SentOK /\ DocsOK /\ FreshOK /\ UniqueOK

(***************************************************************************)
(* What the actions have in common                                         *)
(***************************************************************************)
LEMMA NoneIsNoId == None \notin Ids /\ None \notin Docs /\ None \notin Nat
BY BoundAssumption DEF Ids

\* An id that is made is new, and one of a live chat.
LEMMA NewId ==
  ASSUME ids \in Seq({"livechat"}), ids' = Append(ids, "livechat")
  PROVE  /\ ids' \in Seq({"livechat"}) /\ Len(ids') = Len(ids) + 1
         /\ Ids \subseteq Ids' /\ Len(ids') \in Ids' /\ Len(ids') \notin Ids
         /\ Len(ids') # None
<1>1. ids' \in Seq({"livechat"}) /\ Len(ids') = Len(ids) + 1 /\ Len(ids) \in Nat
      OBVIOUS
<1> QED BY <1>1, NoneIsNoId DEF Ids

\* The types only grow with the ids.
LEMMA TypesGrow ==
  ASSUME Ids \subseteq Ids'
  PROVE  /\ ChatType \subseteq ChatType' /\ StartType \subseteq StartType'
         /\ FlowType \subseteq FlowType' /\ SagaType \subseteq SagaType'
         /\ RequestType \subseteq RequestType' /\ OpenType \subseteq OpenType'
BY DEF ChatType, StartType, FlowType, SagaType, RequestType, OpenType

\* A chat that is to take an id keeps it to itself, when no other id is taken into use
\* than a new one, and no start is of an id out of use.
LEMMA StaysFresh ==
  ASSUME ChatInv, DocsOK',
         \A c \in Used' : c \in Used \cup {None} \/ c \notin Ids,
         \A d \in Docs :
            \/ start'[d] = start[d] /\ (Awaits(d)' => Awaits(d))
            \/ start'[d].conv = None
            \/ start'[d].conv = chats'[d].conv /\ start'[d].conv \in Used
  PROVE  FreshOK'
<1> SUFFICES ASSUME NEW d \in Docs, Awaits(d)'
             PROVE  /\ start'[d].conv \notin Used'
                    /\ \A e \in Docs \ {d} : start'[e].conv # start'[d].conv
    BY DEF FreshOK
<1>1. start'[d].conv # None /\ start'[d].conv # chats'[d].conv
      BY DEF Awaits, DocsOK, DocOK
<1>2. start'[d] = start[d] /\ Awaits(d)
      BY <1>1
<1>3. /\ start[d].conv \notin Used /\ start[d].conv \in Ids
      /\ \A e \in Docs \ {d} : start[e].conv # start[d].conv
      BY <1>1, <1>2 DEF ChatInv, FreshOK, DocsOK, StartType
<1>4. start'[d].conv \notin Used'
      BY <1>1, <1>2, <1>3
<1>5. ASSUME NEW e \in Docs \ {d} PROVE start'[e].conv # start'[d].conv
      BY <1>1, <1>2, <1>3
<1> QED BY <1>4, <1>5

\* One that is to take a new id is alone with it.
LEMMA TakesFresh ==
  ASSUME ChatInv, Used' \subseteq Used \cup {None},
         NEW d \in Docs, start'[d].conv \notin Ids \cup {None},
         \A e \in Docs \ {d} : start'[e] = start[e] /\ (Awaits(e)' => Awaits(e))
  PROVE  FreshOK'
<1>1. Used \subseteq Ids \cup {None} /\ \A e \in Docs : start[e].conv \in Ids \cup {None}
  <2>1. /\ \A r \in requests : r.conv \in Ids \cup {None}
        /\ \A o \in opens : o.conv \in Ids
        BY DEF ChatInv, SentOK, RequestType, OpenType
  <2>2. \A e \in Docs : /\ chats[e].conv \in Ids \cup {None}
                       /\ flow[e].conv \in Ids \cup {None}
                       /\ start[e].conv \in Ids \cup {None}
        BY DEF ChatInv, DocsOK, ChatType, FlowType, StartType
  <2>3. conversations \subseteq Ids
        BY DEF ChatInv, SentOK
  <2> QED BY <2>1, <2>2, <2>3 DEF Used
<1> SUFFICES ASSUME NEW e \in Docs, Awaits(e)'
             PROVE  /\ start'[e].conv \notin Used'
                    /\ \A k \in Docs \ {e} : start'[k].conv # start'[e].conv
    BY DEF FreshOK
<1>2. CASE e = d
      BY <1>1, <1>2
<1>3. CASE e # d
  <2>1. start'[e] = start[e] /\ Awaits(e)
        BY <1>3
  <2>2. start[e].conv \notin Used /\ \A k \in Docs \ {e} : start[k].conv # start[e].conv
        BY <2>1 DEF ChatInv, FreshOK
  <2>3. start[e].conv # None /\ start[e].conv \in Ids
        BY <1>1, <2>1 DEF Awaits, ChatInv, DocsOK, DocOK
  <2>4. \A k \in Docs \ {e} : start'[k].conv # start[e].conv
        BY <2>2, <2>3
  <2> QED BY <2>1, <2>2, <2>3, <2>4
<1> QED BY <1>2, <1>3

\* startNewConversation(): the chat's own id, or a new one.
LEMMA Begun ==
  ASSUME ChatInv, NEW d \in Docs, NEW as, NEW conv \in Ids \cup {None}, NEW new \in BOOLEAN,
         Begins(d, as, conv, new), new \/ conv = None => as = "livechat"
  PROVE  /\ ids' \in Seq({"livechat"}) /\ Ids \subseteq Ids'
         /\ start' \in [Docs -> StartType'] /\ \A e \in Docs \ {d} : start'[e] = start[e]
         /\ start'[d].pc = "user" <=> start'[d].conv # None
         /\ \/ ids' = ids /\ start'[d] = start[d]
            \/ ids' = ids /\ start'[d].conv = conv
            \/ start'[d].conv \notin Ids \cup {None}
<1> USE DEF ChatInv, SentOK, DocsOK
<1>1. CASE start[d] # NotStarting
      BY <1>1, TypesGrow DEF Begins, Ids, DocOK, StartType
<1>2. CASE start[d] = NotStarting /\ (new \/ conv = None)
  <2>1. /\ ids' = Append(ids, "livechat")
        /\ start' = [start EXCEPT ![d] = [pc |-> "user", conv |-> Len(ids')]]
        BY <1>2 DEF Begins
  <2> QED BY <2>1, NewId, TypesGrow DEF StartType
<1>3. CASE start[d] = NotStarting /\ ~(new \/ conv = None)
  <2>1. ids' = ids /\ start' = [start EXCEPT ![d] = [pc |-> "user", conv |-> conv]]
        BY <1>3 DEF Begins
  <2> QED BY <1>3, <2>1 DEF StartType, Ids
<1> QED BY <1>1, <1>2, <1>3

\* A newChat saga starts, and may end with the restart that it is to resolve.
LEMMA SagaRuns ==
  ASSUME NEW d \in Docs, NEW conv \in Ids \cup {None}, NEW resolver \in BOOLEAN,
         NEW f \in [Docs -> FlowType], RunsNewChat(d, conv, resolver, f)
  PROVE  /\ saga' \in SagaType /\ (saga'.resolver => saga'.doc # None)
         /\ flow' \in [Docs -> FlowType]
         /\ \A e \in Docs : flow'[e].conv = f[e].conv /\ flow'[e].kind = f[e].kind
<1> DEFINE s(pc) == [doc |-> d, conv |-> conv, resolver |-> resolver, pc |-> pc]
<1>1. /\ NoSaga \in SagaType /\ ~NoSaga.resolver
      /\ \A pc \in {"endpoint", "speech"} : /\ s(pc) \in SagaType /\ s(pc).doc = d
                                          /\ s(pc).doc # None
      BY NoneIsNoId DEF SagaType, NoSaga
<1>2. /\ Resolved(s("endpoint"), f) \in [Docs -> FlowType]
      /\ \A e \in Docs : /\ Resolved(s("endpoint"), f)[e].conv = f[e].conv
                         /\ Resolved(s("endpoint"), f)[e].kind = f[e].kind
      BY DEF Resolved, FlowType
<1>3. /\ saga' \in {s("endpoint"), s("speech"), NoSaga}
      /\ flow' \in {f, Resolved(s("endpoint"), f)}
      BY DEF RunsNewChat
<1> HIDE DEF s
<1> QED BY <1>1, <1>2, <1>3

LEMMA ResolvedOK ==
  ASSUME ChatInv
  PROVE  /\ Resolved(saga, flow) \in [Docs -> FlowType]
         /\ \A e \in Docs : /\ Resolved(saga, flow)[e].conv = flow[e].conv
                            /\ Resolved(saga, flow)[e].kind = flow[e].kind
BY DEF ChatInv, SentOK, DocsOK, Resolved, SagaType, FlowType

LEMMA InitChats == Init => ChatInv
<1> SUFFICES ASSUME Init PROVE ChatInv
    OBVIOUS
<1>1. SentOK
      BY DEF Init, SentOK, SagaType, NoSaga, Ids
<1>2. DocsOK
      BY DEF Init, DocsOK, DocOK, Stored, ChatType, StartType, FlowType, NoChat, NotStarting, NoFlow
<1>3. FreshOK /\ UniqueOK
      BY DEF Init, FreshOK, UniqueOK, Awaits, Stored, NoChat
<1> QED BY <1>1, <1>2, <1>3 DEF ChatInv

(***************************************************************************)
(* The server                                                              *)
(***************************************************************************)
\* What the server's steps have in common: the chats keep their conversations, and it
\* uses what was sent to it, or an id that is new.
DocsKept ==
  /\ start' = start /\ mode' = mode
  /\ chats' \in [Docs -> ChatType'] /\ flow' \in [Docs -> FlowType']
  /\ \A d \in Docs : /\ chats'[d].is = chats[d].is /\ chats'[d].conv = chats[d].conv
                     /\ chats'[d].url = chats[d].url
                     /\ chats'[d].line # "none" => chats'[d].conv # None
                     /\ flow'[d].conv \in {flow[d].conv, None}
                     /\ flow'[d].kind \in {flow[d].kind, "none"}
UsedByServer == conversations \cup {r.conv : r \in requests} \cup {o.conv : o \in opens}

LEMMA ServerKeeps ==
  ASSUME ChatInv, SentOK', Ids \subseteq Ids', DocsKept,
         \A c \in UsedByServer' : c \in Used \cup {None} \/ c \notin Ids
  PROVE  ChatInv'
<1>1. DocsOK'
  <2>1. start' \in [Docs -> StartType'] /\ mode' \in [Docs -> Modes \cup {"none"}]
        BY TypesGrow DEF ChatInv, DocsOK, DocsKept
  <2>2. ASSUME NEW d \in Docs PROVE DocOK(d)'
    <3>1. DocOK(d)
          BY DEF ChatInv, DocsOK
    <3> QED BY <3>1 DEF DocsKept, DocOK, Stored
  <2> QED BY <2>1, <2>2 DEF DocsOK, DocsKept
<1>2. UniqueOK'
  <2>1. UniqueOK /\ \A d \in Docs : chats'[d].conv = chats[d].conv /\ chats'[d].url = chats[d].url
        BY DEF ChatInv, DocsKept
  <2> QED BY <2>1 DEF UniqueOK
<1>3. \A d \in Docs : start'[d] = start[d] /\ (Awaits(d)' => Awaits(d))
      BY DEF Awaits, Stored, DocsKept
<1>4. \A d \in Docs : /\ chats'[d].conv \in Used
                     /\ flow'[d].conv \in Used \cup {None}
      BY DEF Used, DocsKept
<1>5. Used' = UsedByServer' \cup {chats'[d].conv : d \in Docs} \cup {flow'[d].conv : d \in Docs}
      BY DEF Used, UsedByServer
<1>6. ASSUME NEW c \in Used' PROVE c \in Used \cup {None} \/ c \notin Ids
      BY <1>4, <1>5, <1>6
<1>7. FreshOK'
      BY <1>1, <1>3, <1>6, StaysFresh
<1> QED BY <1>1, <1>2, <1>7 DEF ChatInv

\* newConversation(): an id that was sent, and a live chat's.
LEMMA Announced ==
  ASSUME ChatInv, Ids \subseteq Ids', NEW c \in Ids', NEW as \in Modes,
         NewConversation(c, "livechat", as)
  PROVE  /\ conversations' \subseteq Ids' /\ opens' \subseteq OpenType'
         /\ conversations' = conversations \cup {c}
         /\ {o.conv : o \in opens'} = {o.conv : o \in opens} \cup {c}
<1> DEFINE new == [conv |-> c, focus |-> TRUE, as |-> as]
<1>1. conversations' = conversations \cup {c} /\ opens' = opens \cup {new}
      BY DEF NewConversation, HasLiveChat
<1>2. new \in OpenType' /\ new.conv = c
      BY DEF OpenType
<1> HIDE DEF new
<1> QED BY <1>1, <1>2, TypesGrow DEF ChatInv, SentOK

LEMMA StartConversationKeeps ==
  ASSUME ChatInv, NEW r, NEW l \in {"connected", "made"}, StartConversation(r, l)
  PROVE  ChatInv'
<1>1. /\ r \in requests /\ r \in RequestType /\ r.conv \in Ids /\ r.conv \in Used
      /\ requests' \subseteq requests /\ ids' = ids /\ Ids' = Ids
      BY DEF StartConversation, ChatInv, SentOK, RequestType, Used, Ids
<1>2. ids[r.conv] = "livechat"
      BY <1>1 DEF ChatInv, SentOK, Ids
<1>3. \/ conversations' = conversations /\ opens' = opens
      \/ /\ conversations' \subseteq Ids' /\ opens' \subseteq OpenType'
         /\ conversations' = conversations \cup {r.conv}
         /\ {o.conv : o \in opens'} = {o.conv : o \in opens} \cup {r.conv}
  <2>1. CASE r.conv \in conversations
        BY <2>1 DEF StartConversation, serverVars
  <2>2. CASE r.conv \notin conversations
    <3>1. NewConversation(r.conv, "livechat", "livechat") /\ "livechat" \in Modes
          BY <1>2, <2>2 DEF StartConversation, Modes
    <3> QED BY <1>1, <3>1, Announced
  <2> QED BY <2>1, <2>2
<1>4. SentOK'
      BY <1>1, <1>3, TypesGrow DEF StartConversation, ChatInv, SentOK
<1>5. /\ chats' \in [Docs -> ChatType']
      /\ \A d \in Docs : /\ chats'[d].is = chats[d].is /\ chats'[d].conv = chats[d].conv
                         /\ chats'[d].url = chats[d].url
                         /\ chats'[d].line # "none" => chats'[d].conv # None
  <2>1. chats' = chats \/ (chats[r.doc].line = "asking" /\ Line(r.doc, l))
        BY DEF StartConversation
  <2>2. chats \in [Docs -> ChatType] /\ \A d \in Docs : chats[d].line # "none" => chats[d].conv # None
        BY DEF ChatInv, DocsOK, DocOK
  <2>3. CASE chats' = chats
        BY <1>1, <2>2, <2>3, TypesGrow
  <2>4. CASE chats[r.doc].line = "asking" /\ Line(r.doc, l)
    <3> DEFINE chat == [chats[r.doc] EXCEPT !.line = l]
    <3>1. chats' = [chats EXCEPT ![r.doc] = chat]
          BY <2>4 DEF Line
    <3>2. ASSUME r.doc \in Docs
          PROVE  /\ chat \in ChatType /\ chat.is = chats[r.doc].is /\ chat.conv = chats[r.doc].conv
                 /\ chat.url = chats[r.doc].url /\ chat.conv # None
          BY <2>2, <2>4, <3>2 DEF ChatType
    <3> HIDE DEF chat
    <3> QED BY <1>1, <2>2, <3>1, <3>2, TypesGrow
  <2> QED BY <2>1, <2>3, <2>4
<1>6. flow' = flow /\ start' = start /\ mode' = mode /\ flow' \in [Docs -> FlowType']
      BY <1>1, TypesGrow DEF StartConversation, ChatInv, DocsOK
<1>7. DocsKept
      BY <1>5, <1>6 DEF DocsKept
<1>8. \A c \in UsedByServer' : c \in Used
      BY <1>1, <1>3 DEF Used, UsedByServer
<1> QED BY <1>1, <1>4, <1>7, <1>8, ServerKeeps

LEMMA CreateConversationKeeps ==
  ASSUME ChatInv, NEW r, CreateConversation(r)
  PROVE  ChatInv'
<1>1. /\ r \in requests /\ r \in RequestType /\ r.conv \in Used /\ requests' \subseteq requests
      BY DEF CreateConversation, ChatInv, SentOK, Used
<1>a. r.as \in Modes /\ r.conv \in Ids \cup {None}
      BY <1>1 DEF RequestType
<1>2. /\ ids' \in Seq({"livechat"}) /\ Ids \subseteq Ids'
      /\ \/ conversations' = conversations /\ opens' = opens
         \/ \E c \in Ids' :
              /\ c = r.conv \/ c \notin Ids
              /\ conversations' \subseteq Ids' /\ opens' \subseteq OpenType'
              /\ conversations' = conversations \cup {c}
              /\ {o.conv : o \in opens'} = {o.conv : o \in opens} \cup {c}
  <2>1. CASE r.conv = None /\ ids' = Append(ids, "livechat")
             /\ NewConversation(Len(ids'), "livechat", r.as)
    <3>1. /\ ids' \in Seq({"livechat"}) /\ Ids \subseteq Ids'
          /\ Len(ids') \in Ids' /\ Len(ids') \notin Ids /\ r.as \in Modes
          BY <1>1, <2>1, NewId DEF ChatInv, SentOK, RequestType
    <3> QED BY <2>1, <3>1, Announced
  <2>2. CASE r.conv # None /\ ids' = ids /\ NewConversation(r.conv, ids[r.conv], r.as)
    <3>1. /\ ids' \in Seq({"livechat"}) /\ Ids' = Ids /\ r.as \in Modes /\ r.conv \in Ids
          BY <1>1, <2>2 DEF ChatInv, SentOK, RequestType, Ids
    <3>2. ids[r.conv] = "livechat"
          BY <3>1 DEF ChatInv, SentOK, Ids
    <3>3. NewConversation(r.conv, "livechat", r.as) /\ r.conv \in Ids' /\ Ids \subseteq Ids'
          BY <2>2, <3>1, <3>2
    <3>4. /\ conversations' \subseteq Ids' /\ opens' \subseteq OpenType'
          /\ conversations' = conversations \cup {r.conv}
          /\ {o.conv : o \in opens'} = {o.conv : o \in opens} \cup {r.conv}
          BY <3>1, <3>3, Announced
    <3> QED BY <3>1, <3>3, <3>4
  <2>3. CASE UNCHANGED <<ids, conversations, opens>>
        BY <2>3 DEF ChatInv, SentOK, Ids
  <2> QED BY <2>1, <2>2, <2>3 DEF CreateConversation
<1>3. SentOK'
      BY <1>1, <1>2, TypesGrow DEF CreateConversation, ChatInv, SentOK
<1>4. /\ chats' = chats /\ start' = start /\ mode' = mode
      /\ chats' \in [Docs -> ChatType'] /\ flow' \in [Docs -> FlowType']
      /\ \A d \in Docs : /\ flow'[d].conv \in {flow[d].conv, None}
                         /\ flow'[d].kind \in {flow[d].kind, "none"}
  <2>1. flow' = flow \/ flow' = [flow EXCEPT ![r.doc] = NoFlow]
        BY DEF CreateConversation
  <2>2. NoFlow \in FlowType /\ NoFlow.conv = None /\ NoFlow.kind = "none"
        BY DEF NoFlow, FlowType
  <2> QED BY <1>2, <2>1, <2>2, TypesGrow DEF CreateConversation, ChatInv, DocsOK
<1>5. \A c \in UsedByServer' : c \in Used \cup {None} \/ c \notin Ids
      BY <1>1, <1>2 DEF Used, UsedByServer
<1>6. DocsKept
      BY <1>4 DEF DocsKept, ChatInv, DocsOK, DocOK
<1> QED BY <1>2, <1>3, <1>5, <1>6, ServerKeeps

\* The sagas of new chats go on, and conversations are deleted.
LEMMA OthersKeep ==
  ASSUME ChatInv, SagaSteps \/ \E c \in deletes : DeleteConversation(c)
  PROVE  ChatInv'
<1>1. /\ ids' = ids /\ Ids' = Ids /\ requests' = requests /\ opens' = opens
      /\ chats' = chats /\ start' = start /\ mode' = mode /\ conversations' \subseteq conversations
      BY DEF SagaSteps, EndpointAnswered, SpeechTokenArrives, DeleteConversation, Ids
<1>2. saga' \in SagaType /\ (saga'.resolver => saga'.doc # None)
  <2>1. NoSaga \in SagaType /\ ~NoSaga.resolver
        BY DEF NoSaga, SagaType
  <2>2. saga' \in {saga, NoSaga, [saga EXCEPT !.pc = "speech"]}
        BY DEF SagaSteps, EndpointAnswered, SpeechTokenArrives, DeleteConversation
  <2> QED BY <2>1, <2>2 DEF ChatInv, SentOK, SagaType
<1>3. flow' \in {flow, Resolved(saga, flow)}
      BY DEF SagaSteps, EndpointAnswered, SpeechTokenArrives, DeleteConversation
<1>4. SentOK'
      BY <1>1, <1>2, TypesGrow DEF ChatInv, SentOK
<1>5. /\ flow' \in [Docs -> FlowType'] /\ chats' \in [Docs -> ChatType']
      /\ \A d \in Docs : flow'[d].conv = flow[d].conv /\ flow'[d].kind = flow[d].kind
      BY <1>1, <1>3, ResolvedOK, TypesGrow DEF ChatInv, DocsOK
<1>6. DocsKept
      BY <1>1, <1>5 DEF DocsKept, ChatInv, DocsOK, DocOK
<1>7. \A c \in UsedByServer' : c \in Used
      BY <1>1 DEF Used, UsedByServer
<1> QED BY <1>1, <1>4, <1>6, <1>7, ServerKeeps

(***************************************************************************)
(* The components                                                          *)
(***************************************************************************)
LEMMA UserSet ==
  ASSUME ChatInv, NEW d \in Docs, UserIsSet(d)
  PROVE  ChatInv'
<1>1. /\ ids' = ids /\ Ids' = Ids /\ conversations' = conversations /\ requests' = requests
      /\ opens' = opens /\ saga' = saga /\ mode' = mode /\ flow' = flow
      /\ start[d].pc = "user" /\ start' = [start EXCEPT ![d] = NotStarting]
      BY DEF UserIsSet, Ids
<1>2. SentOK'
      BY <1>1, TypesGrow DEF ChatInv, SentOK
<1>3. /\ start \in [Docs -> StartType] /\ chats \in [Docs -> ChatType] /\ \A e \in Docs : DocOK(e)
      /\ start[d].conv # None /\ start[d].conv \in Ids
      BY <1>1 DEF ChatInv, DocsOK, DocOK, StartType
<1>4. /\ start'[d] = NotStarting /\ NotStarting.conv = None /\ NotStarting.pc = "idle"
      /\ NotStarting \in StartType /\ \A e \in Docs \ {d} : start'[e] = start[e]
      BY <1>1, <1>3 DEF NotStarting, StartType
<1>5. /\ start' \in [Docs -> StartType']
      /\ mode' \in [Docs -> Modes \cup {"none"}] /\ flow' \in [Docs -> FlowType']
      BY <1>1, <1>4, TypesGrow DEF ChatInv, DocsOK
<1>6. CASE ~Stored(d)
  <2>1. chats' = chats
        BY <1>6 DEF UserIsSet
  <2>2. DocsOK'
    <3>1. \A e \in Docs : DocOK(e)'
          BY <1>1, <1>3, <1>4, <2>1 DEF DocOK, Stored
    <3> QED BY <1>1, <1>3, <1>5, <2>1, <3>1, TypesGrow DEF DocsOK
  <2>3. UniqueOK' /\ Used' = Used
        BY <1>1, <2>1 DEF ChatInv, UniqueOK, Used
  <2>4. \A e \in Docs : \/ start'[e] = start[e] /\ (Awaits(e)' => Awaits(e))
                        \/ start'[e].conv = None
        BY <1>4, <2>1 DEF Awaits, Stored
  <2>5. FreshOK'
        BY <2>2, <2>3, <2>4, StaysFresh
  <2> QED BY <1>2, <2>2, <2>3, <2>5 DEF ChatInv
<1>7. CASE Stored(d)
  <2>1. /\ chats'[d].conv = start[d].conv /\ chats'[d].is = "chat" /\ chats' \in [Docs -> ChatType']
        /\ chats'[d].url = chats[d].url
        /\ \A e \in Docs \ {d} : chats'[e] = chats[e]
    <3> DEFINE chat == [chats[d] EXCEPT !.conv = start[d].conv, !.line = "made"]
    <3>1. chat \in ChatType /\ chat.conv = start[d].conv /\ chat.is = "chat" /\ chat.url = chats[d].url
          BY <1>3, <1>7 DEF ChatType, Stored
    <3>2. chats' = [chats EXCEPT ![d] = chat]
          BY <1>7 DEF UserIsSet, Replaced
    <3> HIDE DEF chat
    <3> QED BY <1>1, <1>3, <3>1, <3>2, TypesGrow
  <2>2. DocsOK'
    <3>1. \A e \in Docs : DocOK(e)'
          BY <1>1, <1>3, <1>4, <2>1 DEF DocOK, Stored
    <3> QED BY <1>5, <2>1, <3>1 DEF DocsOK
  \* The id is the chat's already, which is alone with it at its URL, or was nobody's.
  <2>3. ASSUME NEW e \in Docs \ {d}
        PROVE  chats[e].conv # start[d].conv \/ chats[e].url # chats[d].url
    <3>1. CASE start[d].conv = chats[d].conv
          BY <1>3, <3>1, <2>3 DEF ChatInv, UniqueOK
    <3>2. CASE start[d].conv # chats[d].conv
      <4>1. start[d].conv \notin Used
            BY <1>1, <1>7, <3>2 DEF ChatInv, FreshOK, Awaits
      <4> QED BY <4>1 DEF Used
    <3> QED BY <3>1, <3>2
  <2>4. UniqueOK'
        BY <2>1, <2>3 DEF ChatInv, UniqueOK
  <2>5. \A c \in Used' : c \in Used \cup {start[d].conv}
        BY <1>1, <2>1 DEF Used
  <2>6. FreshOK'
    <3> SUFFICES ASSUME NEW e \in Docs, Awaits(e)'
                 PROVE  /\ start'[e].conv \notin Used'
                        /\ \A k \in Docs \ {e} : start'[k].conv # start'[e].conv
        BY DEF FreshOK
    <3>1. e # d
          BY <1>4 DEF Awaits
    <3>2. Awaits(e) /\ start'[e] = start[e]
          BY <1>4, <2>1, <3>1 DEF Awaits, Stored
    <3>3. start[e].conv \notin Used /\ \A k \in Docs \ {e} : start[k].conv # start[e].conv
          BY <3>2 DEF ChatInv, FreshOK
    <3>4. start[e].conv # None
          BY <1>3, <3>2 DEF Awaits, DocOK
    <3> QED BY <1>4, <2>5, <3>1, <3>2, <3>3, <3>4
  <2> QED BY <1>2, <2>2, <2>4, <2>6 DEF ChatInv
<1> QED BY <1>6, <1>7

\* What else changes: chats keep or lose their conversations, and the restarts take none
\* but those of chats.  A start is the chat's own, or of a new id.
ChatKept(d) ==
  \/ chats'[d] = chats[d]
  \/ chats'[d].is = "chat" /\ Stored(d) /\ chats'[d].conv = chats[d].conv
     /\ chats'[d].url = chats[d].url
     /\ (chats'[d].line # "none" => chats[d].conv # None)
  \/ chats'[d].is # "chat" /\ chats'[d].conv = None /\ chats'[d].line = "none"
ChatsKept == chats' \in [Docs -> ChatType] /\ \A d \in Docs : ChatKept(d)
FlowsKept ==
  /\ flow' \in [Docs -> FlowType]
  /\ \A d \in Docs : /\ flow'[d].conv \in Used \cup {None}
                     /\ flow'[d].kind = "over" => mode[d] = "livechat"
ServerStays == conversations' = conversations /\ opens' = opens /\ mode' = mode
UserKept == ServerStays /\ ChatsKept /\ FlowsKept
RequestsKept ==
  /\ requests' \subseteq RequestType
  /\ \A r \in requests' : /\ r.what = "connect" => r.conv # None
                         /\ r.conv \in Used \cup {None}
SagaOK == saga' \in SagaType /\ (saga'.resolver => saga'.doc # None)
StartKept(d) ==
  \/ start'[d] = start[d]
  \/ start'[d].conv = chats'[d].conv
  \/ start'[d].conv \notin Ids \cup {None}

LEMMA UserKeeps ==
  ASSUME ChatInv, UserKept, RequestsKept, SagaOK,
         ids' \in Seq({"livechat"}), Ids \subseteq Ids', start' \in [Docs -> StartType'],
         NEW d, \A e \in Docs \ {d} : start'[e] = start[e],
         d \in Docs => StartKept(d) /\ (start'[d].pc = "user" <=> start'[d].conv # None)
  PROVE  ChatInv'
<1>1. SentOK'
      BY TypesGrow DEF ChatInv, SentOK, UserKept, ServerStays, RequestsKept, SagaOK
<1>2. DocsOK'
  <2>1. /\ mode' \in [Docs -> Modes \cup {"none"}]
        /\ chats' \in [Docs -> ChatType'] /\ flow' \in [Docs -> FlowType']
        BY TypesGrow DEF ChatInv, DocsOK, UserKept, ServerStays, ChatsKept, FlowsKept
  <2>2. ASSUME NEW e \in Docs PROVE DocOK(e)'
    <3>1. DocOK(e) /\ ChatKept(e) /\ mode' = mode
          /\ (flow'[e].kind = "over" => mode[e] = "livechat")
          BY DEF ChatInv, DocsOK, UserKept, ServerStays, ChatsKept, FlowsKept
    <3>2. start'[e].pc = "user" <=> start'[e].conv # None
          BY <3>1 DEF DocOK
    <3> QED BY <3>1, <3>2 DEF DocOK, Stored, ChatKept
  <2> QED BY <2>1, <2>2 DEF DocsOK
<1>3. \A e \in Docs : /\ chats'[e].conv \in {chats[e].conv, None}
                      /\ chats'[e].url = chats[e].url \/ chats'[e].conv = None
      BY DEF UserKept, ChatsKept, ChatKept
<1>4. UniqueOK'
  <2>1. UniqueOK
        BY DEF ChatInv
  <2> QED BY <1>3, <2>1 DEF UniqueOK
<1>5. Used' \subseteq Used \cup {None}
  <2>1. /\ \A c \in conversations' : c \in Used
        /\ \A o \in opens' : o.conv \in Used
        /\ \A e \in Docs : flow'[e].conv \in Used \cup {None}
        BY DEF UserKept, ServerStays, FlowsKept, Used
  <2>2. \A r \in requests' : r.conv \in Used \cup {None}
        BY DEF RequestsKept
  <2>3. \A e \in Docs : chats'[e].conv \in Used \cup {None}
        BY <1>3 DEF Used
  <2>4. ASSUME NEW c \in Used' PROVE c \in Used \cup {None}
    <3>1. \/ c \in conversations'
          \/ \E r \in requests' : c = r.conv
          \/ \E o \in opens' : c = o.conv
          \/ \E e \in Docs : c = chats'[e].conv
          \/ \E e \in Docs : c = flow'[e].conv
          BY <2>4 DEF Used
    <3> QED BY ONLY <2>1, <2>2, <2>3, <3>1
  <2> QED BY <2>4
<1>6. \A e \in Docs : start'[e] = start[e] => (Awaits(e)' => Awaits(e))
  <2>1. \A e \in Docs : ChatKept(e)
        BY DEF UserKept, ChatsKept
  <2> QED BY <2>1 DEF Awaits, Stored, ChatKept
<1>7. FreshOK'
  <2>1. CASE d \in Docs /\ start'[d] # start[d] /\ start'[d].conv \notin Ids \cup {None}
        BY <1>5, <1>6, <2>1, TakesFresh
  <2>2. CASE ~(d \in Docs /\ start'[d] # start[d] /\ start'[d].conv \notin Ids \cup {None})
    <3>1. ASSUME NEW e \in Docs
          PROVE  \/ start'[e] = start[e] /\ (Awaits(e)' => Awaits(e))
                 \/ start'[e].conv = None
                 \/ start'[e].conv = chats'[e].conv /\ start'[e].conv \in Used
      <4>1. CASE start'[e] = start[e]
            BY <1>6, <4>1
      <4>2. CASE start'[e] # start[e]
        <5>1. e = d /\ start'[e].conv = chats'[e].conv
              BY <2>2, <4>2 DEF StartKept
        <5>2. chats'[e].conv \in Used'
              BY DEF Used
        <5> QED BY <1>5, <5>1, <5>2
      <4> QED BY <4>1, <4>2
    <3>2. \A c \in Used' : c \in Used \cup {None} \/ c \notin Ids
          BY <1>5
    <3> QED BY <1>2, <3>1, <3>2, StaysFresh
  <2> QED BY <2>1, <2>2
<1> QED BY <1>1, <1>2, <1>4, <1>7 DEF ChatInv

\* So it is when no component starts, and the ids stay.
LEMMA UserKeepsAll ==
  ASSUME ChatInv, UserKept, RequestsKept, SagaOK, ids' = ids, start' = start
  PROVE  ChatInv'
<1>1. ids' \in Seq({"livechat"}) /\ Ids \subseteq Ids' /\ start' \in [Docs -> StartType']
      BY TypesGrow DEF ChatInv, SentOK, DocsOK, Ids
<1> QED BY <1>1, UserKeeps, NoneIsNoId

LEMMA SagaKept == ASSUME ChatInv, saga' = saga PROVE SagaOK
BY DEF ChatInv, SentOK, SagaOK

LEMMA RequestsStay == ASSUME ChatInv, requests' = requests PROVE RequestsKept
BY DEF ChatInv, SentOK, RequestsKept, Used

\* Chats that stay, or that stay but for their DirectLine.
LEMMA ChatsStay == ASSUME ChatInv, chats' = chats PROVE ChatsKept
BY DEF ChatInv, DocsOK, ChatsKept, ChatKept

LEMMA LineChanges ==
  ASSUME ChatInv, NEW d \in Docs, NEW l \in {"none", "asking", "ended"}, Stored(d), Line(d, l),
         l # "none" => chats[d].conv # None
  PROVE  ChatsKept
<1>1. chats \in [Docs -> ChatType]
      BY DEF ChatInv, DocsOK
<1>2. /\ chats' \in [Docs -> ChatType] /\ \A e \in Docs \ {d} : chats'[e] = chats[e]
      /\ chats'[d].is = chats[d].is /\ chats'[d].conv = chats[d].conv /\ chats'[d].line = l
      /\ chats'[d].url = chats[d].url
      BY <1>1 DEF Line, ChatType
<1> QED BY <1>2 DEF ChatsKept, ChatKept, Stored

\* A chat that is gone, or is what is left of it.
LEMMA ChatGoes ==
  ASSUME ChatInv, NEW d \in Docs, NEW chat \in {NoChat, Ghost}, Replaced(d, chat)
  PROVE  ChatsKept
<1>1. /\ chat \in ChatType /\ chat.is # "chat" /\ chat.conv = None /\ chat.line = "none"
      BY DEF NoChat, Ghost, ChatType
<1>2. chats' \in [Docs -> ChatType] /\ \A e \in Docs : chats'[e] = chats[e] \/ chats'[e] = chat
      BY <1>1 DEF ChatInv, DocsOK, Replaced
<1> QED BY <1>1, <1>2 DEF ChatsKept, ChatKept

LEMMA FlowsStay == ASSUME ChatInv, flow' = flow PROVE FlowsKept
BY DEF ChatInv, DocsOK, DocOK, FlowsKept, Used

\* The restart of one chat goes on, with the conversation it is of or that of the chat.
LEMMA FlowGoes ==
  ASSUME ChatInv, NEW d \in Docs, flow' \in [Docs -> FlowType],
         flow'[d].conv \in {flow[d].conv, chats[d].conv, None},
         flow'[d].kind = "over" => mode[d] = "livechat",
         \A e \in Docs \ {d} : flow'[e].conv = flow[e].conv /\ flow'[e].kind = flow[e].kind
  PROVE  FlowsKept
<1>1. \A e \in Docs : /\ flow[e].conv \in Used /\ chats[e].conv \in Used
                      /\ flow[e].kind = "over" => mode[e] = "livechat"
      BY DEF ChatInv, DocsOK, DocOK, Used
<1> QED BY <1>1 DEF FlowsKept

LEMMA LineConnectsKeeps ==
  ASSUME ChatInv, NEW d \in Docs, LineConnects(d)
  PROVE  ChatInv'
<1>1. DocOK(d) /\ chats \in [Docs -> ChatType]
      BY DEF ChatInv, DocsOK
<1>2. chats[d].conv # None /\ Stored(d) /\ chats[d].conv \in Ids
      BY <1>1 DEF LineConnects, DocOK, ChatType
<1>3. UserKept
  <2>1. Line(d, "asking") /\ flow' = flow /\ ServerStays
        BY DEF LineConnects, ServerStays
  <2>2. ChatsKept
        BY <1>2, <2>1, LineChanges
  <2> QED BY <2>1, <2>2, FlowsStay DEF UserKept
<1>4. RequestsKept
  <2> DEFINE r == [what |-> "connect", doc |-> d, conv |-> chats[d].conv, as |-> "livechat"]
  <2>1. r \in RequestType /\ r.conv # None /\ r.conv \in Used
        BY <1>2 DEF RequestType, Used, Modes
  <2>2. requests' = requests \cup {r}
        BY DEF LineConnects
  <2> HIDE DEF r
  <2> QED BY <2>1, <2>2 DEF RequestsKept, ChatInv, SentOK, Used
<1>5. SagaOK /\ ids' = ids /\ start' = start
      BY SagaKept DEF LineConnects
<1> QED BY <1>3, <1>4, <1>5, UserKeepsAll

LEMMA ReceivesPropsKeeps ==
  ASSUME ChatInv, NEW d \in Docs, ReceivesProps(d)
  PROVE  ChatInv'
<1>1. DocOK(d) /\ chats \in [Docs -> ChatType]
      BY DEF ChatInv, DocsOK
<1>2. /\ chats[d].conv \in Ids \cup {None} /\ Begins(d, mode[d], chats[d].conv, FALSE)
      /\ chats[d].conv = None => mode[d] = "livechat"
      BY <1>1 DEF ReceivesProps, DocOK, ChatType
<1>3. /\ ids' \in Seq({"livechat"}) /\ Ids \subseteq Ids'
      /\ start' \in [Docs -> StartType'] /\ \A e \in Docs \ {d} : start'[e] = start[e]
      /\ start'[d].pc = "user" <=> start'[d].conv # None
      /\ \/ start'[d] = start[d]
         \/ start'[d].conv = chats[d].conv
         \/ start'[d].conv \notin Ids \cup {None}
      BY <1>2, Begun
<1>4. /\ chats' = chats /\ flow' = flow /\ requests' = requests /\ saga' = saga
      /\ ServerStays
      BY DEF ReceivesProps, ServerStays
<1>5. UserKept /\ RequestsKept /\ SagaOK
      BY <1>4, ChatsStay, FlowsStay, RequestsStay, SagaKept DEF UserKept
<1>6. StartKept(d)
      BY <1>3, <1>4 DEF StartKept
<1> QED BY <1>3, <1>5, <1>6, UserKeeps

LEMMA CloseTabKeeps ==
  ASSUME ChatInv, NEW d \in Docs, CloseTab(d)
  PROVE  ChatInv'
<1>1. /\ Replaced(d, NoChat) /\ flow' = flow /\ requests' = requests /\ saga' = saga
      /\ ids' = ids /\ start' = start /\ ServerStays
      BY DEF CloseTab, ServerStays
<1>2. ChatsKept
      BY <1>1, ChatGoes
<1> QED BY <1>1, <1>2, FlowsStay, RequestsStay, SagaKept, UserKeepsAll DEF UserKept

LEMMA CloseNonGlobalTabsKeeps ==
  ASSUME ChatInv, CloseNonGlobalTabs
  PROVE  ChatInv'
<1>1. /\ chats' = [d \in Docs |-> NoChat] /\ flow' = flow /\ requests' = requests
      /\ saga' = saga /\ ids' = ids /\ start' = start /\ ServerStays
      BY DEF CloseNonGlobalTabs, ServerStays
<1>2. ChatsKept
      BY <1>1 DEF ChatsKept, ChatKept, NoChat, ChatType
<1> QED BY <1>1, <1>2, FlowsStay, RequestsStay, SagaKept, UserKeepsAll DEF UserKept

LEMMA OpenBotViaUrlKeeps ==
  ASSUME ChatInv, NEW as \in Modes, OpenBotViaUrl(as)
  PROVE  ChatInv'
<1> DEFINE r == [what |-> "create", doc |-> None, conv |-> None, as |-> as]
<1>1. /\ chats' = chats /\ flow' = flow /\ requests' = requests \cup {r} /\ saga' = saga
      /\ ids' = ids /\ start' = start /\ ServerStays
      BY DEF OpenBotViaUrl, ServerStays
<1>2. r \in RequestType /\ r.what # "connect" /\ r.conv = None
      BY DEF RequestType
<1> HIDE DEF r
<1>3. RequestsKept
      BY <1>1, <1>2 DEF RequestsKept, ChatInv, SentOK, Used
<1> QED BY <1>1, <1>3, ChatsStay, FlowsStay, SagaKept, UserKeepsAll DEF UserKept

(***************************************************************************)
(* The restarts                                                            *)
(***************************************************************************)
\* clearLog keeps the conversation of the restart, whose saga may end at once.
LEMMA LogClears ==
  ASSUME ChatInv, NEW d \in Docs, NEW kind \in {"over", "reconnect"}, ClearsLog(d, kind),
         kind = "over" => mode[d] = "livechat"
  PROVE  FlowsKept /\ SagaOK
<1> DEFINE f == Goes(d, kind, "log")
<1>1. chats[d].conv \in Ids \cup {None} /\ flow \in [Docs -> FlowType]
      BY DEF ChatInv, DocsOK, ChatType
<1>2. /\ f \in [Docs -> FlowType] /\ f[d].conv = flow[d].conv /\ f[d].kind = kind
      /\ \A e \in Docs \ {d} : f[e] = flow[e]
      BY <1>1 DEF Goes, FlowType
<1>3. RunsNewChat(d, chats[d].conv, TRUE, f)
      BY DEF ClearsLog
<1> HIDE DEF f
<1>4. /\ saga' \in SagaType /\ (saga'.resolver => saga'.doc # None)
      /\ flow' \in [Docs -> FlowType]
      /\ \A e \in Docs : flow'[e].conv = f[e].conv /\ flow'[e].kind = f[e].kind
      BY <1>1, <1>2, <1>3, SagaRuns
<1>5. FlowsKept
      BY <1>2, <1>4, FlowGoes
<1> QED BY <1>4, <1>5 DEF SagaOK

\* From the button alone: the chat is a live chat.
LEMMA StartOverKeeps ==
  ASSUME ChatInv, "keyboard" \notin Gestures, NEW d \in Docs, StartOver(d)
  PROVE  ChatInv'
<1>1. /\ requests' = requests /\ ids' = ids /\ start' = start /\ ServerStays
      /\ mode[d] = "livechat" /\ ClearsLog(d, "over") /\ Stored(d)
      BY DEF StartOver, ServerStays
<1>2. DocOK(d)
      BY DEF ChatInv, DocsOK
<1>3. \/ Line(d, "none")
      \/ Line(d, "ended") /\ chats[d].conv # None
      BY <1>2 DEF StartOver, DocOK
<1>4. ChatsKept
      BY <1>1, <1>3, LineChanges
<1>5. FlowsKept /\ SagaOK
      BY <1>1, LogClears
<1> QED BY <1>1, <1>4, <1>5, RequestsStay, UserKeepsAll DEF UserKept

LEMMA StartsOverKeeps ==
  ASSUME ChatInv, NEW d \in Docs, StartsOver(d)
  PROVE  ChatInv'
<1>1. DocOK(d) /\ flow \in [Docs -> FlowType]
      BY DEF ChatInv, DocsOK
<1>2. mode[d] = "livechat" /\ Begins(d, mode[d], None, TRUE)
      BY <1>1 DEF StartsOver, DocOK
<1>3. /\ ids' \in Seq({"livechat"}) /\ Ids \subseteq Ids'
      /\ start' \in [Docs -> StartType'] /\ \A e \in Docs \ {d} : start'[e] = start[e]
      /\ start'[d].pc = "user" <=> start'[d].conv # None
      /\ \/ start'[d] = start[d]
         \/ start'[d].conv \notin Ids \cup {None}
  <2>1. start[d] # NotStarting => start' = start
        BY <1>2 DEF Begins
  <2>2. start[d] = NotStarting => start'[d].conv # None
    <3>1. CASE start[d] = NotStarting
      <4>1. ids' = Append(ids, "livechat") /\ start'[d].conv = Len(ids')
            BY <1>2, <3>1 DEF Begins, ChatInv, DocsOK
      <4> QED BY <4>1, NewId DEF ChatInv, SentOK
    <3> QED BY <3>1
  <2> QED BY <1>2, <2>1, <2>2, Begun
<1>4. /\ chats' = chats /\ requests' = requests /\ saga' = saga /\ ServerStays
      /\ flow' = [flow EXCEPT ![d] = NoFlow]
      BY DEF StartsOver, ServerStays
<1>5. FlowsKept
  <2>1. NoFlow \in FlowType /\ NoFlow.conv = None /\ NoFlow.kind = "none"
        BY DEF NoFlow, FlowType
  <2> QED BY <1>1, <1>4, <2>1, FlowGoes
<1>6. UserKept /\ RequestsKept /\ SagaOK /\ StartKept(d)
      BY <1>3, <1>4, <1>5, ChatsStay, RequestsStay, SagaKept DEF UserKept, StartKept
<1> QED BY <1>3, <1>6, UserKeeps

LEMMA ReconnectKeeps ==
  ASSUME ChatInv, NEW d \in Docs, Reconnect(d)
  PROVE  ChatInv'
<1> DEFINE f == [kind |-> "reconnect", conv |-> chats[d].conv, pc |-> "endpoint"]
<1>1. /\ chats' = chats /\ requests' = requests /\ saga' = saga /\ ids' = ids
      /\ start' = start /\ ServerStays /\ flow' = [flow EXCEPT ![d] = f]
      BY DEF Reconnect, ServerStays
<1>2. f \in FlowType /\ f.conv = chats[d].conv /\ f.kind = "reconnect" /\ flow \in [Docs -> FlowType]
      BY DEF FlowType, ChatInv, DocsOK, ChatType
<1> HIDE DEF f
<1>3. FlowsKept
      BY <1>1, <1>2, FlowGoes
<1> QED BY <1>1, <1>3, ChatsStay, RequestsStay, SagaKept, UserKeepsAll DEF UserKept

LEMMA ReconnectEndpointKeeps ==
  ASSUME ChatInv, NEW d \in Docs, ReconnectEndpoint(d)
  PROVE  ChatInv'
<1>1. /\ requests' = requests /\ ids' = ids /\ start' = start /\ ServerStays
      BY DEF ReconnectEndpoint, ServerStays
<1>2. CASE Stored(d) /\ Line(d, "none") /\ ClearsLog(d, "reconnect")
  <2>1. ChatsKept
        BY <1>2, LineChanges
  <2>2. FlowsKept /\ SagaOK
        BY <1>2, LogClears
  <2> QED BY <1>1, <2>1, <2>2, RequestsStay, UserKeepsAll DEF UserKept
<1>3. CASE flow' = [flow EXCEPT ![d] = NoFlow] /\ UNCHANGED <<chats, saga, pending>>
  <2>1. /\ NoFlow \in FlowType /\ NoFlow.conv = None /\ NoFlow.kind = "none"
        /\ flow \in [Docs -> FlowType]
        BY DEF NoFlow, FlowType, ChatInv, DocsOK
  <2>2. FlowsKept
        BY <1>3, <2>1, FlowGoes
  <2> QED BY <1>1, <1>3, <2>2, ChatsStay, RequestsStay, SagaKept, UserKeepsAll DEF UserKept
<1> QED BY <1>2, <1>3 DEF ReconnectEndpoint

LEMMA ReconnectClearedKeeps ==
  ASSUME ChatInv, NEW d \in Docs, ReconnectCleared(d)
  PROVE  ChatInv'
<1> DEFINE r == [what |-> "create", doc |-> d, conv |-> flow[d].conv, as |-> "debug"]
<1>1. /\ ids' = ids /\ start' = start /\ saga' = saga /\ ServerStays
      /\ flow' = Goes(d, "reconnect", "post") /\ requests' = requests \cup {r}
      BY DEF ReconnectCleared, ServerStays
<1>2. /\ r \in RequestType /\ r.what # "connect" /\ r.conv \in Used
      /\ flow \in [Docs -> FlowType]
      BY DEF RequestType, Modes, Used, FlowType, ChatInv, DocsOK
<1> HIDE DEF r
<1>3. RequestsKept
      BY <1>1, <1>2 DEF RequestsKept, ChatInv, SentOK, Used
<1>4. ChatsKept
      BY ChatsStay, ChatGoes DEF ReconnectCleared
<1>5. FlowsKept
  <2>1. /\ flow' \in [Docs -> FlowType] /\ flow'[d].conv = flow[d].conv
        /\ flow'[d].kind = "reconnect" /\ \A e \in Docs \ {d} : flow'[e] = flow[e]
        BY <1>1, <1>2 DEF Goes, FlowType
  <2> QED BY <2>1, FlowGoes
<1> QED BY <1>1, <1>3, <1>4, <1>5, SagaKept, UserKeepsAll DEF UserKept

(***************************************************************************)
(* Opening                                                                 *)
(***************************************************************************)
\* A new document takes a conversation that no chat of the URL is of, or makes one for a
\* live chat.
LEMMA NewLiveChatKeeps ==
  ASSUME ChatInv, NEW d \in Docs, NEW as \in Modes, NEW conv \in Used \cup {None},
         NEW url \in Urls, NewLiveChat(d, as, conv, url), conv \in Ids \cup {None}, conv = None => as = "livechat",
         \A e \in Docs : chats[e].url = url /\ chats[e].conv = conv => conv = None,
         conversations' = conversations, requests' = requests, opens' \subseteq opens
  PROVE  ChatInv'
<1>1. /\ mode \in [Docs -> Modes \cup {"none"}] /\ chats \in [Docs -> ChatType]
      /\ start \in [Docs -> StartType] /\ flow \in [Docs -> FlowType]
      /\ \A e \in Docs : DocOK(e)
      BY DEF ChatInv, DocsOK
<1>2. /\ mode' = [mode EXCEPT ![d] = as] /\ chats' = [chats EXCEPT ![d] = Chat(conv, url)]
      /\ start[d] = NotStarting /\ flow[d] = NoFlow
      /\ RunsNewChat(d, conv, FALSE, flow) /\ Begins(d, as, conv, FALSE)
      BY DEF NewLiveChat, OpensChat, Replaced
<1>3. /\ saga' \in SagaType /\ (saga'.resolver => saga'.doc # None)
      /\ flow' \in [Docs -> FlowType]
      /\ \A e \in Docs : flow'[e].conv = flow[e].conv /\ flow'[e].kind = flow[e].kind
      BY <1>1, <1>2, SagaRuns
<1>4. /\ ids' \in Seq({"livechat"}) /\ Ids \subseteq Ids'
      /\ start' \in [Docs -> StartType'] /\ \A e \in Docs \ {d} : start'[e] = start[e]
      /\ start'[d].pc = "user" <=> start'[d].conv # None
      /\ \/ start'[d].conv = None
         \/ start'[d].conv = conv
         \/ start'[d].conv \notin Ids \cup {None}
  <2>1. /\ conv \in Ids \cup {None} /\ FALSE \in BOOLEAN
        /\ (FALSE \/ conv = None => as = "livechat") /\ NotStarting.conv = None
        BY DEF NotStarting
  <2>2. /\ ids' \in Seq({"livechat"}) /\ Ids \subseteq Ids'
        /\ start' \in [Docs -> StartType'] /\ \A e \in Docs \ {d} : start'[e] = start[e]
        /\ start'[d].pc = "user" <=> start'[d].conv # None
        /\ \/ ids' = ids /\ start'[d] = start[d]
           \/ ids' = ids /\ start'[d].conv = conv
           \/ start'[d].conv \notin Ids \cup {None}
        BY <1>2, <2>1, Begun
  <2> QED BY <1>2, <2>1, <2>2
<1>5. /\ Chat(conv, url) \in ChatType /\ Chat(conv, url).is = "chat"
      /\ Chat(conv, url).conv = conv /\ Chat(conv, url).url = url /\ Chat(conv, url).line = "none"
      BY DEF Chat, ChatType
<1>6. /\ chats' \in [Docs -> ChatType] /\ chats'[d].is = "chat" /\ chats'[d].conv = conv
      /\ chats'[d].url = url /\ chats'[d].line = "none"
      /\ \A e \in Docs \ {d} : chats'[e] = chats[e]
      BY <1>1, <1>2, <1>5
<1>7. SentOK'
      BY <1>3, <1>4, TypesGrow DEF ChatInv, SentOK
<1>8. DocsOK'
  <2>1. /\ mode' \in [Docs -> Modes \cup {"none"}] /\ mode'[d] = as
        /\ \A e \in Docs \ {d} : mode'[e] = mode[e]
        BY <1>1, <1>2
  <2>2. ASSUME NEW e \in Docs PROVE DocOK(e)'
    <3>1. CASE e = d
      <4>1. flow'[d].kind = "none"
            BY <1>2, <1>3 DEF NoFlow
      <4> QED BY <1>4, <1>6, <2>1, <3>1, <4>1 DEF DocOK, Stored
    <3>2. CASE e # d
      <4>1. DocOK(e)
            BY <1>1
      <4> QED BY <1>3, <1>4, <1>6, <2>1, <3>2, <4>1 DEF DocOK, Stored
    <3> QED BY <3>1, <3>2
  <2>3. chats' \in [Docs -> ChatType'] /\ flow' \in [Docs -> FlowType']
        BY <1>3, <1>4, <1>6, TypesGrow
  <2> QED BY <1>4, <2>1, <2>2, <2>3 DEF DocsOK
<1>9. UniqueOK'
      BY <1>6 DEF ChatInv, UniqueOK
<1>10. Used' \subseteq Used \cup {None}
  <2>1. /\ \A c \in conversations' : c \in Used
        /\ \A r \in requests' : r.conv \in Used
        /\ \A o \in opens' : o.conv \in Used
        BY DEF Used
  <2>2. \A e \in Docs : flow'[e].conv \in Used
        BY <1>3 DEF Used
  <2>3. \A e \in Docs : chats'[e].conv \in Used \cup {None}
        BY <1>6 DEF Used
  <2> QED BY <2>1, <2>2, <2>3 DEF Used
<1>11. \A e \in Docs \ {d} : start'[e] = start[e] /\ (Awaits(e)' => Awaits(e))
      BY <1>4, <1>6 DEF Awaits, Stored
<1>12. FreshOK'
  <2>1. CASE start'[d].conv \notin Ids \cup {None}
        BY <1>10, <1>11, <2>1, TakesFresh
  <2>2. CASE start'[d].conv \in Ids \cup {None}
    <3>1. \/ start'[d].conv = None
          \/ start'[d].conv = chats'[d].conv /\ start'[d].conv \in Used
          BY <1>4, <1>6, <2>2
    <3>2. \A c \in Used' : c \in Used \cup {None} \/ c \notin Ids
          BY <1>10
    <3> QED BY <1>8, <1>11, <3>1, <3>2, StaysFresh
  <2> QED BY <2>1, <2>2
<1> QED BY <1>7, <1>8, <1>9, <1>12 DEF ChatInv

LEMMA OpenEndpointKeeps ==
  ASSUME ChatInv, NEW d \in Docs, OpenEndpoint(d)
  PROVE  ChatInv'
<1>1. /\ conversations' = conversations
      /\ requests' = requests /\ opens' = opens /\ "livechat" \in Modes
      BY DEF OpenEndpoint, Modes
<1>2. PICK url \in Urls : NewLiveChat(d, "livechat", None, url)
      BY DEF OpenEndpoint
<1> QED BY <1>1, <1>2, NewLiveChatKeeps

\* The call looks for the chat of the URL, since the id is a live chat's.
LEMMA NewLiveChatIsCalledKeeps ==
  ASSUME ChatInv, NEW o, NEW url \in Urls, NewLiveChatIsCalled(o, url)
  PROVE  ChatInv'
<1>1. /\ o \in opens /\ o \in OpenType /\ opens' \subseteq opens
      /\ conversations' = conversations /\ requests' = requests
      BY DEF NewLiveChatIsCalled, ChatInv, SentOK
<1>2. /\ o.focus /\ o.conv \in Ids /\ o.conv # None /\ o.as \in Modes /\ o.conv \in Used
      BY <1>1, NoneIsNoId DEF OpenType, Used
<1>3. CASE \E d \in Docs : chats[d].url = url /\ chats[d].conv = o.conv
  <2>1. UNCHANGED <<ids, mode, chats, tabs, start, flow, saga, pending>>
        BY <1>2, <1>3 DEF NewLiveChatIsCalled
  <2>2. /\ SentOK' /\ Ids' = Ids
        BY <1>1, <2>1, TypesGrow DEF ChatInv, SentOK, Ids
  <2>3. DocsKept
        BY <2>1, <2>2, TypesGrow DEF DocsKept, ChatInv, DocsOK, DocOK
  <2>4. \A c \in UsedByServer' : c \in Used
        BY <1>1 DEF UsedByServer, Used
  <2> QED BY <2>2, <2>3, <2>4, ServerKeeps
<1>4. CASE ~\E d \in Docs : chats[d].url = url /\ chats[d].conv = o.conv
  <2>1. PICK d \in Docs : NewLiveChat(d, o.as, o.conv, url)
        BY <1>4 DEF NewLiveChatIsCalled
  <2> QED BY <1>1, <1>2, <1>4, <2>1, NewLiveChatKeeps
<1> QED BY <1>3, <1>4

LEMMA StutterKeepsChats == ASSUME ChatInv, UNCHANGED vars PROVE ChatInv'
<1>1. SentOK' /\ Ids' = Ids
      BY DEF vars, ChatInv, SentOK, Ids, SagaType, RequestType, OpenType
<1>2. DocsKept
      BY <1>1, TypesGrow DEF vars, DocsKept, ChatInv, DocsOK, DocOK
<1>3. \A c \in UsedByServer' : c \in Used
      BY DEF vars, UsedByServer, Used
<1> QED BY <1>1, <1>2, <1>3, ServerKeeps

LEMMA StepKeepsChats ==
  ASSUME ChatInv, "keyboard" \notin Gestures, [Next]_vars
  PROVE  ChatInv'
<1>1. ASSUME UserActs PROVE ChatInv'
      BY <1>1, OpenEndpointKeeps, OpenBotViaUrlKeeps, CloseTabKeeps, StartOverKeeps,
         ReconnectKeeps, CloseNonGlobalTabsKeeps DEF UserActs
<1>2. ASSUME Creates PROVE ChatInv'
      BY <1>2, CreateConversationKeeps DEF Creates
<1>3. ASSUME Deletes \/ SagaSteps PROVE ChatInv'
      BY <1>3, OthersKeep DEF Deletes
<1>4. ASSUME Opens PROVE ChatInv'
      BY <1>4, NewLiveChatIsCalledKeeps DEF Opens
<1>5. ASSUME NEW d \in Docs,
             UserIsSet(d) \/ LineConnects(d) \/ Restarts(d) \/ ReceivesProps(d)
      PROVE  ChatInv'
      BY <1>5, UserSet, LineConnectsKeeps, ReceivesPropsKeeps, StartsOverKeeps,
         ReconnectEndpointKeeps, ReconnectClearedKeeps DEF Restarts
<1>6. ASSUME NEW d \in Docs, NEW l \in {"connected", "made"}, Answers(d, l) PROVE ChatInv'
      BY <1>6, StartConversationKeeps DEF Answers
<1> QED BY <1>1, <1>2, <1>3, <1>4, <1>5, <1>6, StutterKeepsChats DEF Next

(***************************************************************************)
(* The theorems                                                            *)
(***************************************************************************)
\* As long as debug chats are not restarted from the keyboard, every id is a live chat's,
\* the id a component is about to give its chat is that of nothing else, and a tab is only
\* opened for a conversation that no chat of the URL is of, edited and overridden as the
\* URLs may be.
THEOREM ChatInvariant == "keyboard" \notin Gestures => (Spec => []ChatInv)
<1> SUFFICES ASSUME "keyboard" \notin Gestures PROVE Spec => []ChatInv
    OBVIOUS
<1>1. Init => ChatInv
      BY InitChats
<1>2. ChatInv /\ [Next]_vars => ChatInv'
      BY StepKeepsChats
<1> QED BY <1>1, <1>2, PTL DEF Spec

\* So no two chats of the client are ever of the same conversation at the same URL,
\* whatever is closed, restarted or reconnected meanwhile.
THEOREM OneChat == "keyboard" \notin Gestures => (Spec => []OneChatPerConversation)
<1> SUFFICES ASSUME "keyboard" \notin Gestures PROVE Spec => []OneChatPerConversation
    OBVIOUS
<1>1. ChatInv => OneChatPerConversation
      BY DEF ChatInv, UniqueOK, OneChatPerConversation
<1>2. Spec => []ChatInv
      BY ChatInvariant
<1> QED BY <1>1, <1>2, PTL

(***************************************************************************)
(* The types of every variable, for all gestures.  They rest on Room: an   *)
(* id may be made by a restart or by a request long after the gesture, so  *)
(* the ids, the restarts and the requests that are each to make one are    *)
(* counted together.                                                       *)
(***************************************************************************)
Over(f) == {d \in Docs : f[d].kind = "over"}
Creating(q) == {r \in q : r.what = "create" /\ r.conv = None}
Wanted(i, f, q) == Len(i) + Cardinality(Over(f)) + Cardinality(Creating(q))
RoomOK ==
  /\ IsFiniteSet(Over(flow)) /\ IsFiniteSet(Creating(requests))
  /\ Wanted(ids, flow, requests) <= MaxConvs

CallType == [conv : Ids, focus : BOOLEAN, as : Modes]
IdsTyped == ids \in Seq(Modes)
ConvsTyped == conversations \subseteq Ids /\ deletes \subseteq Ids
RequestsTyped ==
  requests \subseteq RequestType /\ \A r \in requests : r.what = "connect" => r.conv # None
OpensTyped == opens \subseteq CallType
ChatsTyped ==
  chats \in [Docs -> ChatType] /\ \A d \in Docs : chats[d].line # "none" => chats[d].conv # None
StartsTyped ==
  start \in [Docs -> StartType] /\ \A d \in Docs : start[d].pc = "user" => start[d].conv # None
\* A debug chat's restart goes on only with a conversation that the server knows.
Rejoins(x) == x.kind = "reconnect" /\ x.pc \in {"log", "cleared"}
FlowsTyped ==
  flow \in [Docs -> FlowType] /\ \A d \in Docs : Rejoins(flow[d]) => flow[d].conv # None
SagaTyped == saga \in SagaType /\ (saga.resolver => saga.doc # None)
TabsTyped ==
  /\ mode \in [Docs -> Modes \cup {"none"}] /\ tabs \subseteq Docs /\ pending \in BOOLEAN
  /\ \A d \in Docs : d \in tabs \/ flow[d].kind = "over" => mode[d] \in Modes

TypesOK ==
  /\ IdsTyped /\ ConvsTyped /\ RequestsTyped /\ OpensTyped /\ ChatsTyped /\ StartsTyped
  /\ FlowsTyped /\ SagaTyped /\ TabsTyped
LiveInv == TypesOK /\ RoomOK

\* What did not change keeps its type when ids are made.
LEMMA TypesStay ==
  ASSUME TypesOK, Ids \subseteq Ids'
  PROVE  /\ conversations' = conversations /\ deletes' = deletes => ConvsTyped'
         /\ requests' = requests => RequestsTyped'
         /\ opens' = opens => OpensTyped'
         /\ chats' = chats => ChatsTyped'
         /\ start' = start => StartsTyped'
         /\ flow' = flow => FlowsTyped'
         /\ saga' = saga => SagaTyped'
<1>1. CallType \subseteq CallType'
  BY DEF CallType
<1>2. /\ ChatType \subseteq ChatType' /\ StartType \subseteq StartType'
      /\ FlowType \subseteq FlowType' /\ SagaType \subseteq SagaType'
      /\ RequestType \subseteq RequestType'
  BY TypesGrow
<1>3. conversations' = conversations /\ deletes' = deletes => ConvsTyped'
  BY DEF TypesOK, ConvsTyped
<1>4. requests' = requests => RequestsTyped'
  BY <1>2 DEF TypesOK, RequestsTyped
<1>5. opens' = opens => OpensTyped'
  BY <1>1 DEF TypesOK, OpensTyped
<1>6. chats' = chats => ChatsTyped'
  BY <1>2 DEF TypesOK, ChatsTyped
<1>7. start' = start => StartsTyped'
  BY <1>2 DEF TypesOK, StartsTyped
<1>8. flow' = flow => FlowsTyped'
  BY <1>2 DEF TypesOK, FlowsTyped
<1>9. saga' = saga => SagaTyped'
  BY <1>2 DEF TypesOK, SagaTyped
<1> QED
  BY <1>3, <1>4, <1>5, <1>6, <1>7, <1>8, <1>9

\* No id is made.
LEMMA NoneMade ==
  ASSUME TypesOK, ids' = ids
  PROVE  IdsTyped' /\ Ids' = Ids /\ Ids \subseteq Ids' /\ Len(ids') = Len(ids) /\ Len(ids) \in Nat
BY DEF TypesOK, IdsTyped, Ids

LEMMA Appended ==
  ASSUME NEW S, NEW s \in Seq(S), NEW x \in S
  PROVE  Append(s, x) \in Seq(S) /\ Len(Append(s, x)) = Len(s) + 1 /\ Len(s) \in Nat
OBVIOUS

\* An id is made.
LEMMA OneMade ==
  ASSUME TypesOK, NEW as \in Modes, ids' = Append(ids, as)
  PROVE  /\ IdsTyped' /\ Ids \subseteq Ids' /\ Len(ids') = Len(ids) + 1 /\ Len(ids) \in Nat
         /\ Len(ids') \in Ids' /\ Len(ids') # None
<1>1. /\ Append(ids, as) \in Seq(Modes) /\ Len(Append(ids, as)) = Len(ids) + 1
      /\ Len(ids) \in Nat
  BY Appended DEF TypesOK, IdsTyped
<1>2. IdsTyped'
  BY <1>1 DEF IdsTyped
<1> QED
  BY <1>1, <1>2, NoneIsNoId DEF Ids

-----------------------------------------------------------------------------
(* The count of the ids that are still to be made *)

\* A finite set that loses elements, or gains one.
LEMMA Fewer ==
  ASSUME NEW S, IsFiniteSet(S), NEW T, T \subseteq S
  PROVE  IsFiniteSet(T) /\ Cardinality(T) <= Cardinality(S) /\ Cardinality(T) \in Nat
         /\ Cardinality(S) \in Nat
BY FS_Subset, FS_CardinalityType

LEMMA OneMore ==
  ASSUME NEW S, IsFiniteSet(S), NEW x, NEW T, T \subseteq S \cup {x}
  PROVE  IsFiniteSet(T) /\ Cardinality(T) <= Cardinality(S) + 1 /\ Cardinality(T) \in Nat
         /\ Cardinality(S) \in Nat
<1>1. /\ IsFiniteSet(S \cup {x}) /\ Cardinality(S) \in Nat
      /\ Cardinality(S \cup {x}) \in {Cardinality(S), Cardinality(S) + 1}
  BY FS_AddElement, FS_CardinalityType
<1>2. /\ IsFiniteSet(T) /\ Cardinality(T) <= Cardinality(S \cup {x}) /\ Cardinality(T) \in Nat
  BY <1>1, Fewer
<1> QED
  BY <1>1, <1>2

LEMMA OneLess ==
  ASSUME NEW S, IsFiniteSet(S), NEW x \in S, NEW T, T \subseteq S \ {x}
  PROVE  IsFiniteSet(T) /\ Cardinality(T) + 1 <= Cardinality(S) /\ Cardinality(T) \in Nat
         /\ Cardinality(S) \in Nat
<1>1. /\ IsFiniteSet(S \ {x}) /\ Cardinality(S) \in Nat
      /\ Cardinality(S \ {x}) = Cardinality(S) - 1
  BY FS_RemoveElement, FS_CardinalityType
<1>2. /\ IsFiniteSet(T) /\ Cardinality(T) <= Cardinality(S \ {x}) /\ Cardinality(T) \in Nat
  BY <1>1, Fewer
<1> QED
  BY <1>1, <1>2

\* Nothing new is to be made.
LEMMA RoomStays ==
  ASSUME LiveInv, ids' = ids, Over(flow') \subseteq Over(flow),
         Creating(requests') \subseteq Creating(requests)
  PROVE  RoomOK'
<1>1. Len(ids') = Len(ids) /\ Len(ids) \in Nat /\ MaxConvs \in Nat
  BY NoneMade, BoundAssumption DEF LiveInv
<1>2. /\ IsFiniteSet(Over(flow)) /\ IsFiniteSet(Creating(requests))
      /\ Wanted(ids, flow, requests) <= MaxConvs
  BY DEF LiveInv, RoomOK
<1>3. /\ IsFiniteSet(Over(flow')) /\ Cardinality(Over(flow')) <= Cardinality(Over(flow))
      /\ Cardinality(Over(flow')) \in Nat /\ Cardinality(Over(flow)) \in Nat
  BY <1>2, Fewer
<1>4. /\ IsFiniteSet(Creating(requests')) /\ Cardinality(Creating(requests')) \in Nat
      /\ Cardinality(Creating(requests')) <= Cardinality(Creating(requests))
      /\ Cardinality(Creating(requests)) \in Nat
  BY <1>2, Fewer
<1>5. Wanted(ids', flow', requests') <= MaxConvs
  BY <1>1, <1>2, <1>3, <1>4 DEF Wanted
<1> QED
  BY <1>3, <1>4, <1>5 DEF RoomOK

\* A set gains an element or none.
LEMMA OneMoreOrNone ==
  ASSUME NEW S, IsFiniteSet(S), NEW n \in 0..1, NEW T,
         T \subseteq S \/ (n = 1 /\ \E x : T \subseteq S \cup {x})
  PROVE  IsFiniteSet(T) /\ Cardinality(T) <= Cardinality(S) + n /\ Cardinality(T) \in Nat
         /\ Cardinality(S) \in Nat
<1>1. CASE T \subseteq S
  <2>1. IsFiniteSet(T) /\ Cardinality(T) <= Cardinality(S) /\ Cardinality(T) \in Nat
        /\ Cardinality(S) \in Nat
    BY <1>1, Fewer
  <2> QED
    BY <2>1
<1>2. ASSUME n = 1, NEW x, T \subseteq S \cup {x}
      PROVE  IsFiniteSet(T) /\ Cardinality(T) <= Cardinality(S) + n /\ Cardinality(T) \in Nat
             /\ Cardinality(S) \in Nat
  BY <1>2, OneMore
<1> QED
  BY <1>1, <1>2

\* There is room for one more, which is made or wanted now.
LEMMA RoomTaken ==
  ASSUME LiveInv, Room, NEW n \in 0..1, NEW m \in 0..1, NEW k \in 0..1, n + m + k <= 1,
         Len(ids') <= Len(ids) + n, Len(ids') \in Nat,
         Over(flow') \subseteq Over(flow) \/ (m = 1 /\ \E d : Over(flow') \subseteq Over(flow) \cup {d}),
         \/ Creating(requests') \subseteq Creating(requests)
         \/ k = 1 /\ \E r : Creating(requests') \subseteq Creating(requests) \cup {r}
  PROVE  RoomOK'
<1>1. Len(ids) \in Nat /\ MaxConvs \in Nat
  BY BoundAssumption DEF LiveInv, TypesOK, IdsTyped
<1>2. /\ IsFiniteSet(Over(flow)) /\ IsFiniteSet(Creating(requests))
  BY DEF LiveInv, RoomOK
<1>3. Wanted(ids, flow, requests) < MaxConvs
  BY DEF Room, Wanted, Over, Creating
<1>4. /\ IsFiniteSet(Over(flow')) /\ Cardinality(Over(flow')) <= Cardinality(Over(flow)) + m
      /\ Cardinality(Over(flow')) \in Nat /\ Cardinality(Over(flow)) \in Nat
  BY <1>2, OneMoreOrNone
<1>5. /\ IsFiniteSet(Creating(requests')) /\ Cardinality(Creating(requests')) \in Nat
      /\ Cardinality(Creating(requests')) <= Cardinality(Creating(requests)) + k
      /\ Cardinality(Creating(requests)) \in Nat
  BY <1>2, OneMoreOrNone
<1>6. Wanted(ids', flow', requests') <= MaxConvs
  BY <1>1, <1>3, <1>4, <1>5 DEF Wanted
<1> QED
  BY <1>4, <1>5, <1>6 DEF RoomOK

\* A restart makes the id that was wanted for it.
LEMMA RestartMakes ==
  ASSUME LiveInv, Len(ids') <= Len(ids) + 1, Len(ids') \in Nat, NEW d \in Over(flow),
         Over(flow') \subseteq Over(flow) \ {d}, requests' = requests
  PROVE  RoomOK'
<1>1. Len(ids) \in Nat /\ MaxConvs \in Nat
  BY BoundAssumption DEF LiveInv, TypesOK, IdsTyped
<1>2. /\ IsFiniteSet(Over(flow)) /\ IsFiniteSet(Creating(requests))
      /\ Wanted(ids, flow, requests) <= MaxConvs
  BY DEF LiveInv, RoomOK
<1>3. /\ IsFiniteSet(Over(flow')) /\ Cardinality(Over(flow')) + 1 <= Cardinality(Over(flow))
      /\ Cardinality(Over(flow')) \in Nat /\ Cardinality(Over(flow)) \in Nat
  BY <1>2, OneLess
<1>4. Cardinality(Creating(requests)) \in Nat
  BY <1>2, FS_CardinalityType
<1>5. Wanted(ids', flow', requests') <= MaxConvs
  BY <1>1, <1>2, <1>3, <1>4 DEF Wanted
<1> QED
  BY <1>2, <1>3, <1>5 DEF RoomOK

\* A request makes the id that was wanted for it.
LEMMA RequestMakes ==
  ASSUME LiveInv, Len(ids') <= Len(ids) + 1, Len(ids') \in Nat, NEW r \in Creating(requests),
         Creating(requests') \subseteq Creating(requests) \ {r}, Over(flow') \subseteq Over(flow)
  PROVE  RoomOK'
<1>1. Len(ids) \in Nat /\ MaxConvs \in Nat
  BY BoundAssumption DEF LiveInv, TypesOK, IdsTyped
<1>2. /\ IsFiniteSet(Over(flow)) /\ IsFiniteSet(Creating(requests))
      /\ Wanted(ids, flow, requests) <= MaxConvs
  BY DEF LiveInv, RoomOK
<1>3. /\ IsFiniteSet(Over(flow')) /\ Cardinality(Over(flow')) <= Cardinality(Over(flow))
      /\ Cardinality(Over(flow')) \in Nat /\ Cardinality(Over(flow)) \in Nat
  BY <1>2, Fewer
<1>4. /\ IsFiniteSet(Creating(requests')) /\ Cardinality(Creating(requests')) \in Nat
      /\ Cardinality(Creating(requests')) + 1 <= Cardinality(Creating(requests))
      /\ Cardinality(Creating(requests)) \in Nat
  BY <1>2, OneLess
<1>5. Wanted(ids', flow', requests') <= MaxConvs
  BY <1>1, <1>2, <1>3, <1>4 DEF Wanted
<1> QED
  BY <1>3, <1>4, <1>5 DEF RoomOK

-----------------------------------------------------------------------------
(* What the actions have in common *)

LEMMA NothingTyped ==
  /\ NoFlow \in FlowType /\ ~Rejoins(NoFlow) /\ NoFlow.kind = "none"
  /\ NotStarting \in StartType /\ NotStarting.pc = "idle" /\ NoSaga \in SagaType
  /\ NoSaga.resolver = FALSE
  /\ NoChat \in ChatType /\ NoChat.line = "none" /\ Ghost \in ChatType /\ Ghost.line = "none"
  /\ \A c \in Ids \cup {None}, url \in Urls : Chat(c, url) \in ChatType /\ Chat(c, url).line = "none"
BY DEF NoFlow, FlowType, Rejoins, NotStarting, StartType, NoSaga, SagaType, NoChat, Ghost, Chat, ChatType

\* A chat is replaced.
LEMMA ChatTyped ==
  ASSUME TypesOK, ids' = ids, NEW d \in Docs, NEW c \in ChatType,
         c.line # "none" => c.conv # None, chats' = [chats EXCEPT ![d] = c]
  PROVE  ChatsTyped'
<1>1. Ids' = Ids
  BY DEF Ids
<1>2. ChatType' = ChatType
  BY <1>1 DEF ChatType
<1>3. /\ chats' \in [Docs -> ChatType] /\ chats'[d] = c
      /\ \A e \in Docs : e # d => chats'[e] = chats[e]
  BY DEF TypesOK, ChatsTyped
<1> QED
  BY <1>2, <1>3 DEF TypesOK, ChatsTyped

\* ... or its DirectLine is.
LEMMA LineTyped ==
  ASSUME TypesOK, ids' = ids, NEW d \in Docs,
         NEW l \in {"none", "made", "asking", "connected", "ended"},
         l # "none" => chats[d].conv # None, Line(d, l)
  PROVE  ChatsTyped'
<1> DEFINE c == [chats[d] EXCEPT !.line = l]
<1>1. chats[d] \in ChatType /\ chats \in [Docs -> ChatType]
  BY DEF TypesOK, ChatsTyped
<1>2. c \in ChatType /\ c.line = l /\ c.conv = chats[d].conv
  BY <1>1 DEF ChatType
<1>3. chats' = [chats EXCEPT ![d] = c]
  BY <1>1 DEF Line
<1> HIDE DEF c
<1> QED
  BY <1>2, <1>3, ChatTyped

\* A restart ends.
LEMMA FlowEnds ==
  ASSUME TypesOK, Ids \subseteq Ids', NEW d \in Docs, flow' = [flow EXCEPT ![d] = NoFlow]
  PROVE  /\ FlowsTyped' /\ Over(flow') \subseteq Over(flow) \ {d}
         /\ \A e \in Docs : flow'[e].kind = "over" => flow[e].kind = "over"
<1>1. /\ flow' \in [Docs -> FlowType] /\ flow'[d] = NoFlow
      /\ \A e \in Docs : e # d => flow'[e] = flow[e]
  BY NothingTyped DEF TypesOK, FlowsTyped
<1>2. FlowType \subseteq FlowType'
  BY TypesGrow
<1>3. \A e \in Docs : Rejoins(flow'[e]) => flow'[e].conv # None
  BY <1>1, NothingTyped DEF TypesOK, FlowsTyped
<1>4. /\ Over(flow') \subseteq Over(flow) \ {d}
      /\ \A e \in Docs : flow'[e].kind = "over" => flow[e].kind = "over"
  BY <1>1, NothingTyped DEF Over
<1> QED
  BY <1>1, <1>2, <1>3, <1>4 DEF FlowsTyped

\* The awaiter of a resolver goes on.
LEMMA ResolvedTyped ==
  ASSUME NEW s \in SagaType, NEW f \in [Docs -> FlowType], s.resolver => s.doc # None,
         \A e \in Docs : Rejoins(f[e]) => f[e].conv # None
  PROVE  /\ Resolved(s, f) \in [Docs -> FlowType]
         /\ \A e \in Docs : /\ Resolved(s, f)[e].kind = f[e].kind
                            /\ Rejoins(Resolved(s, f)[e]) => Resolved(s, f)[e].conv # None
<1>1. CASE s.resolver /\ f[s.doc].pc = "log"
  <2> DEFINE x == [f[s.doc] EXCEPT !.pc = "cleared"]
  <2>1. s.doc \in Docs
    BY <1>1 DEF SagaType
  <2>2. f[s.doc] \in FlowType
    BY <2>1
  <2>3. x \in FlowType /\ x.kind = f[s.doc].kind /\ x.conv = f[s.doc].conv /\ x.pc = "cleared"
    BY <2>2 DEF FlowType
  <2>4. Resolved(s, f) = [f EXCEPT ![s.doc] = x]
    BY <1>1, <2>1 DEF Resolved
  <2> HIDE DEF x
  <2>5. /\ Resolved(s, f) \in [Docs -> FlowType] /\ Resolved(s, f)[s.doc] = x
        /\ \A e \in Docs : e # s.doc => Resolved(s, f)[e] = f[e]
    BY <2>1, <2>3, <2>4
  <2>6. Rejoins(x) => x.conv # None
    BY <1>1, <2>1, <2>3 DEF Rejoins
  <2> QED
    BY <2>3, <2>5, <2>6
<1>2. CASE ~(s.resolver /\ f[s.doc].pc = "log")
  BY <1>2 DEF Resolved
<1> QED
  BY <1>1, <1>2

\* A newChat saga starts.
LEMMA SagaStarts ==
  ASSUME TypesOK, Ids \subseteq Ids', NEW d \in Docs, NEW conv \in Ids \cup {None},
         NEW resolver \in BOOLEAN, NEW f \in [Docs -> FlowType],
         \A e \in Docs : Rejoins(f[e]) => f[e].conv # None, RunsNewChat(d, conv, resolver, f)
  PROVE  /\ SagaTyped' /\ FlowsTyped' /\ pending' \in BOOLEAN
         /\ \A e \in Docs : flow'[e].kind = f[e].kind
<1> DEFINE s(pc) == [doc |-> d, conv |-> conv, resolver |-> resolver, pc |-> pc]
           t == s("endpoint")
           u == s("speech")
<1>1. t \in SagaType /\ u \in SagaType /\ t.doc # None /\ u.doc # None
  BY NoneIsNoId DEF SagaType
<1>2. /\ saga' \in {t, u, NoSaga} /\ flow' \in {f, Resolved(t, f)}
      /\ pending' \in {pending, TRUE}
  BY DEF RunsNewChat
<1> HIDE DEF s, t, u
<1>3. SagaTyped'
  <2>1. saga' \in SagaType /\ (saga'.resolver => saga'.doc # None)
    BY <1>1, <1>2, NothingTyped
  <2> QED
    BY <2>1, TypesGrow DEF SagaTyped
<1>4. /\ Resolved(t, f) \in [Docs -> FlowType]
      /\ \A e \in Docs : /\ Resolved(t, f)[e].kind = f[e].kind
                         /\ Rejoins(Resolved(t, f)[e]) => Resolved(t, f)[e].conv # None
  BY <1>1, ResolvedTyped
<1>5. /\ flow' \in [Docs -> FlowType]
      /\ \A e \in Docs : /\ flow'[e].kind = f[e].kind
                         /\ Rejoins(flow'[e]) => flow'[e].conv # None
  BY <1>2, <1>4
<1>6. FlowsTyped'
  <2>1. FlowType \subseteq FlowType'
    BY TypesGrow
  <2> QED
    BY <1>5, <2>1 DEF FlowsTyped
<1> QED
  BY <1>2, <1>3, <1>5, <1>6 DEF TypesOK, TabsTyped

\* startNewConversation() makes an id only if there is none, or a new one is asked for.
LEMMA BeginsTyped ==
  ASSUME TypesOK, NEW d \in Docs, NEW as \in Modes, NEW conv \in Ids \cup {None},
         NEW new \in BOOLEAN, Begins(d, as, conv, new)
  PROVE  /\ IdsTyped' /\ Ids \subseteq Ids' /\ StartsTyped'
         /\ Len(ids') \in Nat /\ Len(ids') <= Len(ids) + 1 /\ Len(ids) \in Nat
         /\ ~new /\ conv # None => ids' = ids
<1>1. ASSUME start' = start, ids' = ids
      PROVE  IdsTyped' /\ Ids \subseteq Ids' /\ StartsTyped' /\ Len(ids') <= Len(ids) + 1
             /\ Len(ids') \in Nat /\ Len(ids) \in Nat
  BY <1>1, NoneMade, TypesStay
<1>2. ASSUME NEW c \in Ids' \cup {None}, c # None, Ids \subseteq Ids',
             start' = [start EXCEPT ![d] = [pc |-> "user", conv |-> c]]
      PROVE  StartsTyped'
  <2> DEFINE x == [pc |-> "user", conv |-> c]
  <2>1. x \in StartType' /\ x.conv # None
    BY <1>2 DEF StartType
  <2>2. StartType \subseteq StartType'
    BY <1>2, TypesGrow
  <2>3. start \in [Docs -> StartType]
    BY DEF TypesOK, StartsTyped
  <2> HIDE DEF x
  <2>4. /\ start' \in [Docs -> StartType'] /\ start'[d] = x
        /\ \A e \in Docs : e # d => start'[e] = start[e]
    BY <1>2, <2>1, <2>2, <2>3 DEF x
  <2> QED
    BY <2>1, <2>4 DEF TypesOK, StartsTyped
<1>3. CASE start[d] # NotStarting
  BY <1>1, <1>3 DEF Begins
<1>4. CASE start[d] = NotStarting /\ (new \/ conv = None)
  <2>1. /\ ids' = Append(ids, as)
        /\ start' = [start EXCEPT ![d] = [pc |-> "user", conv |-> Len(ids')]]
    BY <1>4 DEF Begins
  <2>2. /\ IdsTyped' /\ Ids \subseteq Ids' /\ Len(ids') = Len(ids) + 1 /\ Len(ids) \in Nat
        /\ Len(ids') \in Ids' /\ Len(ids') # None
    BY <2>1, OneMade
  <2>3. StartsTyped'
    BY <1>2, <2>1, <2>2
  <2>4. Len(ids') \in Nat /\ Len(ids') <= Len(ids) + 1
    BY <2>2
  <2> QED
    BY <1>4, <2>2, <2>3, <2>4
<1>5. CASE start[d] = NotStarting /\ ~(new \/ conv = None)
  <2>1. /\ start' = [start EXCEPT ![d] = [pc |-> "user", conv |-> conv]]
        /\ ids' = ids
    BY <1>5 DEF Begins
  <2>2. /\ IdsTyped' /\ Ids' = Ids /\ Ids \subseteq Ids' /\ Len(ids') = Len(ids) /\ Len(ids) \in Nat
    BY <2>1, NoneMade
  <2>3. StartsTyped'
    BY <1>2, <1>5, <2>1, <2>2
  <2>4. Len(ids') \in Nat /\ Len(ids') <= Len(ids) + 1
    BY <2>2
  <2> QED
    BY <2>1, <2>2, <2>3, <2>4
<1> QED
  BY <1>3, <1>4, <1>5 DEF Begins

\* What is in the sets of messages.
LEMMA SentTypes ==
  ASSUME LiveInv
  PROVE  /\ TypesOK /\ IdsTyped /\ ConvsTyped /\ RequestsTyped /\ OpensTyped /\ TabsTyped
         /\ conversations \subseteq Ids /\ deletes \subseteq Ids
         /\ \A r \in requests : /\ r.doc \in Docs \cup {None} /\ r.conv \in Ids \cup {None}
                                /\ r.as \in Modes /\ r.what \in {"connect", "create"}
                                /\ r.what = "connect" => r.conv # None
         /\ \A o \in opens : o.conv \in Ids /\ o.as \in Modes /\ o.conv # None
         /\ \A d \in Docs : /\ chats[d] \in ChatType /\ flow[d] \in FlowType
                            /\ start[d] \in StartType
                            /\ chats[d].conv \in Ids \cup {None}
                            /\ flow[d].conv \in Ids \cup {None}
                            /\ chats[d].line # "none" => chats[d].conv # None
                            /\ mode[d] \in Modes \cup {"none"}
                            /\ d \in tabs \/ flow[d].kind = "over" => mode[d] \in Modes
         /\ saga \in SagaType /\ flow \in [Docs -> FlowType]
         /\ \A d \in Docs : Rejoins(flow[d]) => flow[d].conv # None
BY NoneIsNoId DEF LiveInv, TypesOK, ConvsTyped, RequestsTyped, OpensTyped, ChatsTyped, StartsTyped,
   FlowsTyped, SagaTyped, TabsTyped, RequestType, CallType, ChatType, FlowType

\* The tabs and the modes stay as they are, and no restart begins.
LEMMA TabsStay ==
  ASSUME LiveInv, mode' = mode, tabs' \subseteq tabs, pending' \in BOOLEAN,
         \A e \in Docs : flow'[e].kind = "over" => flow[e].kind = "over"
  PROVE  TabsTyped'
BY DEF LiveInv, TypesOK, TabsTyped

\* A conversation that the server makes.
LEMMA NewConversationTyped ==
  ASSUME LiveInv, Ids \subseteq Ids', NEW c \in Ids', NEW suffix, NEW as \in Modes,
         NewConversation(c, suffix, as), deletes' = deletes
  PROVE  ConvsTyped' /\ OpensTyped'
<1>1. CallType \subseteq CallType' /\ [conv |-> c, focus |-> HasLiveChat(suffix), as |-> as] \in CallType'
  BY DEF CallType, HasLiveChat
<1> QED
  BY <1>1, SentTypes DEF NewConversation, ConvsTyped, OpensTyped

-----------------------------------------------------------------------------
(* The server *)

LEMMA ConnectTyped ==
  ASSUME LiveInv, NEW r \in requests, r.doc \in Docs, NEW l \in {"connected", "made"},
         StartConversation(r, l)
  PROVE  LiveInv'
<1>1. /\ r.what = "connect" /\ requests' = requests \ {r} /\ r.conv \in Ids /\ r.conv # None
      /\ ids' = ids /\ deletes' = deletes
      /\ UNCHANGED <<mode, tabs, start, flow, saga, pending>>
  BY SentTypes DEF StartConversation
<1>2. IdsTyped' /\ Ids' = Ids /\ Ids \subseteq Ids'
  BY <1>1, NoneMade DEF LiveInv
<1>3. ConvsTyped' /\ OpensTyped'
  <2>1. CASE r.conv \in conversations
    BY <1>1, <1>2, <2>1, TypesStay DEF StartConversation, serverVars, LiveInv
  <2>2. CASE r.conv \notin conversations
    BY <1>1, <1>2, <2>2, NewConversationTyped DEF StartConversation, Modes
  <2> QED
    BY <2>1, <2>2
<1>4. ChatsTyped'
  <2>1. CASE chats[r.doc].conv = r.conv /\ chats[r.doc].line = "asking"
    BY <1>1, <2>1, LineTyped DEF StartConversation, LiveInv
  <2>2. CASE ~(chats[r.doc].conv = r.conv /\ chats[r.doc].line = "asking")
    BY <1>2, <2>2, TypesStay DEF StartConversation, LiveInv
  <2> QED
    BY <2>1, <2>2
<1>5. RequestsTyped'
  BY <1>1, <1>2, SentTypes DEF RequestsTyped, RequestType
<1>6. StartsTyped' /\ FlowsTyped' /\ SagaTyped'
  BY <1>1, <1>2, TypesStay DEF LiveInv
<1>7. TabsTyped'
  BY <1>1, SentTypes, TabsStay DEF TabsTyped
<1>8. RoomOK'
  <2>1. Over(flow') \subseteq Over(flow) /\ Creating(requests') \subseteq Creating(requests)
    BY <1>1 DEF Creating
  <2> QED
    BY <1>1, <2>1, RoomStays
<1> QED
  BY <1>2, <1>3, <1>4, <1>5, <1>6, <1>7, <1>8 DEF LiveInv, TypesOK

LEMMA CreateTyped ==
  ASSUME LiveInv, NEW r \in requests, CreateConversation(r)
  PROVE  LiveInv'
<1>1. /\ r.what = "create" /\ requests' = requests \ {r}
      /\ UNCHANGED <<deletes, mode, chats, tabs, start, saga, pending>>
      /\ r.conv \in Ids \cup {None} /\ r.doc \in Docs \cup {None} /\ r.as \in Modes
      /\ flow' = IF r.doc # None /\ flow[r.doc].pc = "post" THEN [flow EXCEPT ![r.doc] = NoFlow] ELSE flow
  BY SentTypes DEF CreateConversation
<1>2. ASSUME Ids \subseteq Ids'
      PROVE  /\ FlowsTyped' /\ Over(flow') \subseteq Over(flow)
             /\ \A e \in Docs : flow'[e].kind = "over" => flow[e].kind = "over"
  <2>1. CASE r.doc # None /\ flow[r.doc].pc = "post"
    <3>1. r.doc \in Docs /\ flow' = [flow EXCEPT ![r.doc] = NoFlow]
      BY <1>1, <2>1
    <3>2. /\ FlowsTyped' /\ Over(flow') \subseteq Over(flow) \ {r.doc}
          /\ \A e \in Docs : flow'[e].kind = "over" => flow[e].kind = "over"
      BY <1>2, <3>1, FlowEnds DEF LiveInv
    <3> QED
      BY <3>2
  <2>2. CASE ~(r.doc # None /\ flow[r.doc].pc = "post")
    <3>1. flow' = flow
      BY <1>1, <2>2
    <3> QED
      BY <1>2, <3>1, TypesStay DEF LiveInv
  <2> QED
    BY <2>1, <2>2
<1>3. Creating(requests') \subseteq Creating(requests) \ {r}
  BY <1>1 DEF Creating
<1>4. ASSUME Ids \subseteq Ids', ConvsTyped', OpensTyped', IdsTyped', RoomOK' PROVE LiveInv'
  <2>1. ChatsTyped' /\ StartsTyped' /\ SagaTyped' /\ FlowsTyped'
    BY <1>1, <1>2, <1>4, TypesStay DEF LiveInv
  <2>2. RequestsTyped'
    <3>1. requests \subseteq RequestType /\ RequestType \subseteq RequestType'
      BY <1>4, TypesGrow, SentTypes DEF RequestsTyped
    <3> QED
      BY <1>1, <3>1, SentTypes DEF RequestsTyped
  <2>3. TabsTyped'
    BY <1>1, <1>2, <1>4, SentTypes, TabsStay DEF TabsTyped
  <2> QED
    BY <1>4, <2>1, <2>2, <2>3 DEF LiveInv, TypesOK
<1>5. CASE /\ r.conv = None /\ ids' = Append(ids, "livechat")
           /\ NewConversation(Len(ids'), "livechat", r.as)
  <2>1. /\ IdsTyped' /\ Ids \subseteq Ids' /\ Len(ids') = Len(ids) + 1 /\ Len(ids) \in Nat
        /\ Len(ids') \in Ids'
    BY <1>5, OneMade DEF LiveInv, Modes
  <2>2. ConvsTyped' /\ OpensTyped'
    BY <1>1, <1>5, <2>1, NewConversationTyped
  <2>3. r \in Creating(requests) /\ Len(ids') \in Nat /\ Len(ids') <= Len(ids) + 1
    BY <1>1, <1>5, <2>1 DEF Creating
  <2>4. RoomOK'
    BY <1>2, <1>3, <2>1, <2>3, RequestMakes
  <2> QED
    BY <1>4, <2>1, <2>2, <2>4
<1>6. CASE ids' = ids /\ r.conv # None /\ NewConversation(r.conv, ids[r.conv], r.as)
  <2>1. IdsTyped' /\ Ids' = Ids /\ Ids \subseteq Ids'
    BY <1>6, NoneMade DEF LiveInv
  <2>2. r.conv \in Ids'
    BY <1>1, <1>6, <2>1
  <2>3. ConvsTyped' /\ OpensTyped'
    BY <1>1, <1>6, <2>1, <2>2, NewConversationTyped
  <2>4. RoomOK'
    BY <1>2, <1>3, <1>6, <2>1, RoomStays
  <2> QED
    BY <1>4, <2>1, <2>3, <2>4
<1>7. CASE UNCHANGED <<ids, conversations, opens>>
  <2>1. IdsTyped' /\ Ids' = Ids /\ Ids \subseteq Ids'
    BY <1>7, NoneMade DEF LiveInv
  <2>2. ConvsTyped' /\ OpensTyped'
    BY <1>1, <1>7, <2>1, TypesStay DEF LiveInv
  <2>3. RoomOK'
    BY <1>2, <1>3, <1>7, <2>1, RoomStays
  <2> QED
    BY <1>4, <2>1, <2>2, <2>3
<1>8. \/ r.conv = None /\ ids' = Append(ids, "livechat")
           /\ NewConversation(Len(ids'), "livechat", r.as)
      \/ ids' = ids /\ r.conv # None /\ NewConversation(r.conv, ids[r.conv], r.as)
      \/ UNCHANGED <<ids, conversations, opens>>
  BY DEF CreateConversation
<1> QED
  BY <1>5, <1>6, <1>7, <1>8

-----------------------------------------------------------------------------
(* The steps that make no id, and want none *)

LEMMA QuietTyped ==
  ASSUME LiveInv, ids' = ids, Over(flow') \subseteq Over(flow),
         \A e \in Docs : flow'[e].kind = "over" => flow[e].kind = "over",
         Creating(requests') \subseteq Creating(requests), mode' = mode, tabs' \subseteq tabs,
         pending' \in BOOLEAN, conversations' \subseteq conversations, opens' \subseteq opens,
         deletes' \subseteq Ids,
         requests' = requests \/ RequestsTyped', chats' = chats \/ ChatsTyped',
         start' = start \/ StartsTyped', flow' = flow \/ FlowsTyped', saga' = saga \/ SagaTyped'
  PROVE  LiveInv'
<1>1. IdsTyped' /\ Ids' = Ids /\ Ids \subseteq Ids'
  BY NoneMade DEF LiveInv
<1>2. ConvsTyped' /\ OpensTyped'
  BY <1>1, SentTypes DEF ConvsTyped, OpensTyped, CallType
<1>3. RequestsTyped' /\ ChatsTyped' /\ StartsTyped' /\ FlowsTyped' /\ SagaTyped'
  BY <1>1, TypesStay DEF LiveInv
<1>4. TabsTyped'
  BY TabsStay
<1>5. RoomOK'
  BY RoomStays
<1> QED
  BY <1>1, <1>2, <1>3, <1>4, <1>5 DEF LiveInv, TypesOK

LEMMA DeleteTyped ==
  ASSUME LiveInv, NEW c \in deletes, DeleteConversation(c)
  PROVE  LiveInv'
BY QuietTyped, SentTypes DEF DeleteConversation, TabsTyped

LEMMA SagaStepsTyped ==
  ASSUME LiveInv, SagaSteps
  PROVE  LiveInv'
<1>1. UNCHANGED <<ids, conversations, requests, opens, deletes, mode, chats, tabs, start>>
  BY DEF SagaSteps, EndpointAnswered, SpeechTokenArrives
<1>2. /\ Resolved(saga, flow) \in [Docs -> FlowType]
      /\ \A e \in Docs : /\ Resolved(saga, flow)[e].kind = flow[e].kind
                         /\ Rejoins(Resolved(saga, flow)[e]) => Resolved(saga, flow)[e].conv # None
  BY SentTypes, ResolvedTyped DEF LiveInv, TypesOK, SagaTyped
<1>3. /\ saga' = NoSaga \/ saga' = [saga EXCEPT !.pc = "speech"]
      /\ flow' = flow \/ flow' = Resolved(saga, flow)
  BY DEF SagaSteps, EndpointAnswered, SpeechTokenArrives
<1>4. pending' \in BOOLEAN
  BY SentTypes DEF SagaSteps, EndpointAnswered, SpeechTokenArrives, TabsTyped
<1>5. Ids' = Ids /\ FlowType' = FlowType /\ SagaType' = SagaType
  BY <1>1 DEF Ids, FlowType, SagaType
<1>6. SagaTyped'
  <2>1. CASE saga' = NoSaga
    BY <1>5, <2>1, NothingTyped DEF SagaTyped
  <2>2. CASE saga' = [saga EXCEPT !.pc = "speech"]
    <3>1. saga \in SagaType /\ (saga.resolver => saga.doc # None)
      BY DEF LiveInv, TypesOK, SagaTyped
    <3>2. saga' \in SagaType /\ saga'.resolver = saga.resolver /\ saga'.doc = saga.doc
      BY <2>2, <3>1 DEF SagaType
    <3> QED
      BY <1>5, <3>1, <3>2 DEF SagaTyped
  <2> QED
    BY <1>3, <2>1, <2>2
<1>7. /\ \A e \in Docs : flow'[e].kind = flow[e].kind
      /\ flow' = flow \/ FlowsTyped'
  BY <1>2, <1>3, <1>5 DEF FlowsTyped
<1>8. Over(flow') \subseteq Over(flow) /\ Creating(requests') \subseteq Creating(requests)
  BY <1>1, <1>7 DEF Over
<1> QED
  BY <1>1, <1>4, <1>6, <1>7, <1>8, QuietTyped, SentTypes

LEMMA UserIsSetTyped ==
  ASSUME LiveInv, NEW d \in Docs, UserIsSet(d)
  PROVE  LiveInv'
<1>1. /\ start[d].pc = "user" /\ start' = [start EXCEPT ![d] = NotStarting]
      /\ UNCHANGED <<ids, conversations, requests, opens, deletes, mode, tabs, flow, saga, pending>>
  BY DEF UserIsSet
<1>2. Ids' = Ids /\ StartType' = StartType /\ Ids \subseteq Ids'
  BY <1>1 DEF Ids, StartType
<1>3. start[d].conv \in Ids /\ start \in [Docs -> StartType] /\ start[d].conv # None
  BY <1>1 DEF LiveInv, TypesOK, StartsTyped, StartType
<1>4. StartsTyped'
  <2>1. /\ start' \in [Docs -> StartType] /\ start'[d] = NotStarting
        /\ \A e \in Docs : e # d => start'[e] = start[e]
    BY <1>1, <1>3, NothingTyped
  <2> QED
    BY <1>2, <2>1, NothingTyped DEF LiveInv, TypesOK, StartsTyped
<1>5. chats' = chats \/ ChatsTyped'
  <2>1. CASE Stored(d)
    <3> DEFINE c == [chats[d] EXCEPT !.conv = start[d].conv, !.line = "made"]
    <3>1. c \in ChatType /\ c.conv # None
      BY <1>3, SentTypes DEF ChatType
    <3>2. chats' = [chats EXCEPT ![d] = c]
      BY <2>1 DEF UserIsSet, Replaced
    <3> HIDE DEF c
    <3> QED
      BY <1>1, <3>1, <3>2, ChatTyped DEF LiveInv
  <2>2. CASE ~Stored(d)
    BY <2>2 DEF UserIsSet
  <2> QED
    BY <2>1, <2>2
<1>6. pending' \in BOOLEAN /\ deletes' \subseteq Ids
  BY <1>1, SentTypes DEF TabsTyped
<1> QED
  BY <1>1, <1>4, <1>5, <1>6, QuietTyped

LEMMA LineConnectsTyped ==
  ASSUME LiveInv, NEW d \in Docs, LineConnects(d)
  PROVE  LiveInv'
<1> DEFINE r == [what |-> "connect", doc |-> d, conv |-> chats[d].conv, as |-> "livechat"]
<1>1. /\ chats[d].line = "made" /\ Line(d, "asking") /\ requests' = requests \cup {r}
      /\ UNCHANGED <<ids, conversations, opens, deletes, mode, tabs, start, flow, saga, pending>>
  BY DEF LineConnects
<1>2. chats[d].conv \in Ids /\ chats[d].conv # None
  BY <1>1, SentTypes
<1>3. r \in RequestType /\ r.what = "connect" /\ r.conv # None
  BY <1>2 DEF RequestType, Modes
<1> HIDE DEF r
<1>4. ChatsTyped'
  BY <1>1, <1>2, LineTyped DEF LiveInv
<1>5. RequestType' = RequestType
  BY <1>1 DEF RequestType, Ids
<1>6. RequestsTyped'
  BY <1>1, <1>3, <1>5 DEF LiveInv, TypesOK, RequestsTyped
<1>7. Over(flow') \subseteq Over(flow) /\ Creating(requests') \subseteq Creating(requests)
  BY <1>1, <1>3 DEF Over, Creating
<1>8. pending' \in BOOLEAN /\ deletes' \subseteq Ids
  BY <1>1, SentTypes DEF TabsTyped
<1> QED
  BY <1>1, <1>4, <1>6, <1>7, <1>8, QuietTyped

LEMMA CloseTabTyped ==
  ASSUME LiveInv, NEW d \in Docs, CloseTab(d)
  PROVE  LiveInv'
<1>1. /\ tabs' = tabs \ {d} /\ chats' = [chats EXCEPT ![d] = NoChat]
      /\ deletes' = deletes \cup ({chats[d].conv} \ {None})
      /\ UNCHANGED <<ids, conversations, requests, opens, mode, start, flow, saga, pending>>
  BY DEF CloseTab, Replaced
<1>2. ChatsTyped'
  BY <1>1, NothingTyped, ChatTyped DEF LiveInv
<1>3. deletes' \subseteq Ids /\ pending' \in BOOLEAN
  BY <1>1, SentTypes DEF TabsTyped
<1> QED
  BY <1>1, <1>2, <1>3, QuietTyped

LEMMA CloseAllTyped ==
  ASSUME LiveInv, CloseNonGlobalTabs
  PROVE  LiveInv'
<1>1. /\ tabs' = {} /\ chats' = [e \in Docs |-> NoChat] /\ pending' = FALSE
      /\ UNCHANGED <<ids, conversations, requests, opens, deletes, mode, start, flow, saga>>
  BY DEF CloseNonGlobalTabs
<1>2. ChatType' = ChatType
  BY <1>1 DEF ChatType, Ids
<1>3. ChatsTyped'
  BY <1>1, <1>2, NothingTyped DEF ChatsTyped
<1>4. deletes' \subseteq Ids
  BY <1>1, SentTypes
<1> QED
  BY <1>1, <1>3, <1>4, QuietTyped

\* The restarts of debug chats take the id that they have.
LEMMA ReconnectTyped ==
  ASSUME LiveInv, NEW d \in Docs, Reconnect(d)
  PROVE  LiveInv'
<1> DEFINE x == [kind |-> "reconnect", conv |-> chats[d].conv, pc |-> "endpoint"]
<1>1. /\ flow' = [flow EXCEPT ![d] = x]
      /\ UNCHANGED <<ids, conversations, requests, opens, deletes, mode, chats, tabs, start,
                     saga, pending>>
  BY DEF Reconnect
<1>2. x \in FlowType /\ ~Rejoins(x) /\ x.kind = "reconnect"
  BY SentTypes DEF FlowType, Rejoins
<1> HIDE DEF x
<1>3. /\ flow' \in [Docs -> FlowType] /\ flow'[d] = x
      /\ \A e \in Docs : e # d => flow'[e] = flow[e]
  BY <1>1, <1>2, SentTypes
<1>4. FlowType' = FlowType
  BY <1>1 DEF FlowType, Ids
<1>5. /\ FlowsTyped' /\ Over(flow') \subseteq Over(flow)
      /\ \A e \in Docs : flow'[e].kind = "over" => flow[e].kind = "over"
  BY <1>2, <1>3, <1>4, SentTypes DEF FlowsTyped, Over
<1>6. pending' \in BOOLEAN /\ deletes' \subseteq Ids
  BY <1>1, SentTypes DEF TabsTyped
<1> QED
  BY <1>1, <1>5, <1>6, QuietTyped

\* A restart goes on to the await pc.
LEMMA FlowAt ==
  ASSUME LiveInv, NEW d \in Docs, NEW kind \in {"over", "reconnect"},
         NEW pc \in {"log", "cleared", "post"}, kind = "reconnect" => flow[d].conv # None
  PROVE  /\ Goes(d, kind, pc) \in [Docs -> FlowType] /\ Goes(d, kind, pc)[d].kind = kind
         /\ \A e \in Docs : /\ e # d => Goes(d, kind, pc)[e] = flow[e]
                            /\ Rejoins(Goes(d, kind, pc)[e]) => Goes(d, kind, pc)[e].conv # None
<1> DEFINE x == [flow[d] EXCEPT !.kind = kind, !.pc = pc]
<1>1. flow[d] \in FlowType /\ flow \in [Docs -> FlowType]
  BY SentTypes
<1>2. x \in FlowType /\ x.kind = kind /\ x.conv = flow[d].conv
  BY <1>1 DEF FlowType
<1>3. Goes(d, kind, pc) = [flow EXCEPT ![d] = x]
  BY <1>1 DEF Goes
<1> HIDE DEF x
<1>4. /\ Goes(d, kind, pc) \in [Docs -> FlowType] /\ Goes(d, kind, pc)[d] = x
      /\ \A e \in Docs : e # d => Goes(d, kind, pc)[e] = flow[e]
  BY <1>1, <1>2, <1>3
<1>5. Rejoins(x) => x.conv # None
  BY <1>2 DEF Rejoins
<1> QED
  BY <1>2, <1>4, <1>5, SentTypes

LEMMA ReconnectEndpointTyped ==
  ASSUME LiveInv, NEW d \in Docs, ReconnectEndpoint(d)
  PROVE  LiveInv'
<1>1. /\ flow[d].pc = "endpoint" /\ Ids' = Ids /\ Ids \subseteq Ids'
      /\ UNCHANGED <<ids, conversations, requests, opens, deletes, mode, tabs, start>>
  BY DEF ReconnectEndpoint, Ids
<1>2. deletes' \subseteq Ids
  BY <1>1, SentTypes
<1>3. CASE flow[d].conv \in conversations /\ Stored(d)
  <2> DEFINE f == Goes(d, "reconnect", "log")
  <2>1. Line(d, "none") /\ RunsNewChat(d, chats[d].conv, TRUE, f)
    BY <1>3 DEF ReconnectEndpoint, ClearsLog
  <2>2. flow[d].conv # None /\ chats[d].conv \in Ids \cup {None}
    BY <1>3, SentTypes, NoneIsNoId
  <2>3. /\ f \in [Docs -> FlowType] /\ f[d].kind = "reconnect"
        /\ \A e \in Docs : /\ e # d => f[e] = flow[e]
                           /\ Rejoins(f[e]) => f[e].conv # None
    BY <2>2, FlowAt
  <2> HIDE DEF f
  <2>4. ChatsTyped'
    BY <1>1, <2>1, LineTyped DEF LiveInv
  <2>5. /\ SagaTyped' /\ FlowsTyped' /\ pending' \in BOOLEAN
        /\ \A e \in Docs : flow'[e].kind = f[e].kind
    BY <1>1, <2>1, <2>2, <2>3, SagaStarts DEF LiveInv
  <2>6. \A e \in Docs : flow'[e].kind = "over" => flow[e].kind = "over"
    BY <2>3, <2>5
  <2>7. Over(flow') \subseteq Over(flow)
    BY <2>6 DEF Over
  <2> QED
    BY <1>1, <1>2, <2>4, <2>5, <2>6, <2>7, QuietTyped
<1>4. CASE flow' = [flow EXCEPT ![d] = NoFlow] /\ UNCHANGED <<chats, saga, pending>>
  <2>1. /\ FlowsTyped' /\ Over(flow') \subseteq Over(flow) \ {d}
        /\ \A e \in Docs : flow'[e].kind = "over" => flow[e].kind = "over"
    BY <1>1, <1>4, FlowEnds DEF LiveInv
  <2>2. Over(flow') \subseteq Over(flow) /\ pending' \in BOOLEAN
    BY <1>4, <2>1, SentTypes DEF TabsTyped
  <2> QED
    BY <1>1, <1>2, <1>4, <2>1, <2>2, QuietTyped
<1> QED
  BY <1>3, <1>4 DEF ReconnectEndpoint

LEMMA ReconnectClearedTyped ==
  ASSUME LiveInv, NEW d \in Docs, ReconnectCleared(d)
  PROVE  LiveInv'
<1> DEFINE r == [what |-> "create", doc |-> d, conv |-> flow[d].conv, as |-> "debug"]
           f == Goes(d, "reconnect", "post")
<1>1. /\ flow[d].kind = "reconnect" /\ flow[d].pc = "cleared"
      /\ IF Stored(d) THEN UNCHANGED chats ELSE Replaced(d, Ghost)
      /\ flow' = f /\ requests' = requests \cup {r}
      /\ UNCHANGED <<ids, conversations, opens, deletes, mode, tabs, start, saga, pending>>
  BY DEF ReconnectCleared
<1>2. flow[d].conv # None /\ flow[d].conv \in Ids
  BY <1>1, SentTypes DEF Rejoins
<1>3. /\ f \in [Docs -> FlowType] /\ f[d].kind = "reconnect"
      /\ \A e \in Docs : /\ e # d => f[e] = flow[e]
                         /\ Rejoins(f[e]) => f[e].conv # None
  BY <1>2, FlowAt
<1>4. r \in RequestType /\ r.conv # None
  BY <1>2 DEF RequestType, Modes
<1> HIDE DEF r, f
<1>5. Ids' = Ids /\ FlowType' = FlowType /\ RequestType' = RequestType
  BY <1>1 DEF Ids, FlowType, RequestType
<1>6. /\ FlowsTyped' /\ Over(flow') \subseteq Over(flow)
      /\ \A e \in Docs : flow'[e].kind = "over" => flow[e].kind = "over"
  BY <1>1, <1>3, <1>5 DEF FlowsTyped, Over
<1>7. RequestsTyped' /\ Creating(requests') \subseteq Creating(requests)
  BY <1>1, <1>4, <1>5 DEF LiveInv, TypesOK, RequestsTyped, Creating
<1>8. chats' = chats \/ ChatsTyped'
  BY <1>1, NothingTyped, ChatTyped DEF Replaced, LiveInv
<1>9. pending' \in BOOLEAN /\ deletes' \subseteq Ids
  BY <1>1, SentTypes DEF TabsTyped
<1> QED
  BY <1>1, <1>6, <1>7, <1>8, <1>9, QuietTyped

-----------------------------------------------------------------------------
(* The steps that make an id, or want one *)

LEMMA ReceivesPropsTyped ==
  ASSUME LiveInv, NEW d \in Docs, ReceivesProps(d)
  PROVE  LiveInv'
<1>1. /\ d \in tabs /\ (chats[d].conv = None => Room) /\ Begins(d, mode[d], chats[d].conv, FALSE)
      /\ UNCHANGED <<conversations, requests, opens, deletes, mode, chats, tabs, flow, saga,
                     pending>>
  BY DEF ReceivesProps
<1>2. mode[d] \in Modes /\ chats[d].conv \in Ids \cup {None}
  BY <1>1, SentTypes
<1>3. /\ IdsTyped' /\ Ids \subseteq Ids' /\ StartsTyped'
      /\ Len(ids') \in Nat /\ Len(ids') <= Len(ids) + 1 /\ Len(ids) \in Nat
      /\ chats[d].conv # None => ids' = ids
  BY <1>1, <1>2, BeginsTyped DEF LiveInv
<1>4. ConvsTyped' /\ RequestsTyped' /\ OpensTyped' /\ ChatsTyped' /\ FlowsTyped' /\ SagaTyped'
  BY <1>1, <1>3, TypesStay DEF LiveInv
<1>5. TabsTyped'
  BY <1>1, SentTypes, TabsStay DEF TabsTyped
<1>6. RoomOK'
  <2>1. Over(flow') \subseteq Over(flow) /\ Creating(requests') \subseteq Creating(requests)
    BY <1>1
  <2>2. CASE chats[d].conv = None
    <3>1. Room /\ 1 \in 0..1 /\ 0 \in 0..1 /\ 1 + 0 + 0 <= 1
      BY <1>1, <2>2
    <3> QED
      BY <1>3, <2>1, <3>1, RoomTaken
  <2>3. CASE chats[d].conv # None
    BY <1>3, <2>1, <2>3, RoomStays
  <2> QED
    BY <2>2, <2>3
<1> QED
  BY <1>3, <1>4, <1>5, <1>6 DEF LiveInv, TypesOK

LEMMA OpenBotViaUrlTyped ==
  ASSUME LiveInv, NEW as \in Modes, OpenBotViaUrl(as)
  PROVE  LiveInv'
<1> DEFINE r == [what |-> "create", doc |-> None, conv |-> None, as |-> as]
<1>1. /\ Room /\ requests' = requests \cup {r}
      /\ UNCHANGED <<ids, conversations, opens, deletes, mode, chats, tabs, start, flow, saga,
                     pending>>
  BY DEF OpenBotViaUrl
<1>2. r \in RequestType /\ r.what = "create"
  BY DEF RequestType
<1> HIDE DEF r
<1>3. IdsTyped' /\ Ids' = Ids /\ Ids \subseteq Ids' /\ Len(ids') = Len(ids) /\ Len(ids) \in Nat
  BY <1>1, NoneMade DEF LiveInv
<1>4. ConvsTyped' /\ OpensTyped' /\ ChatsTyped' /\ StartsTyped' /\ FlowsTyped' /\ SagaTyped'
  BY <1>1, <1>3, TypesStay DEF LiveInv
<1>5. RequestsTyped'
  <2>1. RequestType' = RequestType
    BY <1>3 DEF RequestType
  <2> QED
    BY <1>1, <1>2, <2>1 DEF LiveInv, TypesOK, RequestsTyped
<1>6. TabsTyped'
  BY <1>1, SentTypes, TabsStay DEF TabsTyped
<1>7. RoomOK'
  <2>1. Over(flow') \subseteq Over(flow)
    BY <1>1
  <2>2. \E x : Creating(requests') \subseteq Creating(requests) \cup {x}
    BY <1>1 DEF Creating
  <2>3. /\ 0 \in 0..1 /\ 1 \in 0..1 /\ 0 + 0 + 1 <= 1
        /\ Len(ids') <= Len(ids) + 0 /\ Len(ids') \in Nat
    BY <1>3
  <2> QED
    BY <1>1, <2>1, <2>2, <2>3, RoomTaken
<1> QED
  BY <1>3, <1>4, <1>5, <1>6, <1>7 DEF LiveInv, TypesOK

LEMMA StartOverTyped ==
  ASSUME LiveInv, NEW d \in Docs, StartOver(d)
  PROVE  LiveInv'
<1> DEFINE f == Goes(d, "over", "log")
           l == IF chats[d].line = "none" THEN "none" ELSE "ended"
<1>1. /\ d \in tabs /\ Room /\ Line(d, l) /\ RunsNewChat(d, chats[d].conv, TRUE, f)
      /\ UNCHANGED <<ids, conversations, requests, opens, deletes, mode, tabs, start>>
  BY DEF StartOver, ClearsLog
<1>2. /\ l \in {"none", "made", "asking", "connected", "ended"}
      /\ l # "none" => chats[d].conv # None
      /\ chats[d].conv \in Ids \cup {None}
  BY SentTypes
<1>3. /\ f \in [Docs -> FlowType] /\ f[d].kind = "over"
      /\ \A e \in Docs : /\ e # d => f[e] = flow[e]
                         /\ Rejoins(f[e]) => f[e].conv # None
  BY FlowAt
<1> HIDE DEF f, l
<1>4. IdsTyped' /\ Ids' = Ids /\ Ids \subseteq Ids' /\ Len(ids') = Len(ids) /\ Len(ids) \in Nat
  BY <1>1, NoneMade DEF LiveInv
<1>5. ConvsTyped' /\ RequestsTyped' /\ OpensTyped' /\ StartsTyped'
  BY <1>1, <1>4, TypesStay DEF LiveInv
<1>6. ChatsTyped'
  BY <1>1, <1>2, LineTyped DEF LiveInv
<1>7. /\ SagaTyped' /\ FlowsTyped' /\ pending' \in BOOLEAN
      /\ \A e \in Docs : flow'[e].kind = f[e].kind
  BY <1>1, <1>2, <1>3, <1>4, SagaStarts DEF LiveInv
<1>8. \A e \in Docs : flow'[e].kind = "over" => e = d \/ flow[e].kind = "over"
  BY <1>3, <1>7
<1>9. TabsTyped'
  BY <1>1, <1>7, <1>8, SentTypes DEF TabsTyped
<1>10. RoomOK'
  <2>1. \E x : Over(flow') \subseteq Over(flow) \cup {x}
    BY <1>8 DEF Over
  <2>2. Creating(requests') \subseteq Creating(requests)
    BY <1>1
  <2>3. /\ 0 \in 0..1 /\ 1 \in 0..1 /\ 0 + 1 + 0 <= 1
        /\ Len(ids') <= Len(ids) + 0 /\ Len(ids') \in Nat
    BY <1>4
  <2> QED
    BY <1>1, <2>1, <2>2, <2>3, RoomTaken
<1> QED
  BY <1>4, <1>5, <1>6, <1>7, <1>9, <1>10 DEF LiveInv, TypesOK

LEMMA StartsOverTyped ==
  ASSUME LiveInv, NEW d \in Docs, StartsOver(d)
  PROVE  LiveInv'
<1>1. /\ flow[d].kind = "over" /\ Begins(d, mode[d], None, TRUE)
      /\ flow' = [flow EXCEPT ![d] = NoFlow]
      /\ UNCHANGED <<conversations, requests, opens, deletes, mode, chats, tabs, saga, pending>>
  BY DEF StartsOver
<1>2. mode[d] \in Modes /\ None \in Ids \cup {None}
  BY <1>1, SentTypes
<1>3. /\ IdsTyped' /\ Ids \subseteq Ids' /\ StartsTyped'
      /\ Len(ids') \in Nat /\ Len(ids') <= Len(ids) + 1 /\ Len(ids) \in Nat
  BY <1>1, <1>2, BeginsTyped DEF LiveInv
<1>4. ConvsTyped' /\ RequestsTyped' /\ OpensTyped' /\ ChatsTyped' /\ SagaTyped'
  BY <1>1, <1>3, TypesStay DEF LiveInv
<1>5. /\ FlowsTyped' /\ Over(flow') \subseteq Over(flow) \ {d}
      /\ \A e \in Docs : flow'[e].kind = "over" => flow[e].kind = "over"
  BY <1>1, <1>3, FlowEnds DEF LiveInv
<1>6. TabsTyped'
  BY <1>1, <1>5, SentTypes, TabsStay DEF TabsTyped
<1>7. RoomOK'
  <2>1. d \in Over(flow)
    BY <1>1 DEF Over
  <2> QED
    BY <1>1, <1>3, <1>5, <2>1, RestartMakes
<1> QED
  BY <1>3, <1>4, <1>5, <1>6, <1>7 DEF LiveInv, TypesOK

\* A tab is opened, for a conversation or for a new one.
LEMMA NewLiveChatTyped ==
  ASSUME LiveInv, NEW d \in Docs, NEW as \in Modes, NEW conv \in Ids \cup {None},
         NEW url \in Urls, NewLiveChat(d, as, conv, url), UNCHANGED <<conversations, requests, deletes>>
  PROVE  /\ IdsTyped' /\ Ids \subseteq Ids' /\ ConvsTyped' /\ RequestsTyped' /\ ChatsTyped'
         /\ StartsTyped' /\ FlowsTyped' /\ SagaTyped' /\ TabsTyped'
         /\ Over(flow') \subseteq Over(flow) /\ Creating(requests') \subseteq Creating(requests)
         /\ Len(ids') \in Nat /\ Len(ids') <= Len(ids) + 1
         /\ conv # None => ids' = ids
<1>1. /\ mode' = [mode EXCEPT ![d] = as] /\ chats' = [chats EXCEPT ![d] = Chat(conv, url)]
      /\ RunsNewChat(d, conv, FALSE, flow) /\ tabs' = tabs \cup {d}
      /\ Begins(d, as, conv, FALSE)
  BY DEF NewLiveChat, OpensChat, Replaced
<1>2. /\ IdsTyped' /\ Ids \subseteq Ids' /\ StartsTyped'
      /\ Len(ids') \in Nat /\ Len(ids') <= Len(ids) + 1 /\ Len(ids) \in Nat
      /\ conv # None => ids' = ids
  BY <1>1, BeginsTyped DEF LiveInv
<1>3. ConvsTyped' /\ RequestsTyped'
  BY <1>2, TypesStay DEF LiveInv
<1>4. /\ SagaTyped' /\ FlowsTyped' /\ pending' \in BOOLEAN
      /\ \A e \in Docs : flow'[e].kind = flow[e].kind
  <2>1. /\ TypesOK /\ FALSE \in BOOLEAN /\ flow \in [Docs -> FlowType]
        /\ \A e \in Docs : Rejoins(flow[e]) => flow[e].conv # None
    BY SentTypes
  <2>2. RunsNewChat(d, conv, FALSE, flow) /\ Ids \subseteq Ids'
    BY <1>1, <1>2
  <2> QED
    BY ONLY <2>1, <2>2, SagaStarts, d \in Docs, conv \in Ids \cup {None}
<1>5. ChatsTyped'
  <2>1. Chat(conv, url) \in ChatType /\ Chat(conv, url).line = "none"
    BY NothingTyped
  <2>2. chats \in [Docs -> ChatType] /\ \A e \in Docs : chats[e].line # "none" => chats[e].conv # None
    BY DEF LiveInv, TypesOK, ChatsTyped
  <2>3. /\ chats' \in [Docs -> ChatType] /\ chats'[d] = Chat(conv, url)
        /\ \A e \in Docs : e # d => chats'[e] = chats[e]
    BY <1>1, <2>1, <2>2
  <2>4. ChatType \subseteq ChatType'
    BY <1>2, TypesGrow
  <2> QED
    BY <2>1, <2>2, <2>3, <2>4 DEF ChatsTyped
<1>6. TabsTyped'
  <2>1. /\ mode \in [Docs -> Modes \cup {"none"}] /\ tabs \subseteq Docs
        /\ \A e \in Docs : e \in tabs \/ flow[e].kind = "over" => mode[e] \in Modes
    BY DEF LiveInv, TypesOK, TabsTyped
  <2>2. /\ mode' \in [Docs -> Modes \cup {"none"}] /\ mode'[d] \in Modes
        /\ \A e \in Docs : e # d => mode'[e] = mode[e]
    BY <1>1, <2>1
  <2>3. tabs' \subseteq Docs /\ \A e \in Docs : e \in tabs' => e = d \/ e \in tabs
    BY <1>1, <2>1
  <2> QED
    BY <1>4, <2>1, <2>2, <2>3 DEF TabsTyped
<1>7. Over(flow') \subseteq Over(flow)
  BY <1>4 DEF Over
<1>8. Creating(requests') \subseteq Creating(requests)
  OBVIOUS
<1> QED
  BY ONLY <1>2, <1>3, <1>4, <1>5, <1>6, <1>7, <1>8

LEMMA OpenEndpointTyped ==
  ASSUME LiveInv, NEW d \in Docs, OpenEndpoint(d)
  PROVE  LiveInv'
<1>. PICK url \in Urls : NewLiveChat(d, "livechat", None, url)
  BY DEF OpenEndpoint
<1>1. /\ Room /\ NewLiveChat(d, "livechat", None, url)
      /\ UNCHANGED <<conversations, requests, opens, deletes>>
      /\ UNCHANGED <<conversations, requests, deletes>>
      /\ "livechat" \in Modes /\ None \in Ids \cup {None}
  BY DEF OpenEndpoint, Modes
<1>2. /\ IdsTyped' /\ Ids \subseteq Ids' /\ ConvsTyped' /\ RequestsTyped' /\ ChatsTyped'
      /\ StartsTyped' /\ FlowsTyped' /\ SagaTyped' /\ TabsTyped'
      /\ Over(flow') \subseteq Over(flow) /\ Creating(requests') \subseteq Creating(requests)
      /\ Len(ids') \in Nat /\ Len(ids') <= Len(ids) + 1
  BY <1>1, NewLiveChatTyped
<1>3. OpensTyped'
  BY <1>1, <1>2, TypesStay DEF LiveInv
<1>4. RoomOK'
  <2>1. 1 \in 0..1 /\ 0 \in 0..1 /\ 1 + 0 + 0 <= 1
    OBVIOUS
  <2> QED
    BY <1>1, <1>2, <2>1, RoomTaken
<1> QED
  BY <1>2, <1>3, <1>4 DEF LiveInv, TypesOK

LEMMA NewLiveChatIsCalledTyped ==
  ASSUME LiveInv, NEW o \in opens, NEW url \in Urls, NewLiveChatIsCalled(o, url)
  PROVE  LiveInv'
<1>1. /\ opens' = opens \ {o} /\ UNCHANGED <<conversations, requests, deletes>>
      /\ o.conv \in Ids /\ o.conv # None /\ o.as \in Modes
  BY SentTypes DEF NewLiveChatIsCalled
<1>2. CASE UNCHANGED <<ids, mode, chats, tabs, start, flow, saga, pending>>
  <2>1. /\ Over(flow') \subseteq Over(flow) /\ Creating(requests') \subseteq Creating(requests)
        /\ pending' \in BOOLEAN /\ deletes' \subseteq Ids
    BY <1>1, <1>2, SentTypes DEF TabsTyped
  <2>2. \A e \in Docs : flow'[e].kind = "over" => flow[e].kind = "over"
    BY <1>2
  <2> QED
    BY <1>1, <1>2, <2>1, <2>2, QuietTyped
<1>3. ASSUME NEW d \in Docs, NewLiveChat(d, o.as, o.conv, url)
      PROVE  LiveInv'
  <2>1. /\ IdsTyped' /\ Ids \subseteq Ids' /\ ConvsTyped' /\ RequestsTyped' /\ ChatsTyped'
        /\ StartsTyped' /\ FlowsTyped' /\ SagaTyped' /\ TabsTyped'
        /\ Over(flow') \subseteq Over(flow) /\ Creating(requests') \subseteq Creating(requests)
        /\ ids' = ids
    BY <1>1, <1>3, NewLiveChatTyped
  <2>2. OpensTyped'
    <3>1. CallType' = CallType
      BY <2>1 DEF CallType, Ids
    <3> QED
      BY <1>1, <3>1 DEF LiveInv, TypesOK, OpensTyped
  <2>3. RoomOK'
    BY <2>1, RoomStays
  <2> QED
    BY <2>1, <2>2, <2>3 DEF LiveInv, TypesOK
<1> QED
  BY <1>2, <1>3 DEF NewLiveChatIsCalled

LEMMA StutterTyped == ASSUME LiveInv, UNCHANGED vars PROVE LiveInv'
<1>1. /\ UNCHANGED <<ids, conversations, requests, opens, deletes, mode, chats, tabs>>
      /\ UNCHANGED <<start, flow, saga, pending>>
  BY DEF vars
<1>2. /\ Over(flow') \subseteq Over(flow) /\ Creating(requests') \subseteq Creating(requests)
      /\ pending' \in BOOLEAN /\ deletes' \subseteq Ids
      /\ \A e \in Docs : flow'[e].kind = "over" => flow[e].kind = "over"
  BY <1>1, SentTypes DEF TabsTyped
<1> QED
  BY <1>1, <1>2, QuietTyped

-----------------------------------------------------------------------------
LEMMA InitTyped == Init => LiveInv
<1> SUFFICES ASSUME Init PROVE LiveInv
  OBVIOUS
<1>1. /\ ids = <<>> /\ conversations = {} /\ requests = {} /\ opens = {} /\ deletes = {}
      /\ mode = [d \in Docs |-> "none"] /\ chats = [d \in Docs |-> NoChat] /\ tabs = {}
      /\ start = [d \in Docs |-> NotStarting] /\ flow = [d \in Docs |-> NoFlow]
      /\ saga = NoSaga /\ pending = FALSE
  BY DEF Init
<1>2. IdsTyped /\ ConvsTyped /\ RequestsTyped /\ OpensTyped
  BY <1>1 DEF IdsTyped, ConvsTyped, RequestsTyped, OpensTyped
<1>3. ChatsTyped /\ StartsTyped /\ FlowsTyped /\ SagaTyped
  BY <1>1, NothingTyped DEF ChatsTyped, StartsTyped, FlowsTyped, SagaTyped
<1>4. TabsTyped
  BY <1>1, NothingTyped DEF TabsTyped
<1>5. RoomOK
  <2>1. Over(flow) = {} /\ Creating(requests) = {}
    BY <1>1, NothingTyped DEF Over, Creating
  <2>2. IsFiniteSet({}) /\ Cardinality({}) = 0
    BY FS_EmptySet
  <2>3. Len(ids) = 0 /\ MaxConvs \in Nat
    BY <1>1, BoundAssumption
  <2>4. Wanted(ids, flow, requests) <= MaxConvs
    BY <2>1, <2>2, <2>3 DEF Wanted
  <2> QED
    BY <2>1, <2>2, <2>4 DEF RoomOK
<1> QED
  BY <1>2, <1>3, <1>4, <1>5 DEF LiveInv, TypesOK

LEMMA StepTyped == LiveInv /\ [Next]_vars => LiveInv'
<1> SUFFICES ASSUME LiveInv, [Next]_vars PROVE LiveInv'
  OBVIOUS
<1>1. CASE UNCHANGED vars
  BY <1>1, StutterTyped
<1>2. CASE UserActs
  <2>1. ASSUME NEW d \in Docs, OpenEndpoint(d) PROVE LiveInv'
    BY <2>1, OpenEndpointTyped
  <2>2. ASSUME NEW as \in Modes, OpenBotViaUrl(as) PROVE LiveInv'
    BY <2>2, OpenBotViaUrlTyped
  <2>3. ASSUME NEW d \in Docs, CloseTab(d) PROVE LiveInv'
    BY <2>3, CloseTabTyped
  <2>4. ASSUME NEW d \in Docs, StartOver(d) PROVE LiveInv'
    BY <2>4, StartOverTyped
  <2>5. ASSUME NEW d \in Docs, Reconnect(d) PROVE LiveInv'
    BY <2>5, ReconnectTyped
  <2>6. CASE CloseNonGlobalTabs
    BY <2>6, CloseAllTyped
  <2> QED
    BY <1>2, <2>1, <2>2, <2>3, <2>4, <2>5, <2>6 DEF UserActs
<1>3. CASE Creates
  BY <1>3, CreateTyped DEF Creates
<1>4. CASE Deletes
  BY <1>4, DeleteTyped DEF Deletes
<1>5. CASE Opens
  BY <1>5, NewLiveChatIsCalledTyped DEF Opens
<1>6. CASE SagaSteps
  BY <1>6, SagaStepsTyped
<1>7. ASSUME NEW d \in Docs, UserIsSet(d) PROVE LiveInv'
  BY <1>7, UserIsSetTyped
<1>8. ASSUME NEW d \in Docs, LineConnects(d) PROVE LiveInv'
  BY <1>8, LineConnectsTyped
<1>9. ASSUME NEW d \in Docs, Restarts(d) PROVE LiveInv'
  BY <1>9, StartsOverTyped, ReconnectEndpointTyped, ReconnectClearedTyped DEF Restarts
<1>10. ASSUME NEW d \in Docs, ReceivesProps(d) PROVE LiveInv'
  BY <1>10, ReceivesPropsTyped
<1>11. ASSUME NEW d \in Docs, NEW l \in {"connected", "made"}, Answers(d, l) PROVE LiveInv'
  BY <1>11, ConnectTyped DEF Answers
<1> QED
  BY <1>1, <1>2, <1>3, <1>4, <1>5, <1>6, <1>7, <1>8, <1>9, <1>10, <1>11 DEF Next

\* No id is past the bound, as room is kept for each that is still to be made.
LEMMA TypesMeant == LiveInv => TypeOK
<1> SUFFICES ASSUME LiveInv PROVE TypeOK
  OBVIOUS
<1>1. ids \in Seq(Modes) /\ Len(ids) \in Nat /\ MaxConvs \in Nat /\ DOMAIN ids = Ids
  BY BoundAssumption DEF LiveInv, TypesOK, IdsTyped, Ids
<1>2. Len(ids) <= MaxConvs
  <2>1. /\ Cardinality(Over(flow)) \in Nat /\ Cardinality(Creating(requests)) \in Nat
        /\ Wanted(ids, flow, requests) <= MaxConvs
    BY FS_CardinalityType DEF LiveInv, RoomOK
  <2> QED
    BY <1>1, <2>1 DEF Wanted
<1>3. Ids \subseteq Convs
  BY <1>1, <1>2 DEF Ids, Convs
<1>4. conversations \subseteq DOMAIN ids /\ deletes \subseteq DOMAIN ids
  BY <1>1, SentTypes
<1>5. \A r \in requests : r.what = "connect" => r.conv \in DOMAIN ids
  BY <1>1, SentTypes
<1>6. requests \subseteq [what : {"connect", "create"}, doc : Docs \cup {None},
                         conv : Convs \cup {None}, as : Modes]
  BY <1>3 DEF LiveInv, TypesOK, RequestsTyped, RequestType
<1>7. opens \subseteq [conv : DOMAIN ids, focus : BOOLEAN, as : Modes]
  BY <1>1 DEF LiveInv, TypesOK, OpensTyped, CallType
<1>8. mode \in [Docs -> Modes \cup {"none"}] /\ tabs \subseteq Docs /\ pending \in BOOLEAN
  BY DEF LiveInv, TypesOK, TabsTyped
<1>9. chats \in [Docs -> [is : {"none", "chat", "ghost"}, conv : Convs \cup {None},
                          url : Urls \cup {None},
                          line : {"none", "made", "asking", "connected", "ended"}]]
  <2>1. ChatType \subseteq [is : {"none", "chat", "ghost"}, conv : Convs \cup {None},
                            url : Urls \cup {None},
                            line : {"none", "made", "asking", "connected", "ended"}]
    BY <1>3 DEF ChatType
  <2> QED
    BY <2>1 DEF LiveInv, TypesOK, ChatsTyped
<1>10. start \in [Docs -> [pc : {"idle", "user"}, conv : Convs \cup {None}]]
  <2>1. StartType \subseteq [pc : {"idle", "user"}, conv : Convs \cup {None}]
    BY <1>3 DEF StartType
  <2> QED
    BY <2>1 DEF LiveInv, TypesOK, StartsTyped
<1>11. flow \in [Docs -> [kind : {"none", "over", "reconnect"}, conv : Convs \cup {None},
                          pc : {"idle", "endpoint", "log", "cleared", "post"}]]
  <2>1. FlowType \subseteq [kind : {"none", "over", "reconnect"}, conv : Convs \cup {None},
                            pc : {"idle", "endpoint", "log", "cleared", "post"}]
    BY <1>3 DEF FlowType
  <2> QED
    BY <2>1 DEF LiveInv, TypesOK, FlowsTyped
<1>12. saga \in [doc : Docs \cup {None}, conv : Convs \cup {None}, resolver : BOOLEAN,
                 pc : {"idle", "endpoint", "speech"}]
  BY <1>3 DEF LiveInv, TypesOK, SagaTyped, SagaType
<1> QED
  BY <1>1, <1>2, <1>4, <1>5, <1>6, <1>7, <1>8, <1>9, <1>10, <1>11, <1>12 DEF TypeOK

\* Whatever the user does: what is sent, restarted or rejoined is of an id that was made,
\* a restart that goes on has a tab's mode to go on with, and the ids made and those still
\* owed to a restart or a request are together within the bound.
THEOREM LiveInvariant == Spec => []LiveInv
<1>1. Init => LiveInv
  BY InitTyped
<1>2. LiveInv /\ [Next]_vars => LiveInv'
  BY StepTyped
<1> QED
  BY <1>1, <1>2, PTL DEF Spec

\* No request, call, chat or deletion is of a conversation id that was never made.
THEOREM LiveChatTyped == Spec => []TypeOK
BY LiveInvariant, TypesMeant, PTL
===============================================================================
