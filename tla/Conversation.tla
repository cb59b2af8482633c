---------------------------- MODULE Conversation ----------------------------
(***************************************************************************)
(* One Conversation (app/main/src/server/state/conversation.ts): the queue *)
(* of activities its client polls, its transcript, its members, and the    *)
(* posts to the bot that are suspended at an await.                        *)
(*                                                                         *)
(* Every operation has a number in Ids, which is also the id postage()     *)
(* gives its activity.  The array `activities` is kept in watermark order  *)
(* (an entry is appended with the largest watermark so far), so it is the  *)
(* set of its buckets.  What the bot answers, and the client, which polls  *)
(* GET /v3/directline/conversations/:id/activities and may lose a request  *)
(* or an answer, are external.                                             *)
(***************************************************************************)
EXTENDS Naturals, Sequences, FiniteSets

CONSTANTS
  MaxActivities,   \* bound: operations in a behaviour
  MaxUpdates,      \* bound: updates of one activity
  Users,           \* users that may join or leave
  Posts,           \* what the user posts, of the kinds below
  Polling,         \* is there a Web Chat polling the conversation?
  Bot, User,       \* the two members the constructor adds
  HasEndpoint,     \* does the conversation have a bot endpoint?
  Debug,           \* is its mode 'debug'?
  IsTranscript,    \* is it a transcript being shown?
  Recreate         \* may POST /v3/conversations name this conversation again?

ASSUME ConversationAssumption ==
  /\ MaxActivities \in Nat /\ MaxUpdates \in Nat
  /\ HasEndpoint \in BOOLEAN /\ Debug \in BOOLEAN
  /\ IsTranscript \in BOOLEAN /\ Recreate \in BOOLEAN
  /\ Posts \subseteq {"message", "trace", "postback", "event", "status"}
  /\ Polling \in BOOLEAN

Ids == 1..MaxActivities
NoUser == "no user"
Members == Users \cup {Bot, User}

\* What an operation posts to the bot.  "message", "trace" (a trace with debug
\* data) and "postback" are recorded in the conversation, the others are not;
\* "status" stands for contact, typing, ping and delete-user-data operations.
Recorded == {"message", "trace", "postback"}
Kinds == Recorded \cup {"event", "status", "update", "join", "left", "reply", "fed"}

VARIABLES
  lastId,         \* operations begun so far
  kind, who, pc,  \* what each is, the member it concerns, where it is
  activities,     \* the queue: buckets [id, watermark, version]
  nextWatermark,
  transcript,     \* records [type, id]
  members,        \* a sequence: nothing stops a user from joining twice
  requests,       \* watermarks the client has asked with so far
  response,       \* the answer on its way to the client, or NoResponse
  clientWatermark,\* the watermark the client will ask with next
  received,       \* watermarks of the activities the client got
  withdrawn       \* watermarks deleted or wiped (for the properties only)

opVars == <<lastId, kind, who, pc>>
clientVars == <<requests, response, clientWatermark, received>>
queueVars == <<activities, nextWatermark, withdrawn>>
vars == <<opVars, clientVars, queueVars, transcript, members>>

Bucket == [id : Ids, watermark : Nat, version : 0..MaxUpdates]
Response == [watermark : Nat, got : SUBSET Nat]
NoResponse == [watermark |-> 0, got |-> {}]
RecordTypes == {"activity add", "activity update", "activity delete",
                "status", "member join", "member left"}

\* The queue, the transcript and the polls of the client hold activities that were made.
TypeOK ==
  /\ lastId \in 0..MaxActivities
  /\ kind \in [Ids -> Kinds \cup {"none"}]
  /\ who \in [Ids -> Members \cup {NoUser}]
  /\ pc \in [Ids -> {"none", "url", "fetch", "done", "failed"}]
  /\ activities \subseteq Bucket
  /\ nextWatermark \in Nat
  /\ transcript \in Seq([type : RecordTypes, id : Ids])
  /\ members \in Seq(Members)
  /\ requests \subseteq Nat
  /\ response \in Response
  /\ clientWatermark \in Nat
  /\ received \subseteq Nat
  /\ withdrawn \subseteq Nat

Init ==
  /\ lastId = 0
  /\ kind = [i \in Ids |-> "none"]
  /\ who = [i \in Ids |-> NoUser]
  /\ pc = [i \in Ids |-> "none"]
  /\ activities = {}
  /\ nextWatermark = 0
  /\ transcript = <<>>
  /\ members = <<Bot, User>>
  /\ requests = {}
  /\ response = NoResponse
  /\ clientWatermark = 0
  /\ received = {}
  /\ withdrawn = {}

-----------------------------------------------------------------------------
Record(type, i) == transcript' = Append(transcript, [type |-> type, id |-> i])

\* addActivityToQueue(): what is queued depends on the mode and on the activity.
Queues(k) == k # "postback" /\ (Debug => k = "trace")
Enqueue(i) ==
  /\ activities' = activities \cup
       {[id |-> i, watermark |-> nextWatermark, version |-> 0]}
  /\ nextWatermark' = nextWatermark + 1
  /\ UNCHANGED withdrawn

Begin(k, u, where) ==
  /\ lastId < MaxActivities
  /\ lastId' = lastId + 1
  /\ kind' = [kind EXCEPT ![lastId'] = k]
  /\ who' = [who EXCEPT ![lastId'] = u]
  /\ pc' = [pc EXCEPT ![lastId'] = where]

\* How sendConversationUpdate goes: it returns at once in debug mode, and
\* without an endpoint reads a field of what postActivityToBot did not return.
\* Its test for an update that was already sent compares a new object with the
\* queued ones, hence never holds.
UpdateStage == IF Debug THEN "done" ELSE IF HasEndpoint THEN "url" ELSE "failed"

-----------------------------------------------------------------------------
(* Operations that post to the bot, up to the await of the service URL     *)

PostActivityToBot(k) ==
  \* Without an endpoint only the status operations get past the post.
  /\ Begin(k, NoUser, IF HasEndpoint THEN "url"
                      ELSE IF k = "status" THEN "done" ELSE "failed")
  /\ IF k = "status" /\ ~HasEndpoint THEN Record("status", lastId')
                                     ELSE UNCHANGED transcript
  /\ UNCHANGED members /\ UNCHANGED queueVars /\ UNCHANGED clientVars

SendConversationUpdate(u) ==
  /\ Begin("update", u, UpdateStage)
  /\ UNCHANGED <<transcript, members>> /\ UNCHANGED queueVars /\ UNCHANGED clientVars

\* Mutant of AddMember: the post to the bot is not awaited.
MutAddMember(u) ==
  /\ Begin("join", u, IF HasEndpoint THEN UpdateStage ELSE "done")
  /\ members' = Append(members, u)
  /\ Record("member join", lastId')
  /\ UNCHANGED queueVars /\ UNCHANGED clientVars

\* The member is in before the bot is told; without an endpoint it is not told.
AddMember(u) ==
  LET stage == IF HasEndpoint THEN UpdateStage ELSE "done" IN
  /\ Begin("join", u, stage)
  /\ members' = Append(members, u)
  /\ IF stage = "done" THEN Record("member join", lastId') ELSE UNCHANGED transcript
  /\ UNCHANGED queueVars /\ UNCHANGED clientVars

Without(s, n) == SubSeq(s, 1, n - 1) \o SubSeq(s, n + 1, Len(s))

\* The first entry of the user goes; an unknown user is reported all the same.
RemoveMember(u) ==
  /\ Begin("left", u, UpdateStage)
  /\ \/ \E n \in DOMAIN members :
          /\ members[n] = u /\ \A m \in 1..(n - 1) : members[m] # u
          /\ members' = Without(members, n)
     \/ /\ \A n \in DOMAIN members : members[n] # u
        /\ UNCHANGED members
  /\ IF UpdateStage = "done" THEN Record("member left", lastId') ELSE UNCHANGED transcript
  /\ UNCHANGED queueVars /\ UNCHANGED clientVars

-----------------------------------------------------------------------------
(* Their continuations                                                     *)

\* The service URL is known: the activity is queued, recorded and sent.
UrlKnown(i) ==
  /\ pc[i] = "url"
  /\ pc' = [pc EXCEPT ![i] = "fetch"]
  /\ IF kind[i] \in Recorded /\ Queues(kind[i]) THEN Enqueue(i)
                                                ELSE UNCHANGED queueVars
  /\ Record("activity add", i)
  /\ UNCHANGED <<lastId, kind, who, members>> /\ UNCHANGED clientVars

\* What the operation records once the bot was told, if anything.
Aftermath(k) == CASE k = "status" -> "status"
                  [] k = "join" -> "member join"
                  [] k = "left" -> "member left"
                  [] OTHER -> "none"
RecordAftermath(i) == IF Aftermath(kind[i]) = "none" THEN UNCHANGED transcript
                                                     ELSE Record(Aftermath(kind[i]), i)

\* The bot has answered, with any status: only the log tells them apart.
BotAnswers(i) ==
  /\ pc[i] = "fetch"
  /\ pc' = [pc EXCEPT ![i] = "done"]
  /\ RecordAftermath(i)
  /\ UNCHANGED <<lastId, kind, who, members>> /\ UNCHANGED queueVars
  /\ UNCHANGED clientVars

\* The bot cannot be reached: only the status operations catch the error.  A
\* post from a transcript is not sent, so it cannot fail.
BotUnreachable(i) ==
  /\ pc[i] = "fetch" /\ ~IsTranscript
  /\ pc' = [pc EXCEPT ![i] = "failed"]
  /\ IF kind[i] = "status" THEN RecordAftermath(i) ELSE UNCHANGED transcript
  /\ UNCHANGED <<lastId, kind, who, members>> /\ UNCHANGED queueVars
  /\ UNCHANGED clientVars

-----------------------------------------------------------------------------
(* Operations of the bot, which run to their end                           *)

\* postActivityToUser(): replies, messages and each activity of a history; a
\* trace with debug data is what debug mode is there to show.
PostActivityToUser(k) ==
  /\ k \in {"reply", "trace"}
  /\ Begin(k, NoUser, "done")
  /\ IF Queues(k) THEN Enqueue(lastId') ELSE UNCHANGED queueVars
  /\ Record("activity add", lastId')
  /\ UNCHANGED members /\ UNCHANGED clientVars

\* An id that is not queued (any more) is answered with 404, changing nothing.
UpdateActivity(b) ==
  /\ b \in activities /\ b.version < MaxUpdates
  /\ activities' = (activities \ {b}) \cup {[b EXCEPT !.version = @ + 1]}
  /\ Record("activity update", b.id)
  /\ UNCHANGED <<nextWatermark, withdrawn, members>> /\ UNCHANGED opVars
  /\ UNCHANGED clientVars

DeleteActivity(b) ==
  /\ b \in activities
  /\ activities' = activities \ {b}
  /\ withdrawn' = withdrawn \cup {b.watermark}
  /\ Record("activity delete", b.id)
  /\ UNCHANGED <<nextWatermark, members>> /\ UNCHANGED opVars /\ UNCHANGED clientVars

\* feedActivities(): a transcript's activities are queued and not recorded.
FeedActivities(n) ==
  /\ n > 0 /\ lastId + n <= MaxActivities
  /\ lastId' = lastId + n
  /\ LET fed == (lastId + 1)..(lastId + n) IN
       /\ kind' = [i \in Ids |-> IF i \in fed THEN "fed" ELSE kind[i]]
       /\ pc' = [i \in Ids |-> IF i \in fed THEN "done" ELSE pc[i]]
       /\ IF Queues("fed")
            THEN /\ activities' = activities \cup
                      {[id |-> i, watermark |-> nextWatermark + (i - lastId - 1),
                        version |-> 0] : i \in fed}
                 /\ nextWatermark' = nextWatermark + n
            ELSE UNCHANGED <<activities, nextWatermark>>
  /\ UNCHANGED <<who, withdrawn, transcript, members>> /\ UNCHANGED clientVars

\* Mutant of Normalize: the watermark starts over too.
MutNormalize ==
  /\ Recreate
  /\ transcript' = <<>>
  /\ activities' = {}
  /\ nextWatermark' = 0
  /\ withdrawn' = withdrawn \cup {b.watermark : b \in activities}
  /\ UNCHANGED members /\ UNCHANGED opVars /\ UNCHANGED clientVars

\* normalize(), when createConversation finds the conversation it was to create.
Normalize ==
  /\ Recreate
  /\ transcript' = <<>>
  /\ activities' = {}
  /\ withdrawn' = withdrawn \cup {b.watermark : b \in activities}
  /\ UNCHANGED <<nextWatermark, members>> /\ UNCHANGED opVars /\ UNCHANGED clientVars

-----------------------------------------------------------------------------
(* The client and the getActivities handler                                *)

\* External: the client asks with its watermark, again if it got no answer.
ClientAsks ==
  /\ Polling
  /\ requests' = requests \cup {clientWatermark}
  /\ clientWatermark \notin requests
  /\ UNCHANGED <<response, clientWatermark, received, transcript, members>>
  /\ UNCHANGED opVars /\ UNCHANGED queueVars

\* Mutant of Since: the watermark is not looked at.
MutAll(w) == activities

\* getActivitiesSince(): a request may be handled late, or be a repetition; the
\* queue is cut at any watermark but 0.  The client heeds only the answer to
\* its last question.
Since(w) == {b \in activities : w # 0 => b.watermark >= w}
\* Mutants of GetActivitiesSince: the answer's watermark is the last one used,
\* the number of activities past the requested one, or the requested one again.
MutAnswer(w, watermark) ==
  /\ w \in requests
  /\ activities' = Since(w)
  /\ response' = IF w = clientWatermark
                   THEN [watermark |-> watermark, got |-> {b.watermark : b \in Since(w)}]
                   ELSE response
  /\ UNCHANGED <<nextWatermark, withdrawn, requests, clientWatermark, received,
                 transcript, members>>
  /\ UNCHANGED opVars
MutLastUsed(w) == MutAnswer(w, nextWatermark - 1)
MutCount(w) == MutAnswer(w, w + Cardinality(Since(w)))
MutSameAgain(w) == MutAnswer(w, w)
GetActivitiesSince(w) ==
  /\ w \in requests
  /\ activities' = Since(w)
  /\ response' = IF w = clientWatermark
                   THEN [watermark |-> nextWatermark,
                         got |-> {b.watermark : b \in Since(w)}]
                   ELSE response
  /\ UNCHANGED <<nextWatermark, withdrawn, requests, clientWatermark, received,
                 transcript, members>>
  /\ UNCHANGED opVars

\* External: the answer arrives, or it is lost.
ClientReceives ==
  /\ response # NoResponse
  /\ received' = received \cup response.got
  /\ clientWatermark' = response.watermark
  /\ response' = NoResponse
  /\ UNCHANGED <<requests, transcript, members>> /\ UNCHANGED opVars /\ UNCHANGED queueVars

ResponseLost ==
  /\ response # NoResponse
  /\ response' = NoResponse
  /\ UNCHANGED <<requests, clientWatermark, received, transcript, members>>
  /\ UNCHANGED opVars /\ UNCHANGED queueVars

-----------------------------------------------------------------------------
BotStep ==
  \/ \E k \in {"reply", "trace"} : PostActivityToUser(k)
  \/ \E b \in activities : UpdateActivity(b) \/ DeleteActivity(b)
  \/ \E n \in 1..2 : FeedActivities(n)
  \/ Normalize

ServerStep ==
  \/ \E k \in Posts : PostActivityToBot(k)
  \/ \E u \in Users : SendConversationUpdate(u) \/ AddMember(u) \/ RemoveMember(u)
  \/ \E i \in Ids : UrlKnown(i) \/ BotAnswers(i) \/ BotUnreachable(i)

ClientStep ==
  \/ ClientAsks \/ ClientReceives \/ ResponseLost
  \/ \E w \in requests : GetActivitiesSince(w)

Next == BotStep \/ ServerStep \/ ClientStep

Spec == Init /\ [][Next]_vars

(***************************************************************************)
(* Fairness: an await ends, one way or the other; the client keeps polling, *)
(* its requests are handled and not every answer is lost.  The bot and the *)
(* user owe nothing.                                                       *)
(***************************************************************************)
Fairness ==
  /\ \A i \in Ids : WF_vars(UrlKnown(i)) /\ WF_vars(BotAnswers(i) \/ BotUnreachable(i))
  /\ WF_vars(ClientAsks)
  /\ WF_vars(clientWatermark \in requests /\ GetActivitiesSince(clientWatermark))
  /\ SF_vars(ClientReceives)

FairSpec == Spec /\ Fairness

-----------------------------------------------------------------------------
(* Properties                                                              *)

\* The watermarks handed out before n.
Below(n) == 0..(n - 1)

\* What the client has not been through is still in the queue, unless it was
\* withdrawn: cutting the queue at a requested watermark (getActivitiesSince)
\* loses nothing that an answer on its way, or lost on its way, has to bring.
Retained ==
  \A w \in Below(nextWatermark) :
    w >= clientWatermark => w \in withdrawn \/ \E b \in activities : b.watermark = w

\* The client has got every activity behind its watermark, except withdrawn
\* ones, whatever requests and answers were lost, repeated or late.
NothingMissed ==
  \A w \in Below(nextWatermark) : w < clientWatermark => w \in received \cup withdrawn

\* An answer on its way brings all that lies between the client's watermark and
\* its own, and nothing else, except what was withdrawn.
AnswerComplete ==
  response # NoResponse =>
    LET between == {w \in Below(response.watermark) : w >= clientWatermark} IN
    /\ clientWatermark <= response.watermark /\ response.watermark <= nextWatermark
    /\ response.got \subseteq between
    /\ between \subseteq response.got \cup withdrawn

\* The inductive invariant behind the four properties of the feed: no watermark
\* runs ahead of its source, from the queue to the client and back
\* (addActivityToQueue, getActivitiesSince).
WatermarksInOrder ==
  /\ clientWatermark <= nextWatermark
  /\ \A b \in activities : b.watermark < nextWatermark
  /\ requests \subseteq 0..clientWatermark
  /\ received \subseteq Below(clientWatermark)
  /\ withdrawn \subseteq Below(nextWatermark)

FeedInv == WatermarksInOrder /\ Retained /\ NothingMissed /\ AnswerComplete

\* No activity reaches the client twice: an answer brings only activities it
\* has not been through (getActivitiesSince at the client's own watermark).
DeliveredOnce ==
  [][response # NoResponse /\ response' = NoResponse /\ received' # received
       => response.got \cap received = {}]_vars

\* The conversation implements the log of ConversationFeed.
Feed == INSTANCE ConversationFeed WITH
          published <- nextWatermark, collected <- received,
          cursor <- clientWatermark
ImplementsFeed == Feed!FeedSpec

\* Whatever was queued reaches the client in the end, or was withdrawn.
EveryActivityCollected ==
  Polling => \A w \in 0..(MaxActivities - 1) : nextWatermark > w ~> clientWatermark > w

\* What an operation records once the bot was told comes after its own "activity
\* add" in the transcript, however the posts interleave (postActivityToBot and its
\* callers) and although the transcript may be emptied between the two.
RecordsFollowPosts ==
  \A n, m \in DOMAIN transcript :
    /\ transcript[n].type \in {"status", "member join", "member left"}
    /\ transcript[m] = [type |-> "activity add", id |-> transcript[n].id]
    => m < n
=============================================================================
