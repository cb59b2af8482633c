------------------------- MODULE ConversationProofs -------------------------
(***************************************************************************)
(* Proofs about Conversation, for every value of its constants.            *)
(***************************************************************************)
EXTENDS Conversation, SequenceTheorems, TLAPS

(***************************************************************************)
(* Types                                                                   *)
(***************************************************************************)
\* A new operation's number, kind, member and stage have their types.
LEMMA BeginType ==
  ASSUME TypeOK, NEW k \in Kinds, NEW u \in Members \cup {NoUser},
         NEW where \in {"url", "fetch", "done", "failed"}, Begin(k, u, where)
  PROVE  /\ lastId' \in 0..MaxActivities /\ lastId' \in Ids
         /\ kind' \in [Ids -> Kinds \cup {"none"}]
         /\ who' \in [Ids -> Members \cup {NoUser}]
         /\ pc' \in [Ids -> {"none", "url", "fetch", "done", "failed"}]
BY ConversationAssumption DEF TypeOK, Begin, Ids

\* A record keeps the transcript's type.
LEMMA RecordType ==
  ASSUME TypeOK, NEW type \in RecordTypes, NEW i \in Ids, Record(type, i)
  PROVE  transcript' \in Seq([type : RecordTypes, id : Ids])
BY DEF TypeOK, Record

\* Queuing an activity keeps the queue's type.
LEMMA EnqueueType ==
  ASSUME TypeOK, NEW i \in Ids, Enqueue(i)
  PROVE  activities' \subseteq Bucket /\ nextWatermark' \in Nat /\ withdrawn' \subseteq Nat
BY ConversationAssumption DEF TypeOK, Enqueue, Bucket

\* Removing a member leaves a sequence of members.
LEMMA WithoutType ==
  ASSUME NEW S, NEW s \in Seq(S), NEW n \in DOMAIN s
  PROVE  Without(s, n) \in Seq(S)
BY DEF Without

\* A conversation update starts at one of the stages.
LEMMA StageType == UpdateStage \in {"url", "done", "failed"}
BY DEF UpdateStage

\* Every variable keeps its type, whatever is interleaved.
THEOREM TypeCorrect == Spec => []TypeOK
<1> USE ConversationAssumption
<1>1. Init => TypeOK
  BY DEF Init, TypeOK, Ids, Members, Response, NoResponse
<1>2. TypeOK /\ [Next]_vars => TypeOK'
  <2> SUFFICES ASSUME TypeOK, [Next]_vars PROVE TypeOK'
    OBVIOUS
  <2>1. ASSUME NEW k \in Posts, PostActivityToBot(k) PROVE TypeOK'
    <3>1. k \in Kinds
      BY DEF Kinds, Recorded
    <3>2. transcript' \in Seq([type : RecordTypes, id : Ids])
      BY <2>1, <3>1, BeginType, RecordType DEF PostActivityToBot, RecordTypes, TypeOK
    <3>3. \E where \in {"url", "fetch", "done", "failed"} : Begin(k, NoUser, where)
      BY <2>1 DEF PostActivityToBot
    <3>4. /\ lastId' \in 0..MaxActivities /\ kind' \in [Ids -> Kinds \cup {"none"}]
          /\ who' \in [Ids -> Members \cup {NoUser}]
          /\ pc' \in [Ids -> {"none", "url", "fetch", "done", "failed"}]
      BY <3>1, <3>3, BeginType
    <3>5. UNCHANGED <<members, activities, nextWatermark, withdrawn, requests, response,
                      clientWatermark, received>>
      BY <2>1 DEF PostActivityToBot, queueVars, clientVars
    <3> QED
      BY <3>2, <3>4, <3>5 DEF TypeOK
  <2>2. ASSUME NEW u \in Users, SendConversationUpdate(u) PROVE TypeOK'
    <3>1. /\ Begin("update", u, UpdateStage) /\ "update" \in Kinds /\ u \in Members
          /\ UNCHANGED <<transcript, members, activities, nextWatermark, withdrawn, requests,
                         response, clientWatermark, received>>
      BY <2>2 DEF SendConversationUpdate, queueVars, clientVars, Kinds, Members
    <3>2. /\ lastId' \in 0..MaxActivities /\ kind' \in [Ids -> Kinds \cup {"none"}]
          /\ who' \in [Ids -> Members \cup {NoUser}]
          /\ pc' \in [Ids -> {"none", "url", "fetch", "done", "failed"}]
      BY <3>1, StageType, BeginType
    <3> QED
      BY <3>1, <3>2 DEF TypeOK
  <2>3. ASSUME NEW u \in Users, AddMember(u) PROVE TypeOK'
    <3> DEFINE stage == IF HasEndpoint THEN UpdateStage ELSE "done"
    <3>1. /\ Begin("join", u, stage) /\ stage \in {"url", "done", "failed"}
          /\ "join" \in Kinds /\ u \in Members
      BY <2>3, StageType DEF AddMember, Kinds, Members
    <3>5. /\ members' = Append(members, u)
          /\ Record("member join", lastId') \/ UNCHANGED transcript
          /\ UNCHANGED queueVars /\ UNCHANGED clientVars
      BY <2>3 DEF AddMember
    <3> HIDE DEF stage
    <3>2. lastId' \in Ids
      BY <3>1, BeginType
    <3>3. transcript' \in Seq([type : RecordTypes, id : Ids])
      <4>1. CASE Record("member join", lastId')
        BY <4>1, <3>2, RecordType DEF RecordTypes
      <4>2. CASE UNCHANGED transcript
        BY <4>2 DEF TypeOK
      <4> QED
        BY <3>5, <4>1, <4>2
    <3>4. members' \in Seq(Members)
      <4>1. members \in Seq(Members) /\ u \in Members
        BY <3>1 DEF TypeOK
      <4> QED
        BY <4>1, <3>5, AppendProperties, Zenon
    <3> QED
      BY <3>1, <3>5, <3>3, <3>4, BeginType
        DEF TypeOK, queueVars, clientVars
  <2>4. ASSUME NEW u \in Users, RemoveMember(u) PROVE TypeOK'
    <3>1. /\ Begin("left", u, UpdateStage)
          /\ "left" \in Kinds /\ u \in Members
      BY <2>4 DEF RemoveMember, Kinds, Members
    <3>2. lastId' \in Ids
      BY <3>1, BeginType, StageType
    <3>3. transcript' \in Seq([type : RecordTypes, id : Ids])
      <4>1. CASE Record("member left", lastId')
        BY <4>1, <3>2, RecordType DEF RecordTypes
      <4>2. CASE UNCHANGED transcript
        BY <4>2 DEF TypeOK
      <4> QED
        BY <2>4, <4>1, <4>2 DEF RemoveMember
    <3>4. members' \in Seq(Members)
      <4>1. ASSUME NEW n \in DOMAIN members, members' = Without(members, n)
            PROVE  members' \in Seq(Members)
        BY <4>1, WithoutType DEF TypeOK
      <4>2. CASE UNCHANGED members
        BY <4>2 DEF TypeOK
      <4> QED
        BY <2>4, <4>1, <4>2 DEF RemoveMember
    <3> QED
      BY <2>4, <3>1, <3>3, <3>4, BeginType, StageType
        DEF RemoveMember, TypeOK, queueVars, clientVars
  <2>5. ASSUME NEW i \in Ids, UrlKnown(i) PROVE TypeOK'
    <3>1. activities' \subseteq Bucket /\ nextWatermark' \in Nat /\ withdrawn' \subseteq Nat
      BY <2>5, EnqueueType DEF UrlKnown, TypeOK, queueVars
    <3>2. transcript' \in Seq([type : RecordTypes, id : Ids])
      BY <2>5, RecordType DEF UrlKnown, RecordTypes
    <3> QED
      BY <2>5, <3>1, <3>2 DEF UrlKnown, TypeOK, clientVars
  <2>6. ASSUME NEW i \in Ids, BotAnswers(i) \/ BotUnreachable(i) PROVE TypeOK'
    <3>1. transcript' \in Seq([type : RecordTypes, id : Ids])
      BY <2>6, RecordType
        DEF BotAnswers, BotUnreachable, RecordAftermath, Aftermath, RecordTypes, TypeOK
    <3> QED
      BY <2>6, <3>1 DEF BotAnswers, BotUnreachable, TypeOK, queueVars, clientVars
  <2>7. ASSUME NEW k \in {"reply", "trace"}, PostActivityToUser(k) PROVE TypeOK'
    <3>1. Begin(k, NoUser, "done") /\ k \in Kinds
      BY <2>7 DEF PostActivityToUser, Kinds, Recorded
    <3>2. activities' \subseteq Bucket /\ nextWatermark' \in Nat /\ withdrawn' \subseteq Nat
      BY <2>7, <3>1, BeginType, EnqueueType DEF PostActivityToUser, TypeOK, queueVars
    <3>3. transcript' \in Seq([type : RecordTypes, id : Ids])
      BY <2>7, <3>1, BeginType, RecordType DEF PostActivityToUser, RecordTypes
    <3> QED
      BY <2>7, <3>1, <3>2, <3>3, BeginType DEF PostActivityToUser, TypeOK, clientVars
  <2>8. ASSUME NEW b \in activities, UpdateActivity(b) PROVE TypeOK'
    <3>1. [b EXCEPT !.version = @ + 1] \in Bucket
      <4>1. b \in Bucket /\ b.version < MaxUpdates
        BY <2>8 DEF UpdateActivity, TypeOK
      <4>2. b.version + 1 \in 0..MaxUpdates
        BY <4>1 DEF Bucket
      <4> QED
        BY <4>1, <4>2 DEF Bucket
    <3>2. transcript' \in Seq([type : RecordTypes, id : Ids])
      BY <2>8, RecordType DEF UpdateActivity, RecordTypes, TypeOK, Bucket
    <3> QED
      BY <2>8, <3>1, <3>2 DEF UpdateActivity, TypeOK, opVars, clientVars
  <2>9. ASSUME NEW b \in activities, DeleteActivity(b) PROVE TypeOK'
    <3>1. transcript' \in Seq([type : RecordTypes, id : Ids])
      BY <2>9, RecordType DEF DeleteActivity, RecordTypes, TypeOK, Bucket
    <3> QED
      BY <2>9, <3>1 DEF DeleteActivity, TypeOK, opVars, clientVars, Bucket
  <2>10. ASSUME NEW n \in 1..2, FeedActivities(n) PROVE TypeOK'
    <3> DEFINE fed == (lastId + 1)..(lastId + n)
               new == {[id |-> i, watermark |-> nextWatermark + (i - lastId - 1),
                        version |-> 0] : i \in fed}
    <3>1. lastId' \in 0..MaxActivities /\ fed \subseteq Ids
      BY <2>10 DEF FeedActivities, TypeOK, Ids
    <3>2. new \subseteq Bucket
      <4> SUFFICES ASSUME NEW i \in fed
                   PROVE  [id |-> i, watermark |-> nextWatermark + (i - lastId - 1),
                           version |-> 0] \in Bucket
        OBVIOUS
      <4>1. nextWatermark + (i - lastId - 1) \in Nat /\ i \in Ids
        BY <3>1 DEF TypeOK
      <4> QED
        BY <4>1 DEF Bucket
    <3>3. activities' \subseteq Bucket /\ nextWatermark' \in Nat
      BY <2>10, <3>2 DEF FeedActivities, TypeOK
    <3>4. /\ kind' \in [Ids -> Kinds \cup {"none"}]
          /\ pc' \in [Ids -> {"none", "url", "fetch", "done", "failed"}]
      BY <2>10 DEF FeedActivities, TypeOK, Kinds
    <3> QED
      BY <2>10, <3>1, <3>3, <3>4 DEF FeedActivities, TypeOK, clientVars
  <2>11. CASE Normalize
    <3>1. {b.watermark : b \in activities} \subseteq Nat
      BY DEF TypeOK, Bucket
    <3>2. transcript' \in Seq([type : RecordTypes, id : Ids])
      BY <2>11 DEF Normalize
    <3> QED
      BY <2>11, <3>1, <3>2 DEF Normalize, TypeOK, opVars, clientVars
  <2>12. CASE ClientAsks
    BY <2>12 DEF ClientAsks, TypeOK, opVars, queueVars
  <2>13. ASSUME NEW w \in requests, GetActivitiesSince(w) PROVE TypeOK'
    <3>1. Since(w) \subseteq Bucket /\ {b.watermark : b \in Since(w)} \subseteq Nat
      BY DEF TypeOK, Since, Bucket
    <3> QED
      BY <2>13, <3>1 DEF GetActivitiesSince, TypeOK, Response, opVars
  <2>14. CASE ClientReceives \/ ResponseLost
    <3>1. NoResponse \in Response
      BY DEF NoResponse, Response
    <3>2. response.watermark \in Nat /\ response.got \subseteq Nat
      BY DEF TypeOK, Response
    <3> QED
      BY <2>14, <3>1, <3>2 DEF ClientReceives, ResponseLost, TypeOK, opVars, queueVars
  <2>15. CASE UNCHANGED vars
    BY <2>15 DEF TypeOK, vars, opVars, clientVars, queueVars
  <2> QED
    BY <2>1, <2>2, <2>3, <2>4, <2>5, <2>6, <2>7, <2>8, <2>9, <2>10, <2>11, <2>12,
       <2>13, <2>14, <2>15 DEF Next, BotStep, ServerStep, ClientStep
<1> QED
  BY <1>1, <1>2, PTL DEF Spec

(***************************************************************************)
(* The feed: what is queued, what is under way and what has arrived.       *)
(* Every step is of one of three sorts as far as the feed is concerned: it *)
(* publishes (Publishes), it takes back (TakesBack), or it is a step of    *)
(* the exchange with the client.                                           *)
(***************************************************************************)
\* Below(n) is what its name says, in the form the provers use.
LEMMA BelowDef ==
  ASSUME NEW n \in Nat
  PROVE  \A w : w \in Below(n) <=> w \in Nat /\ w < n
BY DEF Below

Publishes ==
  /\ nextWatermark' \in Nat /\ nextWatermark <= nextWatermark'
  /\ \A b \in activities' : b \in activities \/ b.watermark < nextWatermark'
  /\ activities \subseteq activities'
  /\ \A w \in Nat : nextWatermark <= w /\ w < nextWatermark'
                      => \E b \in activities' : b.watermark = w
  /\ UNCHANGED withdrawn /\ UNCHANGED clientVars

TakesBack ==
  /\ \A b \in activities' : \E c \in activities : b.watermark = c.watermark
  /\ \A b \in activities : b.watermark \in withdrawn'
                             \/ \E c \in activities' : b.watermark = c.watermark
  /\ withdrawn \subseteq withdrawn'
  /\ withdrawn' \subseteq withdrawn \cup {b.watermark : b \in activities}
  /\ UNCHANGED nextWatermark /\ UNCHANGED clientVars

\* Queuing keeps the invariant: what is new lies past every watermark in use.
LEMMA PublishKeeps ==
  ASSUME TypeOK, FeedInv, Publishes
  PROVE  FeedInv'
<1> USE DEF TypeOK, Bucket, Response
<1>0. /\ \A w : w \in Below(nextWatermark) <=> w \in Nat /\ w < nextWatermark
      /\ \A w : w \in Below(nextWatermark') <=> w \in Nat /\ w < nextWatermark'
      /\ clientWatermark <= nextWatermark /\ nextWatermark <= nextWatermark'
      /\ UNCHANGED <<requests, response, clientWatermark, received, withdrawn>>
  BY BelowDef DEF FeedInv, WatermarksInOrder, Publishes, clientVars
<1>1. WatermarksInOrder'
  BY <1>0 DEF FeedInv, WatermarksInOrder, Publishes
<1>2. Retained'
  <2> SUFFICES ASSUME NEW w \in Below(nextWatermark'), w >= clientWatermark
               PROVE  w \in withdrawn \/ \E b \in activities' : b.watermark = w
    BY <1>0 DEF Retained
  <2>1. CASE w < nextWatermark
    BY <2>1, <1>0 DEF FeedInv, Retained, Publishes
  <2>2. CASE ~(w < nextWatermark)
    BY <2>2, <1>0 DEF Publishes
  <2> QED
    BY <2>1, <2>2
<1>3. NothingMissed'
  BY <1>0 DEF FeedInv, NothingMissed
<1>4. AnswerComplete'
  BY <1>0 DEF FeedInv, AnswerComplete, Publishes
<1> QED
  BY <1>1, <1>2, <1>3, <1>4 DEF FeedInv

\* Deleting or wiping keeps it: what leaves the queue is withdrawn.
LEMMA TakeBackKeeps ==
  ASSUME TypeOK, FeedInv, TakesBack
  PROVE  FeedInv'
<1> USE DEF TypeOK, Bucket, Response
<1>0. /\ \A w : w \in Below(nextWatermark) <=> w \in Nat /\ w < nextWatermark
      /\ UNCHANGED <<nextWatermark, requests, response, clientWatermark, received>>
  BY BelowDef DEF TakesBack, clientVars
<1>1. WatermarksInOrder'
  BY <1>0 DEF FeedInv, WatermarksInOrder, TakesBack
<1>2. Retained'
  <2> SUFFICES ASSUME NEW w \in Below(nextWatermark), w >= clientWatermark
               PROVE  w \in withdrawn' \/ \E b \in activities' : b.watermark = w
    BY <1>0 DEF Retained
  <2>1. w \in withdrawn \/ \E b \in activities : b.watermark = w
    BY DEF FeedInv, Retained
  <2> QED
    BY <2>1 DEF TakesBack
<1>3. NothingMissed'
  BY <1>0 DEF FeedInv, NothingMissed, TakesBack
<1>4. AnswerComplete'
  BY <1>0 DEF FeedInv, AnswerComplete, TakesBack
<1> QED
  BY <1>1, <1>2, <1>3, <1>4 DEF FeedInv

\* Handling a poll keeps it: the request is no later than the client's
\* watermark, so what is cut from the queue the client has been through.
LEMMA HandlingKeeps ==
  ASSUME TypeOK, FeedInv, NEW w \in requests, GetActivitiesSince(w)
  PROVE  FeedInv'
<1> USE DEF TypeOK, Bucket, Response
<1>0. /\ w \in Nat /\ w <= clientWatermark /\ clientWatermark <= nextWatermark
      /\ \A v : v \in Below(nextWatermark) <=> v \in Nat /\ v < nextWatermark
      /\ activities' = Since(w) /\ Since(w) \subseteq activities
      /\ UNCHANGED <<nextWatermark, withdrawn, requests, clientWatermark, received>>
  BY BelowDef DEF FeedInv, WatermarksInOrder, GetActivitiesSince, Since
<1>1. WatermarksInOrder'
  BY <1>0 DEF FeedInv, WatermarksInOrder
<1>2. Retained'
  \* The queue is cut at w, which is at most the client's watermark.
  BY <1>0 DEF FeedInv, Retained, Since
<1>3. NothingMissed'
  BY <1>0 DEF FeedInv, NothingMissed
<1>4. AnswerComplete'
  <2>1. CASE w = clientWatermark
    <3> DEFINE got == {b.watermark : b \in Since(w)}
    <3>1. response' = [watermark |-> nextWatermark, got |-> got]
      BY <2>1 DEF GetActivitiesSince
    <3>2. \A v \in got : v \in Below(nextWatermark) /\ v >= clientWatermark
      BY <2>1, <1>0 DEF Since, FeedInv, WatermarksInOrder
    <3>3. \A v \in Below(nextWatermark) : v >= clientWatermark => v \in got \cup withdrawn
      <4> SUFFICES ASSUME NEW v \in Below(nextWatermark), v >= clientWatermark,
                          v \notin withdrawn
                   PROVE  v \in got
        OBVIOUS
      <4>1. PICK b \in activities : b.watermark = v
        BY DEF FeedInv, Retained
      <4> QED
        BY <4>1, <2>1, <1>0 DEF Since
    <3> HIDE DEF got
    <3> QED
      BY <3>1, <3>2, <3>3, <1>0 DEF AnswerComplete
  <2>2. CASE w # clientWatermark
    BY <2>2, <1>0 DEF FeedInv, AnswerComplete, GetActivitiesSince
  <2> QED
    BY <2>1, <2>2
<1> QED
  BY <1>1, <1>2, <1>3, <1>4 DEF FeedInv

\* An answer that arrives keeps it: it brings all between the client's old and
\* new watermark.
LEMMA ArrivalKeeps ==
  ASSUME TypeOK, FeedInv, ClientReceives
  PROVE  FeedInv'
<1> USE DEF TypeOK, Bucket, Response
<1>1. /\ response.watermark \in Nat
      /\ clientWatermark <= response.watermark /\ response.watermark <= nextWatermark
      /\ \A w \in response.got : w \in Below(response.watermark) /\ w >= clientWatermark
      /\ \A w \in Below(response.watermark) :
           w >= clientWatermark => w \in response.got \cup withdrawn
      /\ clientWatermark' = response.watermark /\ received' = received \cup response.got
      /\ response' = NoResponse
      /\ UNCHANGED <<activities, nextWatermark, withdrawn, requests>>
  BY DEF ClientReceives, FeedInv, AnswerComplete, queueVars
<1>0. /\ \A w : w \in Below(nextWatermark) <=> w \in Nat /\ w < nextWatermark
      /\ \A w : w \in Below(clientWatermark) <=> w \in Nat /\ w < clientWatermark
      /\ \A w : w \in Below(response.watermark) <=> w \in Nat /\ w < response.watermark
  BY <1>1, BelowDef
<1>2. WatermarksInOrder'
  <2>1. \A w \in requests : w \in 0..response.watermark
    BY <1>1 DEF FeedInv, WatermarksInOrder
  <2>2. \A w \in received \cup response.got : w \in Below(response.watermark)
    BY <1>0, <1>1 DEF FeedInv, WatermarksInOrder
  <2> QED
    BY <1>1, <2>1, <2>2 DEF FeedInv, WatermarksInOrder
<1>3. Retained'
  <2> SUFFICES ASSUME NEW w \in Below(nextWatermark), w >= response.watermark
               PROVE  w \in withdrawn \/ \E b \in activities : b.watermark = w
    BY <1>1 DEF Retained
  <2>1. w >= clientWatermark
    BY <1>0, <1>1
  <2> QED
    BY <2>1 DEF FeedInv, Retained
<1>4. NothingMissed'
  BY <1>0, <1>1 DEF FeedInv, NothingMissed
<1>5. AnswerComplete'
  BY <1>1 DEF AnswerComplete
<1> QED
  BY <1>2, <1>3, <1>4, <1>5 DEF FeedInv

\* Nothing queued is lost to the client, whatever requests and answers are
\* lost, repeated or late: the inductive invariant of the feed holds.
THEOREM FeedInvariant == Spec => []FeedInv
<1> USE ConversationAssumption
<1>1. Init => FeedInv
  BY BelowDef DEF Init, FeedInv, WatermarksInOrder, Retained, NothingMissed,
     AnswerComplete, NoResponse
<1>2. TypeOK /\ FeedInv /\ [Next]_vars => FeedInv'
  <2> SUFFICES ASSUME TypeOK, FeedInv, [Next]_vars PROVE FeedInv'
    OBVIOUS
  <2>1. ASSUME NEW i \in Ids, Enqueue(i), UNCHANGED clientVars PROVE Publishes
    <3> DEFINE new == [id |-> i, watermark |-> nextWatermark, version |-> 0]
    <3>1. /\ activities' = activities \cup {new} /\ nextWatermark' = nextWatermark + 1
          /\ UNCHANGED withdrawn /\ UNCHANGED clientVars
      BY <2>1 DEF Enqueue
    <3>2. new.watermark = nextWatermark
      OBVIOUS
    <3> HIDE DEF new
    <3> QED
      BY <3>1, <3>2 DEF Publishes, TypeOK
  <2>2. ASSUME UNCHANGED queueVars, UNCHANGED clientVars PROVE Publishes
    BY <2>2 DEF Publishes, queueVars, TypeOK, Bucket
  <2>3. CASE ServerStep
    <3>1. Publishes
      BY <2>1, <2>2, <2>3
        DEF ServerStep, PostActivityToBot, SendConversationUpdate, AddMember,
            RemoveMember, UrlKnown, BotAnswers, BotUnreachable
    <3> QED
      BY <3>1, PublishKeeps
  <2>4. ASSUME NEW k \in {"reply", "trace"}, PostActivityToUser(k) PROVE FeedInv'
    <3>1. Begin(k, NoUser, "done") /\ k \in Kinds
      BY <2>4 DEF PostActivityToUser, Kinds, Recorded
    <3>2. Publishes
      BY <2>1, <2>2, <2>4, <3>1, BeginType DEF PostActivityToUser
    <3> QED
      BY <3>2, PublishKeeps
  <2>5. ASSUME NEW b \in activities, UpdateActivity(b) PROVE FeedInv'
    <3>1. [b EXCEPT !.version = @ + 1].watermark = b.watermark
      BY DEF TypeOK, Bucket
    <3>2. TakesBack
      BY <2>5, <3>1 DEF UpdateActivity, TakesBack
    <3> QED
      BY <3>2, TakeBackKeeps
  <2>6. ASSUME NEW b \in activities, DeleteActivity(b) PROVE FeedInv'
    BY <2>6, TakeBackKeeps DEF DeleteActivity, TakesBack
  <2>7. ASSUME NEW n \in 1..2, FeedActivities(n) PROVE FeedInv'
    <3>1. Publishes
      <4>1. CASE Queues("fed")
        <5> DEFINE new == {[id |-> i, watermark |-> nextWatermark + (i - lastId - 1),
                            version |-> 0] : i \in (lastId + 1)..(lastId + n)}
        <5>1. /\ activities' = activities \cup new /\ nextWatermark' = nextWatermark + n
              /\ UNCHANGED withdrawn /\ UNCHANGED clientVars
          BY <2>7, <4>1 DEF FeedActivities
        <5>2. \A b \in new : b.watermark < nextWatermark + n
          BY DEF TypeOK
        <5>3. ASSUME NEW w \in Nat, nextWatermark <= w, w < nextWatermark + n
              PROVE  \E b \in new : b.watermark = w
          <6>1. PICK i \in (lastId + 1)..(lastId + n) : i = w - nextWatermark + lastId + 1
            BY <5>3 DEF TypeOK
          <6>2. nextWatermark + (i - lastId - 1) = w
            BY <6>1 DEF TypeOK
          <6> DEFINE b == [id |-> i, watermark |-> nextWatermark + (i - lastId - 1),
                           version |-> 0]
          <6>3. b \in new /\ b.watermark = w
            BY <6>2
          <6> QED
            BY <6>3
        <5> HIDE DEF new
        <5> QED
          BY <5>1, <5>2, <5>3 DEF Publishes, TypeOK
      <4>2. CASE ~Queues("fed")
        BY <2>2, <2>7, <4>2 DEF FeedActivities, queueVars
      <4> QED
        BY <4>1, <4>2
    <3> QED
      BY <3>1, PublishKeeps
  <2>8. CASE Normalize
    BY <2>8, TakeBackKeeps DEF Normalize, TakesBack
  <2>9. ASSUME NEW w \in requests, GetActivitiesSince(w) PROVE FeedInv'
    BY <2>9, HandlingKeeps
  <2>10. CASE ClientReceives
    BY <2>10, ArrivalKeeps
  <2>11. CASE ClientAsks \/ ResponseLost
    <3>1. /\ requests' = requests \cup {clientWatermark} \/ requests' = requests
          /\ response' = response \/ response' = NoResponse
          /\ UNCHANGED <<clientWatermark, received>> /\ UNCHANGED queueVars
      BY <2>11 DEF ClientAsks, ResponseLost
    <3>2. WatermarksInOrder'
      <4>1. \A w \in requests \cup {clientWatermark} : w \in 0..clientWatermark
        BY DEF FeedInv, WatermarksInOrder, TypeOK
      <4> QED
        BY <3>1, <4>1 DEF FeedInv, WatermarksInOrder, queueVars
    <3>3. Retained' /\ NothingMissed'
      BY <3>1 DEF FeedInv, Retained, NothingMissed, queueVars
    <3>4. AnswerComplete'
      BY <3>1 DEF FeedInv, AnswerComplete, queueVars
    <3> QED
      BY <3>2, <3>3, <3>4 DEF FeedInv
  <2>12. CASE UNCHANGED vars
    BY <2>2, <2>12, PublishKeeps DEF vars
  <2> QED
    BY <2>3, <2>4, <2>5, <2>6, <2>7, <2>8, <2>9, <2>10, <2>11, <2>12
      DEF Next, BotStep, ClientStep
<1> QED
  BY <1>1, <1>2, TypeCorrect, PTL DEF Spec

\* What the client has not been through is still queued (getActivitiesSince).
THEOREM QueueRetains == Spec => []Retained
<1>1. FeedInv => Retained
  BY DEF FeedInv
<1> QED
  BY <1>1, FeedInvariant, PTL

\* Nothing behind the client's watermark was missed (getActivitiesSince).
THEOREM ClientMissesNothing == Spec => []NothingMissed
<1>1. FeedInv => NothingMissed
  BY DEF FeedInv
<1> QED
  BY <1>1, FeedInvariant, PTL

\* No activity is delivered twice: what an answer brings lies at or past the
\* client's watermark, what the client has lies before it.
THEOREM Once == Spec => DeliveredOnce
<1>1. TypeOK /\ FeedInv /\ [Next]_vars =>
        [response # NoResponse /\ response' = NoResponse /\ received' # received
           => response.got \cap received = {}]_vars
  <2> SUFFICES ASSUME TypeOK, FeedInv, response # NoResponse
               PROVE  response.got \cap received = {}
    OBVIOUS
  <2>1. /\ \A w \in response.got : w >= clientWatermark
        /\ \A w \in received : w \in Below(clientWatermark)
    BY DEF FeedInv, AnswerComplete, WatermarksInOrder
  <2>2. \A w : w \in Below(clientWatermark) <=> w \in Nat /\ w < clientWatermark
    BY BelowDef DEF TypeOK
  <2>3. clientWatermark \in Nat
    BY DEF TypeOK
  <2>4. ASSUME NEW w \in response.got, w \in received PROVE FALSE
    <3>1. w \in Nat /\ w < clientWatermark /\ w >= clientWatermark
      BY <2>1, <2>2, <2>4
    <3> QED
      BY <3>1, <2>3
  <2> QED
    BY <2>4
<1> QED
  BY <1>1, TypeCorrect, FeedInvariant, PTL DEF Spec, DeliveredOnce

\* A Conversation is a ConversationFeed: every step of its handlers publishes,
\* withdraws, has the client collect, or leaves the feed alone.
THEOREM Refinement == Spec => ImplementsFeed
<1> USE DEF Feed!feedVars, TypeOK, Response, Bucket
<1>1. Init => Feed!FeedInit
  BY DEF Init, Feed!FeedInit
<1>2. TypeOK /\ FeedInv /\ [Next]_vars => [Feed!FeedNext]_(Feed!feedVars)
  <2> SUFFICES ASSUME TypeOK, FeedInv, [Next]_vars
               PROVE  Feed!FeedNext \/ UNCHANGED Feed!feedVars
    OBVIOUS
  <2>1. ASSUME NEW i \in Ids, Enqueue(i), UNCHANGED clientVars PROVE Feed!Publish
    BY <2>1 DEF Enqueue, Feed!Publish, clientVars
  <2>2. ASSUME UNCHANGED queueVars, UNCHANGED clientVars PROVE UNCHANGED Feed!feedVars
    BY <2>2 DEF queueVars, clientVars
  <2>3. CASE ServerStep
    BY <2>1, <2>2, <2>3
      DEF ServerStep, PostActivityToBot, SendConversationUpdate, AddMember,
          RemoveMember, UrlKnown, BotAnswers, BotUnreachable, Feed!FeedNext
  <2>4. ASSUME NEW k \in {"reply", "trace"}, PostActivityToUser(k)
        PROVE  Feed!FeedNext \/ UNCHANGED Feed!feedVars
    <3>1. Begin(k, NoUser, "done") /\ k \in Kinds
      BY <2>4 DEF PostActivityToUser, Kinds, Recorded
    <3>2. lastId' \in Ids
      BY <3>1, BeginType
    <3> QED
      BY <2>1, <2>2, <2>4, <3>2 DEF PostActivityToUser, Feed!FeedNext
  <2>5. ASSUME NEW b \in activities, UpdateActivity(b) PROVE UNCHANGED Feed!feedVars
    BY <2>5 DEF UpdateActivity, clientVars
  <2>6. ASSUME NEW b \in activities, DeleteActivity(b) PROVE Feed!Withdraw
    <3>1. b.watermark \in Below(nextWatermark)
      BY BelowDef DEF FeedInv, WatermarksInOrder
    <3> QED
      BY <2>6, <3>1 DEF DeleteActivity, Feed!Withdraw, clientVars, Below
  <2>7. ASSUME NEW n \in 1..2, FeedActivities(n)
        PROVE  Feed!Publish \/ UNCHANGED Feed!feedVars
    BY <2>7 DEF FeedActivities, Feed!Publish, clientVars
  <2>8. CASE Normalize
    <3>1. \A b \in activities : b.watermark \in Below(nextWatermark)
      BY BelowDef DEF FeedInv, WatermarksInOrder
    <3>2. /\ withdrawn \subseteq withdrawn'
          /\ withdrawn' \subseteq withdrawn \cup 0..(nextWatermark - 1)
      BY <2>8, <3>1 DEF Normalize, Below
    <3>3. Feed!Withdraw
      BY <2>8, <3>2 DEF Normalize, Feed!Withdraw, clientVars
    <3> QED
      BY <3>3 DEF Feed!FeedNext
  <2>9. ASSUME NEW w \in requests, GetActivitiesSince(w) PROVE UNCHANGED Feed!feedVars
    BY <2>9 DEF GetActivitiesSince
  <2>10. CASE ClientReceives
    <3> DEFINE between == clientWatermark..(response.watermark - 1)
    <3>1. /\ response.watermark \in clientWatermark..nextWatermark
          /\ response.got \subseteq between
          /\ between \ withdrawn \subseteq response.got
      BY <2>10 DEF ClientReceives, FeedInv, AnswerComplete, Below
    <3>2. /\ clientWatermark' = response.watermark /\ received' = received \cup response.got
          /\ UNCHANGED <<nextWatermark, withdrawn>>
      BY <2>10 DEF ClientReceives, queueVars
    <3>3. clientWatermark..(clientWatermark' - 1) = between
      BY <3>2
    <3>4. response.got \in SUBSET between
      BY <3>1
    <3> HIDE DEF between
    <3>5. Feed!Collect
      BY <3>1, <3>2, <3>3, <3>4 DEF Feed!Collect
    <3> QED
      BY <3>5 DEF Feed!FeedNext
  <2>11. CASE ClientAsks \/ ResponseLost
    BY <2>11 DEF ClientAsks, ResponseLost, queueVars
  <2>12. CASE UNCHANGED vars
    BY <2>12 DEF vars, queueVars, clientVars
  <2> QED
    BY <2>3, <2>4, <2>5, <2>6, <2>7, <2>8, <2>9, <2>10, <2>11, <2>12
      DEF Next, BotStep, ClientStep, Feed!FeedNext
<1> QED
  BY <1>1, <1>2, TypeCorrect, FeedInvariant, PTL DEF Spec, ImplementsFeed, Feed!FeedSpec

(***************************************************************************)
(* The transcript: what is recorded after a post is recorded by an         *)
(* operation that has ended, which posts no more.                          *)
(***************************************************************************)
Aftermaths == {"status", "member join", "member left"}
Adds == {"activity add"}
Over == {"done", "failed"}

FollowInv ==
  /\ \A i \in Ids : i > lastId => pc[i] = "none"
  /\ \A n \in DOMAIN transcript : transcript[n].type \in Aftermaths => pc[transcript[n].id] \in Over
  /\ RecordsFollowPosts

\* What a sequence is, and is after an Append.
LEMMA SequenceAt ==
  ASSUME NEW S, NEW s \in Seq(S)
  PROVE  Len(s) \in Nat /\ DOMAIN s = 1..Len(s) /\ \A n \in 1..Len(s) : s[n] \in S
OBVIOUS

LEMMA AppendAt ==
  ASSUME NEW S, NEW s \in Seq(S), NEW x \in S
  PROVE  /\ DOMAIN Append(s, x) = 1..(Len(s) + 1) /\ Append(s, x)[Len(s) + 1] = x
         /\ \A n \in 1..Len(s) : Append(s, x)[n] = s[n]
OBVIOUS

\* The indices of a sequence with one more element.
LEMMA NextIndex ==
  ASSUME NEW l \in Nat
  PROVE  /\ \A n \in 1..(l + 1) : n \in 1..l \/ n = l + 1
         /\ \A n \in 1..l : n \in Nat /\ n < l + 1
OBVIOUS

\* The records of the transcript name operations.
LEMMA TranscriptAt ==
  ASSUME TypeOK
  PROVE  /\ Len(transcript) \in Nat /\ DOMAIN transcript = 1..Len(transcript)
         /\ \A n \in 1..Len(transcript) : transcript[n].id \in Ids
<1> DEFINE S == [type : RecordTypes, id : Ids]
<1>1. transcript \in Seq(S)
  BY DEF TypeOK
<1>2. \A e \in S : e.id \in Ids
  OBVIOUS
<1> HIDE DEF S
<1> QED
  BY <1>1, <1>2, SequenceAt

\* An operation that is over stays so, and a new one has not begun before.
OpsGoOn ==
  /\ \A i \in Ids : pc[i] \in Over => pc'[i] \in Over
  /\ \A i \in Ids : i > lastId' => pc'[i] = "none"

LEMMA OpsStay ==
  ASSUME TypeOK, FollowInv, UNCHANGED <<lastId, pc>>
  PROVE  OpsGoOn
BY DEF FollowInv, OpsGoOn

LEMMA OpBegins ==
  ASSUME TypeOK, FollowInv, NEW k, NEW u, NEW where, Begin(k, u, where)
  PROVE  /\ OpsGoOn /\ lastId' \in Ids /\ pc[lastId'] = "none" /\ pc'[lastId'] = where
<1>1. lastId' \in Ids /\ lastId' = lastId + 1 /\ lastId \in Nat
  BY ConversationAssumption DEF TypeOK, Begin, Ids
<1>2. pc[lastId'] = "none" /\ pc'[lastId'] = where /\ \A i \in Ids \ {lastId'} : pc'[i] = pc[i]
  BY <1>1 DEF FollowInv, TypeOK, Begin, Ids
<1>3. \A i \in Ids : i > lastId' => i > lastId /\ i # lastId'
  BY <1>1 DEF Ids
<1> QED
  BY <1>1, <1>2, <1>3 DEF OpsGoOn, FollowInv, Over

LEMMA OpGoes ==
  ASSUME TypeOK, FollowInv, NEW i \in Ids, NEW to, pc[i] \in {"url", "fetch"},
         lastId' = lastId, pc' = [pc EXCEPT ![i] = to]
  PROVE  OpsGoOn /\ pc'[i] = to
BY DEF TypeOK, FollowInv, OpsGoOn, Over

\* Nothing is recorded, or everything is wiped.
LEMMA NothingRecorded ==
  ASSUME TypeOK, FollowInv, OpsGoOn, transcript' = transcript \/ transcript' = <<>>
  PROVE  FollowInv'
<1>1. \A n \in DOMAIN transcript : transcript[n].id \in Ids
  BY TranscriptAt
<1>2. DOMAIN transcript' \subseteq DOMAIN transcript
      /\ \A n \in DOMAIN transcript' : transcript'[n] = transcript[n]
  OBVIOUS
<1> QED
  BY <1>1, <1>2 DEF FollowInv, OpsGoOn, RecordsFollowPosts

\* A record goes behind all others: it is of an operation that is over, or no post of
\* one that is.
LEMMA RecordKeeps ==
  ASSUME TypeOK, FollowInv, OpsGoOn, NEW rt \in RecordTypes, NEW i \in Ids, Record(rt, i),
         rt \in Aftermaths => pc'[i] \in Over,
         rt \in Adds => pc[i] \notin Over
  PROVE  FollowInv'
<1> DEFINE x == [type |-> rt, id |-> i]
           l == Len(transcript)
<1>1. l \in Nat /\ DOMAIN transcript = 1..l /\ \A n \in 1..l : transcript[n].id \in Ids
  BY TranscriptAt
<1>2. /\ DOMAIN transcript' = 1..(l + 1) /\ transcript'[l + 1] = x
      /\ \A n \in 1..l : transcript'[n] = transcript[n]
  <2> DEFINE S == [type : RecordTypes, id : Ids]
  <2>1. transcript \in Seq(S) /\ x \in S /\ transcript' = Append(transcript, x)
    BY DEF TypeOK, Record
  <2> HIDE DEF S, x
  <2> QED
    BY <2>1, AppendAt
<1> HIDE DEF l
<1>3. \A n \in 1..(l + 1) : n \in 1..l \/ n = l + 1
  BY <1>1, NextIndex
<1>4. ASSUME NEW n \in 1..(l + 1), transcript'[n].type \in Aftermaths
      PROVE  pc'[transcript'[n].id] \in Over
  <2>1. CASE n \in 1..l
    <3>1. transcript'[n] = transcript[n] /\ transcript[n].id \in Ids
      BY <1>1, <1>2, <2>1
    <3>2. pc[transcript[n].id] \in Over
      BY <1>1, <1>4, <2>1, <3>1 DEF FollowInv
    <3> QED
      BY <3>1, <3>2 DEF OpsGoOn
  <2>2. CASE n = l + 1
    <3>1. transcript'[n].type = rt /\ transcript'[n].id = i
      BY <1>2, <2>2
    <3> QED
      BY <1>4, <3>1
  <2> QED
    BY <1>3, <2>1, <2>2
<1>5. ASSUME NEW n \in 1..(l + 1), NEW m \in 1..(l + 1), transcript'[n].type \in Aftermaths,
             transcript'[m] = [type |-> "activity add", id |-> transcript'[n].id]
      PROVE  m < n
  <2>1. CASE n \in 1..l /\ m \in 1..l
    BY <1>1, <1>2, <1>5, <2>1 DEF FollowInv, RecordsFollowPosts, Aftermaths
  <2>2. CASE n = l + 1 /\ m \in 1..l
    BY <1>1, <2>2, NextIndex
  <2>3. CASE m = l + 1
    <3>1. transcript'[m] = x
      BY <1>2, <2>3
    <3> DEFINE y == [type |-> "activity add", id |-> transcript'[n].id]
    <3>2. x.type = y.type /\ x.id = y.id /\ y.type \in Adds /\ y.type \notin Aftermaths
      BY <1>5, <3>1 DEF Adds, Aftermaths
    <3>3. n # l + 1
      BY <1>2, <1>5, <3>2, Zenon
    <3>4. transcript'[n] = transcript[n] /\ n \in DOMAIN transcript
      BY <1>1, <1>2, <1>3, <3>3
    <3> QED
      BY <1>5, <3>2, <3>4 DEF FollowInv, Adds
  <2> QED
    BY <1>3, <2>1, <2>2, <2>3
<1>6. RecordsFollowPosts'
  BY <1>2, <1>5 DEF RecordsFollowPosts, Aftermaths
<1> QED
  BY <1>2, <1>4, <1>6 DEF FollowInv, OpsGoOn

\* What an operation records once its post has ended comes after the post, however the
\* posts interleave.
THEOREM RecordsInOrder == Spec => []RecordsFollowPosts
<1> USE DEF Aftermaths, Adds, Over, RecordTypes
<1>1. Init => FollowInv
  BY DEF Init, FollowInv, RecordsFollowPosts
<1>2. TypeOK /\ FollowInv /\ [Next]_vars => FollowInv'
  <2> SUFFICES ASSUME TypeOK, FollowInv, [Next]_vars PROVE FollowInv'
    OBVIOUS
  <2>1. ASSUME NEW k \in Posts, PostActivityToBot(k) PROVE FollowInv'
    <3> DEFINE where == IF HasEndpoint THEN "url" ELSE IF k = "status" THEN "done" ELSE "failed"
    <3>1. Begin(k, NoUser, where) /\ (k = "status" /\ ~HasEndpoint => where = "done")
      BY <2>1 DEF PostActivityToBot
    <3>2. OpsGoOn /\ lastId' \in Ids /\ pc'[lastId'] = where
      BY <3>1, OpBegins
    <3>3. \/ Record("status", lastId') /\ where = "done"
          \/ transcript' = transcript
      BY <2>1 DEF PostActivityToBot
    <3> HIDE DEF where
    <3> QED
      BY <3>2, <3>3, RecordKeeps, NothingRecorded
  <2>2. ASSUME NEW u \in Users, SendConversationUpdate(u) PROVE FollowInv'
    BY <2>2, OpBegins, NothingRecorded DEF SendConversationUpdate
  <2>3. ASSUME NEW u \in Users, AddMember(u) PROVE FollowInv'
    <3> DEFINE stage == IF HasEndpoint THEN UpdateStage ELSE "done"
    <3>1. OpsGoOn /\ lastId' \in Ids /\ pc'[lastId'] = stage
      <4>1. Begin("join", u, stage)
        BY <2>3 DEF AddMember
      <4> HIDE DEF stage
      <4> QED
        BY <4>1, OpBegins
    <3>2. \/ Record("member join", lastId') /\ stage = "done"
          \/ transcript' = transcript
      BY <2>3 DEF AddMember
    <3> HIDE DEF stage
    <3> QED
      BY <3>1, <3>2, RecordKeeps, NothingRecorded
  <2>4. ASSUME NEW u \in Users, RemoveMember(u) PROVE FollowInv'
    <3>1. OpsGoOn /\ lastId' \in Ids /\ pc'[lastId'] = UpdateStage
      BY <2>4, OpBegins DEF RemoveMember
    <3>2. \/ Record("member left", lastId') /\ UpdateStage = "done"
          \/ transcript' = transcript
      BY <2>4 DEF RemoveMember
    <3> QED
      BY <3>1, <3>2, RecordKeeps, NothingRecorded
  <2>5. ASSUME NEW i \in Ids, UrlKnown(i) PROVE FollowInv'
    BY <2>5, OpGoes, RecordKeeps DEF UrlKnown
  <2>6. ASSUME NEW i \in Ids, BotAnswers(i) \/ BotUnreachable(i) PROVE FollowInv'
    <3>1. OpsGoOn /\ pc'[i] \in Over
      BY <2>6, OpGoes DEF BotAnswers, BotUnreachable
    <3>2. transcript' = transcript \/ \E type \in Aftermaths : Record(type, i)
      BY <2>6 DEF BotAnswers, BotUnreachable, RecordAftermath, Aftermath
    <3> QED
      BY <3>1, <3>2, RecordKeeps, NothingRecorded
  <2>7. ASSUME NEW k \in {"reply", "trace"}, PostActivityToUser(k) PROVE FollowInv'
    BY <2>7, OpBegins, RecordKeeps DEF PostActivityToUser
  <2>8. ASSUME NEW b \in activities, UpdateActivity(b) \/ DeleteActivity(b) PROVE FollowInv'
    <3>1. OpsGoOn /\ b.id \in Ids
      BY <2>8, OpsStay DEF UpdateActivity, DeleteActivity, opVars, TypeOK, Bucket
    <3> QED
      BY <2>8, <3>1, RecordKeeps DEF UpdateActivity, DeleteActivity
  <2>9. ASSUME NEW n \in 1..2, FeedActivities(n) PROVE FollowInv'
    <3>1. OpsGoOn
      <4>1. lastId \in Nat /\ lastId' = lastId + n
        <5>1. lastId' = lastId + n
          BY <2>9 DEF FeedActivities
        <5>2. lastId \in 0..MaxActivities
          BY DEF TypeOK
        <5> QED
          BY <5>1, <5>2, ConversationAssumption
      <4>2. \A i \in Ids : pc'[i] = IF i \in (lastId + 1)..(lastId + n) THEN "done" ELSE pc[i]
        BY <2>9 DEF FeedActivities
      <4>3. \A i \in Ids : i > lastId' => i > lastId /\ i \notin (lastId + 1)..(lastId + n)
        BY <4>1 DEF Ids
      <4> QED
        BY <4>2, <4>3 DEF FollowInv, OpsGoOn
    <3> QED
      BY <2>9, <3>1, NothingRecorded DEF FeedActivities
  <2>10. CASE Normalize
    BY <2>10, OpsStay, NothingRecorded DEF Normalize, opVars
  <2>11. CASE ClientStep
    BY <2>11, OpsStay, NothingRecorded
      DEF ClientStep, ClientAsks, ClientReceives, ResponseLost, GetActivitiesSince, opVars
  <2>12. CASE UNCHANGED vars
    BY <2>12, OpsStay, NothingRecorded DEF vars, opVars
  <2> QED
    BY <2>1, <2>2, <2>3, <2>4, <2>5, <2>6, <2>7, <2>8, <2>9, <2>10, <2>11, <2>12
       DEF Next, BotStep, ServerStep
<1>3. FollowInv => RecordsFollowPosts
  BY DEF FollowInv
<1> QED
  BY <1>1, <1>2, <1>3, TypeCorrect, PTL DEF Spec
=============================================================================
