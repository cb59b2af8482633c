-------------------------- MODULE ConversationFeed --------------------------
(***************************************************************************)
(* What a conversation promises its Web Chat client: the activities it     *)
(* queued form a log; the client collects the log in order, each entry     *)
(* once, and misses none but those withdrawn before it collected them.     *)
(* Conversation implements this specification.                             *)
(***************************************************************************)
EXTENDS Naturals

VARIABLES
  published,  \* how many activities were queued; entry w is the w-th, from 0
  withdrawn,  \* entries taken back by the bot or by a reset
  collected,  \* entries the client got
  cursor      \* the client has been through every entry below cursor

feedVars == <<published, withdrawn, collected, cursor>>

FeedInit ==
  /\ published = 0
  /\ withdrawn = {} /\ collected = {}
  /\ cursor = 0

Publish ==
  /\ published' \in Nat /\ published' > published
  /\ UNCHANGED <<withdrawn, collected, cursor>>

Withdraw ==
  /\ withdrawn \subseteq withdrawn'
  /\ withdrawn' \subseteq withdrawn \cup 0..(published - 1)
  /\ UNCHANGED <<published, collected, cursor>>

\* The client moves on to a later cursor with all that lies between, except
\* that a withdrawn entry may or may not have been on its way already.
Collect ==
  /\ cursor' \in cursor..published
  /\ \E between \in SUBSET (cursor..(cursor' - 1)) :
       /\ (cursor..(cursor' - 1)) \ withdrawn \subseteq between
       /\ collected' = collected \cup between
  /\ UNCHANGED <<published, withdrawn>>

FeedNext == Publish \/ Withdraw \/ Collect
FeedSpec == FeedInit /\ [][FeedNext]_feedVars
=============================================================================
