SPECIFICATION FairSpec
CONSTANTS
  MaxActivities = 2
  MaxUpdates = 1
  Users = {u1}
  Posts = {"message", "trace", "status"}
  Polling = TRUE
  Bot = Bot
  User = User
  HasEndpoint = TRUE
  Debug = FALSE
  IsTranscript = FALSE
  Recreate = TRUE
INVARIANTS TypeOK FeedInv RecordsFollowPosts
PROPERTIES DeliveredOnce ImplementsFeed EveryActivityCollected
