----------------------------- MODULE PartsProofs -----------------------------
(***************************************************************************)
(* The components of MCParts, each with the constants and in the slots it  *)
(* has there, keep what ServerPartsProofs, ClientPartsProofs and           *)
(* RelationshipsProofs show of them for every value of their constants:    *)
(* the properties that the run checks are theorems of PartsSpec.           *)
(***************************************************************************)
EXTENDS MCParts, RelationshipsProofs, TLAPS

Server == INSTANCE ServerPartsProofs WITH
  Users <- {ana, bob}, Founder <- ana, Requests <- Tasks,
  members <- v1, admins <- v2, texts <- v3, listening <- v4, directs <- v5,
  request <- v6,
  Reports <- Records, Filings <- Tasks,
  status <- v1, resolved <- v2, reopened <- v3, filing <- v4,
  Stories <- {k1, k2}, Views <- Tasks,
  audience <- v1, viewed <- v2, friends <- v3, blocked <- v4, look <- v5,
  access <- v6, due <- v7, crossed <- v8,
  Chats <- Tasks, MaxStories <- 2,
  photo <- v1, receipts <- v2, tie <- v3, stories <- v4, inside <- v5,
  claims <- v6, posts <- v7, read <- v8, told <- v9, open <- v10, admin <- v11,
  Numbers <- {k1, k2}, Checks <- Tasks, MaxAttempts <- 2,
  accounts <- v1, entry <- v2, drawn <- v3, sent <- v4, expired <- v5,
  dead <- v6, guesses <- v7, check <- v8,
  Sockets <- Records, Timers <- Tasks,
  flag <- v1, phase <- v2, room <- v3, missed <- v4, grace <- v5,
  pending <- v6, locked <- v7, locking <- v8, crossing <- v9,
  Files <- Records, Jobs <- Tasks, Quota <- 2, Limit <- 1,
  disk <- v1, shelf <- v2, old <- v3, used <- v4, job <- v5, sweep <- v6,
  late <- v7, unaudited <- v8,
  People <- Tasks, MaxDocs <- 2,
  users <- v1, chats <- v2, notes <- v3, ties <- v4, blocks <- v5,
  owners <- v6, calls <- v7, stage <- v8, todo <- v9, target <- v10

Client == INSTANCE ClientPartsProofs WITH
  Calls <- Tasks, MaxSockets <- 2,
  shown <- v1, incoming <- v2, video <- v3, connected <- v4, ready <- v5,
  socket <- v6, heard <- v7, prep <- v8, live <- v9, held <- v10, peer <- v11,
  Keys <- Tasks, Retries <- 1,
  cache <- v1, send <- v2, failures <- v3, delayed <- v4, stored <- v5,
  events <- v6, fetch <- v7, hidden <- v8, misread <- v9,
  Chats <- {ana, bob}, Texts <- {k1}, Files <- Tasks, Sends <- {k1},
  facing <- v1, piece <- v2, here <- v3, recorder <- v4, taping <- v5,
  sending <- v6, beside <- v7, twice <- v8,
  Tabs <- Tasks, Slots <- {k1, k2}, MaxSessions <- 3,
  user <- v1, stale <- v2, request <- v3, refreshing <- v4, refresh <- v5,
  cookie <- v6, sessions <- v7, issued <- v8, taker <- v9, dropped <- v10,
  quit <- v11,
  wanted <- v1, prod <- v2, up <- v3, phase <- v4, link <- v5, mode <- v6,
  redis <- v7, data <- v8, use <- v9, probe <- v10, answer <- v11

-----------------------------------------------------------------------------
(* What MCParts instantiates is what is proved about: the definitions have *)
(* two names each and one meaning.                                         *)

LEMMA SamePresence ==
  /\ Presences!Init <=> Server!Online!Init
  /\ Presences!Next <=> Server!Online!Next
  /\ UNCHANGED Presences!presenceVars <=> UNCHANGED Server!Online!presenceVars
  /\ Presences!TypeOK <=> Server!Online!TypeOK
  /\ Presences!FlagFollowsSockets <=> Server!Online!FlagFollowsSockets
<1>1. Presences!Init <=> Server!Online!Init
  BY Zenon DEF Presences!Init, Server!Online!Init
<1>2. Presences!Next <=> Server!Online!Next
  BY Zenon DEF Presences!Next, Server!Online!Next, Presences!SignIn,
               Server!Online!SignIn, Presences!SignOut, Server!Online!SignOut,
               Presences!Lock, Server!Online!Lock, Presences!Unlock,
               Server!Online!Unlock, Presences!Connect, Server!Online!Connect,
               Presences!Join, Server!Online!Join, Presences!WriteOnline,
               Server!Online!WriteOnline, Presences!CloseEarly,
               Server!Online!CloseEarly, Presences!Disconnect,
               Server!Online!Disconnect, Presences!Fire, Server!Online!Fire,
               Presences!WriteOffline, Server!Online!WriteOffline,
               Presences!Finish, Server!Online!Finish, Presences!DropSockets,
               Server!Online!DropSockets, Presences!CanStart,
               Server!Online!CanStart, Presences!lockVars,
               Server!Online!lockVars, Presences!Cleared, Server!Online!Cleared,
               Presences!Working, Server!Online!Working
<1>3. UNCHANGED Presences!presenceVars <=> UNCHANGED Server!Online!presenceVars
  BY DEF Presences!presenceVars, Server!Online!presenceVars
<1>4. Presences!TypeOK <=> Server!Online!TypeOK
  BY Zenon DEF Presences!TypeOK, Server!Online!TypeOK, Presences!Flags,
               Server!Online!Flags
<1>5. Presences!FlagFollowsSockets <=> Server!Online!FlagFollowsSockets
  BY Zenon DEF Presences!FlagFollowsSockets, Server!Online!FlagFollowsSockets,
               Presences!Quiet, Server!Online!Quiet, Presences!Working,
               Server!Online!Working, Presences!LockedIsOut,
               Server!Online!LockedIsOut
<1> QED
  BY <1>1, <1>2, <1>3, <1>4, <1>5

LEMMA SameCodes ==
  /\ Codes!AttemptsAssumption <=> Server!Code!AttemptsAssumption
  /\ Codes!Init <=> Server!Code!Init
  /\ Codes!Next <=> Server!Code!Next
  /\ UNCHANGED Codes!codeVars <=> UNCHANGED Server!Code!codeVars
  /\ Codes!TypeOK <=> Server!Code!TypeOK
  /\ Codes!CodesAreSpent <=> Server!Code!CodesAreSpent
<1>1. Codes!AttemptsAssumption <=> Server!Code!AttemptsAssumption
  BY Zenon DEF Codes!AttemptsAssumption, Server!Code!AttemptsAssumption
<1>2. Codes!Init <=> Server!Code!Init
  BY Zenon DEF Codes!Init, Server!Code!Init, Codes!Waiting, Server!Code!Waiting
<1>3. Codes!Next <=> Server!Code!Next
  BY Zenon DEF Codes!Next, Server!Code!Next, Codes!Register,
               Server!Code!Register, Codes!Issue, Server!Code!Issue,
               Codes!Mailed, Server!Code!Mailed, Codes!MailFails,
               Server!Code!MailFails, Codes!CreateUser, Server!Code!CreateUser,
               Codes!Wrong, Server!Code!Wrong, Codes!PutBack,
               Server!Code!PutBack, Codes!Right, Server!Code!Right,
               Codes!BadPassword, Server!Code!BadPassword, Codes!UseUp,
               Server!Code!UseUp, Codes!Expire, Server!Code!Expire, Codes!Draw,
               Server!Code!Draw, Codes!At, Server!Code!At, Codes!Waiting,
               Server!Code!Waiting, Codes!Become, Server!Code!Become,
               Codes!Guess, Server!Code!Guess, Codes!Compared,
               Server!Code!Compared, Codes!Tried, Server!Code!Tried
<1>4. UNCHANGED Codes!codeVars <=> UNCHANGED Server!Code!codeVars
  BY DEF Codes!codeVars, Server!Code!codeVars
<1>5. Codes!TypeOK <=> Server!Code!TypeOK
  BY Zenon DEF Codes!TypeOK, Server!Code!TypeOK, Codes!Entries,
               Server!Code!Entries
<1>6. Codes!CodesAreSpent <=> Server!Code!CodesAreSpent
  BY Zenon DEF Codes!CodesAreSpent, Server!Code!CodesAreSpent
<1> QED
  BY <1>1, <1>2, <1>3, <1>4, <1>5, <1>6

LEMMA SameGroup ==
  /\ Group!FounderAssumption <=> Server!Group!FounderAssumption
  /\ Group!Init <=> Server!Group!Init
  /\ Group!Next <=> Server!Group!Next
  /\ UNCHANGED Group!groupVars <=> UNCHANGED Server!Group!groupVars
  /\ Group!TypeOK <=> Server!Group!TypeOK
  /\ Group!GroupIsGoverned <=> Server!Group!GroupIsGoverned
<1>1. Group!FounderAssumption <=> Server!Group!FounderAssumption
  BY Zenon DEF Group!FounderAssumption, Server!Group!FounderAssumption
<1>2. Group!Init <=> Server!Group!Init
  BY Zenon DEF Group!Init, Server!Group!Init, Group!NoRequest,
               Server!Group!NoRequest
<1>3. Group!Next <=> Server!Group!Next
  BY Zenon DEF Group!Next, Server!Group!Next, Group!Create, Server!Group!Create,
               Group!AskUpdate, Server!Group!AskUpdate, Group!AskLeave,
               Server!Group!AskLeave, Group!AskJoin, Server!Group!AskJoin,
               Group!AskSend, Server!Group!AskSend, Group!AskDirect,
               Server!Group!AskDirect, Group!Recheck, Server!Group!Recheck,
               Group!Write, Server!Group!Write, Group!Leave, Server!Group!Leave,
               Group!Join, Server!Group!Join, Group!Send, Server!Group!Send,
               Group!CreateDirect, Server!Group!CreateDirect, Group!Hide,
               Server!Group!Hide, Group!At, Server!Group!At, Group!Begin,
               Server!Group!Begin, Group!Successors, Server!Group!Successors,
               Group!NoRequest, Server!Group!NoRequest, Group!Done,
               Server!Group!Done
<1>4. UNCHANGED Group!groupVars <=> UNCHANGED Server!Group!groupVars
  BY DEF Group!groupVars, Server!Group!groupVars
<1>5. Group!TypeOK <=> Server!Group!TypeOK
  BY Zenon DEF Group!TypeOK, Server!Group!TypeOK, Group!Pcs, Server!Group!Pcs
<1>6. Group!GroupIsGoverned <=> Server!Group!GroupIsGoverned
  BY Zenon DEF Group!GroupIsGoverned, Server!Group!GroupIsGoverned
<1> QED
  BY <1>1, <1>2, <1>3, <1>4, <1>5, <1>6

LEMMA SameUpload ==
  /\ Shelf!UploadAssumption <=> Server!Shelf!UploadAssumption
  /\ Shelf!Init <=> Server!Shelf!Init
  /\ Shelf!Next <=> Server!Shelf!Next
  /\ UNCHANGED Shelf!uploadVars <=> UNCHANGED Server!Shelf!uploadVars
  /\ Shelf!TypeOK <=> Server!Shelf!TypeOK
  /\ Shelf!FilesMatchRecords <=> Server!Shelf!FilesMatchRecords
<1>1. Shelf!UploadAssumption <=> Server!Shelf!UploadAssumption
  BY Zenon DEF Shelf!UploadAssumption, Server!Shelf!UploadAssumption,
               Shelf!IsFiniteSet, Server!Shelf!IsFiniteSet
<1>2. Shelf!Init <=> Server!Shelf!Init
  BY Zenon DEF Shelf!Init, Server!Shelf!Init, Shelf!NoJob, Server!Shelf!NoJob,
               Shelf!NoSweep, Server!Shelf!NoSweep
<1>3. Shelf!Next <=> Server!Shelf!Next
  BY Zenon DEF Shelf!Next, Server!Shelf!Next, Shelf!Refuse, Server!Shelf!Refuse,
               Shelf!WithinQuota, Server!Shelf!WithinQuota, Shelf!Register,
               Server!Shelf!Register, Shelf!Audited, Server!Shelf!Audited,
               Shelf!AuditFails, Server!Shelf!AuditFails, Shelf!StoreUse,
               Server!Shelf!StoreUse, Shelf!Receive, Server!Shelf!Receive,
               Shelf!Use, Server!Shelf!Use, Shelf!Release, Server!Shelf!Release,
               Shelf!Age, Server!Shelf!Age, Shelf!Look, Server!Shelf!Look,
               Shelf!StartSweep, Server!Shelf!StartSweep, Shelf!Unlink,
               Server!Shelf!Unlink, Shelf!Mark, Server!Shelf!Mark,
               Shelf!EndSweep, Server!Shelf!EndSweep, Shelf!At, Server!Shelf!At,
               Shelf!Done, Server!Shelf!Done, Shelf!Goto, Server!Shelf!Goto,
               Shelf!Claim, Server!Shelf!Claim, Shelf!Active,
               Server!Shelf!Active, Shelf!Take, Server!Shelf!Take,
               Shelf!FirstOf, Server!Shelf!FirstOf, Shelf!Orphans,
               Server!Shelf!Orphans, Shelf!RemoveAt, Server!Shelf!RemoveAt,
               Shelf!NoSweep, Server!Shelf!NoSweep, Shelf!NoJob,
               Server!Shelf!NoJob, Shelf!Doomed, Server!Shelf!Doomed,
               Shelf!Range, Server!Shelf!Range, Shelf!Older, Server!Shelf!Older,
               Shelf!Cardinality, Server!Shelf!Cardinality, Shelf!Place,
               Server!Shelf!Place
<1>4. UNCHANGED Shelf!uploadVars <=> UNCHANGED Server!Shelf!uploadVars
  BY DEF Shelf!uploadVars, Server!Shelf!uploadVars
<1>5. Shelf!TypeOK <=> Server!Shelf!TypeOK
  BY Zenon DEF Shelf!TypeOK, Server!Shelf!TypeOK
<1>6. Shelf!FilesMatchRecords <=> Server!Shelf!FilesMatchRecords
  BY Zenon DEF Shelf!FilesMatchRecords, Server!Shelf!FilesMatchRecords,
               Shelf!Active, Server!Shelf!Active, Shelf!Cardinality,
               Server!Shelf!Cardinality, Shelf!Range, Server!Shelf!Range
<1> QED
  BY <1>1, <1>2, <1>3, <1>4, <1>5, <1>6

LEMMA SameFiling ==
  /\ Report!Init <=> Server!Report!Init
  /\ Report!Next <=> Server!Report!Next
  /\ UNCHANGED Report!reportVars <=> UNCHANGED Server!Report!reportVars
  /\ Report!TypeOK <=> Server!Report!TypeOK
  /\ Report!OneOpenReport <=> Server!Report!OneOpenReport
<1>1. Report!Init <=> Server!Report!Init
  BY Zenon DEF Report!Init, Server!Report!Init
<1>2. Report!Next <=> Server!Report!Next
  BY Zenon DEF Report!Next, Server!Report!Next, Report!RefuseInsert,
               Server!Report!RefuseInsert, Report!File, Server!Report!File,
               Report!Insert, Server!Report!Insert, Report!OpenStatuses,
               Server!Report!OpenStatuses, Report!Update, Server!Report!Update,
               Report!Admits, Server!Report!Admits, Report!Open,
               Server!Report!Open, Report!Store, Server!Report!Store
<1>3. UNCHANGED Report!reportVars <=> UNCHANGED Server!Report!reportVars
  BY DEF Report!reportVars, Server!Report!reportVars
<1>4. Report!TypeOK <=> Server!Report!TypeOK
  BY Zenon DEF Report!TypeOK, Server!Report!TypeOK, Report!OpenStatuses,
               Server!Report!OpenStatuses
<1>5. Report!OneOpenReport <=> Server!Report!OneOpenReport
  BY Zenon DEF Report!OneOpenReport, Server!Report!OneOpenReport,
               Report!Cardinality, Server!Report!Cardinality, Report!Open,
               Server!Report!Open, Report!OpenStatuses,
               Server!Report!OpenStatuses
<1> QED
  BY <1>1, <1>2, <1>3, <1>4, <1>5

LEMMA SameAccess ==
  /\ Story!StoryAssumption <=> Server!Story!StoryAssumption
  /\ Story!Init <=> Server!Story!Init
  /\ Story!Next <=> Server!Story!Next
  /\ UNCHANGED Story!storyVars <=> UNCHANGED Server!Story!storyVars
  /\ Story!TypeOK <=> Server!Story!TypeOK
  /\ Story!ViewersHadAccess <=> Server!Story!ViewersHadAccess
<1>1. Story!StoryAssumption <=> Server!Story!StoryAssumption
  BY Zenon DEF Story!StoryAssumption, Server!Story!StoryAssumption
<1>2. Story!Init <=> Server!Story!Init
  BY Zenon DEF Story!Init, Server!Story!Init, Story!Idle, Server!Story!Idle
<1>3. Story!Next <=> Server!Story!Next
  BY Zenon DEF Story!Next, Server!Story!Next, Story!deleteStory,
               Server!Story!deleteStory, Story!Audiences,
               Server!Story!Audiences, Story!createStory,
               Server!Story!createStory, Story!NotBlocked,
               Server!Story!NotBlocked, Story!InTheAudience,
               Server!Story!InTheAudience, Story!AddViewer,
               Server!Story!AddViewer, Story!viewStory, Server!Story!viewStory,
               Story!Relate, Server!Story!Relate, Story!Stored,
               Server!Story!Stored, Story!tieVars, Server!Story!tieVars,
               Story!Remember, Server!Story!Remember, Story!Idle,
               Server!Story!Idle, Story!InAudience, Server!Story!InAudience,
               Story!canAccessStory, Server!Story!canAccessStory, Story!Accept,
               Server!Story!Accept, Story!WriteAccept, Server!Story!WriteAccept,
               Story!Remove, Server!Story!Remove, Story!Block,
               Server!Story!Block, Story!CloseFriendships,
               Server!Story!CloseFriendships, Story!Unblock,
               Server!Story!Unblock, Story!HasAccess, Server!Story!HasAccess
<1>4. UNCHANGED Story!storyVars <=> UNCHANGED Server!Story!storyVars
  BY DEF Story!storyVars, Server!Story!storyVars
<1>5. Story!TypeOK <=> Server!Story!TypeOK
  BY Zenon DEF Story!TypeOK, Server!Story!TypeOK, Story!Audiences,
               Server!Story!Audiences, Story!Stored, Server!Story!Stored
<1>6. Story!ViewersHadAccess <=> Server!Story!ViewersHadAccess
  BY Zenon DEF Story!ViewersHadAccess, Server!Story!ViewersHadAccess
<1> QED
  BY <1>1, <1>2, <1>3, <1>4, <1>5, <1>6

LEMMA SameMigration ==
  /\ Legacy!LegacyAssumption <=> Server!Legacy!LegacyAssumption
  /\ Legacy!Init <=> Server!Legacy!Init
  /\ Legacy!Next <=> Server!Legacy!Next
  /\ UNCHANGED Legacy!legacyVars <=> UNCHANGED Server!Legacy!legacyVars
  /\ Legacy!TypeOK <=> Server!Legacy!TypeOK
  /\ Legacy!MigrationIsSound <=> Server!Legacy!MigrationIsSound
<1>1. Legacy!LegacyAssumption <=> Server!Legacy!LegacyAssumption
  BY Zenon DEF Legacy!LegacyAssumption, Server!Legacy!LegacyAssumption
<1>2. Legacy!Init <=> Server!Legacy!Init
  BY Zenon DEF Legacy!Init, Server!Legacy!Init
<1>3. Legacy!Next <=> Server!Legacy!Next
  BY Zenon DEF Legacy!Next, Server!Legacy!Next, Legacy!LegacyData,
               Server!Legacy!LegacyData, Legacy!Apply, Server!Legacy!Apply,
               Legacy!Write, Server!Legacy!Write, Legacy!Stop,
               Server!Legacy!Stop, Legacy!Finish, Server!Legacy!Finish,
               Legacy!Notes, Server!Legacy!Notes, Legacy!Cardinality,
               Server!Legacy!Cardinality, Legacy!Chats, Server!Legacy!Chats,
               Legacy!Ties, Server!Legacy!Ties, Legacy!Pair, Server!Legacy!Pair,
               Legacy!Owners, Server!Legacy!Owners, Legacy!Calls,
               Server!Legacy!Calls, Legacy!buildLegacyMigrationPlan,
               Server!Legacy!buildLegacyMigrationPlan, Legacy!sourceVars,
               Server!Legacy!sourceVars, Legacy!Rank, Server!Legacy!Rank,
               Legacy!Doc, Server!Legacy!Doc, Legacy!ChatDoc,
               Server!Legacy!ChatDoc, Legacy!KeptChat, Server!Legacy!KeptChat,
               Legacy!UserRefs, Server!Legacy!UserRefs, Legacy!KeptTie,
               Server!Legacy!KeptTie, Legacy!CallDocs, Server!Legacy!CallDocs,
               Legacy!Kinds, Server!Legacy!Kinds, Legacy!ValidChat,
               Server!Legacy!ValidChat, Legacy!ValidTie, Server!Legacy!ValidTie,
               Legacy!Beats, Server!Legacy!Beats, Legacy!Peers,
               Server!Legacy!Peers, Legacy!Priority, Server!Legacy!Priority
<1>4. UNCHANGED Legacy!legacyVars <=> UNCHANGED Server!Legacy!legacyVars
  BY DEF Legacy!legacyVars, Server!Legacy!legacyVars
<1>5. Legacy!TypeOK <=> Server!Legacy!TypeOK
  BY Zenon DEF Legacy!TypeOK, Server!Legacy!TypeOK, Legacy!Owners,
               Server!Legacy!Owners, Legacy!Notes, Server!Legacy!Notes,
               Legacy!Chats, Server!Legacy!Chats, Legacy!Ties,
               Server!Legacy!Ties, Legacy!Calls, Server!Legacy!Calls,
               Legacy!Kinds, Server!Legacy!Kinds
<1>6. Legacy!MigrationIsSound <=> Server!Legacy!MigrationIsSound
  BY Zenon DEF Legacy!MigrationIsSound, Server!Legacy!MigrationIsSound,
               Legacy!buildLegacyMigrationPlan,
               Server!Legacy!buildLegacyMigrationPlan, Legacy!ValidTie,
               Server!Legacy!ValidTie, Legacy!Pair, Server!Legacy!Pair,
               Legacy!Doc, Server!Legacy!Doc, Legacy!ChatDoc,
               Server!Legacy!ChatDoc, Legacy!KeptChat, Server!Legacy!KeptChat,
               Legacy!UserRefs, Server!Legacy!UserRefs, Legacy!KeptTie,
               Server!Legacy!KeptTie, Legacy!CallDocs, Server!Legacy!CallDocs,
               Legacy!ValidChat, Server!Legacy!ValidChat, Legacy!Beats,
               Server!Legacy!Beats, Legacy!Peers, Server!Legacy!Peers,
               Legacy!Cardinality, Server!Legacy!Cardinality, Legacy!Priority,
               Server!Legacy!Priority
<1> QED
  BY <1>1, <1>2, <1>3, <1>4, <1>5, <1>6

LEMMA SameOverlay ==
  /\ Overlay!OverlayAssumption <=> Client!Overlay!OverlayAssumption
  /\ Overlay!Init <=> Client!Overlay!Init
  /\ Overlay!Next <=> Client!Overlay!Next
  /\ UNCHANGED Overlay!overlayVars <=> UNCHANGED Client!Overlay!overlayVars
  /\ Overlay!TypeOK <=> Client!Overlay!TypeOK
  /\ Overlay!MediaFollowsCall <=> Client!Overlay!MediaFollowsCall
<1>1. Overlay!OverlayAssumption <=> Client!Overlay!OverlayAssumption
  BY Zenon DEF Overlay!OverlayAssumption, Client!Overlay!OverlayAssumption,
               Overlay!Streams, Client!Overlay!Streams
<1>2. Overlay!Init <=> Client!Overlay!Init
  BY Zenon DEF Overlay!Init, Client!Overlay!Init, Overlay!Streams,
               Client!Overlay!Streams
<1>3. Overlay!Next <=> Client!Overlay!Next
  BY Zenon DEF Overlay!Next, Client!Overlay!Next, Overlay!Dial,
               Client!Overlay!Dial, Overlay!Ring, Client!Overlay!Ring,
               Overlay!switchInput, Client!Overlay!switchInput, Overlay!accept,
               Client!Overlay!accept, Overlay!Negotiate,
               Client!Overlay!Negotiate, Overlay!RemoteEnd,
               Client!Overlay!RemoteEnd, Overlay!Streams,
               Client!Overlay!Streams, Overlay!Granted, Client!Overlay!Granted,
               Overlay!CameraAnswered, Client!Overlay!CameraAnswered,
               Overlay!Replaced, Client!Overlay!Replaced, Overlay!Refused,
               Client!Overlay!Refused, Overlay!ReplaceFails,
               Client!Overlay!ReplaceFails, Overlay!Listed,
               Client!Overlay!Listed, Overlay!Heard, Client!Overlay!Heard,
               Overlay!Hangup, Client!Overlay!Hangup, Overlay!ConnectionFails,
               Client!Overlay!ConnectionFails, Overlay!NewSocket,
               Client!Overlay!NewSocket, Overlay!Show, Client!Overlay!Show,
               Overlay!Switched, Client!Overlay!Switched, Overlay!Keep,
               Client!Overlay!Keep, Overlay!Setting, Client!Overlay!Setting,
               Overlay!Rest, Client!Overlay!Rest, Overlay!First,
               Client!Overlay!First, Overlay!End, Client!Overlay!End,
               Overlay!Prepared, Client!Overlay!Prepared, Overlay!Place,
               Client!Overlay!Place, Overlay!PutInPlace,
               Client!Overlay!PutInPlace
<1>4. UNCHANGED Overlay!overlayVars <=> UNCHANGED Client!Overlay!overlayVars
  BY DEF Overlay!overlayVars, Client!Overlay!overlayVars
<1>5. Overlay!TypeOK <=> Client!Overlay!TypeOK
  BY Zenon DEF Overlay!TypeOK, Client!Overlay!TypeOK, Overlay!Streams,
               Client!Overlay!Streams, Overlay!States, Client!Overlay!States
<1>6. Overlay!MediaFollowsCall <=> Client!Overlay!MediaFollowsCall
  BY Zenon DEF Overlay!MediaFollowsCall, Client!Overlay!MediaFollowsCall,
               Overlay!Unplaced, Client!Overlay!Unplaced, Overlay!Streams,
               Client!Overlay!Streams
<1> QED
  BY <1>1, <1>2, <1>3, <1>4, <1>5, <1>6

LEMMA SameTimeline ==
  /\ Timeline!TimelineAssumption <=> Client!Timeline!TimelineAssumption
  /\ Timeline!Init <=> Client!Timeline!Init
  /\ Timeline!Next <=> Client!Timeline!Next
  /\ UNCHANGED Timeline!timelineVars <=> UNCHANGED Client!Timeline!timelineVars
  /\ Timeline!TypeOK <=> Client!Timeline!TypeOK
  /\ Timeline!SendIsShown <=> Client!Timeline!SendIsShown
<1>1. Timeline!TimelineAssumption <=> Client!Timeline!TimelineAssumption
  BY Zenon DEF Timeline!TimelineAssumption, Client!Timeline!TimelineAssumption
<1>2. Timeline!Init <=> Client!Timeline!Init
  BY Zenon DEF Timeline!Init, Client!Timeline!Init
<1>3. Timeline!Next <=> Client!Timeline!Next
  BY Zenon DEF Timeline!Next, Client!Timeline!Next, Timeline!queueMessage,
               Client!Timeline!queueMessage, Timeline!retryMessage,
               Client!Timeline!retryMessage, Timeline!Store,
               Client!Timeline!Store, Timeline!StoreLate,
               Client!Timeline!StoreLate, Timeline!onSuccess,
               Client!Timeline!onSuccess, Timeline!NoAnswer,
               Client!Timeline!NoAnswer, Timeline!Refused,
               Client!Timeline!Refused, Timeline!Arrive, Client!Timeline!Arrive,
               Timeline!Lose, Client!Timeline!Lose, Timeline!seenTimeline,
               Client!Timeline!seenTimeline, Timeline!Refetch,
               Client!Timeline!Refetch, Timeline!getMessages,
               Client!Timeline!getMessages, Timeline!Fetched,
               Client!Timeline!Fetched, Timeline!Mutate, Client!Timeline!Mutate,
               Timeline!Of, Client!Timeline!Of, Timeline!Stored,
               Client!Timeline!Stored, Timeline!Message,
               Client!Timeline!Message, Timeline!onError,
               Client!Timeline!onError, Timeline!updateTimeline,
               Client!Timeline!updateTimeline, Timeline!Optimistic,
               Client!Timeline!Optimistic
<1>4. UNCHANGED Timeline!timelineVars <=> UNCHANGED Client!Timeline!timelineVars
  BY DEF Timeline!timelineVars, Client!Timeline!timelineVars
<1>5. Timeline!TypeOK <=> Client!Timeline!TypeOK
  BY Zenon DEF Timeline!TypeOK, Client!Timeline!TypeOK, Timeline!Items,
               Client!Timeline!Items
<1>6. Timeline!SendIsShown <=> Client!Timeline!SendIsShown
  BY Zenon DEF Timeline!SendIsShown, Client!Timeline!SendIsShown,
               Timeline!Cardinality, Client!Timeline!Cardinality, Timeline!Of,
               Client!Timeline!Of
<1> QED
  BY <1>1, <1>2, <1>3, <1>4, <1>5, <1>6

LEMMA SameSession ==
  /\ Browser!SessionAssumption <=> Client!Browser!SessionAssumption
  /\ Browser!Init <=> Client!Browser!Init
  /\ Browser!Next <=> Client!Browser!Next
  /\ UNCHANGED Browser!sessionVars <=> UNCHANGED Client!Browser!sessionVars
  /\ Browser!TypeOK <=> Client!Browser!TypeOK
  /\ Browser!SessionsEndForCause <=> Client!Browser!SessionsEndForCause
<1>1. Browser!SessionAssumption <=> Client!Browser!SessionAssumption
  BY Zenon DEF Browser!SessionAssumption, Client!Browser!SessionAssumption
<1>2. Browser!Init <=> Client!Browser!Init
  BY Zenon DEF Browser!Init, Client!Browser!Init, Browser!NoRefresh,
               Client!Browser!NoRefresh, Browser!NoQuit, Client!Browser!NoQuit
<1>3. Browser!Next <=> Client!Browser!Next
  BY Zenon DEF Browser!Next, Client!Browser!Next, Browser!SignIn,
               Client!Browser!SignIn, Browser!Expire, Client!Browser!Expire,
               Browser!SignOut, Client!Browser!SignOut, Browser!Send,
               Client!Browser!Send, Browser!Unauthorized,
               Client!Browser!Unauthorized, Browser!refreshSession,
               Client!Browser!refreshSession, Browser!setSession,
               Client!Browser!setSession, Browser!Refuse, Client!Browser!Refuse,
               Browser!Fail, Client!Browser!Fail, Browser!logout,
               Client!Browser!logout, Browser!SignedOut,
               Client!Browser!SignedOut, Browser!LogoutFails,
               Client!Browser!LogoutFails, Browser!Revoke,
               Client!Browser!Revoke, Browser!Leaving, Client!Browser!Leaving,
               Browser!NoQuit, Client!Browser!NoQuit, Browser!Posted,
               Client!Browser!Posted, Browser!renew, Client!Browser!renew,
               Browser!Settle, Client!Browser!Settle, Browser!clearSession,
               Client!Browser!clearSession, Browser!Quit, Client!Browser!Quit,
               Browser!Post, Client!Browser!Post, Browser!NoRefresh,
               Client!Browser!NoRefresh
<1>4. UNCHANGED Browser!sessionVars <=> UNCHANGED Client!Browser!sessionVars
  BY DEF Browser!sessionVars, Client!Browser!sessionVars
<1>5. Browser!TypeOK <=> Client!Browser!TypeOK
  BY Zenon DEF Browser!TypeOK, Client!Browser!TypeOK, Browser!NoQuit,
               Client!Browser!NoQuit, Browser!Quit, Client!Browser!Quit
<1>6. Browser!SessionsEndForCause <=> Client!Browser!SessionsEndForCause
  BY Zenon DEF Browser!SessionsEndForCause, Client!Browser!SessionsEndForCause,
               Browser!Quit, Client!Browser!Quit, Browser!NoQuit,
               Client!Browser!NoQuit
<1> QED
  BY <1>1, <1>2, <1>3, <1>4, <1>5, <1>6

LEMMA SameSight ==
  /\ Sight!Init <=> Server!Sight!Init
  /\ Sight!Next <=> Server!Sight!Next
  /\ UNCHANGED Sight!visibilityVars <=> UNCHANGED Server!Sight!visibilityVars
  /\ Sight!TypeOK <=> Server!Sight!TypeOK
  /\ Sight!ShownIsOpen <=> Server!Sight!ShownIsOpen
<1>1. Sight!Init <=> Server!Sight!Init
  BY Zenon DEF Sight!Init, Server!Sight!Init
<1>2. Sight!Next <=> Server!Sight!Next
  BY Zenon DEF Sight!Next, Server!Sight!Next, Sight!updateSettings,
               Server!Sight!updateSettings, Sight!Relate, Server!Sight!Relate,
               Sight!Audiences, Server!Sight!Audiences, Sight!createStory,
               Server!Sight!createStory, Sight!Expire, Server!Sight!Expire,
               Sight!deleteStory, Server!Sight!deleteStory, Sight!Join,
               Server!Sight!Join, Sight!Attach, Server!Sight!Attach,
               Sight!Unsend, Server!Sight!Unsend, Sight!markConversationRead,
               Server!Sight!markConversationRead, Sight!OwnerLooks,
               Server!Sight!OwnerLooks, Sight!OwnerSearches,
               Server!Sight!OwnerSearches, Sight!ViewerActs,
               Server!Sight!ViewerActs, Sight!Choices, Server!Sight!Choices,
               Sight!otherVars, Server!Sight!otherVars, Sight!Remember,
               Server!Sight!Remember, Sight!fileVars, Server!Sight!fileVars,
               Sight!ChangeStories, Server!Sight!ChangeStories,
               Sight!canAttachUpload, Server!Sight!canAttachUpload, Sight!Shown,
               Server!Sight!Shown, Sight!presentMessage,
               Server!Sight!presentMessage, Sight!readReceiptVisibleTo,
               Server!Sight!readReceiptVisibleTo
<1>3. UNCHANGED Sight!visibilityVars <=> UNCHANGED Server!Sight!visibilityVars
  BY DEF Sight!visibilityVars, Server!Sight!visibilityVars, Sight!fileVars,
         Server!Sight!fileVars, Sight!otherVars, Server!Sight!otherVars
<1>4. Sight!TypeOK <=> Server!Sight!TypeOK
  BY Zenon DEF Sight!TypeOK, Server!Sight!TypeOK, Sight!Choices,
               Server!Sight!Choices, Sight!Story, Server!Sight!Story,
               Sight!Posts, Server!Sight!Posts, Sight!Audiences,
               Server!Sight!Audiences, Sight!Shown, Server!Sight!Shown
<1>5. Sight!ShownIsOpen <=> Server!Sight!ShownIsOpen
  BY Zenon DEF Sight!ShownIsOpen, Server!Sight!ShownIsOpen, Sight!Named,
               Server!Sight!Named, Sight!AlsoHidden, Server!Sight!AlsoHidden,
               Sight!canUserReadUpload, Server!Sight!canUserReadUpload,
               Sight!searchEverything, Server!Sight!searchEverything,
               Sight!adminAnswers, Server!Sight!adminAnswers,
               Sight!getConversations, Server!Sight!getConversations,
               Sight!getStories, Server!Sight!getStories, Sight!listFriends,
               Server!Sight!listFriends, Sight!getMessages,
               Server!Sight!getMessages, Sight!Posted, Server!Sight!Posted,
               Sight!canAccessStory, Server!Sight!canAccessStory,
               Sight!canViewPrivacySetting, Server!Sight!canViewPrivacySetting,
               Sight!FoundStory, Server!Sight!FoundStory, Sight!FoundUser,
               Server!Sight!FoundUser, Sight!Shown, Server!Sight!Shown,
               Sight!presentConversation, Server!Sight!presentConversation,
               Sight!presentStory, Server!Sight!presentStory,
               Sight!presentUserForViewer, Server!Sight!presentUserForViewer,
               Sight!AreFriends, Server!Sight!AreFriends
<1> QED
  BY <1>1, <1>2, <1>3, <1>4, <1>5

LEMMA SameLifecycle ==
  /\ Process!Init <=> Client!Process!Init
  /\ Process!Next <=> Client!Process!Next
  /\ UNCHANGED Process!lifecycleVars <=> UNCHANGED Client!Process!lifecycleVars
  /\ Process!TypeOK <=> Client!Process!TypeOK
  /\ Process!ServesAsSetUp <=> Client!Process!ServesAsSetUp
<1>1. Process!Init <=> Client!Process!Init
  BY Zenon DEF Process!Init, Client!Process!Init, Process!Services,
               Client!Process!Services
<1>2. Process!Next <=> Client!Process!Next
  BY Zenon DEF Process!Next, Client!Process!Next, Process!DemoMode,
               Client!Process!DemoMode, Process!ConnectMongo,
               Client!Process!ConnectMongo, Process!RetryDns,
               Client!Process!RetryDns, Process!FallBack,
               Client!Process!FallBack, Process!initializeDataService,
               Client!Process!initializeDataService, Process!IndexesFail,
               Client!Process!IndexesFail, Process!connectRedis,
               Client!Process!connectRedis, Process!Services,
               Client!Process!Services, Process!Fail, Client!Process!Fail,
               Process!Break, Client!Process!Break, Process!Recover,
               Client!Process!Recover, Process!Ping, Client!Process!Ping,
               Process!Reconnect, Client!Process!Reconnect,
               Process!ReconnectRedis, Client!Process!ReconnectRedis,
               Process!Begin, Client!Process!Begin, Process!Abandon,
               Client!Process!Abandon, Process!Operate, Client!Process!Operate,
               Process!Respond, Client!Process!Respond, Process!Ask,
               Client!Process!Ask, Process!Ready, Client!Process!Ready,
               Process!Unready, Client!Process!Unready, Process!Signal,
               Client!Process!Signal, Process!Drained, Client!Process!Drained,
               Process!closeRedis, Client!Process!closeRedis,
               Process!Disconnect, Client!Process!Disconnect,
               Process!Disconnected, Client!Process!Disconnected, Process!Force,
               Client!Process!Force, Process!Restart, Client!Process!Restart,
               Process!Exit, Client!Process!Exit, Process!setup,
               Client!Process!setup, Process!traffic, Client!Process!traffic,
               Process!databaseReady, Client!Process!databaseReady,
               Process!Lost, Client!Process!Lost, Process!Seen,
               Client!Process!Seen, Process!Closing, Client!Process!Closing,
               Process!redisClient, Client!Process!redisClient, Process!Answer,
               Client!Process!Answer, Process!Starting, Client!Process!Starting,
               Process!Shut, Client!Process!Shut
<1>3. UNCHANGED Process!lifecycleVars <=> UNCHANGED Client!Process!lifecycleVars
  BY DEF Process!lifecycleVars, Client!Process!lifecycleVars, Process!setup,
         Client!Process!setup
<1>4. Process!TypeOK <=> Client!Process!TypeOK
  BY Zenon DEF Process!TypeOK, Client!Process!TypeOK, Process!Services,
               Client!Process!Services, Process!Phases, Client!Process!Phases,
               Process!Starting, Client!Process!Starting, Process!Closing,
               Client!Process!Closing, Process!Shut, Client!Process!Shut
<1>5. Process!ServesAsSetUp <=> Client!Process!ServesAsSetUp
  BY Zenon DEF Process!ServesAsSetUp, Client!Process!ServesAsSetUp,
               Process!Closing, Client!Process!Closing, Process!Shut,
               Client!Process!Shut
<1> QED
  BY <1>1, <1>2, <1>3, <1>4, <1>5

LEMMA SameComposer ==
  /\ Writing!ComposerAssumption <=> Client!Writing!ComposerAssumption
  /\ Writing!Init <=> Client!Writing!Init
  /\ Writing!Next <=> Client!Writing!Next
  /\ UNCHANGED Writing!composerVars <=> UNCHANGED Client!Writing!composerVars
  /\ Writing!TypeOK <=> Client!Writing!TypeOK
  /\ Writing!SentAsMeant <=> Client!Writing!SentAsMeant
<1>1. Writing!ComposerAssumption <=> Client!Writing!ComposerAssumption
  BY Zenon DEF Writing!ComposerAssumption, Client!Writing!ComposerAssumption
<1>2. Writing!Init <=> Client!Writing!Init
  BY Zenon DEF Writing!Init, Client!Writing!Init, Writing!Pieces,
               Client!Writing!Pieces, Writing!NoSend, Client!Writing!NoSend
<1>3. Writing!Next <=> Client!Writing!Next
  BY Zenon DEF Writing!Next, Client!Writing!Next, Writing!typing,
               Client!Writing!typing, Writing!sendGif, Client!Writing!sendGif,
               Writing!uploadFiles, Client!Writing!uploadFiles,
               Writing!Uploaded, Client!Writing!Uploaded,
               Writing!startRecording, Client!Writing!startRecording,
               Writing!Granted, Client!Writing!Granted, Writing!Denied,
               Client!Writing!Denied, Writing!Stopped, Client!Writing!Stopped,
               Writing!stopRecording, Client!Writing!stopRecording,
               Writing!submit, Client!Writing!submit, Writing!Deliver,
               Client!Writing!Deliver, Writing!Retry, Client!Writing!Retry,
               Writing!Finish, Client!Writing!Finish, Writing!Switch,
               Client!Writing!Switch, Writing!Enter, Client!Writing!Enter,
               Writing!Back, Client!Writing!Back, Writing!Leave,
               Client!Writing!Leave, Writing!Become, Client!Writing!Become,
               Writing!Beside, Client!Writing!Beside, Writing!Pieces,
               Client!Writing!Pieces, Writing!Draft, Client!Writing!Draft,
               Writing!NoSend, Client!Writing!NoSend, Writing!sending,
               Client!Writing!sending, Writing!Post, Client!Writing!Post,
               Writing!Rebind, Client!Writing!Rebind, Writing!Unmount,
               Client!Writing!Unmount
<1>4. UNCHANGED Writing!composerVars <=> UNCHANGED Client!Writing!composerVars
  BY DEF Writing!composerVars, Client!Writing!composerVars
<1>5. Writing!TypeOK <=> Client!Writing!TypeOK
  BY Zenon DEF Writing!TypeOK, Client!Writing!TypeOK, Writing!Pieces,
               Client!Writing!Pieces, Writing!States, Client!Writing!States
<1>6. Writing!SentAsMeant <=> Client!Writing!SentAsMeant
  BY Zenon DEF Writing!SentAsMeant, Client!Writing!SentAsMeant, Writing!Pieces,
               Client!Writing!Pieces
<1> QED
  BY <1>1, <1>2, <1>3, <1>4, <1>5, <1>6

-----------------------------------------------------------------------------
\* The component that runs keeps its own invariant.
PartsInv ==
  /\ PairInv
  /\ part \in {"relationships", "presence", "codes", "group", "uploads",
               "reports", "stories", "migration", "overlay", "timeline",
               "browser", "sight", "process", "composer"}
  /\ part = "presence" => Server!PresenceInv
  /\ part = "codes" => Server!CodesInv
  /\ part = "group" => Server!GroupInv
  /\ part = "uploads" => Server!UploadInv
  /\ part = "reports" => Server!FilingInv
  /\ part = "stories" => Server!AccessInv
  /\ part = "migration" => Server!MigrationInv
  /\ part = "overlay" => Client!OverlayInv
  /\ part = "timeline" => Client!TimelineInv
  /\ part = "browser" => Client!SessionInv
  /\ part = "sight" => Server!SightInv
  /\ part = "process" => Client!LifecycleInv
  /\ part = "composer" => Client!ComposerInv

LEMMA PartsStart == PartsInit => PartsInv
<1> SUFFICES ASSUME PartsInit
             PROVE  PartsInv
  OBVIOUS
<1>1. PairInv
  BY PairInit DEF PartsInit
<1>2. Presences!Init => Server!PresenceInv
  BY SamePresence, Server!PresenceInit
<1>3. Codes!Init => Server!CodesInv
  BY PartsAssumption, SameCodes, Server!CodesInit
<1>4. Group!Init => Server!GroupInv
  BY PartsAssumption, SameGroup, Server!GroupInit
<1>5. Shelf!Init => Server!UploadInv
  BY PartsAssumption, SameUpload, Server!UploadInit
<1>6. Report!Init => Server!FilingInv
  BY SameFiling, Server!FilingInit
<1>7. Story!Init => Server!AccessInv
  BY PartsAssumption, SameAccess, Server!AccessInit
<1>8. Legacy!Init => Server!MigrationInv
  BY PartsAssumption, SameMigration, Server!MigrationInit
<1>9. Overlay!Init => Client!OverlayInv
  BY PartsAssumption, SameOverlay, Client!OverlayInit
<1>10. Timeline!Init => Client!TimelineInv
  BY PartsAssumption, SameTimeline, Client!TimelineInit
<1>11. Browser!Init => Client!SessionInv
  BY PartsAssumption, SameSession, Client!SessionInit
<1>12. Sight!Init => Server!SightInv
  BY SameSight, Server!SightInit
<1>13. Process!Init => Client!LifecycleInv
  BY SameLifecycle, Client!LifecycleInit
<1>14. Writing!Init => Client!ComposerInv
  BY PartsAssumption, SameComposer, Client!ComposerInit
<1> QED
  BY <1>1, <1>2, <1>3, <1>4, <1>5, <1>6, <1>7, <1>8, <1>9, <1>10, <1>11, <1>12,
     <1>13, <1>14 DEF PartsInit, PartsInv

\* A step of the component that runs leaves its own variables, or changes them
\* as the component allows, and the relationships stay as they are.
LEMMA PartsStep == PartsInv /\ [PartsNext]_<< vars, Slots >> => PartsInv'
<1> SUFFICES ASSUME PartsInv, [PartsNext]_<< vars, Slots >>
             PROVE  PartsInv'
  OBVIOUS
<1>1. part' = part
  BY DEF PartsNext, Slots, After11, After10, After9, After8, After6, After4
<1>2. PairInv'
  <2>1. [Next]_vars
    BY DEF PartsNext, Slots, After11, After10, After9, After8, After6, After4
  <2> QED
    BY <2>1, PairNext DEF PartsInv
<1>3. CASE part = "presence"
  <2>1. [Presences!Next]_Presences!presenceVars
    BY <1>3 DEF PartsNext, Slots, Presences!presenceVars
  <2>2. [Server!Online!Next]_Server!Online!presenceVars
    BY <2>1, SamePresence
  <2>3. Server!PresenceInv'
    BY <1>3, <2>2, Server!PresenceStep DEF PartsInv
  <2> QED
    BY <1>1, <1>2, <1>3, <2>3 DEF PartsInv
<1>4. CASE part = "codes"
  <2>1. [Codes!Next]_Codes!codeVars
    BY <1>4 DEF PartsNext, Slots, Codes!codeVars
  <2>2. [Server!Code!Next]_Server!Code!codeVars
    BY <2>1, SameCodes
  <2>3. Server!CodesInv'
    BY <1>4, <2>2, PartsAssumption, Server!CodesStep, SameCodes DEF PartsInv
  <2> QED
    BY <1>1, <1>2, <1>4, <2>3 DEF PartsInv
<1>5. CASE part = "group"
  <2>1. [Group!Next]_Group!groupVars
    BY <1>5 DEF PartsNext, Slots, Group!groupVars
  <2>2. [Server!Group!Next]_Server!Group!groupVars
    BY <2>1, SameGroup
  <2>3. Server!GroupInv'
    BY <1>5, <2>2, PartsAssumption, Server!GroupStep, SameGroup DEF PartsInv
  <2> QED
    BY <1>1, <1>2, <1>5, <2>3 DEF PartsInv
<1>6. CASE part = "uploads"
  <2>1. [Shelf!Next]_Shelf!uploadVars
    BY <1>6 DEF PartsNext, Slots, Shelf!uploadVars
  <2>2. [Server!Shelf!Next]_Server!Shelf!uploadVars
    BY <2>1, SameUpload
  <2>3. Server!UploadInv'
    BY <1>6, <2>2, PartsAssumption, Server!UploadStep, SameUpload DEF PartsInv
  <2> QED
    BY <1>1, <1>2, <1>6, <2>3 DEF PartsInv
<1>7. CASE part = "reports"
  <2>1. [Report!Next]_Report!reportVars
    BY <1>7 DEF PartsNext, Slots, Report!reportVars
  <2>2. [Server!Report!Next]_Server!Report!reportVars
    BY <2>1, SameFiling
  <2>3. Server!FilingInv'
    BY <1>7, <2>2, Server!FilingStep DEF PartsInv
  <2> QED
    BY <1>1, <1>2, <1>7, <2>3 DEF PartsInv
<1>8. CASE part = "stories"
  <2>1. [Story!Next]_Story!storyVars
    BY <1>8 DEF PartsNext, Slots, Story!storyVars
  <2>2. [Server!Story!Next]_Server!Story!storyVars
    BY <2>1, SameAccess
  <2>3. Server!AccessInv'
    BY <1>8, <2>2, PartsAssumption, Server!AccessStep, SameAccess DEF PartsInv
  <2> QED
    BY <1>1, <1>2, <1>8, <2>3 DEF PartsInv
<1>9. CASE part = "migration"
  <2>1. [Legacy!Next]_Legacy!legacyVars
    BY <1>9 DEF PartsNext, Slots, Legacy!legacyVars
  <2>2. [Server!Legacy!Next]_Server!Legacy!legacyVars
    BY <2>1, SameMigration
  <2>3. Server!MigrationInv'
    BY <1>9, <2>2, PartsAssumption, Server!MigrationStep, SameMigration DEF PartsInv
  <2> QED
    BY <1>1, <1>2, <1>9, <2>3 DEF PartsInv
<1>10. CASE part = "overlay"
  <2>1. [Overlay!Next]_Overlay!overlayVars
    BY <1>10 DEF PartsNext, Slots, Overlay!overlayVars
  <2>2. [Client!Overlay!Next]_Client!Overlay!overlayVars
    BY <2>1, SameOverlay
  <2>3. Client!OverlayInv'
    BY <1>10, <2>2, PartsAssumption, Client!OverlayStep, SameOverlay DEF PartsInv
  <2> QED
    BY <1>1, <1>2, <1>10, <2>3 DEF PartsInv
<1>11. CASE part = "timeline"
  <2>1. [Timeline!Next]_Timeline!timelineVars
    BY <1>11 DEF PartsNext, Slots, Timeline!timelineVars
  <2>2. [Client!Timeline!Next]_Client!Timeline!timelineVars
    BY <2>1, SameTimeline
  <2>3. Client!TimelineInv'
    BY <1>11, <2>2, PartsAssumption, Client!TimelineStep, SameTimeline DEF PartsInv
  <2> QED
    BY <1>1, <1>2, <1>11, <2>3 DEF PartsInv
<1>12. CASE part = "browser"
  <2>1. [Browser!Next]_Browser!sessionVars
    BY <1>12 DEF PartsNext, Slots, Browser!sessionVars
  <2>2. [Client!Browser!Next]_Client!Browser!sessionVars
    BY <2>1, SameSession
  <2>3. Client!SessionInv'
    BY <1>12, <2>2, PartsAssumption, Client!SessionStep, SameSession DEF PartsInv
  <2> QED
    BY <1>1, <1>2, <1>12, <2>3 DEF PartsInv
<1>13. CASE part = "sight"
  <2>1. [Sight!Next]_Sight!visibilityVars
    BY <1>13 DEF PartsNext, Slots, Sight!visibilityVars, Sight!fileVars, Sight!otherVars
  <2>2. [Server!Sight!Next]_Server!Sight!visibilityVars
    BY <2>1, SameSight
  <2>3. Server!SightInv'
    BY <1>13, <2>2, Server!SightStep DEF PartsInv
  <2> QED
    BY <1>1, <1>2, <1>13, <2>3 DEF PartsInv
<1>14. CASE part = "process"
  <2>1. [Process!Next]_Process!lifecycleVars
    BY <1>14 DEF PartsNext, Slots, Process!lifecycleVars, Process!setup, Process!traffic
  <2>2. [Client!Process!Next]_Client!Process!lifecycleVars
    BY <2>1, SameLifecycle
  <2>3. Client!LifecycleInv'
    BY <1>14, <2>2, Client!LifecycleStep DEF PartsInv
  <2> QED
    BY <1>1, <1>2, <1>14, <2>3 DEF PartsInv
<1>15. CASE part = "composer"
  <2>1. [Writing!Next]_Writing!composerVars
    BY <1>15 DEF PartsNext, Slots, Writing!composerVars
  <2>2. [Client!Writing!Next]_Client!Writing!composerVars
    BY <2>1, SameComposer
  <2>3. Client!ComposerInv'
    BY <1>15, <2>2, PartsAssumption, Client!ComposerStep, SameComposer DEF PartsInv
  <2> QED
    BY <1>1, <1>2, <1>15, <2>3 DEF PartsInv
<1>16. CASE part = "relationships"
  BY <1>1, <1>2, <1>16 DEF PartsInv
<1> QED
  BY <1>3, <1>4, <1>5, <1>6, <1>7, <1>8, <1>9, <1>10, <1>11, <1>12, <1>13,
     <1>14, <1>15, <1>16 DEF PartsInv

LEMMA PartsInvariant == PartsSpec => []PartsInv
BY PartsStart, PartsStep, PTL DEF PartsSpec

-----------------------------------------------------------------------------
\* A user whose last socket has gone is not left online, over the memory store no
\* timer turns a connected user offline, and a lock leaves the user no socket but
\* those that crossed it (sockets/index.js:36-45, 235-246,
\* moderationController.js:35-52).
THEOREM FlagFollows == PartsSpec => []FlagFollowsSockets
<1>1. PartsInv => FlagFollowsSockets
  BY Server!PresenceSafe, SamePresence DEF PartsInv, FlagFollowsSockets
<1> QED
  BY <1>1, PartsInvariant, PTL

\* Without Redis a used or replaced code is never valid again and no code is
\* compared with more guesses than the limit (authService.js:280-351).
THEOREM CodesSpent == PartsSpec => []CodesAreSpent
<1>1. PartsInv => CodesAreSpent
  BY Server!CodesSafe, SameCodes DEF PartsInv, CodesAreSpent
<1> QED
  BY <1>1, PartsInvariant, PTL

\* A group keeps an administrator among its members, whoever leaves or is removed
\* at once (conversationController.js:68-117, mongoDataService.js:418-480).
THEOREM GroupGoverned == PartsSpec => []GroupIsGoverned
<1>1. PartsInv => GroupIsGoverned
  BY Server!GroupSafe, SameGroup DEF PartsInv, GroupIsGoverned
<1> QED
  BY <1>1, PartsInvariant, PTL

\* No file is left without a record, no link without a file but for the two known
\* reasons, and the quota is exceeded by parallel uploads only
\* (miscController.js:22-71, mongoDataService.js:315-320, 386-401).
THEOREM FilesMatch == PartsSpec => []FilesMatchRecords
<1>1. PartsInv => FilesMatchRecords
  BY PartsAssumption, Server!UploadSafe, SameUpload DEF PartsInv, FilesMatchRecords
<1> QED
  BY <1>1, PartsInvariant, PTL

\* One report of an item is open at a time (mongoDataService.js:866-879).
THEOREM ReportIsOne == PartsSpec => []OneOpenReport
<1>1. PartsInv => OneOpenReport
  BY Server!FilingSafe, SameFiling DEF PartsInv, OneOpenReport
<1> QED
  BY <1>1, PartsInvariant, PTL

\* Who has seen a story had access to it at some moment, unless an accept was
\* written under a block between the two looks of the request
\* (mongoDataService.js:596-603, 645-651, 767-770).
THEOREM ViewersAllowed == PartsSpec => []ViewersHadAccess
<1>1. PartsInv => ViewersHadAccess
  BY Server!AccessSafe, SameAccess DEF PartsInv, ViewersHadAccess
<1> QED
  BY <1>1, PartsInvariant, PTL

\* Wherever the migration stops, the users and conversations that its documents
\* refer to have been written, and a pair has one document; once it is done the
\* messages they cite are there, but for those the plan leaves out
\* (legacyMigrationService.js:133-333).
THEOREM MigrationSound == PartsSpec => []MigrationIsSound
<1>1. PartsInv => MigrationIsSound
  BY Server!MigrationSafe, SameMigration DEF PartsInv, MigrationIsSound
<1> QED
  BY <1>1, PartsInvariant, PTL

\* No microphone goes on for a call that has gone from the window, but while the
\* prompt for the camera or the replacing of the tracks is waited for, and for the
\* two known reasons (CallOverlay.jsx:101-147, 200-205, 216-225,
\* useRealtime.js:103-111).
THEOREM MediaFollows == PartsSpec => []MediaFollowsCall
<1>1. PartsInv => MediaFollowsCall
  BY Client!OverlaySafe, SameOverlay DEF PartsInv, MediaFollowsCall
<1> QED
  BY <1>1, PartsInvariant, PTL

\* A tab is not signed out over a session it has renewed itself; and a sign-out
\* that the server has answered, with no refresh beside it, leaves no valid session
\* in the cookie (api.js:20-41, ProfileModal.jsx:53-58, authController.js:44-49).
THEOREM SessionsEnd == PartsSpec => []SessionsEndForCause
<1>1. PartsInv => SessionsEndForCause
  BY Client!SessionSafe, SameSession DEF PartsInv, SessionsEndForCause
<1> QED
  BY <1>1, PartsInvariant, PTL

\* A file that is named can be opened, and no receipt is shown that the viewer
\* keeps, but for the cases the property names (dataService.js:153-174, 272-287,
\* 384-433).
THEOREM ShownOpens == PartsSpec => []ShownIsOpen
<1>1. PartsInv => ShownIsOpen
  BY Server!SightSafe, SameSight DEF PartsInv, ShownIsOpen
<1> QED
  BY <1>1, PartsInvariant, PTL

\* The process is never called ready when it was not connected to everything
\* configured, never serves demonstration data in production, and shuts MongoDB
\* under no request whose client waits (server.js:21-40,
\* config/database.js:47-83).
THEOREM ServesRightly == PartsSpec => []ServesAsSetUp
<1>1. PartsInv => ServesAsSetUp
  BY Client!LifecycleSafe, SameLifecycle DEF PartsInv, ServesAsSetUp
<1> QED
  BY <1>1, PartsInvariant, PTL

\* A send is stored in the conversation it was made in, or when it is tried again
\* in one opened meanwhile; it is shown once, and as sent or read only when it has
\* been stored, but for an item that a receipt for earlier messages has turned into a
\* read one (Composer.jsx:77-127, ChatPanel.jsx:50-92, useRealtime.js:25-46).
THEOREM SendShown == PartsSpec => []SendIsShown
<1>1. PartsInv => SendIsShown
  BY Client!TimelineSafe, Client!ComposerSafe, SameTimeline, SameComposer
     DEF PartsInv, SendIsShown
<1> QED
  BY <1>1, PartsInvariant, PTL

\* Whichever component runs, its variables keep the form the code gives them.
THEOREM PartsTypes == PartsSpec => []PartsTypeOK
<1>1. ASSUME PartsInv
      PROVE  PartsTypeOK
  <2>1. TypeOK
    BY <1>1 DEF PartsInv, PairInv
  <2>2. CASE part = "presence"
    BY <1>1, <2>1, <2>2, Server!PresenceSafe, SamePresence DEF PartsInv, PartsTypeOK
  <2>3. CASE part = "codes"
    BY <1>1, <2>1, <2>3, Server!CodesSafe, SameCodes DEF PartsInv, PartsTypeOK
  <2>4. CASE part = "group"
    BY <1>1, <2>1, <2>4, Server!GroupSafe, SameGroup DEF PartsInv, PartsTypeOK
  <2>5. CASE part = "uploads"
    BY <1>1, <2>1, <2>5, PartsAssumption, Server!UploadSafe, SameUpload DEF PartsInv, PartsTypeOK
  <2>6. CASE part = "reports"
    BY <1>1, <2>1, <2>6, Server!FilingSafe, SameFiling DEF PartsInv, PartsTypeOK
  <2>7. CASE part = "stories"
    BY <1>1, <2>1, <2>7, Server!AccessSafe, SameAccess DEF PartsInv, PartsTypeOK
  <2>8. CASE part = "migration"
    BY <1>1, <2>1, <2>8, Server!MigrationSafe, SameMigration DEF PartsInv, PartsTypeOK
  <2>9. CASE part = "overlay"
    BY <1>1, <2>1, <2>9, Client!OverlaySafe, SameOverlay DEF PartsInv, PartsTypeOK
  <2>10. CASE part = "timeline"
    BY <1>1, <2>1, <2>10, Client!TimelineSafe, SameTimeline DEF PartsInv, PartsTypeOK
  <2>11. CASE part = "browser"
    BY <1>1, <2>1, <2>11, Client!SessionSafe, SameSession DEF PartsInv, PartsTypeOK
  <2>12. CASE part = "sight"
    BY <1>1, <2>1, <2>12, Server!SightSafe, SameSight DEF PartsInv, PartsTypeOK
  <2>13. CASE part = "process"
    BY <1>1, <2>1, <2>13, Client!LifecycleSafe, SameLifecycle DEF PartsInv, PartsTypeOK
  <2>14. CASE part = "composer"
    BY <1>1, <2>1, <2>14, Client!ComposerSafe, SameComposer DEF PartsInv, PartsTypeOK
  <2>15. CASE part = "relationships"
    BY <2>1, <2>15 DEF PartsTypeOK
  <2> QED
    BY <1>1, <2>2, <2>3, <2>4, <2>5, <2>6, <2>7, <2>8, <2>9, <2>10, <2>11, <2>12, <2>13, <2>14, <2>15
       DEF PartsInv
<1> QED
  BY <1>1, PartsInvariant, PTL
=============================================================================
