SPECIFICATION Spec
CONSTANTS
  Kind = {"telegram", "slack", "email", "discord"}
  MaxMsgs = 4
  Flaws <- MCFlaws
  SEEN_CAP = 3
  Window = 1
  MaxFaults = 2
  MaxCrashes = 1
  MaxCalls = 2
  MAX_MESSAGES_PER_REQUEST = 2
  PipeRoom = 1
  MaxNoise = 2
  Word = {"fetch", "shell", "a"}
  MaxServers = 2
  MaxOpTools = 2
  Name = {"n1"}
  Addr = {"pub", "lo", "::ffff:lo"}
  Private = {"lo"}
  Mapped <- MCMapped
  MAX_REDIRECTS = 2
  MAX_BODY = 2
  PIPE = 1
  MaxInput = 2
  MaxOps = 3
  ProviderKind = {"openai", "anthropic"}
  SUMMARY_KEEP_RECENT = 1
  RECENT = 2
  MAX_TOOL_STEPS = 3
  MaxRows = 5
  Hour = 7
  Day = 2
  Week = 1
  MIN_INTERVAL = 2
  SAMPLE = 4
  Reply <- MCReply
  MaxLate = 1
  MaxNow = 28
  FileName = {"w", "o"}
  Tree <- MCTree
  Roots <- MCRoots
  Depth = 3
  MaxNodes = 6
INVARIANTS
  NothingLost
  AftermathBounded
  RegistrySound
  ContactsVetted
  StartedOnce
  WellFormed
  SlotsKeepInterval
PROPERTIES
  PathsContained
  ImplementsInbox
  MessageDispatched
  RequestsEnd
  CallEnds
CHECK_DEADLOCK FALSE
