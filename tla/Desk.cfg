SPECIFICATION DeskSpec
CONSTANTS
  bank = bank
  notify = notify
  alice = alice
  statement = statement
  catchall = catchall
  noshape = noshape
  console = console
  cli = cli
  nomsg = nomsg
  nocard = nocard
  letter = letter
  Domain = {bank, notify}
  Address = {alice}
  HostOf <- Hosts
  Above <- Parents
  Shape = {statement, catchall}
  CatchAll = catchall
  NoShape = noshape
  Applier = {console, cli}
  Console = console
  Curated <- Starts
  Docs <- Documents
  Overlap = FALSE
  MaxFaults = 1
  Message <- Mails
  NoMessage = nomsg
  Feed <- Feeds
  Pack = {"shipped"}
  NoCard = nocard
  Job = {letter}
  JobOf <- Jobs
  Day = {1, 2}
  MaxWork = 3
INVARIANTS
  DeskTypeOK
  OneListEach
  RedoFinishes
  EndsByPassThree
  OnlyTriageTrusts
  ClearedIsVouched
  NoQuestionLost
  RefusedForAReason
PROPERTIES
  SkippedForAReason
  HiddenIsSkipped
  VerdictSpec
CHECK_DEADLOCK FALSE
