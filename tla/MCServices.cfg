SPECIFICATION ServicesSpec
CONSTANTS
  u1 = u1
  u2 = u2
  u3 = u3
  c1 = c1
  c2 = c2
  x1 = x1
  x2 = x2
  y1 = y1
  y2 = y2
  Calls = {c1, c2}
  Docs = {y1, y2}
  Users = {u1, u2}
  RoleOf <- MCRoleOf
  Owner = u1
  MaxVersions = 2
  Prints = {z1, z2}
  AckLoss = FALSE
  Nobody = Nobody
  NoDoc = NoDoc
  NoPrint = NoPrint
  Handlers = {c1, c2}
  Officers = {y1, y2}
  Pages = {p1}
  Texts = {m1}
  Letters = {x1, x2}
  MaxDraws = 1
  MaxHistory = 3
  Servers = {y1, y2}
  Quotas = {x1, x2}
  Window = 2
  MaxRequests = 1
  MemoryMaxKeys = 1
  MaxTime = 2
  MaxAsked = 3
  MaxResets = 1
  Accounts = {y1, y2}
  Addresses = {m1, m2, m3}
  Sessions = {u1}
  Links = {x1, x2}
  Factors = {y1, y2}
  Mails = {m1}
  Secrets = {x1, x2}
  MaxKeys = 3
  Descriptions = {1, 24, 70}
  FieldLines = {1, 6}
  NoticeLines = 6
  Tables <- MCTables
  Typed = {"a", "m", " ", "nl", "arrow", "joiner", "amacron"}
  MaxTyped = 5
  Widths = {2, 4}
  WidthOf <- MCWidthOf
  Signers = {u1, u2, u3}
  SignerRole <- MCSignerRole
  Client = u1
  ValidUntil = 1
  Prices <- MCPrices
  Quantities <- MCQuantities
  MaxCents = 100
  MaxQuantity = 120
  MaxLines = 2
  Queries = {"none", "plain"}
  Roles = {"client", "staff"}
  IdleTimeout <- MCIdleTimeout
  AbsoluteTimeout <- MCAbsoluteTimeout
  TouchInterval = 1
  MaxAge = 7
  MaxDelay = 1
  Statuses = {"draft", "submitted", "under_review"}
  Filters = {"all", "submitted"}
  PageSize = 2
  MaxPage = 9
  HistoryLimit = 2
  MaxRows = 3
  MaxMoves = 2
  MaxWrong = 2
  Values = {x1, x2}
  Clients = {u1}
  Operators = {u2}
  Requests = {x1, x2}
  Messages = {m1}
  Desks = {y1, y2}
  NotePageSize = 1
  MaxNotes = 2
  Phones = {m1}
  Names = {m2}
  MaxSent = 2
SYMMETRY PairSymmetry
CHECK_DEADLOCK FALSE
INVARIANTS
  TypesHold
  PublishedHasItsFile
  HandedOutIsPublished
  LastVersionInForce
  OnlyTheRightReaders
  
  QuotaHolds
  AddressesAreProved
  
  
  SummariesAreReadable
  QuotesAreSound
  
  TimeoutsHold
  ListsAreTrue
PROPERTIES
  VersionsSpec
