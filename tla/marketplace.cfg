SPECIFICATION MarketplaceSpec
CONSTANTS
  Answers <- TheAnswers
  Forms <- TheForms
  Rates = {0, 10001}
  MinConfidence = 60
  NoRecord = NoRecord
  Requests = {1, 2}
  Providers = {"p", "q"}
  Matchers = {m1, m2}
  Demand <- TheDemand
  Distance <- TheDistance
  Declared <- TheWindows
  Exceptions <- TheExceptions
  Capacities <- TheCapacities
  Proposals <- TheProposals
  Wishes <- TheWishes
  MaxCancels = 1
  MaxEdits = 1
  DayLength = 2
  None = None
  Demands = {1, 2, 3}
  Workers = {1, 2}
  Minute = 2
  Window <- TheJobs
  Travel <- TheTravel
  Home <- TheHomes
  Calendars <- TheCalendars
  Rooms = {1, 2}
  Scores = {20, 90}
  Bonus = 100
  Penalty = 5
  Tie = 1
  DayMinutes = 10
  NoWorker = NoWorker
  Accounts <- TheAccounts
  Registered <- TheRegistered
  Staff = {"staff", "owner"}
  Subjects <- TheSubjects
  FirstSubject <- TheFirstSubject
  Persons = {"ayse"}
  Callers = {k1, k2}
  MaxTries = 2
  TryLimit = 1
  Nobody = "nobody"
  Writers = {w1, w2}
  Verifiers = {v1, v2}
  BatchSize = 2
  MaxId = 3
  MaxCrashes = 1
  MaxAltered = 1
  NoWriter = NoWriter
  Jobs = {"j1"}
  Recipient <- ForTheFirstUser
  Users = {"u1", "u2"}
  Devices = {"d1"}
  Processes = {p1, p2}
  MaxAttempts = 2
  MaxDevices = 1
  MaxMishaps = 1
  MaxRetries = 0
  NoOwner = NoOwner
  NoWork = NoWork
  Facts = {"f1", "f2"}
  Malformed = {"f2"}
  Exporters = {x1, x2}
  PerRound = 2
  MaxLapses = 1
  MaxSent = 2
  Stuck = {"a"}
  Kinds = {1, 2}
  Rounds = {"r1", "r2"}
  MaxTurns = 2
  AreaForms = {"web", "phone"}
  MaxAreas = 2
  MaxWishes = 4
  MaxLost = 1
  NoArea = NoArea
  Sessions = {"web", "phone"}
  Admins = {a1, a2}
  Needed = {"service", "area"}
  MaxPresses = 2
  MaxChanges = 3
  MaxAstray = 1
  Unset = Unset
  Buyers = {b1, b2}
  Intents = {"i1", "i2", "i3"}
  NoIntent = NoIntent
CHECK_DEADLOCK FALSE
SYMMETRY
  TheSymmetry
INVARIANTS
  IntakeInv
  NoDoubleBooking
  SolverInv
  OptimumServesMost
  AuditInv
  AnalyticsInv
  AreasInv
  OneHoldAndAnotherTry
PROPERTIES
  FreshAvailability
  BatchesAreSound
  AccountsAreSafe
  DeliveriesAreFenced
  FindingsAreReliable
  DecisionsAreSound
