SPECIFICATION SolverSpec
CONSTANTS
  Demands = {1, 2, 3}
  Workers = {1, 2}
  Minute = 2
  Window <- TheJobs
  Travel <- TheTravel
  Home <- TheHomes
  Calendars <- TheCalendars
  Rooms = {1, 2}
  Scores = {20, 90}
  Bonus = 100
  Penalty = 5
  Tie = 1
  DayMinutes = 10
  NoWorker = NoWorker
CHECK_DEADLOCK FALSE
INVARIANTS
  NothingToCorrect
