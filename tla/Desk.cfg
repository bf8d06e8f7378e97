SPECIFICATION FairSpec
CONSTANTS
  t1 = t1
  t2 = t2
  network = network
  access = access
  lead = lead
  member = member
  other = other
  h1 = h1
  h2 = h2
  Nobody = Nobody
  NoTeam = NoTeam
  NoHandler = NoHandler
  Tickets <- MCTickets
  People <- MCPeople
  Teams <- MCTeams
  Members <- MCMembers
  Leads <- MCLeads
  Supervisors = {}
  Home <- MCHome
  Cap = 1
  Handlers <- MCHandlers
  Starts <- MCStarts
  Budgets <- MCBudgets
CHECK_DEADLOCK FALSE
INVARIANTS
  NobodyWaitsInVain
PROPERTIES
  PeopleActOnWhatTheySaw
  PicksKeepTheCap
  ResolutionsStand
  EveryRequestEnds
