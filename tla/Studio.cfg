SPECIFICATION StudioSpec
CONSTANTS
  Parts = {"intro", "advisor", "executor", "ticket", "vendors", "tiers", "meter", "pulse", "earnings", "invoices", "sessions", "events", "translation"}
  Pillars = {builder, banking}
  Registered = {builder}
  Strategies = {opus, collaborative}
  TURNS = 1
  RETRIES = 2
  RECONNECTS = 3
  FRAMES = 2
  Sessions = {b1, b2}
  NoSession = none
  EFFECTS = 4
  Tasks = {"strategy", "image_generation", "research"}
  Providers = {"anthropic", "gemini", "managed_agents"}
  Live = "anthropic"
  LaneTokens = {"managed_agents", "ma"}
  FirstPlan <- TwoAssigned
  Ranked <- ThreeTiers
  Intents <- ShortIntents
  PREBAKED_INTENT <- LumioIntent
  Edits = {"", "ask", "ask again"}
  WINDOW <- Windows
  NoPlan = "no plan"
  CHANGES = 1
  CLICKS = 3
  MeterRuns <- TwoRuns
  MeterReadings <- FourReadings
  NoRun = "no run"
  BudgetCap = 3
  MAX_VISIBLE = 3
  PayoutAmount <- ThreePayouts
  WINDOW_DAYS <- Periods
  HALF_DAYS = 6
  Purchases = {p1, p2, p3}
  NoPurchase = none
  FETCHES = 2
  Creates <- ThreeCreates
  KeyOf <- KeysOfCreates
  BODIES <- BodiesOfCreates
  NoIdemKey = "no key"
  MAX_CONCURRENT_PER_USER = 1
  CANCELS = 1
  REPLAY_BATCH_LIMIT = 2
  EVENTS = 3
  DROPS = 1
CHECK_DEADLOCK FALSE
INVARIANTS
  KeptInOrder
  StepSettled
  StreamIsHeld
  AccountShownAsItIs
  PromptsCarryTheIntent
  SessionsAccounted
PROPERTIES
  AllComeToAnEnd
