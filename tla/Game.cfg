SPECIFICATION GameSpec
CONSTANTS
  Parts = {"quest", "chat", "keyboard", "gates", "visits", "film", "sound", "avatar", "shop", "workshop", "worlds"}
  Steps <- LumioOnboarding
  Dialogues <- ShippedDialogues
  NpcIds <- Npcs
  Overlay = TRUE
  MAX_TRIGGER_DEPTH = 10
  MaxMounts = 2
  Sessions = {"a", "b"}
  Scripts <- ServerScripts
  MESSAGES_CAP = 2
  MAX_RETRIES = 1
  MaxFaults = 2
  Inputs <- TypedLines
  HISTORY_CAP = 2
  MaxRebuilds = 1
  StartScenes <- EveryScene
  PollsSeen = {1, 2}
  MAX_CALLBACKS = 2
  VisitedScenes <- AllScenes
  MAX_VISITS = 2
  AGENTS = 22
  LoopTimes = {0, 8000}
  Frames = {400, 500, 4000}
  LAUNCHES = 2
  AmbientCues = {village, teaser}
  NoCue = silence
  SOUNDS = 3
  Sheets = {"player_spritesheet", "apollo_spritesheet"}
  OwnSheet = "player_spritesheet"
  EDGE = 1
  COOLDOWN = 3
  WarePrices <- ThreeWares
  Grants <- TwoGrants
  NoItem = "none"
  GRANTS = 2
  AWARDS = 3
  Tiers <- WorkshopTiers
  Vendors <- WorkshopVendors
  Anthropic = "anthropic"
  ApiKeys <- WorkshopKeys
  Absent = "absent"
  RUNS = 2
  MAX_LOADS = 1
  WorldIds <- ThreeWorlds
  DefaultWorld = "cyberpunk_shanghai"
  NoWorld = "none"
CHECK_DEADLOCK FALSE
INVARIANTS
  QuestPaysOnce
  AnswerReadOnce
  KeyboardHasOneOwner
  DoorsLeadOnce
  FilmInCharge
  
  SpendingAddsUp
PROPERTIES
  OnlyAsChosen
