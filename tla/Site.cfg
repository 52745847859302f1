SPECIFICATION SiteSpec
CONSTANTS
  Parts = {"submission", "wizard", "assets", "search", "browse", "remix", "canvas", "predictions", "replay", "reveal", "tower"}
  FormNames <- TypedNames
  SlugFrom <- SlugOfName
  FormSlugs <- TypedSlugs
  KebabSlugs <- GoodSlugs
  TAGS_CAP = 1
  LATE_CAP = 1
  WIZARD_EDITS = 3
  LISTINGS = 2
  SAVES = 1
  VISITS = 2
  WAITERS = 1
  AssetIds = {a1, a2}
  StubIds = {stub1, stub2}
  ROUNDS = 3
  Texts <- SearchTexts
  Trim <- Trimmed
  NoText = ""
  Categories = {"content"}
  Subtypes = {"prompt"}
  SubtypesOf <- SubtypeTable
  Prices = {"-1"}
  BadPrices = {"-1"}
  Links <- SearchLinks
  Unset = unset
  EDITS = 3
  Listings <- ThreeOnSale
  TagsOf <- TagTable
  VendorOf <- VendorTable
  TierOf <- TierTable
  TrustOf <- TrustTable
  UpdatedAt <- UpdatedTable
  CuratedIds <- OneCurated
  Tags = {"t1", "t2"}
  Vendors = {"v1", "v2"}
  PriceTiers = {"free"}
  Anything = anything
  NAV_VISIBLE = 1
  CHOICES = 3
  Catalog <- ThreeListings
  Asked = {"first", "second"}
  Score <- ScoreTable
  Recency <- RecencyTable
  Order <- OrderTable
  Parametric <- TwoParametric
  PAGE_SIZE = 2
  CHATS = 2
  SENDS = 2
  Endpoints = {e1}
  PipelineRuns = {r1, r2}
  OwnRun = r1
  ATTEMPTS = 2
  SOURCES = 3
  SOCKETS = 2
  REPEATS = 2
  SPECIALISTS = 2
  PASSES = 2
  Scores <- BothSides
  SCANS = 2
  StepStarts <- ThreeStarts
  StepEnds <- ThreeEnds
  EventTimes <- FourEvents
  Duration = 5
  PLAYS = 3
  Camera <- TwoShots
  Beats <- TwoBeats
  NoBeat = 0
  DELTAS <- OneOrTwo
  TIME = 7
  Builders = {athena}
  TowerWorlds = {desert, shanghai}
  MAX_FLOORS = 2
  STEPS = 3
  CHANGES = 2
CHECK_DEADLOCK FALSE
INVARIANTS
  ListingIsWhatWasShown
  DraftKeepsEdits
  SearchSaysOneThing
  BrowseFollowsTheChoices
  RemixOfTheListingShown
  CanvasReadsItsRun
  WarningsToldOnce
  DemonstrationsAddUp
PROPERTIES
  DisposedConnectsNothing
