SPECIFICATION ServerSpec
CONSTANTS
  Calls <- MCCalls
  Requests <- MCRequests
  Spaces = {"live", "acme"}
  FirstKeys <- KeyTable
  Production = FALSE
  MaxFaults = 1
  Jobs <- MCJobs
  Asks <- MCAsks
  MaxErrors = 1
  Clients = {"a", "b"}
  Limit = 1
  Second = 2
  Width = 3
  Full = 2
  MaxTime = 4
  MaxAsks = 2
  Persons = {"ann", "bob"}
  Countries = {"pt", "br"}
  FirstCountry <- MCFirstCountry
  Callers = {"api"}
  Wishes <- MCQuestions
  MaxEdits = 1
  MaxPosts = 2
  MaxLength = 5
  Subjects = {"ann", "bob"}
  Files <- MCFiles
  Imports = {"i1", "i2"}
  Uploads <- MCUploads
  MaxFailures = 1
  MaxErased = 1
  Lives = {"a", "b"}
  Opens <- MCOpens
  Admin = {"root"}
  MaxVisits = 7
  People = {"ann", "bob"}
  MaxDrafts = 2
  MaxTexts = 1
  MaxMarks = 3
  DraftCalls = {1, 2}
  Tabs = {"t"}
  DemoCast <- MCDemoCast
  Rankings <- MCRankings
  Homes = {"home", "sf"}
  MilestoneKeys = {"day"}
  MaxChanges = 1
  MaxPicks = 1
  MaxReloads = 1
  Loads = {1}
  Varied = {"g", "cm", "f", "c", "m", "i"}
  SeriesKeys <- MCSeries
  MaxClicks = 4
  Kinds = {"panel", "view", "wbr"}
  Watched = {"a", "b"}
  MaxVersion = 2
  MaxTurns = 3
  MaxFails = 1
  MaxTicks = 1
  ProfileSpaces = {"open", "shut"}
  Locked = {"shut"}
  FirstStored <- MCFirstStored
  Drafts <- MCDrafts
  Forms <- MCForms
  MaxActs = 3
  MaxRefused = 1
  Sources <- MCSources
  Errors = {"401"}
  PanelKeys = {"none", "key"}
  MaxLoads = 2
  MaxPresses = 3
INVARIANTS KeysAreObeyed NoGhosts WritesAreAudited LimitHolds RowsAreReported ImportIsTrue ResearchHolds PagesHold DayHolds SettingsHold
CHECK_DEADLOCK FALSE
