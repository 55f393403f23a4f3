SPECIFICATION ServicesSpec
CONSTANTS
  c1 = c1
  c2 = c2
  FormKeys = {1, 2, 3, 4, 5}
  Sources = {s1}
  Offered <- MCOffered
  Accounts = {"bank", "cash"}
  MaxDay = 2
  MaxEvents = 5
  MaxRuns = 2
  MaxSettings = 2
  MaxAtOnce = 1
  Notes = {"n"}
  Slices = 2
  Agents = {"a"}
  DailyCalls = 2
  MaxVersions = 3
  MaxRepeats = 1
  MaxDays = 1
  MaxDeaths = 1
  Documents = {"hall"}
  EditionOf <- TheEditions
  FirstEdition <- TheFirst
  Extractions = {"text", "ocr"}
  MaxRecords = 2
  MaxFeed = 3
  LibraryDeaths = 1
  AccountCalls = {c1, c2}
  CallTools <- AllTools
  MaxSignIns = 2
  MaxReconfigured = 1
  MaxRotations = 1
  AccountDeaths = 1
  Horizon = 4
  SampleKeys = {"k1", "k2", "k3"}
  MetricOf <- TheMetrics
  Batches <- TheBatches
  KindOf <- TheKinds
  Budget <- TheBudgets
  Uploads = {"u1", "u2"}
  Askers = {"a1", "a2"}
  LocalDays = {1, 2}
  MaxNow = 3
  MaxSends = 3
  MaxWipes = 1
  MaxDemands = 2
INVARIANTS BooksSound  AccountsSound MirrorsSound
PROPERTY StepsFenced
CHECK_DEADLOCK FALSE
