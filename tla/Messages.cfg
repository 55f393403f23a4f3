SPECIFICATION MessagesSpec
CONSTANTS
  Runs = {r1}
  Texts = {t1}
  MaxDays = 2
  MaxAsks = 2
  MaxLinks = 2
  MaxDeaths = 1
  Syncers = {s1, s2}
  MaxVersions = 2
  MaxDrifts = 1
  Mail = {m1, m2, m3}
  PageOf <- MCPageOf
  MaxResults = 2
  Polls = {p1, p2}
  Lines = {l1, l2, l3}
  MaxPageMoves = 3
  MaxWatchEdits = 1
  MaxRelinks = 1
  MaxScans = 1
INVARIANTS OneWorkflow 
PROPERTY OutboxEffects
CHECK_DEADLOCK FALSE
