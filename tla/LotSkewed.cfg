SPECIFICATION BooksSpec
CONSTANTS
  FormKeys = {1, 2, 3, 4, 5, 6}
  Sources = {}
  Offered <- MCOffered
  Accounts = {"bank"}
  MaxDay = 3
  MaxEvents = 6
  MaxRuns = 1
  MaxSettings = 0
  MaxAtOnce = 1
INVARIANT LotsExact
CHECK_DEADLOCK FALSE
