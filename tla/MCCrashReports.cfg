SPECIFICATION CRSpec
CONSTANTS
  plain = plain
  web = web
  Object <- MCObject
  fWebApp <- MCWebApp
  MaxCrashes = 4
INVARIANTS
  ReportsComplete
PROPERTIES
  RecordsAgain
