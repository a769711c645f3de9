\* All tabs are closed; the answer to the question about one of them comes after
\* the connection was switched.
CONSTANTS
  Ids = {a}
  NoId = NoId
  Keys = {k1, k2}
  NoKey = NoKey
  MaxPanes = 3
  Used = {a, NoId}
  Restarts = FALSE
SPECIFICATION AskedSpec
PROPERTY ClosesOwnTabs
