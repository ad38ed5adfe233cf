SPECIFICATION Spec
CONSTANTS
  Literals = {"_bulk", "_cat", "_cluster", "_doc", "_nodes", "_search", "indices", "settings", "stats"}
  Params = {"{id}", "{name}"}
  Nothing = ""
  Parts = {"_c", "s", "{", "logs", "_cat"}
  Starts <- MCStarts
  Values = {"logs", "stats", "_search"}
  Verbs = {"GET", "POST", "PUT"}
  AnyVerb = AnyVerb
  Document <- MCDocument
  Rank <- MCRank
  DefaultVerb = "GET"
  MaxSegments = 4
INVARIANTS
  CompletionLeadsOn
  CompletedFindsItself
