SPECIFICATION Spec
CONSTANTS
  Names <- MCNames
  UrlNameOf <- MCUrlNameOf
  MaxIds = 2
  c1 = c1
  c2 = c2
  Calls = {c1, c2}
  Scenarios <- MCScenarios
  MaxTokens = 3
INVARIANTS
  TypeOK
  NamesDistinct
  SelectedCanDo
  RetryIsFresh
PROPERTIES
  ReachesWhatWasMeant
