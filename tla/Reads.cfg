SPECIFICATION Spec
CONSTANTS
  Name <- Names
  DotName <- DotNames
  File <- Files
  Repo <- Repos
  Score <- Scores
  PageSize = 1
  Edits <- SomeEdits
  Settings <- SomeSettings
  InitialRules <- SomeRules
  InitialLogs <- SomeLogs
  MaxCommits = 6
  MaxRuleChanges = 1
INVARIANTS RulesNest HiddenIsAbsent PagesOfOneRanking WalksMissNothing WritesWithinRules
