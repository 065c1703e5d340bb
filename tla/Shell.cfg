SPECIFICATION FairSpec
CONSTANTS
  First <- MCFirst
  MaxRecord = 2
  Name <- MCName
  InitFiles <- MCInitFiles
  Lines <- MCLines
  MaxTyped = 3
  MaxCmds = 3
  PipeCap = 2
INVARIANTS
  PromptClean
  CommandsAsWritten
  HistoryRecent
  OverwriteAsked
  PipelineComposes
PROPERTY
  LineFinishes
