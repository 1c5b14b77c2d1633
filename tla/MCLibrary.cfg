SPECIFICATION FairSpec
CONSTANTS
  Recordings <- MCRecordings
  Entries <- MCEntries
  MaxEvents = 1
INVARIANTS HandsKeepApart TrashIsNamed
PROPERTIES OthersSurvive DeletionIsRecoverable IndexerAnswers
CHECK_DEADLOCK FALSE
