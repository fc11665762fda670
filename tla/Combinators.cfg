SPECIFICATION FairSpec
CONSTANTS
  Kinds = {"all", "any", "timeout"}
  Tasks = {t1, t2, t3}
  Parent = parent
  Timer = timer
  TrivialMove = TRUE
  MaxWaits = 2
INVARIANTS WinnerStands WokenOnce AllResultsInPlace
PROPERTIES RacesEnd
CHECK_DEADLOCK FALSE
