SPECIFICATION Spec
CONSTANTS
  main = main store = store good = good smoke = smoke link = link find = find
  NoFile = NoFile Unverified = Unverified
  Names = {main, store} Entry = main
  Codes = {good, smoke, find}
  Checks = {smoke, link, find} Minimum <- MCMinimum SingleMinimum = {smoke}
  Fails <- MCFails Importable <- MCImportable
  MaxRepair = 2 MaxReplan = 2 MaxImprove = 2 MaxGoverned = 3 MaxAttempts = 2 MaxFaults = 1
INVARIANTS DoneIsVerified ReturnedIsOnDisk RepairsNeverRegress GovernedFloor ModifyIsGated
CHECK_DEADLOCK FALSE
