SPECIFICATION Spec
CONSTANTS
  Keys <- Routes
  Throttlers <- MCThrottlers
  MaxTime = 3
  Requests = {1, 2, 3, 4}
  Accounts = {1, 2, 3}
  Infinity = 100
  MaxChanges = 1
  Depth = 3
  Width = 2
  Stems = {"notes", "wavy", "acute", "grave"}
  Extensions = {"txt", "png"}
  Ascii <- MCAscii
  Hints = {"wavy", "png"}
  People = {1, 2}
  Texts = {"", "letters", "1-2", "12", "Ann", "Bo", "ann", "bo", "weak", "strong", "twin", "other",
           "hash1", "hash2", "AA", "BB", "png", "LIGHT", "DARK", "DEFAULT"}
  Digits <- MCDigits
  Strong = {"strong", "twin", "other"}
  Hash <- MCHash
  Null = Null
  Controllers = {"default", "users", "files", "hooks", "subscriptions"}
  Mixes <- MCMixes
INVARIANTS
  TypeOK
  RateRespected
  SecretsLoggedHaveACause
  PagesPartition
  FilesComeBackWhole
  UnansweredHasACause
  AnswersHold
  LinesNameTheirRequest
PROPERTIES
  OnlyGivenFieldsChange
