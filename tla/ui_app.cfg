CONSTANTS
  Slots = {s1, s2}
  Served <- MCCalls
  IncidentKeys = {"declared", "lower"}
  MaxLines = 4

SPECIFICATION Spec

INVARIANTS
  TypeOK
  GuestHasNoToken
  GuestSeesNothing
  EmptyNoticeIsTrue
  SubmittedOnce
  FlagHasItsRequest
  SecretsSurvive
  ConsoleInOrder

SYMMETRY Places
