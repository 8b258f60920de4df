CONSTANTS
  Slots = {s1}
  Served <- MCRegistered
  IncidentKeys = {"declared", "lower"}
  MaxLines = 4

SPECIFICATION FairSpec

PROPERTIES
  FlagsAreTakenBack
  ExpiredSessionEnds
