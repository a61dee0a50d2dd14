SPECIFICATION Spec
CONSTANTS
  asha = asha
  ben = ben
  Customers = {asha, ben}
  Slots <- MCSlots
  Large <- MCLarge
  Rank <- MCRank
  Values <- MCValues
  Channels = {"SMS", "VOICE"}
  Diagnosable = {"MANDATE_REVOKED", "TECHNICAL_DECLINE", "INSUFFICIENT_FUNDS"}
  CapacityPercent = 50
  RepairAttempts = 1
  Client = TRUE
  WindowStart = 10
  WindowEnd = 21
  LeadHours = 24
  ContactsAllowed = 2
  CooldownHours = 72
  ConsentHours = 168
  RollingWindow = 720
INVARIANTS
  RankingsWinOnlyByTheVeto
  AbstentionsAreExplained
  HoldoutStaysUntouched
  MessagesAreTruthful
  TalliesMatchLedger
  TracesAgree
  NarrativesAreConsistent
  NullReplayAgrees
