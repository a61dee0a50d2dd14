SPECIFICATION Spec
CONSTANTS
  asha = asha
  ben = ben
  Customers = {asha, ben}
  Slots <- MCSlots
  Channels = {"SMS", "VOICE"}
  WindowStart = 10
  WindowEnd = 21
  LeadHours = 24
  ContactsAllowed = 2
  CooldownHours = 72
  ConsentHours = 168
  RollingWindow = 720
  MaxAttempts = 4
  Unit = 4
  Latents <- MCLatents
INVARIANT KnownPropensityIsExact
CHECK_DEADLOCK FALSE
