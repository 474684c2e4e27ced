SPECIFICATION Spec
CONSTANTS
  None = None
  MaxChanges = 2
  Cooldown = 3
  JitterHorizon = 10
INVARIANTS
  BurstBudget
  LagOnlyWhileCooling
  SettlesWithinCooldown
