\* Two runs of the public import, with changes by users and by Vanilla.
SPECIFICATION Spec
CONSTANTS
  Sources <- MCSources
  FirstSource <- MCFirst
  Plan <- MCPlan
  Throws <- MCThrows
  Runs = {r1, r2}
  Nobody = Nobody
  NoSource = NoSource
  UserRow = UserRow
  UserKeys <- MCUserKeys
  StateKeys <- MCStateKeys
  MaxEdits = 2
  MaxChanges = 1
  TopLevel = TopLevel
  Nothing = Nothing
  BadText = BadText
  Snapshots <- MCAllSnapshots
  VanillaAt <- MCVanillaAt
  m1 = m1
  m2 = m2
CHECK_DEADLOCK FALSE
INVARIANTS
  LedgerIsWhole
  EditsAreNoticed
  PlanKeepsOut
  PlanIsConnected
PROPERTIES
  RefusalHasCause
  ImplementsLedger
  EveryImportEnds
