SPECIFICATION DeviceSpec
CONSTANTS
  MaxVisits <- MCVisits
  NCosigners = 3
  Detours = {}
  Themes <- MCThemes
  Scope <- MCScope
INVARIANTS
  SavedIsAsked
  ShownWhole
  WalletsBuilt
  PreviewIsSigned
