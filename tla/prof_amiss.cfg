CONSTANTS
  Pages <- MCPages
  Slots = 2
  Home <- MCHome
  Probes = 2
  Heaviest = 2
  Cadence = 2
  Jobs = {j1, j2}
  Envs <- MCEnvs
  MaxNotes = 3
  MaxCalls = 1
SPECIFICATION Spec
INVARIANT OverlayMissCounted
SYMMETRY MCAlike
