SPECIFICATION Spec
CONSTANTS
  Enclaves = {e1, e2}
  Linux = Linux
  Sizes = {"2MB", "odd"}
  Relaunch = FALSE
SYMMETRY Symmetry
INVARIANTS LinuxRestored LandsHome TrampolineInv
