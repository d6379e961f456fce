SPECIFICATION PciSpec
CONSTANTS
  Devs = {d1, d2}
  MaxAdds = 2
  Faults = {"attach"}
SYMMETRY Symmetry
INVARIANTS EveryCallAnswered
CHECK_DEADLOCK FALSE
