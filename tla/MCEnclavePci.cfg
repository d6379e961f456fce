SPECIFICATION PciSpec
CONSTANTS
  Devs = {d1, d2}
  MaxAdds = 3
  Faults = {"refused", "attach"}
SYMMETRY Symmetry
INVARIANTS DevicesUsedLive HandlerSafe DomainSafe MaskedIsOwed
CHECK_DEADLOCK FALSE
