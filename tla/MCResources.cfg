SPECIFICATION Spec
CONSTANTS
  Cpus = {0, 1}
  Blocks = {1, 2, 3}
  Tools = {t1, t2}
  MaxBoot = 2
  MaxDesc = 4
  Careless = FALSE
SYMMETRY Symmetry
INVARIANTS Disjoint Accounted Ordered LoanInv
