SPECIFICATION Spec
CONSTANTS
  Cpus = {0, 1}
  Blocks = {1, 2, 3}
  Tools = {t1}
  MaxBoot = 2
  MaxDesc = 4
  Careless = TRUE
PROPERTIES InitToEnclaveOnly
