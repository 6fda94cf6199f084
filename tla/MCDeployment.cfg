\* The limits of the code, three outages; two seeders, a row of each table.
SPECIFICATION DeploySpec
CONSTANTS
  MaxProbes = 30
  MaxRestarts = 10
  MaxOutages = 3
  Seeders = {s1, s2}
  Nobody = Nobody
  Touched = {2, 17, 29, 36, 50}
  MaxRuns = 1
  MaxWrites = 1
INVARIANTS
  DeployTypeOK
  SeedIsRepeatable
PROPERTIES
  ContainerSettles
\* A container that gave up stops, and so do seeders that are done.
CHECK_DEADLOCK FALSE
