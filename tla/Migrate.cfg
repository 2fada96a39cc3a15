CONSTANTS
  r1 = r1
  r2 = r2
  src = src
  up = up
  None = None
  Runs = {r1, r2}
  Roots <- MCRoots
  SafeRoots <- MCSafeRoots
  SrcRoots = src
  MaxEdits = 1
SPECIFICATION Spec
SYMMETRY Symmetry
INVARIANTS RefusedMeansUntouched MigrationConverges
PROPERTIES DeclarationLast ProjectBytesSurvive
