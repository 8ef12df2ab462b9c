\* Three runs, two objects, three addresses.
SPECIFICATION Spec
CONSTANTS
  early = early
  late = late
  own1 = own1
  own2 = own2
  own2b = own2b
  Objects <- MCObjects
  Time <- MCTime
  Own = {own1, own2, own2b}
  Generated = {own1, own2}
  reloaded <- MCReloaded
  Others = {other}
  l1 = l1
  l2 = l2
  Listeners = {l1, l2}
  Period = 1
  MaxChanges = 4
  MaxTime = 4
  MaxRuns = 3
SYMMETRY Alike
INVARIANTS TypeOK FilesAreBeginnings SavedUnlessDamaged LoadsWholeRecords
PROPERTIES SharedOncePerListener
\* after the last run nothing happens
CHECK_DEADLOCK FALSE
