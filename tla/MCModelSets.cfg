SPECIFICATION Spec
CONSTANTS
  Ids = {a, b, c}
  Unloadable = {c}
  None = none
  MaxPublishes = 3
  MaxUpsets = 2
INVARIANTS
  TypeOK
  RecordedIsWhole
  StampHonest
PROPERTIES
  WithdrawnNeverReloaded
  PublishedIsServed
