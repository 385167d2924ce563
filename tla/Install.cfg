SPECIFICATION MCSpec
CONSTANTS
  Bundle <- MCBundle
  Core = core
  Bridge = bridge
  Version = {v1, v2}
  Missing = missing
  Process = {i1, i2}
  First = i1
  Nobody = nobody
  NoBase = nobase
  MaxMessage = 1
  MaxManifest = 2
  MaxPreserved = 1
  Event = {e1, e2}
SYMMETRY VersionSymmetry
INVARIANTS WholeSaved MessagesSaved Reversible 
PROPERTIES VerdictTrue
CHECK_DEADLOCK FALSE
