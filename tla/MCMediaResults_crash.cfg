\* Two originals with a probe each, a thumbnail task, two crashes.
SPECIFICATION Spec
CONSTANTS
  p1 = p1  p2 = p2  t1 = t1  h1 = h1  h2 = h2
  Tasks = {p1, p2, t1}
  Probes = {p1, p2}
  Count = 2
  Handlers = {h1, h2}
  NoTask = NoTask
  MaxUploads = 2
  MaxRows = 4
  MaxCrashes = 2
  MaxEdits = 2
SYMMETRY Symmetry
INVARIANTS TypeOK MetadataApplied OriginalIsThere ThumbnailHasObject ListedOnce
CHECK_DEADLOCK FALSE
