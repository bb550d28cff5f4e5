\* Two handlers, two categories and a tag, one slug, two updates, both kinds of database.
SPECIFICATION Spec
CONSTANTS
  h1 = h1  h2 = h2
  Handlers = {h1, h2}
  Slugs = {"news"}
  Cascades = {TRUE, FALSE}
  MaxId = 2
  MaxTags = 1
  MaxUpdates = 2
SYMMETRY Symmetry
INVARIANTS TypeOK 
CHECK_DEADLOCK FALSE
