\* Two handlers; keys change while nothing else is going on.
SPECIFICATION Spec
CONSTANTS
  a = a  b = b  k1 = k1  k2 = k2  t1 = t1  t2 = t2  h1 = h1  h2 = h2
  Res = {a, b}
  Keys = {k1, k2}
  Tasks = {t1, t2}
  Handlers = {h1, h2}
  Legacy = Legacy
  NoRow = NoRow
  NoFiles = NoFiles
  Operations = {"generate", "regenerate", "toggle", "retry", "edit"}
  QuietToggles = TRUE
  MaxOps = 3
SYMMETRY Symmetry
INVARIANTS TypeOK KeyServed MarkedHasKey
CHECK_DEADLOCK FALSE
