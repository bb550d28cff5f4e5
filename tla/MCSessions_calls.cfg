\* Two browsers that make one call at a time; a password change, two edits.
SPECIFICATION FairSpec
CONSTANTS
  b1 = b1  b2 = b2  c1 = c1  c2 = c2
  Browsers = {b1, b2}
  Calls = {c1, c2}
  OwnerOf <- OneEach
  Pairs = {1, 2, 3, 4}
  NoPair = NoPair
  MaxChanges = 1
  MaxEdits = 1
INVARIANTS TypeOK StoredIsHonoured
PROPERTIES CallsEnd
CHECK_DEADLOCK FALSE
