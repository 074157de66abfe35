\* MaxBytes = 3: large has to evict one of plain and bold; huge never fits.
CONSTANTS
  c1 = c1
  c2 = c2
  c3 = c3
  c4 = c4
  c5 = c5
  c6 = c6
  plain = plain
  bold = bold
  large = large
  huge = huge
  Calls = {c1, c2, c3, c4, c5, c6}
  Keys = {plain, bold, large, huge}
  KeyOf <- PlainThrice
  Fingerprint <- OneText
  SlotOf <- OneSlot
  Size <- Sizes
  MaxBytes = 3
  Nobody = Nobody
SPECIFICATION CacheSpec
INVARIANTS
  CacheKeepsBooks
  KeptAfterRepeat
PROPERTIES
  
  CallsEnd
\* Every lookup ends.
CHECK_DEADLOCK FALSE
