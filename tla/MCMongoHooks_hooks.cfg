CONSTANTS
  h1 = h1  h2 = h2  row = row  mail = mail  note = note
  p = p  q = q  k1 = k1  k2 = k2
  Handles = {h1, h2}
  Ids = {row}
  Fields = {mail, note}
  Pii = {mail}
  Skip = {}
  Plain = {p, q}
  Tokens = {k1, k2}
  MaxCalls = 2
  MaxEdits = 2
SPECIFICATION Spec
SYMMETRY Symmetry
INVARIANT HooksInv
INVARIANT RevealsOriginal
 
