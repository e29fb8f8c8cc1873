CONSTANTS
  p1 = p1  p2 = p2  pan = pan  mail = mail
  Procs = {p1, p2}
  FieldOrder <- Order
  Texts <- Values
  Lookalikes = {"v1:a:b:c:d"}
  Environments <- Deployments
  MaxBoots = 3
  MaxSets = 2
SPECIFICATION Spec
SYMMETRY Symmetry
INVARIANT EncryptionInv
PROPERTY ReadsBack
PROPERTY KeptKeysRead
