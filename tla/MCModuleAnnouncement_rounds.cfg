CONSTANTS
  r1 = r1  r2 = r2  a = a  b = b
  Rounds = {r1, r2}
  Declarations <- Shapes
  MaxVersion = 2
SPECIFICATION FairRoundsSpec
INVARIANT AnnouncementInv
INVARIANT SignatureVerifies
PROPERTY EveryRoundNotifies
