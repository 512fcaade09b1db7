CONSTANTS
  Limit = 2
  Permits = {p1, p2, p3}
  Groups = {g1, g2}
SPECIFICATION FairSpec
PROPERTY EveryWaiterLeaves
