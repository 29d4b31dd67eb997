\* Two controllers race on one node that falls silent; no administrator steps in.
CONSTANTS
  Nodes = {n1}
  NoNode = NoNode
  NoRow = NoRow
  Controllers = {c1, c2}
  Admins = {}
  Threshold = 2
  MaxLapses = 1
SPECIFICATION FairSpec
PROPERTY SilentIsFailed
