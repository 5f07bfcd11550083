SPECIFICATION ConversionSpec
CONSTANTS
  KindSets = {{"kcp", "config"}, {"template"}}
  Clients = {c1, c2}
  Values = {v0, v1}
  Unset = Unset
  MaxWrites = 3
SYMMETRY ClientSymmetry
INVARIANT NoSpuriousRollout
PROPERTIES NewFieldsSurvive OldEditsTakeEffect
CHECK_DEADLOCK FALSE
