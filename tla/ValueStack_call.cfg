SPECIFICATION Spec
CONSTANTS
  Types <- MCTypes
  Depth <- MCDepth
  Signatures <- MCSignatures
  Tokens = {0, 1}
  Lengths = {0, 1, 2}
INVARIANT RoundTrip
