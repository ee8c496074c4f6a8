SPECIFICATION TrieSpec
CONSTANTS
  W = 3
  Lengths = {3, 5}
  Keys <- MCKeys
  Payload = {1, 2}
  MaxKeys = 3
INVARIANTS ReturnsWritten 
