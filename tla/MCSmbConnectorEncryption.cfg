SPECIFICATION Spec
CONSTANTS
  Dialects = {"2.1", "3.0", "3.1.1"}
  MaxRounds = 3
INVARIANT
  EncryptedIsUnderstood
