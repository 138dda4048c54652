SPECIFICATION Spec
CONSTANTS
  Ids = {i1, i2}
  Groups = {g}
  Kinds = {"keychain", "vault"}
  MaxRefs = 1
  MaxChecks = 1
  Results = {"ok", "error"}
  MaxDepth = 2
  None = None
SYMMETRY Symmetry
VIEW View
CONSTRAINT Followed
INVARIANTS ReferencesAreKept SecretsAreOwned OwnExportImports ConfirmedStands
