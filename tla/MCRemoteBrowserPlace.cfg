SPECIFICATION Spec
CONSTANTS
  c1 = c1
  c2 = c2
  root = root
  folder = folder
  link = link
  Connection = {c1, c2}
  None = None
  Path = {root, folder, link}
  Parent <- MCParent
  Above <- MCAbove
  StartPath <- MCStartPath
  Symlink = {link}
  Workers = 2
  Entries = 2
  MaxAsks = 3
INVARIANT
  WorksWhereAsked
