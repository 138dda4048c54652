SPECIFICATION FairSpec
CONSTANTS
  N = N
  A = A
  B = B
  C = C
  n0 = n0
  t1 = t1
  t2 = t2
  Threads = {t1, t2}
  Names = {"l", "d", "e", "f", "g", "k", "m", "q", "x"}
  Shares <- MCShares
  Root = N
  Requests <- MCRequests
  Histories <- MCHistories
  MaxNested = 4
  None = n0
INVARIANTS ServesTheNamespace NamesComeBack EffortIsBounded
PROPERTY Recovers
