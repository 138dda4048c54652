--------------------------- MODULE DfsClientProofs ---------------------------
(***************************************************************************)
(* The invariants of DfsClient, for any namespace and any changes to it,    *)
(* any threads and requests and any limit of the depth.                     *)
(*                                                                         *)
(* Reach and MostCalls are recursive functions.  Induction is stated about  *)
(* a set of numbers (SetInduction), from the well-foundedness of < on Nat.  *)
(***************************************************************************)
EXTENDS DfsClient, SequenceTheorems, FiniteSetTheorems, WellFoundedInduction, TLAPS

-----------------------------------------------------------------------------
(* Numbers *)

\* A set of numbers has a least element.
LEMMA LeastNumber ==
  ASSUME NEW T \in SUBSET Nat, T # {}
  PROVE  \E x \in T : \A y \in T : x <= y
  <1>1. IsWellFoundedOn({ss \in Nat \X Nat : ss[1] < ss[2]}, Nat)
    BY NatLessThanWellFounded DEF OpToRel
  <1>2. PICK R : R = {ss \in Nat \X Nat : ss[1] < ss[2]}
    OBVIOUS
  <1>3. IsWellFoundedOn(R, Nat)
    BY <1>1, <1>2
  <1>4. PICK x \in T : \A y \in T : ~ (<<y, x>> \in R)
    BY <1>3, WFMin
  <1>5. ASSUME NEW y \in T, ~(x <= y) PROVE FALSE
    <2>1. <<y, x>> \in Nat \X Nat /\ y < x
      BY <1>5
    <2>2. <<y, x>> \in R
      BY <1>2, <2>1
    <2> QED BY <1>4, <2>2
  <1> QED BY <1>5

\* A set with zero and every successor holds all numbers.
LEMMA SetInduction ==
  ASSUME NEW S, 0 \in S, \A n \in Nat : n \in S => n + 1 \in S
  PROVE  Nat \subseteq S
  <1> SUFFICES ASSUME Nat \ S # {} PROVE FALSE
    OBVIOUS
  <1>1. PICK x \in Nat \ S : \A y \in Nat \ S : x <= y
    BY LeastNumber
  <1>2. x # 0 /\ x - 1 \in Nat
    BY <1>1
  <1>3. x - 1 \in S
    BY <1>1, <1>2
  <1> QED BY <1>1, <1>2, <1>3

\* A set of numbers with a bound has a greatest element.
LEMMA GreatestNumber ==
  ASSUME NEW T \in SUBSET Nat, T # {}, NEW b \in Nat, \A x \in T : x <= b
  PROVE  \E x \in T : \A y \in T : y <= x
  <1>1. PICK d \in {n \in Nat : \A x \in T : x <= n} :
          \A e \in {n \in Nat : \A x \in T : x <= n} : d <= e
    BY LeastNumber
  <1>2. CASE d \in T
    BY <1>1, <1>2
  <1>3. CASE d \notin T
    <2>1. PICK x : x \in T
      OBVIOUS
    <2>2. \A y \in T : y <= d - 1
      BY <1>1, <1>3
    <2>3. d # 0
      BY <1>1, <1>3, <2>1
    <2> QED BY <1>1, <2>2, <2>3
  <1> QED BY <1>2, <1>3

\* A finite set of numbers has a bound.
LEMMA FiniteBound ==
  ASSUME NEW T \in SUBSET Nat, IsFiniteSet(T)
  PROVE  \E b \in Nat : \A x \in T : x <= b
  <1> DEFINE Bounded(U) == \E b \in Nat : \A x \in U : x <= b
             S == {n \in Nat : \A U \in SUBSET Nat :
                     IsFiniteSet(U) /\ Cardinality(U) = n => Bounded(U)}
  <1>1. 0 \in S
    <2>1. ASSUME NEW U \in SUBSET Nat, IsFiniteSet(U), Cardinality(U) = 0
          PROVE  Bounded(U)
      BY <2>1, FS_EmptySet
    <2> QED BY <2>1
  <1>2. ASSUME NEW n \in Nat, n \in S PROVE n + 1 \in S
    <2>1. ASSUME NEW U \in SUBSET Nat, IsFiniteSet(U), Cardinality(U) = n + 1
          PROVE  Bounded(U)
      <3>1. PICK u : u \in U
        BY <2>1, FS_EmptySet
      <3>2. IsFiniteSet(U \ {u}) /\ Cardinality(U \ {u}) = n /\ U \ {u} \in SUBSET Nat
        BY <2>1, <3>1, FS_RemoveElement
      <3>3. Bounded(U \ {u})
        BY <1>2, <3>2
      <3>4. PICK b \in Nat : \A x \in U \ {u} : x <= b
        BY <3>3
      <3>5. \A x \in U : x <= b + u
        BY <3>1, <3>4
      <3> QED BY <3>1, <3>5
    <2>2. n + 1 \in Nat
      OBVIOUS
    <2> HIDE DEF Bounded
    <2> QED BY <2>1, <2>2, Zenon
  <1> HIDE DEF S
  <1>3. Nat \subseteq S
    BY <1>1, <1>2, SetInduction
  <1>4. Cardinality(T) \in S
    BY <1>3, FS_CardinalityType
  <1> QED BY <1>4, FS_CardinalityType DEF S

-----------------------------------------------------------------------------
(* Paths *)

\* A prefix, place by place.
LEMMA PrefixPlaces ==
  ASSUME NEW s \in Path, NEW t \in Path
  PROVE  IsPrefix(s, t) <=> Len(s) <= Len(t) /\ \A i \in 1..Len(s) : s[i] = t[i]
  <1>1. ASSUME Len(s) <= Len(t)
        PROVE  SubSeq(s, 1, Len(s)) = s /\ Len(SubSeq(t, 1, Len(s))) = Len(s)
               /\ SubSeq(t, 1, Len(s)) \in Path
               /\ \A i \in 1..Len(s) : SubSeq(t, 1, Len(s))[i] = t[i]
    BY <1>1 DEF Path
  <1>2. ASSUME IsPrefix(s, t) PROVE \A i \in 1..Len(s) : s[i] = t[i]
    BY <1>1, <1>2 DEF IsPrefix
  <1>3. ASSUME Len(s) <= Len(t), \A i \in 1..Len(s) : s[i] = t[i] PROVE IsPrefix(s, t)
    <2>1. PICK u : u = SubSeq(t, 1, Len(s))
      OBVIOUS
    <2>2. u = s
      BY <1>1, <1>3, <2>1, SeqEqual DEF Path
    <2> QED BY <1>1, <1>3, <2>1, <2>2 DEF IsPrefix
  <1> QED BY <1>2, <1>3 DEF IsPrefix

\* The empty path is a path.
LEMMA EmptyPath == <<>> \in Path /\ Len(<<>>) = 0
  BY EmptySeq DEF Path

\* What is put behind a path has the path before it, and comes back as its suffix.
LEMMA SuffixOfConcat ==
  ASSUME NEW s \in Path, NEW r \in Path
  PROVE  s \o r \in Path /\ IsPrefix(s, s \o r) /\ SuffixAfterPrefix(s \o r, s) = r
  <1>1. PICK t : t = s \o r
    OBVIOUS
  <1>2. t \in Path /\ Len(t) = Len(s) + Len(r) /\ Len(s) \in Nat /\ Len(r) \in Nat
        /\ \A i \in 1..Len(t) : t[i] = IF i <= Len(s) THEN s[i] ELSE r[i - Len(s)]
    BY <1>1, ConcatProperties DEF Path
  <1>3. IsPrefix(s, t)
    BY <1>2, PrefixPlaces
  <1>4. PICK q : q = SubSeq(t, Len(s) + 1, Len(t))
    OBVIOUS
  <1>5. q \in Path /\ Len(q) = Len(r) /\ \A i \in 1..Len(r) : q[i] = t[Len(s) + i]
    <2>1. Len(s) + 1 \in 1..(Len(t) + 1)
      BY <1>2
    <2>2. q \in Seq(Names) /\ t \in Seq(Names)
      BY <1>2, <1>4, <2>1 DEF Path
    <2>3. Len(q) = Len(r)
      BY <1>2, <1>4, <2>1 DEF Path
    <2>4. \A i \in 1..Len(r) : q[i] = t[Len(s) + i]
      BY <1>2, <1>4, <2>1, <2>3 DEF Path
    <2> QED BY <2>2, <2>3, <2>4 DEF Path
  <1>6. \A i \in 1..Len(r) : q[i] = r[i]
    <2> SUFFICES ASSUME NEW i \in 1..Len(r) PROVE q[i] = r[i]
      OBVIOUS
    <2>1. PICK k : k = Len(s) + i
      OBVIOUS
    <2>2. k \in 1..Len(t) /\ ~(k <= Len(s)) /\ k - Len(s) = i
      BY <1>2, <2>1
    <2>3. t[k] = r[i]
      BY <1>2, <2>2
    <2> QED BY <1>5, <2>1, <2>3
  <1>7. q = r
    BY <1>5, <1>6, SeqEqual DEF Path
  <1> QED BY <1>1, <1>2, <1>3, <1>4, <1>7 DEF SuffixAfterPrefix

\* A path with a prefix is the prefix and a suffix.
LEMMA PrefixSplit ==
  ASSUME NEW s \in Path, NEW t \in Path, IsPrefix(s, t)
  PROVE  \E r \in Path : t = s \o r /\ SuffixAfterPrefix(t, s) = r
  <1>1. PICK r : r = SubSeq(t, Len(s) + 1, Len(t))
    OBVIOUS
  <1>2. Len(s) \in Nat /\ Len(t) \in Nat /\ Len(s) <= Len(t)
        /\ \A i \in 1..Len(s) : s[i] = t[i]
    BY PrefixPlaces DEF Path
  <1>3. r \in Path /\ Len(r) = Len(t) - Len(s)
        /\ \A i \in 1..Len(r) : r[i] = t[Len(s) + i]
    BY <1>1, <1>2 DEF Path
  <1>4. PICK u : u = s \o r
    OBVIOUS
  <1>5. u \in Path /\ Len(u) = Len(t)
        /\ \A i \in 1..Len(t) : u[i] = IF i <= Len(s) THEN s[i] ELSE r[i - Len(s)]
    BY <1>2, <1>3, <1>4, ConcatProperties DEF Path
  <1>6. ASSUME NEW i \in 1..Len(t) PROVE u[i] = t[i]
    <2>1. CASE i <= Len(s)
      BY <1>2, <1>5, <2>1
    <2>2. CASE ~(i <= Len(s))
      <3>1. PICK k : k = i - Len(s)
        OBVIOUS
      <3>2. k \in 1..Len(r) /\ Len(s) + k = i
        BY <1>2, <1>3, <2>2, <3>1
      <3> QED BY <1>3, <1>5, <2>2, <3>1, <3>2
    <2> QED BY <2>1, <2>2
  <1>7. u = t
    BY <1>5, <1>6, SeqEqual DEF Path
  <1> QED BY <1>1, <1>3, <1>4, <1>7 DEF SuffixAfterPrefix

\* Of two prefixes of a path the shorter is one of the longer.
LEMMA PrefixChain ==
  ASSUME NEW a \in Path, NEW b \in Path, NEW c \in Path, IsPrefix(a, c), IsPrefix(b, c),
         Len(a) <= Len(b)
  PROVE  IsPrefix(a, b)
  <1>1. Len(a) \in Nat /\ Len(b) \in Nat
    BY DEF Path
  <1> QED BY <1>1, PrefixPlaces

\* A beginning of a beginning is a beginning.
LEMMA PrefixTransitive ==
  ASSUME NEW a \in Path, NEW b \in Path, NEW c \in Path, IsPrefix(a, b), IsPrefix(b, c)
  PROVE  IsPrefix(a, c)
  <1>1. Len(a) \in Nat /\ Len(b) \in Nat /\ Len(c) \in Nat
    BY DEF Path
  <1> QED BY <1>1, PrefixPlaces

\* Prefixes of one length are one.
LEMMA PrefixUnique ==
  ASSUME NEW a \in Path, NEW b \in Path, NEW c \in Path, IsPrefix(a, c), IsPrefix(b, c),
         Len(a) = Len(b)
  PROVE  a = b
  <1>1. \A i \in 1..Len(a) : a[i] = b[i]
    BY PrefixPlaces DEF Path
  <1> QED BY <1>1, SeqEqual DEF Path

\* The first names of a path.
LEMMA FirstNames ==
  ASSUME NEW path \in Path, NEW n \in 0..Len(path)
  PROVE  /\ SubSeq(path, 1, n) \in Path /\ Len(SubSeq(path, 1, n)) = n
         /\ IsPrefix(SubSeq(path, 1, n), path)
  <1>1. PICK s : s = SubSeq(path, 1, n)
    OBVIOUS
  <1>2. s \in Path /\ Len(s) = n /\ \A i \in 1..n : s[i] = path[i]
    BY <1>1 DEF Path
  <1>3. IsPrefix(s, path)
    BY <1>2, PrefixPlaces
  <1> QED BY <1>1, <1>2, <1>3

\* Nothing is a beginning of every path and leaves all of it.
LEMMA EmptyPrefix ==
  ASSUME NEW path \in Path
  PROVE  IsPrefix(<<>>, path) /\ SuffixAfterPrefix(path, <<>>) = path /\ <<>> \o path = path
  <1>1. IsPrefix(<<>>, path)
    <2>1. Len(<<>>) <= Len(path) /\ 1..Len(<<>>) = {}
      BY EmptyPath DEF Path
    <2> QED BY <2>1, EmptyPath, PrefixPlaces
  <1>2. <<>> \o path = path
    BY ConcatEmptySeq DEF Path
  <1> QED BY <1>1, <1>2, EmptyPath, SuffixOfConcat

-----------------------------------------------------------------------------
(* Recursive functions: each exists, and does what its definition says. *)

\* A selection of a list is a list, no longer, of elements of it.
LEMMA SelectedFacts ==
  ASSUME NEW S, NEW list \in Seq(S), NEW places
  PROVE  /\ Selected(list, places) \in Seq(S)
         /\ Len(Selected(list, places)) <= Len(list)
         /\ \A j \in 1..Len(Selected(list, places)) :
              \E i \in 1..Len(list) : i \in places /\ Selected(list, places)[j] = list[i]
  <1> DEFINE Value(f, n) == IF n = 0 THEN <<>>
                           ELSE IF n \in places THEN Append(f[n - 1], list[n]) ELSE f[n - 1]
             Upto(f, m) == f = [n \in 0..m |-> Value(f, n)]
             D == {m \in Nat : \E f : Upto(f, m)}
  <1>0. Len(list) \in Nat
    OBVIOUS
  <1>1. 0 \in D
    <2>1. PICK f : f = [n \in 0..0 |-> <<>>]
      OBVIOUS
    <2>2. Upto(f, 0)
      BY <2>1
    <2> QED BY <2>2
  <1>2. ASSUME NEW m \in Nat, m \in D PROVE m + 1 \in D
    <2>1. PICK f : Upto(f, m)
      BY <1>2
    <2>2. \A n \in 0..m : f[n] = Value(f, n)
      BY <2>1
    <2>3. PICK g : g = [n \in 0..(m + 1) |-> IF n \in 0..m THEN f[n] ELSE Value(f, m + 1)]
      OBVIOUS
    <2>4. /\ DOMAIN g = 0..(m + 1) /\ \A n \in 0..m : g[n] = f[n]
          /\ g[m + 1] = Value(f, m + 1)
      BY <2>3
    <2>5. ASSUME NEW n \in 0..(m + 1) PROVE g[n] = Value(g, n)
      <3>1. CASE n = 0
        BY <2>2, <2>4, <3>1
      <3>2. CASE n \in 0..m /\ n # 0
        <4>1. n - 1 \in 0..m
          BY <3>2
        <4>2. g[n] = Value(f, n) /\ g[n - 1] = f[n - 1]
          BY <2>2, <2>4, <3>2, <4>1
        <4> QED BY <3>2, <4>2
      <3>3. CASE n = m + 1
        <4>1. g[n - 1] = f[n - 1]
          BY <2>4, <3>3
        <4> QED BY <2>4, <3>3, <4>1
      <3> QED BY <3>1, <3>2, <3>3
    <2>6. Upto(g, m + 1)
      <3> HIDE DEF Value
      <3> QED BY <2>3, <2>4, <2>5
    <2>7. m + 1 \in Nat
      OBVIOUS
    <2> HIDE DEF Upto
    <2> QED BY <2>6, <2>7, Zenon
  <1>3. Nat \subseteq D
    <2> HIDE DEF D
    <2> QED BY <1>1, <1>2, SetInduction
  <1>4. PICK u : u = CHOOSE f : f = [n \in 0..Len(list) |-> Value(f, n)]
    OBVIOUS
  <1>5. u = [n \in 0..Len(list) |-> Value(u, n)]
    BY <1>0, <1>3, <1>4
  <1>6. Selected(list, places) = u[Len(list)]
    BY <1>4 DEF Selected
  <1>7. \A n \in 0..Len(list) : u[n] = Value(u, n)
    BY <1>5
  <1> DEFINE Fine(n) == /\ u[n] \in Seq(S) /\ Len(u[n]) <= n
                        /\ \A j \in 1..Len(u[n]) :
                             \E i \in 1..Len(list) : i \in places /\ u[n][j] = list[i]
             E == {n \in Nat : n <= Len(list) => Fine(n)}
  <1>8. 0 \in E
    <2>1. u[0] = <<>>
      BY <1>0, <1>7
    <2>2. u[0] \in Seq(S) /\ Len(u[0]) = 0
      BY <2>1
    <2> QED BY <2>2
  <1>9. ASSUME NEW n \in Nat, n \in E PROVE n + 1 \in E
    <2> SUFFICES ASSUME n + 1 <= Len(list) PROVE Fine(n + 1)
      OBVIOUS
    <2>1. Fine(n) /\ n + 1 \in 1..Len(list) /\ list[n + 1] \in S
      BY <1>0, <1>9
    <2>2. u[n + 1] = IF n + 1 \in places THEN Append(u[n], list[n + 1]) ELSE u[n]
      BY <1>0, <1>7, <2>1
    <2>3. CASE n + 1 \in places
      <3>1. PICK v, w : v = u[n] /\ w = u[n + 1]
        OBVIOUS
      <3>2. /\ w \in Seq(S) /\ Len(w) = Len(v) + 1 /\ w[Len(v) + 1] = list[n + 1]
            /\ \A j \in 1..Len(v) : w[j] = v[j]
        BY <2>1, <2>2, <2>3, <3>1
      <3>3. Len(v) \in Nat /\ Len(v) <= n
        BY <2>1, <3>1
      <3>4. ASSUME NEW j \in 1..Len(w)
            PROVE  \E i \in 1..Len(list) : i \in places /\ w[j] = list[i]
        <4>1. CASE j = Len(v) + 1
          BY <2>1, <2>3, <3>2, <4>1
        <4>2. CASE j \in 1..Len(v)
          BY <2>1, <3>1, <3>2, <4>2
        <4> QED BY <3>2, <3>3, <4>1, <4>2
      <3>5. Len(w) <= n + 1
        BY <3>2, <3>3
      <3> QED BY <3>1, <3>2, <3>4, <3>5
    <2>4. CASE n + 1 \notin places
      <3>1. u[n + 1] = u[n]
        BY <2>2, <2>4
      <3>2. Len(u[n]) <= n + 1
        BY <2>1
      <3> QED BY <2>1, <3>1, <3>2
    <2> QED BY <2>3, <2>4
  <1>10. Nat \subseteq E
    <2> HIDE DEF E
    <2> QED BY <1>8, <1>9, SetInduction
  <1>11. Fine(Len(list))
    BY <1>0, <1>10
  <1> QED BY <1>6, <1>11

\* One more step of the namespace.
LEMMA StagesFacts ==
  ASSUME NEW worlds, NEW path
  PROVE  /\ Stages(worlds, path)[0] = {Location(Root, path)}
         /\ \A n \in 0..MaxNested :
              Stages(worlds, path)[n + 1] =
                Stages(worlds, path)[n]
                \cup UNION {LeadsTo(worlds, place) : place \in Stages(worlds, path)[n]}
  <1> DEFINE More(set) == set \cup UNION {LeadsTo(worlds, place) : place \in set}
             Value(f, n) == IF n = 0 THEN {Location(Root, path)} ELSE More(f[n - 1])
             Upto(f, m) == f = [n \in 0..m |-> Value(f, n)]
             D == {m \in Nat : \E f : Upto(f, m)}
  <1>1. 0 \in D
    <2>1. PICK f : f = [n \in 0..0 |-> {Location(Root, path)}]
      OBVIOUS
    <2>2. Upto(f, 0)
      <3> HIDE DEF More
      <3> QED BY <2>1
    <2> QED BY <2>2
  <1>2. ASSUME NEW m \in Nat, m \in D PROVE m + 1 \in D
    <2> HIDE DEF More
    <2>1. PICK f : Upto(f, m)
      BY <1>2
    <2>2. \A n \in 0..m : f[n] = Value(f, n)
      BY <2>1
    <2>3. PICK g : g = [n \in 0..(m + 1) |-> IF n \in 0..m THEN f[n] ELSE Value(f, m + 1)]
      OBVIOUS
    <2>4. /\ DOMAIN g = 0..(m + 1) /\ \A n \in 0..m : g[n] = f[n]
          /\ g[m + 1] = Value(f, m + 1)
      BY <2>3
    <2>5. ASSUME NEW n \in 0..(m + 1) PROVE g[n] = Value(g, n)
      <3>1. CASE n = 0
        BY <2>2, <2>4, <3>1
      <3>2. CASE n \in 0..m /\ n # 0
        <4>1. n - 1 \in 0..m
          BY <3>2
        <4>2. g[n] = Value(f, n) /\ g[n - 1] = f[n - 1]
          BY <2>2, <2>4, <3>2, <4>1
        <4> QED BY <3>2, <4>2
      <3>3. CASE n = m + 1
        <4>1. g[n - 1] = f[n - 1]
          BY <2>4, <3>3
        <4> QED BY <2>4, <3>3, <4>1
      <3> QED BY <3>1, <3>2, <3>3
    <2>6. Upto(g, m + 1)
      <3> HIDE DEF Value
      <3> QED BY <2>3, <2>4, <2>5
    <2>7. m + 1 \in Nat
      OBVIOUS
    <2> HIDE DEF Upto
    <2> QED BY <2>6, <2>7, Zenon
  <1>3. Nat \subseteq D
    <2> HIDE DEF D
    <2> QED BY <1>1, <1>2, SetInduction
  <1>4. PICK u : u = CHOOSE f : f = [n \in 0..MaxNested + 1 |-> Value(f, n)]
    OBVIOUS
  <1>5. u = [n \in 0..MaxNested + 1 |-> Value(u, n)]
    <2> HIDE DEF Value
    <2>1. MaxNested + 1 \in D
      <3> HIDE DEF D
      <3> QED BY <1>3, NestedAssumption
    <2>2. \E f : f = [n \in 0..MaxNested + 1 |-> Value(f, n)]
      BY <2>1
    <2> QED BY <1>4, <2>2
  <1>6. Stages(worlds, path) = u
    BY <1>4 DEF Stages
  <1>7. u[0] = {Location(Root, path)}
    BY <1>5, NestedAssumption
  <1>8. ASSUME NEW n \in 0..MaxNested PROVE u[n + 1] = More(u[n])
    <2> HIDE DEF More
    <2>1. n + 1 \in 0..MaxNested + 1 /\ n + 1 # 0 /\ (n + 1) - 1 = n
      BY NestedAssumption
    <2> QED BY <1>5, <2>1
  <1> QED BY <1>6, <1>7, <1>8

\* Tries is the function its recursion describes.
LEMMA TriesFacts ==
  ASSUME NEW k \in Nat
  PROVE  /\ Tries(k)[0] = 0
         /\ \A n \in 0..MaxNested + 1 : Tries(k)[n] \in Nat
         /\ \A n \in 0..MaxNested : Tries(k)[n + 1] = k * (1 + Tries(k)[n])
  <1> DEFINE Value(f, n) == IF n = 0 THEN 0 ELSE k * (1 + f[n - 1])
             Upto(f, m) == f = [n \in 0..m |-> Value(f, n)]
             D == {m \in Nat : \E f : Upto(f, m)}
  <1>1. 0 \in D
    <2>1. PICK f : f = [n \in 0..0 |-> 0]
      OBVIOUS
    <2>2. Upto(f, 0)
      BY <2>1
    <2> QED BY <2>2
  <1>2. ASSUME NEW m \in Nat, m \in D PROVE m + 1 \in D
    <2>1. PICK f : Upto(f, m)
      BY <1>2
    <2>2. \A n \in 0..m : f[n] = Value(f, n)
      BY <2>1
    <2>3. PICK g : g = [n \in 0..(m + 1) |-> IF n \in 0..m THEN f[n] ELSE Value(f, m + 1)]
      OBVIOUS
    <2>4. /\ DOMAIN g = 0..(m + 1) /\ \A n \in 0..m : g[n] = f[n]
          /\ g[m + 1] = Value(f, m + 1)
      BY <2>3
    <2>5. ASSUME NEW n \in 0..(m + 1) PROVE g[n] = Value(g, n)
      <3>1. CASE n = 0
        BY <2>2, <2>4, <3>1
      <3>2. CASE n \in 0..m /\ n # 0
        <4>1. n - 1 \in 0..m
          BY <3>2
        <4>2. g[n] = Value(f, n) /\ g[n - 1] = f[n - 1]
          BY <2>2, <2>4, <3>2, <4>1
        <4> QED BY <3>2, <4>2
      <3>3. CASE n = m + 1
        <4>1. g[n - 1] = f[n - 1]
          BY <2>4, <3>3
        <4> QED BY <2>4, <3>3, <4>1
      <3> QED BY <3>1, <3>2, <3>3
    <2>6. Upto(g, m + 1)
      <3> HIDE DEF Value
      <3> QED BY <2>3, <2>4, <2>5
    <2>7. m + 1 \in Nat
      OBVIOUS
    <2> HIDE DEF Upto
    <2> QED BY <2>6, <2>7, Zenon
  <1>3. Nat \subseteq D
    <2> HIDE DEF D
    <2> QED BY <1>1, <1>2, SetInduction
  <1>4. PICK u : u = CHOOSE f : f = [n \in 0..MaxNested + 1 |-> Value(f, n)]
    OBVIOUS
  <1>5. u = [n \in 0..MaxNested + 1 |-> Value(u, n)]
    <2> HIDE DEF Value
    <2>1. MaxNested + 1 \in D
      <3> HIDE DEF D
      <3> QED BY <1>3, NestedAssumption
    <2>2. \E f : f = [n \in 0..MaxNested + 1 |-> Value(f, n)]
      BY <2>1
    <2> QED BY <1>4, <2>2
  <1>6. Tries(k) = u
    BY <1>4 DEF Tries
  <1>7. u[0] = 0
    BY <1>5, NestedAssumption
  <1>8. ASSUME NEW n \in 0..MaxNested PROVE u[n + 1] = k * (1 + u[n])
    <2>1. n + 1 \in 0..MaxNested + 1 /\ n + 1 # 0 /\ (n + 1) - 1 = n
      BY NestedAssumption
    <2> QED BY <1>5, <2>1
  <1> DEFINE E == {n \in Nat : n <= MaxNested + 1 => u[n] \in Nat}
  <1>9. 0 \in E
    BY <1>7
  <1>10. ASSUME NEW n \in Nat, n \in E PROVE n + 1 \in E
    <2> SUFFICES ASSUME n + 1 <= MaxNested + 1 PROVE u[n + 1] \in Nat
      OBVIOUS
    <2>1. n \in 0..MaxNested /\ u[n] \in Nat
      BY <1>10, NestedAssumption
    <2>2. PICK v : v = u[n]
      OBVIOUS
    <2>3. v \in Nat /\ k * (1 + v) \in Nat
      BY <2>1, <2>2
    <2> QED BY <1>8, <2>1, <2>2, <2>3
  <1>11. Nat \subseteq E
    <2> HIDE DEF E
    <2> QED BY <1>9, <1>10, SetInduction
  <1>12. \A n \in 0..MaxNested + 1 : u[n] \in Nat
    BY <1>11, NestedAssumption
  <1> QED BY <1>6, <1>7, <1>8, <1>12

\* Later, a place may lead further.
LEMMA LeadsToGrows ==
  ASSUME NEW few, NEW many, few \subseteq many, NEW place
  PROVE  LeadsTo(few, place) \subseteq LeadsTo(many, place)
  BY DEF LeadsTo, OverLinks, ToRoots

\* More of the past leads at least as far, in as many steps.
LEMMA StagesGrow ==
  ASSUME NEW few, NEW many, few \subseteq many, NEW path
  PROVE  \A n \in 0..MaxNested + 1 : Stages(few, path)[n] \subseteq Stages(many, path)[n]
  <1> DEFINE E == {n \in Nat : n <= MaxNested + 1 =>
                     Stages(few, path)[n] \subseteq Stages(many, path)[n]}
  <1>1. 0 \in E
    BY StagesFacts
  <1>2. ASSUME NEW n \in Nat, n \in E PROVE n + 1 \in E
    <2> SUFFICES ASSUME n + 1 <= MaxNested + 1
                 PROVE  Stages(few, path)[n + 1] \subseteq Stages(many, path)[n + 1]
      OBVIOUS
    <2>1. n \in 0..MaxNested /\ Stages(few, path)[n] \subseteq Stages(many, path)[n]
      BY <1>2, NestedAssumption
    <2>2. PICK a, b : a = Stages(few, path)[n] /\ b = Stages(many, path)[n]
      OBVIOUS
    <2>3. /\ Stages(few, path)[n + 1] = a \cup UNION {LeadsTo(few, place) : place \in a}
          /\ Stages(many, path)[n + 1] = b \cup UNION {LeadsTo(many, place) : place \in b}
      BY <2>1, <2>2, StagesFacts
    <2> QED BY <2>1, <2>2, <2>3, LeadsToGrows
  <1>3. Nat \subseteq E
    <2> HIDE DEF E
    <2> QED BY <1>1, <1>2, SetInduction
  <1> QED BY <1>3, NestedAssumption

\* What is found on the way is in Reach.
LEMMA StagesInReach ==
  ASSUME NEW worlds, NEW path, NEW n \in 0..MaxNested + 1
  PROVE  Stages(worlds, path)[n] \subseteq Reach(worlds, path)
  <1> DEFINE E == {i \in Nat : n + i <= MaxNested + 1 =>
                     Stages(worlds, path)[n] \subseteq Stages(worlds, path)[n + i]}
  <1>1. 0 \in E
    BY NestedAssumption
  <1>2. ASSUME NEW i \in Nat, i \in E PROVE i + 1 \in E
    <2> SUFFICES ASSUME n + (i + 1) <= MaxNested + 1
                 PROVE  Stages(worlds, path)[n] \subseteq Stages(worlds, path)[n + (i + 1)]
      OBVIOUS
    <2>1. PICK j : j = n + i
      OBVIOUS
    <2>2. j \in 0..MaxNested /\ n + (i + 1) = j + 1
      BY <2>1, NestedAssumption
    <2>3. Stages(worlds, path)[n] \subseteq Stages(worlds, path)[j]
      <3>1. n + i <= MaxNested + 1
        BY <2>1, <2>2, NestedAssumption
      <3>2. Stages(worlds, path)[n] \subseteq Stages(worlds, path)[n + i]
        BY <1>2, <3>1
      <3> QED BY <2>1, <3>2
    <2>4. Stages(worlds, path)[j] \subseteq Stages(worlds, path)[j + 1]
      BY <2>2, StagesFacts
    <2> QED BY <2>2, <2>3, <2>4
  <1>3. Nat \subseteq E
    <2> HIDE DEF E
    <2> QED BY <1>1, <1>2, SetInduction
  <1>4. PICK i : i = (MaxNested + 1) - n
    OBVIOUS
  <1>5. i \in Nat /\ n + i = MaxNested + 1 /\ n + i <= MaxNested + 1
    BY <1>4, NestedAssumption
  <1>6. i \in E
    <2> HIDE DEF E
    <2> QED BY <1>3, <1>5
  <1> QED BY <1>5, <1>6 DEF Reach

\* ... and what it leads to, one step further.
LEMMA StageLeads ==
  ASSUME NEW worlds, NEW path, NEW n \in 0..MaxNested,
         NEW place \in Stages(worlds, path)[n], NEW next \in LeadsTo(worlds, place)
  PROVE  next \in Stages(worlds, path)[n + 1]
  BY StagesFacts

\* A function of finite domain takes finitely many values.
LEMMA FiniteImage ==
  ASSUME NEW S, IsFiniteSet(S), NEW f, DOMAIN f = S
  PROVE  IsFiniteSet({f[x] : x \in S})
  <1>1. PICK T : T = {f[x] : x \in S}
    OBVIOUS
  <1>2. PICK g : g = [x \in S |-> f[x]]
    OBVIOUS
  <1>3. g \in Surjection(S, T)
    BY <1>1, <1>2 DEF Surjection
  <1> QED BY <1>1, <1>3, FS_Surjection

\* MostTargets is the length of a longest list.
LEMMA MostTargetsFacts ==
  ASSUME history \in Histories
  PROVE  /\ MostTargets \in Nat
         /\ \A i \in DOMAIN history :
              /\ \A link \in history[i].links : Len(link.targets) <= MostTargets
              /\ \A s \in Shares : Len(history[i].roots[s]) <= MostTargets
  <1>1. /\ history \in Seq(AnyWorld) /\ history # <<>> /\ Len(history) \in Nat \ {0}
        /\ DOMAIN history = 1..Len(history)
        /\ \A i \in 1..Len(history) : IsNamespace(history[i])
    BY HistoriesAssumption
  <1>2. PICK lengths : lengths = Lengths(ToSet(history))
    OBVIOUS
  <1> DEFINE Of(w) == {Len(link.targets) : link \in w.links}
                      \cup {Len(w.roots[s]) : s \in Shares}
             all == [i \in 1..Len(history) |-> Of(history[i])]
  <1>3. lengths = UNION {all[i] : i \in 1..Len(history)}
    BY <1>1, <1>2 DEF Lengths, ToSet
  <1>4. ASSUME NEW i \in 1..Len(history)
        PROVE  IsFiniteSet(all[i]) /\ all[i] \subseteq Nat
    <2>1. PICK w : w = history[i]
      OBVIOUS
    <2>2. IsFiniteSet(w.links) /\ w \in AnyWorld
      BY <1>1, <2>1 DEF IsNamespace
    <2>3. IsFiniteSet({Len(link.targets) : link \in w.links})
      <3>1. PICK f : f = [link \in w.links |-> Len(link.targets)]
        OBVIOUS
      <3>2. DOMAIN f = w.links
            /\ {f[link] : link \in w.links} = {Len(link.targets) : link \in w.links}
        BY <3>1
      <3>3. IsFiniteSet({f[link] : link \in w.links})
        BY <2>2, <3>2, FiniteImage
      <3> QED BY <3>2, <3>3
    <2>4. IsFiniteSet({Len(w.roots[s]) : s \in Shares})
      <3>1. PICK f : f = [s \in Shares |-> Len(w.roots[s])]
        OBVIOUS
      <3>2. DOMAIN f = Shares /\ {f[s] : s \in Shares} = {Len(w.roots[s]) : s \in Shares}
        BY <3>1
      <3>3. IsFiniteSet({f[s] : s \in Shares})
        BY <3>2, FiniteImage, SharesAssumption
      <3> QED BY <3>2, <3>3
    <2>5. IsFiniteSet(Of(w))
      BY <2>3, <2>4, FS_Union
    <2>6. {Len(link.targets) : link \in w.links} \subseteq Nat
      BY <2>2 DEF AnyWorld, Link
    <2>7. {Len(w.roots[s]) : s \in Shares} \subseteq Nat
      BY <2>2 DEF AnyWorld
    <2> QED BY <2>1, <2>5, <2>6, <2>7
  <1>5. IsFiniteSet(lengths) /\ lengths \in SUBSET Nat
    <2> HIDE DEF all
    <2>1. DOMAIN all = 1..Len(history)
      BY DEF all
    <2>2. IsFiniteSet(1..Len(history))
      BY <1>1, FS_Interval
    <2>3. IsFiniteSet({all[i] : i \in 1..Len(history)})
      BY <2>1, <2>2, FiniteImage
    <2>4. IsFiniteSet(UNION {all[i] : i \in 1..Len(history)})
      BY <1>4, <2>3, FS_UNION
    <2> QED BY <1>3, <1>4, <2>4
  <1>6. lengths # {}
    <2>1. 1 \in 1..Len(history) /\ Len(history[1].roots[Root]) \in all[1]
      BY <1>1, SharesAssumption
    <2> HIDE DEF all
    <2> QED BY <1>3, <2>1
  <1>7. PICK b \in Nat : \A x \in lengths : x <= b
    BY <1>5, FiniteBound
  <1>8. \E n \in lengths : \A other \in lengths : other <= n
    BY <1>5, <1>6, <1>7, GreatestNumber
  <1>9. MostTargets \in lengths /\ \A other \in lengths : other <= MostTargets
    BY <1>2, <1>8 DEF MostTargets
  <1>10. ASSUME NEW i \in 1..Len(history) PROVE all[i] \subseteq lengths
    <2> HIDE DEF all
    <2> QED BY <1>3
  <1> QED BY <1>1, <1>5, <1>9, <1>10

-----------------------------------------------------------------------------
(* Mappings that some world backs. *)

\* What a resolution returns for one target of a link.
Mapping == [orig : Path, share : Shares, prefix : Path]

\* A world has the link, or the root target, that the mapping is made from.
Leads(worlds, share, m) ==
  \/ \E world \in worlds : \E link \in world.links : \E target \in ToSet(link.targets) :
       /\ link.share = share /\ link.path = m.orig
       /\ target.share = m.share /\ target.prefix = m.prefix
  \/ /\ m.orig = <<>> /\ m.prefix = <<>>
     /\ \E world \in worlds : \E target \in ToSet(world.roots[share]) :
          target.share = m.share

\* A list of mappings at a share, at most k of them.
Backed(worlds, k, share, mappings) ==
  /\ mappings \in Seq(Mapping) /\ Len(mappings) <= k
  /\ \A i \in DOMAIN mappings : Leads(worlds, share, mappings[i])

\* All of them are for one link.
OneLink(mappings) == \A i \in DOMAIN mappings : mappings[i].orig = mappings[1].orig

\* Mappings of links above a path.
Covers(mappings, path) == \A i \in DOMAIN mappings : IsPrefix(mappings[i].orig, path)

\* A list of other root targets of a share.
Rooted(worlds, k, share, targets) ==
  /\ targets \in Seq(Target) /\ Len(targets) <= k
  /\ \A i \in DOMAIN targets :
       \E world \in worlds : targets[i] \in ToSet(world.roots[share])

\* What a referral once said stays said as the namespace changes.
LEMMA LeadsGrows ==
  ASSUME NEW few, NEW many, few \subseteq many, NEW share, NEW m, Leads(few, share, m)
  PROVE  Leads(many, share, m)
  BY DEF Leads

\* So do mappings stay backed by the past,
LEMMA BackedGrows ==
  ASSUME NEW few, NEW many, few \subseteq many, NEW k, NEW share, NEW mappings,
         Backed(few, k, share, mappings)
  PROVE  Backed(many, k, share, mappings)
  BY LeadsGrows DEF Backed

\* and the targets of a share.
LEMMA RootedGrows ==
  ASSUME NEW few, NEW many, few \subseteq many, NEW k, NEW share, NEW targets,
         Rooted(few, k, share, targets)
  PROVE  Rooted(many, k, share, targets)
  BY DEF Rooted

\* A target of a link above a place is one step away.
LEMMA LeadsOverLink ==
  ASSUME NEW worlds, NEW l, NEW world \in worlds,
         NEW link \in LinksAbove(world, l.share, l.path), NEW target \in ToSet(link.targets)
  PROVE  Location(target.share, target.prefix \o SuffixAfterPrefix(l.path, link.path))
           \in LeadsTo(worlds, l)
  <1> DEFINE Links == UNION {LinksAbove(w, l.share, l.path) : w \in worlds}
             Over(k) == {Location(t.share, t.prefix \o SuffixAfterPrefix(l.path, k.path)) :
                           t \in ToSet(k.targets)}
  <1>1. link \in Links
    OBVIOUS
  <1>2. Location(target.share, target.prefix \o SuffixAfterPrefix(l.path, link.path))
          \in Over(link)
    OBVIOUS
  <1>3. UNION {Over(k) : k \in Links} \subseteq LeadsTo(worlds, l)
    BY DEF LeadsTo, OverLinks
  <1> HIDE DEF Links, Over
  <1> QED BY <1>1, <1>2, <1>3

\* So is a target of its share.
LEMMA LeadsOverRoot ==
  ASSUME NEW worlds, NEW l, NEW world \in worlds, NEW target \in ToSet(world.roots[l.share])
  PROVE  Location(target.share, l.path) \in LeadsTo(worlds, l)
  <1> DEFINE Roots == UNION {ToSet(w.roots[l.share]) : w \in worlds}
  <1>1. target \in Roots
    OBVIOUS
  <1>2. ToRoots(worlds, l) = {Location(t.share, l.path) : t \in Roots}
    BY DEF ToRoots
  <1>3. Location(target.share, l.path) \in ToRoots(worlds, l)
    <2> HIDE DEF Roots
    <2> QED BY <1>1, <1>2
  <1> QED BY <1>3 DEF LeadsTo

\* Over a mapping a path leads where the namespace says.
LEMMA MappingLeads ==
  ASSUME NEW worlds, NEW share \in Shares, NEW m \in Mapping, NEW path \in Path,
         Leads(worlds, share, m), IsPrefix(m.orig, path)
  PROVE  /\ TargetPath(m, path) \in Path
         /\ Location(m.share, TargetPath(m, path))
              \in LeadsTo(worlds, Location(share, path))
  <1>1. PICK r \in Path : path = m.orig \o r /\ SuffixAfterPrefix(path, m.orig) = r
    BY PrefixSplit DEF Mapping
  <1>2. m.prefix \in Path /\ TargetPath(m, path) = m.prefix \o r
    BY <1>1 DEF TargetPath, Mapping
  <1>3. TargetPath(m, path) \in Path
    BY <1>2, SuffixOfConcat
  <1>4. PICK l : l = Location(share, path)
    OBVIOUS
  <1>5. l.share = share /\ l.path = path
    BY <1>4 DEF Location
  <1>6. ASSUME NEW world \in worlds, NEW link \in world.links,
               NEW target \in ToSet(link.targets),
               link.share = share, link.path = m.orig, target.share = m.share,
               target.prefix = m.prefix
        PROVE  Location(m.share, TargetPath(m, path)) \in LeadsTo(worlds, l)
    <2>1. link \in LinksAbove(world, l.share, l.path)
      BY <1>5, <1>6 DEF LinksAbove
    <2>2. TargetPath(m, path) = target.prefix \o SuffixAfterPrefix(l.path, link.path)
      BY <1>1, <1>2, <1>5, <1>6
    <2>3. Location(target.share, target.prefix \o SuffixAfterPrefix(l.path, link.path))
            \in LeadsTo(worlds, l)
      BY <2>1, LeadsOverLink
    <2> QED BY <1>6, <2>2, <2>3
  <1>7. ASSUME m.orig = <<>>, m.prefix = <<>>, NEW world \in worlds,
               NEW target \in ToSet(world.roots[share]), target.share = m.share
        PROVE  Location(m.share, TargetPath(m, path)) \in LeadsTo(worlds, l)
    <2>1. TargetPath(m, path) = path
      BY <1>7, EmptyPrefix DEF TargetPath
    <2>2. target \in ToSet(world.roots[l.share])
      BY <1>5
    <2>3. Location(target.share, l.path) \in LeadsTo(worlds, l)
      BY <2>2, LeadsOverRoot
    <2> QED BY <1>5, <1>7, <2>1, <2>3
  <1> QED BY <1>3, <1>4, <1>6, <1>7 DEF Leads

\* And so is one that was cached for its share.
LEMMA RootLeads ==
  ASSUME NEW worlds, NEW k, NEW share \in Shares, NEW targets, NEW i \in DOMAIN targets,
         Rooted(worlds, k, share, targets), NEW path \in Path
  PROVE  Location(targets[i].share, path) \in LeadsTo(worlds, Location(share, path))
  <1>1. PICK world \in worlds : targets[i] \in ToSet(world.roots[share])
    BY DEF Rooted
  <1>2. PICK l : l = Location(share, path)
    OBVIOUS
  <1>3. l.share = share /\ l.path = path
    BY <1>2 DEF Location
  <1>4. PICK target : target = targets[i]
    OBVIOUS
  <1>5. target \in ToSet(world.roots[l.share])
    BY <1>1, <1>3, <1>4
  <1>6. Location(target.share, l.path) \in LeadsTo(worlds, l)
    BY <1>5, LeadsOverRoot
  <1> QED BY <1>2, <1>3, <1>4, <1>6

-----------------------------------------------------------------------------
(* What the resolvers answer. *)

\* The namespace is one of those it may be.
InHistory == history \in Histories /\ now \in DOMAIN history

\* The present namespace is one of the past ones, with no more targets than the most.
LEMMA WorldFacts ==
  ASSUME InHistory
  PROVE  /\ World \in Past /\ IsNamespace(World) /\ World \in AnyWorld
         /\ MostTargets \in Nat
         /\ \A link \in World.links : Len(link.targets) <= MostTargets
         /\ \A s \in Shares : Len(World.roots[s]) <= MostTargets
  <1>1. DOMAIN history = 1..Len(history) /\ now \in 1..now /\ IsNamespace(history[now])
    BY HistoriesAssumption DEF InHistory
  <1> QED BY <1>1, MostTargetsFacts DEF InHistory, World, Past, IsNamespace

\* Of the links above a path, one has the longest path.
LEMMA DeepestLink ==
  ASSUME NEW path \in Path, NEW links \in SUBSET Link, links # {},
         \A link \in links : IsPrefix(link.path, path)
  PROVE  /\ Deepest(links) \in links
         /\ \A other \in links : Len(other.path) <= Len(Deepest(links).path)
  <1>1. PICK T : T = {Len(link.path) : link \in links}
    OBVIOUS
  <1>2. \A link \in links : link.path \in Path /\ Len(link.path) \in Nat
                            /\ Len(link.path) <= Len(path)
    BY PrefixPlaces DEF Link, Path
  <1>3. T \in SUBSET Nat /\ T # {} /\ Len(path) \in Nat /\ \A n \in T : n <= Len(path)
    BY <1>1, <1>2 DEF Path
  <1>4. PICK n \in T : \A other \in T : other <= n
    BY <1>3, GreatestNumber
  <1>5. PICK link \in links : n = Len(link.path)
    BY <1>1, <1>4
  <1>6. \A other \in links : Len(other.path) <= Len(link.path)
    BY <1>1, <1>4, <1>5
  <1> QED BY <1>6 DEF Deepest

\* A referral is about a link above the path, or about the root, or it is empty.
LEMMA ReferralFacts ==
  ASSUME InHistory, NEW share \in Shares, NEW path \in Path, NEW r,
         r = Referral(share, path)
  PROVE  /\ r.orig \in Path /\ IsPrefix(r.orig, path)
         /\ r.targets \in Seq(Target) /\ Len(r.targets) <= MostTargets
         /\ \/ /\ LinksAbove(World, share, path) # {}
               /\ \E link \in World.links :
                    /\ link.share = share /\ link.path = r.orig /\ link.targets = r.targets
                    /\ \A other \in LinksAbove(World, share, path) :
                         Len(other.path) <= Len(link.path)
            \/ LinksAbove(World, share, path) = {} /\ path = <<>> /\ r.orig = <<>>
               /\ r.targets = World.roots[share]
            \/ LinksAbove(World, share, path) = {} /\ r.targets = <<>>
  <1>1. PICK links : links = LinksAbove(World, share, path)
    OBVIOUS
  <1>2. /\ links \subseteq World.links /\ World.links \subseteq Link
        /\ \A link \in links : link.share = share /\ IsPrefix(link.path, path)
    BY <1>1, WorldFacts DEF LinksAbove, AnyWorld
  <1>3. CASE links # {}
    <2>1. PICK link : link = Deepest(links)
      OBVIOUS
    <2>2. link \in links /\ \A other \in links : Len(other.path) <= Len(link.path)
      BY <1>2, <1>3, <2>1, DeepestLink
    <2>3. r = [orig |-> link.path, targets |-> link.targets]
      BY <1>1, <1>3, <2>1 DEF Referral
    <2>4. link.path \in Path /\ link.targets \in Seq(Target)
      BY <1>2, <2>2 DEF Link
    <2>5. Len(link.targets) <= MostTargets
      BY <1>2, <2>2, WorldFacts
    <2> QED BY <1>1, <1>2, <1>3, <2>2, <2>3, <2>4, <2>5
  <1>4. CASE links = {} /\ path = <<>>
    <2>1. r = [orig |-> <<>>, targets |-> World.roots[share]]
      BY <1>1, <1>4 DEF Referral
    <2>2. World.roots[share] \in Seq(Target) /\ Len(World.roots[share]) <= MostTargets
      BY WorldFacts DEF AnyWorld
    <2> QED BY <1>1, <1>4, <2>1, <2>2, EmptyPath, EmptyPrefix
  <1>5. CASE links = {} /\ path # <<>>
    <2>1. r = [orig |-> path, targets |-> <<>>]
      BY <1>1, <1>5 DEF Referral
    <2>2. IsPrefix(path, path)
      BY PrefixPlaces DEF Path
    <2>3. <<>> \in Seq(Target) /\ Len(<<>>) <= MostTargets
      BY WorldFacts
    <2> QED BY <1>1, <1>5, <2>1, <2>2, <2>3
  <1> QED BY <1>3, <1>4, <1>5

\* Leaving out the share itself keeps a list of targets.
LEMMA OtherSharesFacts ==
  ASSUME NEW share, NEW targets \in Seq(Target), NEW others,
         others = OtherShares(share, targets)
  PROVE  /\ others \in Seq(Target) /\ Len(others) <= Len(targets)
         /\ \A j \in 1..Len(others) : \E i \in 1..Len(targets) : others[j] = targets[i]
  <1>1. PICK places : places = {i \in DOMAIN targets : targets[i].share # share}
    OBVIOUS
  <1>2. others = Selected(targets, places)
    BY <1>1 DEF OtherShares
  <1>3. /\ Selected(targets, places) \in Seq(Target)
        /\ Len(Selected(targets, places)) <= Len(targets)
        /\ \A j \in 1..Len(Selected(targets, places)) :
             \E i \in 1..Len(targets) : i \in places /\ Selected(targets, places)[j] = targets[i]
    BY SelectedFacts
  <1> QED BY <1>2, <1>3

\* The mappings of a referral.
LEMMA MappingsFacts ==
  ASSUME InHistory, NEW share \in Shares, NEW path \in Path, NEW ms,
         ms = Mappings(Referral(share, path), share)
  PROVE  /\ Backed(Past, MostTargets, share, ms) /\ Covers(ms, path)
         /\ \A i \in DOMAIN ms : ms[i].orig = Referral(share, path).orig
         /\ \A i \in DOMAIN ms : \E j \in DOMAIN Referral(share, path).targets :
              /\ ms[i].share = Referral(share, path).targets[j].share
              /\ ms[i].prefix = Referral(share, path).targets[j].prefix
  <1>1. PICK r : r = Referral(share, path)
    OBVIOUS
  <1>2. PICK others : others = OtherShares(share, r.targets)
    OBVIOUS
  <1>3. /\ r.orig \in Path /\ IsPrefix(r.orig, path)
        /\ r.targets \in Seq(Target) /\ Len(r.targets) <= MostTargets
    BY <1>1, ReferralFacts
  <1>4. /\ others \in Seq(Target) /\ Len(others) <= Len(r.targets)
        /\ \A j \in 1..Len(others) : \E i \in 1..Len(r.targets) : others[j] = r.targets[i]
    BY <1>2, <1>3, OtherSharesFacts, SMTT(30)
  <1>5. ms = [i \in 1..Len(others) |-> [orig |-> r.orig, share |-> others[i].share,
                                         prefix |-> others[i].prefix]]
    BY <1>1, <1>2 DEF Mappings
  <1>6. Len(others) \in Nat /\ Len(r.targets) \in Nat /\ MostTargets \in Nat
        /\ \A i \in 1..Len(others) : others[i] \in Target
    BY <1>3, <1>4, WorldFacts
  <1>7. ms \in Seq(Mapping) /\ Len(ms) = Len(others) /\ DOMAIN ms = 1..Len(others)
    <2>1. \A i \in 1..Len(others) : [orig |-> r.orig, share |-> others[i].share,
                                     prefix |-> others[i].prefix] \in Mapping
      BY <1>3, <1>6 DEF Mapping, Target
    <2>2. ms \in [1..Len(others) -> Mapping]
      BY <1>5, <2>1
    <2> QED BY <1>5, <1>6, <2>2
  <1>8. ASSUME NEW i \in 1..Len(others)
        PROVE  /\ ms[i].orig = r.orig /\ Leads(Past, share, ms[i])
               /\ \E j \in DOMAIN r.targets : /\ ms[i].share = r.targets[j].share
                                              /\ ms[i].prefix = r.targets[j].prefix
    <2>1. ms[i].orig = r.orig /\ ms[i].share = others[i].share
          /\ ms[i].prefix = others[i].prefix
      BY <1>5
    <2>2. PICK j \in 1..Len(r.targets) : others[i] = r.targets[j]
      BY <1>4
    <2>3. j \in DOMAIN r.targets /\ r.targets[j] \in ToSet(r.targets) /\ r.targets # <<>>
      BY <1>3, <2>2 DEF ToSet
    <2>4. Leads(Past, share, ms[i])
      <3>1. ASSUME NEW link \in World.links, link.share = share, link.path = r.orig,
                   link.targets = r.targets
            PROVE  Leads(Past, share, ms[i])
        BY <2>1, <2>2, <2>3, <3>1, WorldFacts DEF Leads
      <3>2. ASSUME r.orig = <<>>, r.targets = World.roots[share]
            PROVE  Leads(Past, share, ms[i])
        <4>1. r.targets[j].prefix = <<>>
          BY <2>3, <3>2, WorldFacts DEF IsNamespace
        <4> QED BY <2>1, <2>2, <2>3, <3>2, <4>1, WorldFacts DEF Leads
      <3> QED BY <1>1, <2>3, <3>1, <3>2, ReferralFacts
    <2> QED BY <2>1, <2>2, <2>3, <2>4
  <1>9. Len(ms) <= MostTargets
    BY <1>3, <1>4, <1>6, <1>7
  <1>10. Backed(Past, MostTargets, share, ms)
    BY <1>7, <1>8, <1>9 DEF Backed
  <1>11. Covers(ms, path)
    BY <1>3, <1>7, <1>8 DEF Covers
  <1> QED BY <1>1, <1>7, <1>8, <1>10, <1>11

\* A list of mappings that the caches and the resolvers may give for a path.
Fits(worlds, k, share, path, mappings) ==
  Backed(worlds, k, share, mappings) /\ Covers(mappings, path) /\ OneLink(mappings)

\* No mappings fit every place.
LEMMA NothingFits ==
  ASSUME NEW worlds, NEW k \in Nat, NEW share, NEW path
  PROVE  Fits(worlds, k, share, path, <<>>)
  <1>1. <<>> \in Seq(Mapping) /\ Len(<<>>) = 0 /\ DOMAIN <<>> = {}
    BY EmptySeq
  <1> QED BY <1>1 DEF Fits, Backed, Covers, OneLink

\* The empty list has no position, any other has the first.
LEMMA EmptyMappings == DOMAIN <<>> = {} /\ \A S : \A s \in Seq(S) : s # <<>> => 1 \in DOMAIN s
  BY EmptySeq

\* The mappings for the first names of a path are mappings for the path.
LEMMA FirstNamesFit ==
  ASSUME InHistory, NEW share \in Shares, NEW path \in Path, NEW n \in 0..Len(path)
  PROVE  Fits(Past, MostTargets, share, path,
              Mappings(Referral(share, SubSeq(path, 1, n)), share))
  <1>1. PICK p : p = SubSeq(path, 1, n)
    OBVIOUS
  <1>2. p \in Path /\ IsPrefix(p, path)
    BY <1>1, FirstNames
  <1>3. PICK ms : ms = Mappings(Referral(share, p), share)
    OBVIOUS
  <1>4. /\ Backed(Past, MostTargets, share, ms) /\ Covers(ms, p)
        /\ \A i \in DOMAIN ms : ms[i].orig = Referral(share, p).orig
    BY <1>2, <1>3, MappingsFacts
  <1>5. Covers(ms, path)
    <2>1. ASSUME NEW i \in DOMAIN ms PROVE IsPrefix(ms[i].orig, path)
      <3>1. ms[i] \in Mapping
        BY <1>4 DEF Backed
      <3>2. ms[i].orig \in Path /\ IsPrefix(ms[i].orig, p)
        BY <1>4, <3>1 DEF Mapping, Covers
      <3> QED BY <1>2, <3>2, PrefixTransitive
    <2> QED BY <2>1 DEF Covers
  <1>6. OneLink(ms)
    <2>1. ms \in Seq(Mapping)
      BY <1>4 DEF Backed
    <2>2. ASSUME NEW i \in DOMAIN ms PROVE 1 \in DOMAIN ms
      BY <2>1, <2>2
    <2> QED BY <1>4, <2>2 DEF OneLink
  <1> QED BY <1>1, <1>3, <1>4, <1>5, <1>6 DEF Fits

\* What the resolver returns for a path fits it, by the present namespace.
LEMMA NativePathFits ==
  ASSUME InHistory, NEW share \in Shares, NEW path \in Path
  PROVE  Fits(Past, MostTargets, share, path, NativePath(share, path))
  <1> DEFINE at(count) == Mappings(Referral(share, SubSeq(path, 1, count)), share)
             found == {count \in 0..Len(path) : at(count) # <<>>}
  <1>1. CASE found = {}
    <2>1. NativePath(share, path) = <<>>
      BY <1>1 DEF NativePath
    <2> QED BY <2>1, NothingFits, WorldFacts
  <1>2. CASE found # {}
    <2>1. Len(path) \in Nat
      BY DEF Path
    <2>2. PICK n \in found : \A other \in found : other <= n
      <3>1. found \in SUBSET Nat /\ \A x \in found : x <= Len(path)
        BY <2>1
      <3> HIDE DEF found
      <3> QED BY <1>2, <2>1, <3>1, GreatestNumber
    <2>3. PICK c : c = CHOOSE count \in found : \A other \in found : other <= count
      OBVIOUS
    <2>4. c \in found
      <3> HIDE DEF found
      <3> QED BY <2>2, <2>3
    <2>5. NativePath(share, path) = at(c)
      <3> HIDE DEF at
      <3>1. NativePath(share, path) =
              IF found = {} THEN <<>>
              ELSE at(CHOOSE count \in found : \A other \in found : other <= count)
        BY DEF NativePath, at
      <3> HIDE DEF found
      <3> QED BY <1>2, <2>3, <3>1
    <2>6. c \in 0..Len(path)
      BY <2>4
    <2> QED BY <2>5, <2>6, FirstNamesFit
  <1> QED BY <1>1, <1>2

\* A link gives the referral for its own path.
LEMMA OwnReferral ==
  ASSUME InHistory, NEW link \in World.links
  PROVE  Referral(link.share, link.path) = [orig |-> link.path, targets |-> link.targets]
  <1>1. PICK links : links = LinksAbove(World, link.share, link.path)
    OBVIOUS
  <1>2. World.links \subseteq Link /\ link \in Link /\ link.path \in Path
    BY WorldFacts DEF AnyWorld, Link
  <1>3. IsPrefix(link.path, link.path)
    BY <1>2, PrefixPlaces DEF Path
  <1>4. link \in links /\ links \in SUBSET Link
        /\ \A l \in links : l \in World.links /\ l.share = link.share
                            /\ IsPrefix(l.path, link.path)
    BY <1>1, <1>2, <1>3 DEF LinksAbove
  <1>5. PICK deep : deep = Deepest(links)
    OBVIOUS
  <1>6. deep \in links /\ Len(link.path) <= Len(deep.path)
    BY <1>2, <1>4, <1>5, DeepestLink
  <1>7. deep.path \in Path /\ IsPrefix(deep.path, link.path)
    BY <1>4, <1>6 DEF Link
  <1>8. Len(deep.path) = Len(link.path)
    <2>1. Len(deep.path) <= Len(link.path)
      BY <1>2, <1>7, PrefixPlaces
    <2> QED BY <1>2, <1>6, <1>7, <2>1 DEF Path
  <1>9. deep.path = link.path
    BY <1>2, <1>3, <1>7, <1>8, PrefixUnique
  <1>10. deep = link
    BY <1>4, <1>6, <1>9, WorldFacts DEF IsNamespace
  <1> QED BY <1>1, <1>4, <1>5, <1>10 DEF Referral

\* The first prefix for which smbclient finds a target is the path of the link.
LEMMA SmbclientPathFits ==
  ASSUME InHistory, World.resolver = "smbclient", NEW share \in Shares, NEW path \in Path
  PROVE  Fits(Past, MostTargets, share, path, SmbclientPath(share, path))
  <1> DEFINE at(count) == Mappings(Referral(share, SubSeq(path, 1, count)), share)
             counts == IF path = <<>> THEN {0} ELSE 1..Len(path)
             found == {count \in counts : at(count) # <<>>}
             first == CHOOSE count \in found : \A other \in found : count <= other
  <1>0. Len(path) \in Nat /\ counts \subseteq 0..Len(path)
        /\ (path = <<>> => Len(path) = 0)
    BY EmptyPath DEF Path
  <1>1. CASE found = {}
    <2>1. SmbclientPath(share, path) = <<>>
      BY <1>1 DEF SmbclientPath
    <2> QED BY <2>1, NothingFits, WorldFacts
  <1>2. CASE found # {}
    <2>1. found \in SUBSET Nat
      BY <1>0
    <2>2. first \in found /\ \A other \in found : first <= other
      <3> HIDE DEF found
      <3>1. \E n \in found : \A other \in found : n <= other
        BY <1>2, <2>1, LeastNumber
      <3> QED BY <3>1
    <2>3. PICK n : n = first
      OBVIOUS
    <2>4. n \in counts /\ n \in 0..Len(path) /\ at(n) # <<>>
          /\ \A other \in counts : at(other) # <<>> => n <= other
      BY <1>0, <2>2, <2>3
    <2>5. SmbclientPath(share, path) = <<[orig |-> SubSeq(path, 1, n),
                                          share |-> at(n)[1].share, prefix |-> <<>>]>>
      BY <1>2, <2>3 DEF SmbclientPath
    <2>6. PICK p : p = SubSeq(path, 1, n)
      OBVIOUS
    <2>7. p \in Path /\ Len(p) = n /\ IsPrefix(p, path)
      BY <2>4, <2>6, FirstNames
    <2>8. PICK ms : ms = at(n)
      OBVIOUS
    <2>9. PICK r : r = Referral(share, p)
      OBVIOUS
    <2>10. ms = Mappings(r, share) /\ ms # <<>>
      BY <2>4, <2>6, <2>8, <2>9
    <2>11. Fits(Past, MostTargets, share, path, ms)
      BY <2>4, <2>8, FirstNamesFit
    <2>12. /\ \A i \in DOMAIN ms : ms[i].orig = r.orig
           /\ \A i \in DOMAIN ms : \E j \in DOMAIN r.targets :
                ms[i].share = r.targets[j].share /\ ms[i].prefix = r.targets[j].prefix
      BY <2>7, <2>9, <2>10, MappingsFacts
    <2>13. /\ ms \in Seq(Mapping) /\ Len(ms) \in Nat /\ Len(ms) <= MostTargets
           /\ MostTargets \in Nat /\ 1 \in DOMAIN ms /\ ms[1] \in Mapping
           /\ Leads(Past, share, ms[1]) /\ IsPrefix(ms[1].orig, path)
      <3>1. ms \in Seq(Mapping)
        BY <2>11 DEF Fits, Backed
      <3>2. 1 \in DOMAIN ms
        BY <2>10, <3>1, EmptyMappings
      <3> QED BY <2>11, <3>1, <3>2, WorldFacts DEF Fits, Backed, Covers
    <2>14. PICK j \in DOMAIN r.targets :
             ms[1].share = r.targets[j].share /\ ms[1].prefix = r.targets[j].prefix
      BY <2>12, <2>13
    <2>15. ms[1].orig = r.orig
      BY <2>12, <2>13
    <2>16. r.orig = p /\ ms[1].prefix = <<>>
      <3>1. ASSUME NEW link \in World.links, link.share = share, link.path = r.orig,
                   link.targets = r.targets
            PROVE  r.orig = p /\ ms[1].prefix = <<>>
        <4>1. ms[1].prefix = <<>>
          BY <2>14, <3>1, WorldFacts DEF IsNamespace
        <4>2. link.path \in Path /\ link.path # <<>> /\ IsPrefix(link.path, p)
          <5>1. r.orig \in Path /\ IsPrefix(r.orig, p)
            BY <2>7, <2>9, ReferralFacts
          <5> QED BY <3>1, <5>1, WorldFacts DEF IsNamespace
        <4>3. PICK i : i = Len(link.path)
          OBVIOUS
        <4>4. i \in Nat /\ i # 0 /\ i <= n
          BY <2>7, <4>2, <4>3, PrefixPlaces, EmptySeq DEF Path
        <4>5. i \in counts /\ i \in 0..Len(path)
          <5>1. n # 0 /\ i \in 1..Len(path)
            BY <1>0, <2>4, <4>4
          <5>2. path # <<>>
            BY <1>0, <2>4, <5>1
          <5> QED BY <1>0, <5>1, <5>2
        <4>6. SubSeq(path, 1, i) = link.path
          <5>1. PICK q : q = SubSeq(path, 1, i)
            OBVIOUS
          <5>2. q \in Path /\ Len(q) = i /\ IsPrefix(q, path)
            BY <4>5, <5>1, FirstNames
          <5>3. IsPrefix(link.path, path)
            BY <2>7, <4>2, PrefixTransitive
          <5> QED BY <4>2, <4>3, <5>1, <5>2, <5>3, PrefixUnique
        <4>7. at(i) = Mappings(Referral(share, link.path), share)
          BY <4>6
        <4>8. Referral(share, link.path) = [orig |-> link.path, targets |-> link.targets]
          BY <3>1, OwnReferral
        <4>9. at(i) = ms
          <5>1. [orig |-> link.path, targets |-> link.targets].targets = r.targets
                /\ [orig |-> link.path, targets |-> link.targets].orig = r.orig
            BY <3>1
          <5>2. Mappings([orig |-> link.path, targets |-> link.targets], share)
                  = Mappings(r, share)
            BY <5>1 DEF Mappings
          <5> HIDE DEF at
          <5> QED BY <2>10, <4>7, <4>8, <5>2
        <4>10. n <= i
          <5> HIDE DEF at, counts
          <5> QED BY <2>4, <2>10, <4>5, <4>9
        <4>11. Len(link.path) = Len(p)
          BY <2>4, <2>7, <4>3, <4>4, <4>10
        <4>12. IsPrefix(p, p)
          BY <2>7, PrefixPlaces DEF Path
        <4>13. link.path = p
          BY <2>7, <4>2, <4>11, <4>12, PrefixUnique
        <4> QED BY <3>1, <4>1, <4>13
      <3>2. ASSUME p = <<>>, r.orig = <<>>, r.targets = World.roots[share]
            PROVE  r.orig = p /\ ms[1].prefix = <<>>
        BY <2>14, <3>2, WorldFacts DEF IsNamespace
      <3>3. r.targets # <<>>
        BY <2>14, EmptyMappings
      <3>4. \/ \E link \in World.links :
                 link.share = share /\ link.path = r.orig /\ link.targets = r.targets
            \/ p = <<>> /\ r.orig = <<>> /\ r.targets = World.roots[share]
        BY <2>7, <2>9, <3>3, ReferralFacts
      <3> QED BY <3>1, <3>2, <3>4
    <2>17. PICK m : m = ms[1]
      OBVIOUS
    <2>18. m = [orig |-> p, share |-> ms[1].share, prefix |-> <<>>]
      BY <2>13, <2>15, <2>16, <2>17 DEF Mapping
    <2>19. SmbclientPath(share, path) = <<m>>
      BY <2>5, <2>6, <2>8, <2>18
    <2>20. <<m>> \in Seq(Mapping) /\ Len(<<m>>) = 1 /\ DOMAIN <<m>> = {1} /\ <<m>>[1] = m
      BY <2>13, <2>17
    <2>21. 1 <= MostTargets
      BY <2>10, <2>13, EmptySeq
    <2> QED BY <2>13, <2>17, <2>19, <2>20, <2>21 DEF Fits, Backed, Covers, OneLink
  <1> QED BY <1>1, <1>2

\* What the resolver answers about a path.
LEMMA ResolvedPathFits ==
  ASSUME InHistory, NEW share \in Shares, NEW path \in Path,
         NEW ms \in ResolvePathTargets(share, path)
  PROVE  Fits(Past, MostTargets, share, path, ms)
  <1>1. World.resolver \in {"native", "smbclient", "none"}
    BY WorldFacts DEF AnyWorld
  <1>2. ms = <<>> \/ ms = NativePath(share, path)
        \/ (World.resolver = "smbclient" /\ ms = SmbclientPath(share, path))
    BY <1>1 DEF ResolvePathTargets, ResolverFails
  <1> QED BY <1>2, NothingFits, NativePathFits, SmbclientPathFits, WorldFacts

\* ... and about a share.
LEMMA ResolvedTargetsRooted ==
  ASSUME InHistory, NEW share \in Shares, NEW targets \in ResolveTargets(share)
  PROVE  Rooted(Past, MostTargets, share, targets)
  <1>1. PICK roots : roots = World.roots[share]
    OBVIOUS
  <1>2. roots \in Seq(Target) /\ Len(roots) <= MostTargets /\ MostTargets \in Nat
    BY <1>1, WorldFacts DEF AnyWorld
  <1>3. PICK others : others = NativeTargets(share)
    OBVIOUS
  <1>4. /\ others \in Seq(Target) /\ Len(others) <= Len(roots)
        /\ \A j \in 1..Len(others) : \E i \in 1..Len(roots) : others[j] = roots[i]
    <2>1. others = OtherShares(share, roots)
      BY <1>1, <1>3 DEF NativeTargets
    <2> QED BY <1>2, <2>1, OtherSharesFacts
  <1>5. Len(others) \in Nat /\ Len(roots) \in Nat /\ DOMAIN others = 1..Len(others)
        /\ DOMAIN roots = 1..Len(roots)
    BY <1>2, <1>4
  <1>6. \A j \in 1..Len(others) : others[j] \in ToSet(roots)
    BY <1>4, <1>5 DEF ToSet
  <1>7. Rooted(Past, MostTargets, share, others)
    BY <1>1, <1>2, <1>4, <1>5, <1>6, WorldFacts DEF Rooted
  <1>8. Rooted(Past, MostTargets, share, <<>>)
    BY <1>2, EmptySeq DEF Rooted
  <1>9. ASSUME others # <<>> PROVE Rooted(Past, MostTargets, share, <<Head(others)>>)
    <2>1. Head(others) = others[1] /\ 1 \in 1..Len(others) /\ Len(others) > 0
      BY <1>4, <1>9
    <2>2. PICK x : x = others[1]
      OBVIOUS
    <2>3. x \in Target /\ <<x>> \in Seq(Target) /\ Len(<<x>>) = 1 /\ DOMAIN <<x>> = {1}
          /\ <<x>>[1] = x
      BY <1>4, <2>1, <2>2
    <2>4. Len(<<x>>) <= MostTargets
      BY <1>2, <1>4, <1>5, <2>1, <2>3
    <2>5. x \in ToSet(World.roots[share]) /\ World \in Past
      BY <1>1, <1>6, <2>1, <2>2, WorldFacts
    <2>6. Rooted(Past, MostTargets, share, <<x>>)
      BY <2>3, <2>4, <2>5 DEF Rooted
    <2> QED BY <2>1, <2>2, <2>6
  <1>10. targets = <<>> \/ targets = others
         \/ (others # <<>> /\ targets = <<Head(others)>>)
    BY <1>3 DEF ResolveTargets, SmbclientTarget
  <1> QED BY <1>7, <1>8, <1>9, <1>10

-----------------------------------------------------------------------------
(* The caches *)

\* Every target that is cached has been there, and the mappings are for one link.
ConnectionCache(worlds, k, cache) ==
  cache \in [Shares -> Seq(Target)] /\ \A s \in Shares : Rooted(worlds, k, s, cache[s])

\* The cache of mappings: entries of one link each, as some referral said.
MappingCache(worlds, k, cache) ==
  \A e \in cache : /\ e.key \in Shares /\ e.mappings # <<>>
                   /\ Backed(worlds, k, e.key, e.mappings) /\ OneLink(e.mappings)

\* What the cache gives for a path.
LEMMA CachedFits ==
  ASSUME NEW worlds, NEW k \in Nat, MappingCache(worlds, k, resolvedMappings),
         NEW share \in Shares, NEW path \in Path
  PROVE  Fits(worlds, k, share, path, CachedMappings(share, path))
  <1> DEFINE fits == {e \in resolvedMappings : e.key = share
                                               /\ IsPathPrefix(e.mappings[1].orig, path)}
  <1>1. CASE fits = {}
    <2>1. CachedMappings(share, path) = <<>>
      BY <1>1 DEF CachedMappings
    <2> QED BY <2>1, NothingFits
  <1>2. CASE fits # {}
    <2>1. ASSUME NEW e \in fits
          PROVE  /\ e.mappings \in Seq(Mapping) /\ 1 \in DOMAIN e.mappings
                 /\ e.mappings[1] \in Mapping /\ e.mappings[1].orig \in Path
                 /\ IsPrefix(e.mappings[1].orig, path)
                 /\ Len(e.mappings[1].orig) \in Nat
                 /\ Len(e.mappings[1].orig) <= Len(path)
      <3>1. e.mappings \in Seq(Mapping) /\ e.mappings # <<>>
        BY <2>1 DEF MappingCache, Backed
      <3>2. 1 \in DOMAIN e.mappings
        BY <3>1, EmptyMappings
      <3>3. e.mappings[1] \in Mapping
        BY <3>1, <3>2
      <3>4. e.mappings[1].orig \in Path
        BY <3>3 DEF Mapping
      <3>5. IsPrefix(e.mappings[1].orig, path)
        BY <2>1 DEF IsPathPrefix
      <3> QED BY <3>1, <3>2, <3>3, <3>4, <3>5, PrefixPlaces DEF Path
    <2>2. PICK T : T = {Len(e.mappings[1].orig) : e \in fits}
      OBVIOUS
    <2>3. T \in SUBSET Nat /\ T # {} /\ Len(path) \in Nat /\ \A x \in T : x <= Len(path)
      <3>1. Len(path) \in Nat
        BY DEF Path
      <3> HIDE DEF fits
      <3> QED BY <1>2, <2>1, <2>2, <3>1
    <2>4. PICK n \in T : \A other \in T : other <= n
      BY <2>3, GreatestNumber
    <2> DEFINE Best(e) == \A other \in fits :
                 Len(other.mappings[1].orig) <= Len(e.mappings[1].orig)
    <2>5. \E e \in fits : Best(e)
      <3> HIDE DEF fits
      <3> QED BY <2>2, <2>4
    <2>6. PICK e : e = CHOOSE one \in fits : Best(one)
      OBVIOUS
    <2>7. e \in fits
      <3> HIDE DEF fits, Best
      <3> QED BY <2>5, <2>6
    <2>8. CachedMappings(share, path) = e.mappings
      BY <1>2, <2>6 DEF CachedMappings
    <2>9. Backed(worlds, k, share, e.mappings) /\ OneLink(e.mappings)
      BY <2>7 DEF MappingCache
    <2>10. Covers(e.mappings, path)
      <3> HIDE DEF fits
      <3> QED BY <2>1, <2>7, <2>9 DEF Covers, OneLink
    <2> QED BY <2>8, <2>9, <2>10 DEF Fits
  <1> QED BY <1>1, <1>2

\* Insertion and removal keep the caches as they should be.
LEMMA WithMappingsCache ==
  ASSUME NEW worlds, NEW k, NEW cache, MappingCache(worlds, k, cache),
         NEW share \in Shares, NEW path, NEW ms, Fits(worlds, k, share, path, ms)
  PROVE  MappingCache(worlds, k, WithMappings(cache, share, ms))
  BY DEF MappingCache, WithMappings, Fits

\* A part of the cache is such a cache;
LEMMA SmallerCache ==
  ASSUME NEW worlds, NEW k, NEW cache, MappingCache(worlds, k, cache),
         NEW smaller, smaller \subseteq cache
  PROVE  MappingCache(worlds, k, smaller)
  BY DEF MappingCache

\* so it is after an entry was removed.
LEMMA WithoutMappingCache ==
  ASSUME NEW worlds, NEW k, NEW cache, MappingCache(worlds, k, cache), NEW share, NEW orig
  PROVE  MappingCache(worlds, k, WithoutMapping(cache, share, orig))
  BY DEF MappingCache, WithoutMapping

\* The targets of a share are entered in the other cache,
LEMMA WithTargetsCache ==
  ASSUME NEW worlds, NEW k, NEW cache, ConnectionCache(worlds, k, cache),
         NEW share \in Shares, NEW targets, Rooted(worlds, k, share, targets)
  PROVE  ConnectionCache(worlds, k, WithTargets(cache, share, targets))
  <1>1. targets \in Seq(Target)
    BY DEF Rooted
  <1> QED BY <1>1 DEF ConnectionCache, WithTargets

\* or removed from it.
LEMMA NoTargetsCache ==
  ASSUME NEW worlds, NEW k \in Nat, NEW cache, ConnectionCache(worlds, k, cache),
         NEW share \in Shares
  PROVE  ConnectionCache(worlds, k, [cache EXCEPT ![share] = <<>>])
  <1>1. Rooted(worlds, k, share, <<>>)
    BY EmptySeq DEF Rooted
  <1>2. <<>> \in Seq(Target)
    BY EmptySeq
  <1> QED BY <1>1, <1>2 DEF ConnectionCache

\* Both caches stay what they are as the namespace changes.
LEMMA CachesGrow ==
  ASSUME NEW few, NEW many, few \subseteq many, NEW k, NEW targets, NEW mappings,
         ConnectionCache(few, k, targets), MappingCache(few, k, mappings)
  PROVE  ConnectionCache(many, k, targets) /\ MappingCache(many, k, mappings)
  BY RootedGrows, BackedGrows DEF ConnectionCache, MappingCache

-----------------------------------------------------------------------------
(* Names *)

\* What is put together in either order.
LEMMA ConcatPaths ==
  ASSUME NEW a \in Path, NEW b \in Path, NEW c \in Path
  PROVE  b \o c \in Path /\ (a \o b) \o c = a \o (b \o c)
  <1>1. PICK S : S = Names
    OBVIOUS
  <1>2. a \in Seq(S) /\ b \in Seq(S) /\ c \in Seq(S)
    BY <1>1 DEF Path
  <1>3. (a \o b) \o c = a \o (b \o c)
    BY <1>2, ConcatAssociative
  <1> QED BY <1>3, SuffixOfConcat

\* An entry below a path.
LEMMA EntryBelow ==
  ASSUME NEW a \in Path, NEW b \in Path, NEW x \in Names
  PROVE  Append(b, x) \in Path /\ Append(a \o b, x) = a \o Append(b, x)
  <1>1. \A S : \A s \in Seq(S), e \in S :
          <<e>> \in Seq(S) /\ Append(s, e) = s \o <<e>> /\ Append(s, e) \in Seq(S)
    BY AppendIsConcat
  <1>2. a \o b \in Path
    BY SuffixOfConcat
  <1>3. /\ <<x>> \in Path /\ Append(b, x) = b \o <<x>> /\ Append(b, x) \in Path
        /\ Append(a \o b, x) = (a \o b) \o <<x>>
    BY <1>1, <1>2, Zenon DEF Path
  <1>4. PICK e : e = <<x>>
    OBVIOUS
  <1>5. (a \o b) \o e = a \o (b \o e)
    BY <1>3, <1>4, ConcatPaths
  <1> QED BY <1>3, <1>4, <1>5

\* What a mapping has led to a target is led back by it.
LEMMA ThereAndBack ==
  ASSUME NEW m \in Mapping, NEW path \in Path, IsPrefix(m.orig, path), NEW x \in Names
  PROVE  /\ TargetPath(m, path) \in Path /\ IsPrefix(m.prefix, TargetPath(m, path))
         /\ OriginalPath(m, Append(TargetPath(m, path), x)) = Append(path, x)
         /\ \E rest \in Path : path = m.orig \o rest /\ TargetPath(m, path) = m.prefix \o rest
  <1>1. m.orig \in Path /\ m.prefix \in Path
    BY DEF Mapping
  <1>2. PICK r \in Path : path = m.orig \o r /\ SuffixAfterPrefix(path, m.orig) = r
    BY <1>1, PrefixSplit
  <1>3. TargetPath(m, path) = m.prefix \o r
    BY <1>2 DEF TargetPath
  <1>4. m.prefix \o r \in Path /\ IsPrefix(m.prefix, m.prefix \o r)
    BY <1>1, SuffixOfConcat
  <1>5. Append(r, x) \in Path /\ Append(m.prefix \o r, x) = m.prefix \o Append(r, x)
        /\ Append(m.orig \o r, x) = m.orig \o Append(r, x)
    BY <1>1, EntryBelow
  <1>6. SuffixAfterPrefix(m.prefix \o Append(r, x), m.prefix) = Append(r, x)
    BY <1>1, <1>5, SuffixOfConcat
  <1>7. OriginalPath(m, Append(TargetPath(m, path), x)) = m.orig \o Append(r, x)
    BY <1>3, <1>5, <1>6 DEF OriginalPath
  <1> QED BY <1>2, <1>3, <1>4, <1>5, <1>7

\* A mapping found behind another, composed with it, leads back to the first path.
LEMMA ComposedBack ==
  ASSUME NEW outer \in Mapping, NEW path \in Path, IsPrefix(outer.orig, path),
         NEW m \in Mapping, IsPrefix(m.orig, TargetPath(outer, path)),
         IsPrefix(outer.prefix, m.orig), NEW x \in Names, NEW there,
         there = TargetPath(m, TargetPath(outer, path))
  PROVE  OriginalPath([m EXCEPT !.orig = OriginalPath(outer, m.orig)], Append(there, x))
           = Append(path, x)
  <1>1. /\ outer.orig \in Path /\ outer.prefix \in Path /\ m.orig \in Path
        /\ m.prefix \in Path
    BY DEF Mapping
  <1>2. PICK r \in Path : path = outer.orig \o r
                          /\ TargetPath(outer, path) = outer.prefix \o r
    BY ThereAndBack
  <1>3. PICK q \in Path : m.orig = outer.prefix \o q
                          /\ SuffixAfterPrefix(m.orig, outer.prefix) = q
    BY <1>1, PrefixSplit
  <1>3a. ASSUME NEW e \in Path PROVE (outer.orig \o q) \o e = outer.orig \o (q \o e)
    <2>1. PICK a : a = outer.orig
      OBVIOUS
    <2>2. a \in Path
      BY <1>1, <2>1
    <2>3. (a \o q) \o e = a \o (q \o e)
      BY <2>2, ConcatPaths, Zenon
    <2> QED BY <2>1, <2>3
  <1>4. PICK s \in Path : outer.prefix \o r = m.orig \o s /\ there = m.prefix \o s
    <2>1. PICK u : u = TargetPath(outer, path)
      OBVIOUS
    <2>2. u = outer.prefix \o r /\ u \in Path /\ IsPrefix(m.orig, u)
          /\ there = TargetPath(m, u)
      BY <1>1, <1>2, <2>1, SuffixOfConcat
    <2>3. \E s \in Path : u = m.orig \o s /\ TargetPath(m, u) = m.prefix \o s
      BY <2>2, ThereAndBack
    <2> QED BY <2>2, <2>3
  <1>5. r = q \o s
    <2>1. q \o s \in Path /\ (outer.prefix \o q) \o s = outer.prefix \o (q \o s)
      <3>1. PICK a : a = outer.prefix
        OBVIOUS
      <3>2. a \in Path
        BY <1>1, <3>1
      <3>3. (a \o q) \o s = a \o (q \o s)
        BY <3>2, ConcatPaths, Zenon
      <3> QED BY <3>1, <3>3, SuffixOfConcat
    <2>2. PICK u : u = outer.prefix \o r
      OBVIOUS
    <2>3. u = outer.prefix \o (q \o s)
      BY <1>3, <1>4, <2>1, <2>2
    <2>4. SuffixAfterPrefix(u, outer.prefix) = r
      BY <1>1, <2>2, SuffixOfConcat
    <2>5. SuffixAfterPrefix(u, outer.prefix) = q \o s
      BY <1>1, <2>1, <2>3, SuffixOfConcat
    <2> QED BY <2>4, <2>5
  <1>6. PICK c : c = [m EXCEPT !.orig = OriginalPath(outer, m.orig)]
    OBVIOUS
  <1>7. c.orig = outer.orig \o q /\ c.prefix = m.prefix
    BY <1>3, <1>6 DEF OriginalPath, Mapping
  <1>8. Append(s, x) \in Path /\ Append(there, x) = m.prefix \o Append(s, x)
    <2>1. Append(m.prefix \o s, x) = m.prefix \o Append(s, x) /\ Append(s, x) \in Path
      BY <1>1, EntryBelow, ZenonT(60)
    <2> QED BY <1>4, <2>1
  <1>9. SuffixAfterPrefix(m.prefix \o Append(s, x), m.prefix) = Append(s, x)
    BY <1>1, <1>8, SuffixOfConcat
  <1>10. OriginalPath(c, Append(there, x)) = (outer.orig \o q) \o Append(s, x)
    BY <1>7, <1>8, <1>9 DEF OriginalPath
  <1>11. (outer.orig \o q) \o Append(s, x) = outer.orig \o (q \o Append(s, x))
    BY <1>8, <1>3a
  <1>12. q \o Append(s, x) = Append(q \o s, x)
    BY EntryBelow
  <1>13. q \o s \in Path /\ outer.orig \o Append(q \o s, x) = Append(outer.orig \o (q \o s), x)
    BY <1>1, <1>2, <1>5, EntryBelow, ZenonT(60)
  <1> QED BY <1>2, <1>5, <1>6, <1>10, <1>11, <1>12, <1>13

\* Where links lead to folders without referrals of their own above them, a mapping
\* found behind another is at or below the folder that one leads to.
LEMMA BehindTheFolder ==
  ASSUME NEW worlds, ~LeadsPastReferral(worlds), NEW share, NEW m \in Mapping,
         Leads(worlds, share, m), NEW behind \in Mapping, Leads(worlds, m.share, behind),
         NEW path \in Path, IsPrefix(m.prefix, path), IsPrefix(behind.orig, path)
  PROVE  IsPrefix(m.prefix, behind.orig)
  <1>1. m.prefix \in Path /\ behind.orig \in Path
    BY DEF Mapping
  <1>2. CASE m.prefix = <<>>
    BY <1>1, <1>2, EmptyPrefix
  <1>3. CASE m.prefix # <<>>
    <2>1. PICK one \in worlds : \E link \in one.links : \E target \in ToSet(link.targets) :
            target.share = m.share /\ target.prefix = m.prefix
      BY <1>3 DEF Leads
    <2>2. /\ \A other \in worlds : other.roots[m.share] = <<>>
          /\ \A other \in worlds : \A above \in other.links :
               above.share = m.share => ~IsStrictPrefix(above.path, m.prefix)
      BY <1>3, <2>1 DEF LeadsPastReferral
    <2>3. ASSUME NEW world \in worlds, NEW root \in ToSet(world.roots[m.share]) PROVE FALSE
      BY <2>2, <2>3, EmptyMappings DEF ToSet
    <2>4. PICK world \in worlds : \E above \in world.links :
            above.share = m.share /\ above.path = behind.orig
      BY <2>3 DEF Leads
    <2>5. ~IsStrictPrefix(behind.orig, m.prefix)
      BY <2>2, <2>4
    <2>6. Len(m.prefix) \in Nat /\ Len(behind.orig) \in Nat
      BY <1>1 DEF Path
    <2>7. CASE Len(m.prefix) <= Len(behind.orig)
      BY <1>1, <2>7, PrefixChain
    <2>8. CASE Len(behind.orig) < Len(m.prefix)
      <3>1. IsPrefix(behind.orig, m.prefix)
        BY <1>1, <2>6, <2>8, PrefixChain
      <3>2. behind.orig # m.prefix
        BY <2>6, <2>8
      <3> QED BY <2>5, <3>1, <3>2 DEF IsStrictPrefix
    <2> QED BY <2>6, <2>7, <2>8
  <1> QED BY <1>2, <1>3

\* What is no exception yesterday need not be one tomorrow, but not the other way.
LEMMA LeadsPastReferralGrows ==
  ASSUME NEW few, NEW many, few \subseteq many, LeadsPastReferral(few)
  PROVE  LeadsPastReferral(many)
  BY DEF LeadsPastReferral

-----------------------------------------------------------------------------
(* Calls *)

\* Products, for the provers: monotone, and one factor less.
LEMMA Times ==
  ASSUME NEW n \in Nat, NEW k \in Nat, n <= k, NEW x \in Nat
  PROVE  /\ n * x \in Nat /\ n * x <= k * x
         /\ n # 0 => n * x = (n - 1) * x + x
  <1>1. n * x <= k * x
    <2>1. PICK d : d = k - n
      OBVIOUS
    <2>2. d \in Nat /\ k = n + d
      BY <2>1
    <2>3. d * x \in Nat /\ k * x = n * x + d * x
      BY <2>2
    <2> QED BY <2>3
  <1>2. n # 0 => n * x = (n - 1) * x + x
    OBVIOUS
  <1> QED BY <1>1, <1>2

\* A mapping of the d-th level costs a call, and what is behind it.
Cost(k, d) == 1 + Tries(k)[MaxNested + 1 - d]

\* A frame at depth d costs one call and those of the depths below.
LEMMA CostFacts ==
  ASSUME NEW k \in Nat, NEW d \in 1..MaxNested + 1
  PROVE  /\ Cost(k, d) \in Nat \ {0} /\ Tries(k)[MaxNested + 1 - d] = Cost(k, d) - 1
         /\ \A n \in Nat : n <= k => n * Cost(k, d) <= Tries(k)[MaxNested + 2 - d]
         /\ Tries(k)[MaxNested + 2 - d] \in Nat
  <1>1. PICK e : e = MaxNested + 1 - d
    OBVIOUS
  <1>2. e \in 0..MaxNested /\ MaxNested + 2 - d = e + 1 /\ e \in 0..MaxNested + 1
        /\ e + 1 \in 0..MaxNested + 1
    BY <1>1, NestedAssumption
  <1>3. Tries(k)[e] \in Nat /\ Tries(k)[e + 1] = k * (1 + Tries(k)[e])
        /\ Tries(k)[e + 1] \in Nat
    BY <1>2, TriesFacts
  <1>4. Cost(k, d) = 1 + Tries(k)[e]
    BY <1>1 DEF Cost
  <1>5. \A n \in Nat : n <= k => n * Cost(k, d) <= k * Cost(k, d)
    BY <1>3, <1>4, Times
  <1> QED BY <1>1, <1>2, <1>3, <1>4, <1>5

\* The most calls pay for every target of the first depth.
LEMMA MostCallsFacts ==
  ASSUME NEW k \in Nat
  PROVE  MostCalls(k) \in Nat /\ k <= MostCalls(k)
         /\ \A n \in Nat : n <= k => n * Cost(k, 1) <= MostCalls(k)
  <1>1. 1 \in 1..MaxNested + 1 /\ MaxNested + 2 - 1 = MaxNested + 1
    BY NestedAssumption
  <1>2. PICK x : x = Cost(k, 1)
    OBVIOUS
  <1>3. x \in Nat \ {0} /\ MostCalls(k) \in Nat /\ \A n \in Nat : n <= k => n * x <= MostCalls(k)
    BY <1>1, <1>2, CostFacts DEF MostCalls
  <1>4. k <= k * x
    <2>1. PICK y : y = x - 1
      OBVIOUS
    <2>2. y \in Nat /\ x = y + 1
      BY <1>3, <2>1
    <2>3. k * x = k * y + k /\ k * y \in Nat
      BY <2>2
    <2> QED BY <2>3
  <1>5. k * x \in Nat /\ k * x <= MostCalls(k)
    BY <1>3
  <1> QED BY <1>2, <1>3, <1>4, <1>5

-----------------------------------------------------------------------------
(* The inductive invariant *)

\* Errors of a call.
Errors == {None, "unavailable", "bad", "deleted", "uncovered", "denied", "missing"}
\* Places in the namespace.
Place == [share : Shares, path : Path]
\* Frames of the loop over mappings.
AFrame == [kind : {"cached", "resolved", "nested"}, outer : Mapping \cup {None},
           path : Path, todo : Seq(Mapping), error : Errors, last : Errors]
\* Where a call may be.
Steps == {"idle", "done", "share", "cachedShare", "direct", "resolveShare",
          "resolvedShare", "lookup", "resolvePath", "frames", "nested", "return",
          "rename", "renaming", "renamed", "copy", "copying", "copyPath", "copyShare"}
\* Calls.
ACall == [at : Steps, req : Request \cup {None}, frames : Seq(AFrame),
          todo : Seq(Target) \cup Seq(Mapping), error : Errors,
          result : Errors \cup {"ok"}, touched : SUBSET (Path \X Place),
          named : Path, calls : Nat]

\* The share a frame asks: the root, or the target of the mapping around it.
ShareOf(frame) == IF frame.outer = None THEN Root ELSE frame.outer.share

\* A frame of the d-th level looks where the namespace leads in d - 1 steps.
Level(worlds, k, path, frame, d) ==
  /\ Backed(worlds, k, ShareOf(frame), frame.todo) /\ Covers(frame.todo, frame.path)
  /\ Location(ShareOf(frame), frame.path) \in Stages(worlds, path)[d - 1]

\* The first frame is the operation's own ...
Bottom(path, frame) ==
  frame.kind # "nested" /\ frame.outer = None /\ frame.path = path

\* ... each other one is behind the mapping in hand of the frame below it.
Above(below, frame) ==
  /\ frame.kind = "nested" /\ below.todo # <<>> /\ frame.outer = below.todo[1]
  /\ frame.path = TargetPath(below.todo[1], below.path)

\* The frames of a call are nested, each at its depth.
Stack(worlds, k, path, frames) ==
  /\ frames \in Seq(AFrame) /\ Len(frames) <= MaxNested + 1
  /\ \A d \in 1..Len(frames) : Level(worlds, k, path, frames[d], d)
  /\ frames # <<>> => Bottom(path, frames[1])
  /\ \A d \in 1..Len(frames) : d > 1 => Above(frames[d - 1], frames[d])

\* Calls: of a listing from the cache, and of any operation.
Limit(k, kind) == IF kind = "cached" THEN MostCalls(k) ELSE 2 * MostCalls(k) + 2 * k + 1

\* b[d]: the calls at the end of what is behind the mapping in hand of level d - 1.
Paced(k, frames, b) ==
  /\ b \in Seq(Nat) /\ Len(b) = Len(frames)
  /\ \A d \in 1..Len(frames) : b[d] <= Limit(k, frames[1].kind)
  /\ \A d \in 1..Len(frames) :
       d > 1 => b[d] + (Len(frames[d - 1].todo) - 1) * Cost(k, d - 1) <= b[d - 1]

\* The listing has made `made' calls for the mapping in hand.
Affordable(k, frames, calls, made) ==
  \E b : /\ Paced(k, frames, b)
         /\ calls + Len(frames[Len(frames)].todo) * Cost(k, Len(frames))
              <= b[Len(frames)] + made

\* Where an operation may have been done.
Places(worlds, path) == {<<path, place>> : place \in Reach(worlds, path)}

\* The entry a listing returns.
EntryOf(path) == Append(path, "x")

\* The steps of each kind of operation.
ShareSteps == {"share", "cachedShare", "direct", "resolveShare", "resolvedShare"}
\* Where a call of a kind may be.
StepsOf(kind) ==
  {"done"} \cup CASE kind = "check" -> ShareSteps
                  [] kind = "list" -> ShareSteps \cup {"lookup", "resolvePath", "frames",
                                                       "nested", "return"}
                  [] kind = "rename" -> ShareSteps \cup {"rename", "renaming", "resolvePath",
                                                         "renamed"}
                  [] kind = "copy" -> {"copy", "copying", "copyPath", "copyShare"}

\* At each step: what is left to do, and the calls made so far.
AtShare(worlds, k, c) ==
  /\ c.at = "share" => c.calls <= MostCalls(k)
  /\ c.at = "cachedShare" => /\ Rooted(worlds, k, Root, c.todo) /\ c.todo # <<>>
                             /\ c.calls + Len(c.todo) <= MostCalls(k) + k
  /\ c.at = "direct" => c.calls <= MostCalls(k) + k
  /\ c.at = "resolveShare" => c.calls <= MostCalls(k) + k + 1
  /\ c.at = "resolvedShare" => /\ Rooted(worlds, k, Root, c.todo) /\ c.todo # <<>>
                               /\ c.calls + Len(c.todo) <= MostCalls(k) + 2 * k + 1

\* A mapping of the connection's share that covers a path.
InHand(worlds, m, path) ==
  m \in Mapping /\ Leads(worlds, Root, m) /\ IsPrefix(m.orig, path)

\* What holds of a call at the steps about a path.
AtPath(worlds, k, c) ==
  /\ c.at \in {"lookup", "rename", "renaming", "copy", "copying"} => c.calls = 0
  /\ c.at = "renaming" => /\ 1 <= k /\ InHand(worlds, c.todo[1], c.req.path)
                          /\ InHand(worlds, c.todo[2], c.req.to)
  /\ c.at \in {"resolvePath", "renamed"} => c.calls <= MostCalls(k) + 2 * k + 1
  /\ c.at = "renamed" => /\ Backed(worlds, k, Root, c.todo) /\ c.todo # <<>>
                         /\ Covers(c.todo, c.req.path)
  /\ c.at \in {"copyPath", "copyShare"} => c.calls <= 1
  /\ c.at \in {"copying", "copyPath"} =>
       \E from \in Reach(worlds, c.req.path), to \in Reach(worlds, c.req.to) :
         c.touched = Ends(c.req, from, to)

\* What holds of it in the loops over mappings: the stack, and the calls left.
AtFrames(worlds, k, c) ==
  /\ c.at \in {"frames", "nested"} =>
       c.frames # <<>> /\ Stack(worlds, k, c.req.path, c.frames)
  /\ c.at = "frames" => Affordable(k, c.frames, c.calls, 0)
  /\ c.at = "nested" => /\ Affordable(k, c.frames, c.calls, 1)
                        /\ c.frames[Len(c.frames)].todo # <<>> /\ Len(c.frames) <= MaxNested

\* What holds of it on the way back and at the end.
AtEnd(worlds, k, c) ==
  /\ c.at = "return" =>
       /\ Stack(worlds, k, c.req.path, c.frames)
       /\ c.touched \subseteq Places(worlds, c.req.path)
       /\ ~LeadsPastReferral(worlds) =>
            c.named = EntryOf(IF c.frames = <<>> THEN c.req.path
                              ELSE c.frames[Len(c.frames)].path)
       /\ c.calls <= 2 * MostCalls(k) + 2 * k + 1
  /\ c.at = "done" =>
       /\ \/ c.req.kind = "rename" /\ CrossesLink(worlds, c.req)
          \/ \A end \in c.touched : end[2] \in Reach(worlds, end[1])
       /\ c.req.kind = "list" /\ c.result = "ok" /\ ~LeadsPastReferral(worlds) =>
            c.named = EntryOf(c.req.path)
       /\ c.calls <= IF c.req.kind = "copy" THEN 2
                     ELSE 2 * MostCalls(k) + 2 * k + 1

\* What holds of a call.
CallInv(worlds, k, c) ==
  /\ c \in ACall
  /\ c.at = "idle" => c.calls = 0
  /\ c.at # "idle" => c.req \in Request /\ c.at \in StepsOf(c.req.kind)
  /\ AtShare(worlds, k, c) /\ AtPath(worlds, k, c)
  /\ AtFrames(worlds, k, c) /\ AtEnd(worlds, k, c)

\* The inductive invariant.
Inv ==
  /\ InHistory
  /\ ConnectionCache(Past, MostTargets, resolvedConnections)
  /\ MappingCache(Past, MostTargets, resolvedMappings)
  /\ DOMAIN call = Threads /\ \A t \in Threads : CallInv(Past, MostTargets, call[t])

-----------------------------------------------------------------------------
(* Stacks of frames *)

\* Sequences without their last element,
LEMMA FrontFacts ==
  ASSUME NEW S, NEW s \in Seq(S), s # <<>>
  PROVE  /\ Len(s) \in Nat \ {0} /\ Front(s) \in Seq(S) /\ Len(Front(s)) = Len(s) - 1
         /\ \A i \in 1..Len(s) - 1 : Front(s)[i] = s[i]
         /\ Last(s) = s[Len(s)] /\ s[Len(s)] \in S /\ s[1] \in S
  <1>1. Len(s) \in Nat \ {0}
    BY EmptySeq
  <1>2. PICK n : n = Len(s) - 1
    OBVIOUS
  <1>3. n \in 0..Len(s)
    BY <1>1, <1>2
  <1>4. SubSeq(s, 1, n) \in Seq(S) /\ Len(SubSeq(s, 1, n)) = n
        /\ \A i \in 1..n : SubSeq(s, 1, n)[i] = s[i]
    BY <1>3
  <1> QED BY <1>1, <1>2, <1>4 DEF Front, Last

\* with one more,
LEMMA AppendFacts ==
  ASSUME NEW S, NEW s \in Seq(S), NEW x \in S
  PROVE  /\ Len(s) \in Nat /\ Append(s, x) \in Seq(S) /\ Len(Append(s, x)) = Len(s) + 1
         /\ \A i \in 1..Len(s) : Append(s, x)[i] = s[i]
         /\ Append(s, x)[Len(s) + 1] = x /\ Append(s, x) # <<>>
  BY AppendProperties

\* and without their first.
LEMMA TailFacts ==
  ASSUME NEW S, NEW s \in Seq(S), s # <<>>
  PROVE  /\ Len(s) \in Nat \ {0} /\ Tail(s) \in Seq(S) /\ Len(Tail(s)) = Len(s) - 1
         /\ \A i \in 1..Len(s) - 1 : Tail(s)[i] = s[i + 1]
         /\ Head(s) = s[1] /\ s[1] \in S /\ 1 \in DOMAIN s
         /\ DOMAIN s = 1..Len(s) /\ DOMAIN Tail(s) = 1..Len(Tail(s))
  BY EmptySeq, HeadTailProperties

\* The rest of a list of mappings is as good as the list.
LEMMA TailBacked ==
  ASSUME NEW worlds, NEW k \in Nat, NEW share, NEW path, NEW ms, ms # <<>>,
         Backed(worlds, k, share, ms), Covers(ms, path)
  PROVE  Backed(worlds, k, share, Tail(ms)) /\ Covers(Tail(ms), path)
  <1>1. ms \in Seq(Mapping)
    BY DEF Backed
  <1>2. /\ Len(ms) \in Nat \ {0} /\ Tail(ms) \in Seq(Mapping) /\ Len(Tail(ms)) = Len(ms) - 1
        /\ \A i \in 1..Len(ms) - 1 : Tail(ms)[i] = ms[i + 1]
        /\ DOMAIN ms = 1..Len(ms) /\ DOMAIN Tail(ms) = 1..Len(Tail(ms))
    BY <1>1, TailFacts
  <1>3. \A i \in DOMAIN Tail(ms) : i + 1 \in DOMAIN ms /\ Tail(ms)[i] = ms[i + 1]
    BY <1>2
  <1>4. Len(Tail(ms)) <= k
    BY <1>2 DEF Backed
  <1> QED BY <1>2, <1>3, <1>4 DEF Backed, Covers

\* The targets that are left are targets.
LEMMA TailRooted ==
  ASSUME NEW worlds, NEW k \in Nat, NEW share, NEW ts, ts # <<>>, Rooted(worlds, k, share, ts)
  PROVE  Rooted(worlds, k, share, Tail(ts))
  <1>1. ts \in Seq(Target)
    BY DEF Rooted
  <1>2. /\ Len(ts) \in Nat \ {0} /\ Tail(ts) \in Seq(Target) /\ Len(Tail(ts)) = Len(ts) - 1
        /\ \A i \in 1..Len(ts) - 1 : Tail(ts)[i] = ts[i + 1]
        /\ DOMAIN ts = 1..Len(ts) /\ DOMAIN Tail(ts) = 1..Len(Tail(ts))
    BY <1>1, TailFacts
  <1>3. \A i \in DOMAIN Tail(ts) : i + 1 \in DOMAIN ts /\ Tail(ts)[i] = ts[i + 1]
    BY <1>2
  <1>4. Len(Tail(ts)) <= k
    BY <1>2 DEF Rooted
  <1> QED BY <1>2, <1>3, <1>4 DEF Rooted

\* The frame on top.
LEMMA TopFrame ==
  ASSUME NEW worlds, NEW k \in Nat, NEW path \in Path, NEW frames, frames # <<>>,
         Stack(worlds, k, path, frames), NEW D, D = Len(frames), NEW f, f = frames[D]
  PROVE  /\ D \in 1..MaxNested + 1 /\ D \in 1..Len(frames) /\ 1 \in 1..Len(frames)
         /\ f \in AFrame /\ f = Last(frames) /\ ShareOf(f) \in Shares
         /\ Level(worlds, k, path, f, D)
         /\ f.todo \in Seq(Mapping) /\ Len(f.todo) \in Nat /\ Len(f.todo) <= k
         /\ frames \in Seq(AFrame) /\ frames[1] \in AFrame
         /\ Bottom(path, frames[1])
         /\ (D > 1 => f.kind = "nested" /\ f.outer \in Mapping /\ f.outer # None)
         /\ (D = 1 => f.outer = None /\ f.path = path)
  <1>1. frames \in Seq(AFrame) /\ Len(frames) <= MaxNested + 1
    BY DEF Stack
  <1>2. Len(frames) \in Nat \ {0} /\ Last(frames) = frames[Len(frames)]
        /\ frames[Len(frames)] \in AFrame /\ frames[1] \in AFrame
    BY <1>1, FrontFacts
  <1>3. D \in 1..MaxNested + 1 /\ D \in 1..Len(frames) /\ 1 \in 1..Len(frames)
    BY <1>1, <1>2, NestedAssumption
  <1>4. Level(worlds, k, path, f, D) /\ Bottom(path, frames[1])
    BY <1>3 DEF Stack
  <1>5. ShareOf(f) \in Shares /\ f.todo \in Seq(Mapping)
    BY <1>2, SharesAssumption DEF AFrame, Mapping, ShareOf
  <1>6. Len(f.todo) \in Nat /\ Len(f.todo) <= k
    BY <1>4, <1>5 DEF Level, Backed
  <1>7. D > 1 => f.kind = "nested" /\ f.outer \in Mapping /\ f.outer # None
    <2> SUFFICES ASSUME D > 1 PROVE f.kind = "nested" /\ f.outer \in Mapping /\ f.outer # None
      OBVIOUS
    <2>1. Above(frames[D - 1], f)
      BY <1>3 DEF Stack
    <2>2. D - 1 \in 1..Len(frames)
      BY <1>2, <1>3
    <2>3. frames[D - 1] \in AFrame
      BY <1>1, <2>2
    <2>4. frames[D - 1].todo \in Seq(Mapping) /\ frames[D - 1].todo # <<>>
      BY <2>1, <2>3 DEF Above, AFrame
    <2>5. f.outer \in Mapping
      BY <2>1, <2>4, TailFacts DEF Above
    <2>6. None \notin Mapping
      BY NoneAssumption DEF Mapping
    <2> QED BY <2>1, <2>5, <2>6 DEF Above
  <1>8. D = 1 => f.outer = None /\ f.path = path
    BY <1>4 DEF Bottom
  <1> QED BY <1>1, <1>2, <1>3, <1>4, <1>5, <1>6, <1>7, <1>8

\* The frame on top, and the mapping in hand.
Top(frames) == frames[Len(frames)]
\* The mapping in hand.
Hand(frames) == Top(frames).todo[1]

\* The mapping in hand leads to where the namespace leads in one step more.
LEMMA HandLeads ==
  ASSUME NEW worlds, NEW k \in Nat, NEW path \in Path, NEW frames, frames # <<>>,
         Stack(worlds, k, path, frames), Top(frames).todo # <<>>
  PROVE  /\ Hand(frames) \in Mapping /\ Hand(frames) = Head(Top(frames).todo)
         /\ Leads(worlds, ShareOf(Top(frames)), Hand(frames))
         /\ Top(frames).path \in Path /\ IsPrefix(Hand(frames).orig, Top(frames).path)
         /\ TargetPath(Hand(frames), Top(frames).path) \in Path
         /\ Hand(frames).share \in Shares
         /\ Location(Hand(frames).share, TargetPath(Hand(frames), Top(frames).path))
              \in Stages(worlds, path)[Len(frames)]
         /\ Location(Hand(frames).share, TargetPath(Hand(frames), Top(frames).path))
              \in Reach(worlds, path) \cap Place
  <1>1. PICK D : D = Len(frames)
    OBVIOUS
  <1>2. PICK f : f = Top(frames)
    OBVIOUS
  <1>3. PICK m : m = Hand(frames)
    OBVIOUS
  <1>4. f = frames[D] /\ f.todo # <<>> /\ m = f.todo[1]
    BY <1>1, <1>2, <1>3 DEF Top, Hand
  <1>5. /\ D \in 1..MaxNested + 1 /\ f \in AFrame /\ ShareOf(f) \in Shares
        /\ Level(worlds, k, path, f, D) /\ f.todo \in Seq(Mapping)
    BY <1>1, <1>4, TopFrame
  <1>6. m \in Mapping /\ m = Head(f.todo) /\ 1 \in DOMAIN f.todo
    BY <1>4, <1>5, TailFacts
  <1>7. Leads(worlds, ShareOf(f), m) /\ IsPrefix(m.orig, f.path) /\ f.path \in Path
    BY <1>5, <1>6 DEF Level, Backed, Covers, AFrame
  <1>8. PICK share : share = ShareOf(f)
    OBVIOUS
  <1>9. /\ TargetPath(m, f.path) \in Path
        /\ Location(m.share, TargetPath(m, f.path))
             \in LeadsTo(worlds, Location(share, f.path))
    BY <1>5, <1>6, <1>7, <1>8, MappingLeads
  <1>10. PICK n : n = D - 1
    OBVIOUS
  <1>11. n \in 0..MaxNested /\ n + 1 = D
    BY <1>5, <1>10, NestedAssumption
  <1>12. Location(share, f.path) \in Stages(worlds, path)[n]
    BY <1>5, <1>8, <1>10 DEF Level
  <1>13. Location(m.share, TargetPath(m, f.path)) \in Stages(worlds, path)[n + 1]
    BY <1>9, <1>11, <1>12, StageLeads
  <1>14. D \in 0..MaxNested + 1
    BY <1>5, NestedAssumption
  <1>15. Location(m.share, TargetPath(m, f.path)) \in Reach(worlds, path)
    BY <1>11, <1>13, <1>14, StagesInReach
  <1>16. m.share \in Shares
    BY <1>6 DEF Mapping
  <1>17. Location(m.share, TargetPath(m, f.path)) \in Place
    BY <1>9, <1>16 DEF Location, Place
  <1> QED BY <1>1, <1>2, <1>3, <1>6, <1>7, <1>9, <1>11, <1>13, <1>15, <1>16, <1>17

\* A stack without its top is one.
LEMMA StackBelow ==
  ASSUME NEW worlds, NEW k, NEW path, NEW frames, frames # <<>>,
         Stack(worlds, k, path, frames)
  PROVE  Stack(worlds, k, path, Front(frames)) /\ Len(Front(frames)) = Len(frames) - 1
  <1>1. frames \in Seq(AFrame) /\ Len(frames) <= MaxNested + 1
    BY DEF Stack
  <1>2. /\ Len(frames) \in Nat \ {0} /\ Front(frames) \in Seq(AFrame)
        /\ Len(Front(frames)) = Len(frames) - 1
        /\ \A i \in 1..Len(frames) - 1 : Front(frames)[i] = frames[i]
    BY <1>1, FrontFacts
  <1>3. PICK below : below = Front(frames)
    OBVIOUS
  <1>4. /\ below \in Seq(AFrame) /\ Len(below) <= MaxNested + 1 /\ Len(below) \in Nat
        /\ Len(below) = Len(frames) - 1 /\ \A i \in 1..Len(below) : below[i] = frames[i]
    BY <1>1, <1>2, <1>3, NestedAssumption
  <1>5. \A d \in 1..Len(below) : Level(worlds, k, path, below[d], d)
    BY <1>2, <1>4 DEF Stack
  <1>6. below # <<>> => Bottom(path, below[1])
    <2>1. below # <<>> => 1 \in 1..Len(below)
      BY <1>4, FrontFacts
    <2> QED BY <1>4, <2>1 DEF Stack
  <1>7. ASSUME NEW d \in 1..Len(below), d > 1 PROVE Above(below[d - 1], below[d])
    <2>1. d \in 1..Len(frames) /\ d - 1 \in 1..Len(below)
      BY <1>2, <1>4, <1>7
    <2>2. Above(frames[d - 1], frames[d])
      BY <1>7, <2>1 DEF Stack
    <2> QED BY <1>4, <2>1, <2>2
  <1> QED BY <1>3, <1>4, <1>5, <1>6, <1>7 DEF Stack

\* The top may be replaced by one with other good mappings.
LEMMA TopReplaced ==
  ASSUME NEW worlds, NEW k \in Nat, NEW path \in Path, NEW frames, frames # <<>>,
         Stack(worlds, k, path, frames), NEW D, D = Len(frames), NEW f, f = frames[D],
         NEW g \in AFrame, g.kind = f.kind, g.outer = f.outer, g.path = f.path,
         Backed(worlds, k, ShareOf(f), g.todo), Covers(g.todo, g.path),
         NEW new \in Seq(AFrame), Len(new) = D, new[D] = g,
         \A d \in 1..D - 1 : new[d] = frames[d]
  PROVE  Stack(worlds, k, path, new) /\ new # <<>> /\ new[1].kind = frames[1].kind
  <1>1. /\ D \in 1..MaxNested + 1 /\ D \in 1..Len(frames) /\ 1 \in 1..Len(frames)
        /\ Level(worlds, k, path, f, D) /\ Bottom(path, frames[1])
    BY TopFrame
  <1>2. ShareOf(g) = ShareOf(f)
    BY DEF ShareOf
  <1>3. Level(worlds, k, path, g, D)
    BY <1>1, <1>2 DEF Level
  <1>4. \A d \in 1..D : d = D \/ d \in 1..D - 1
    BY <1>1
  <1>5. \A d \in 1..D : Level(worlds, k, path, new[d], d)
    BY <1>3, <1>4 DEF Stack
  <1>6. Bottom(path, new[1]) /\ new[1].kind = frames[1].kind
    <2>1. CASE D = 1
      BY <1>1, <2>1 DEF Bottom
    <2>2. CASE D # 1
      <3>1. 1 \in 1..D - 1
        BY <1>1, <2>2
      <3> QED BY <1>1, <3>1
    <2> QED BY <2>1, <2>2
  <1>7. ASSUME NEW d \in 1..D, d > 1 PROVE Above(new[d - 1], new[d])
    <2>1. Above(frames[d - 1], frames[d]) /\ d - 1 \in 1..D - 1
      BY <1>1, <1>7 DEF Stack
    <2>2. new[d - 1] = frames[d - 1]
      BY <2>1
    <2>3. CASE d = D
      BY <2>1, <2>2, <2>3 DEF Above
    <2>4. CASE d # D
      BY <1>4, <2>1, <2>2, <2>4
    <2> QED BY <2>3, <2>4
  <1>8. new # <<>>
    BY <1>1, EmptySeq
  <1> QED BY <1>1, <1>5, <1>6, <1>7, <1>8 DEF Stack

\* A frame for what is behind the mapping in hand.
LEMMA FramePushed ==
  ASSUME NEW worlds, NEW k \in Nat, NEW path \in Path, NEW frames, frames # <<>>,
         Stack(worlds, k, path, frames), NEW D, D = Len(frames), D <= MaxNested,
         NEW f, f = frames[D], f.todo # <<>>, NEW m, m = f.todo[1],
         NEW g \in AFrame, g.kind = "nested", g.outer = m, g.path = TargetPath(m, f.path),
         Backed(worlds, k, m.share, g.todo), Covers(g.todo, g.path)
  PROVE  Stack(worlds, k, path, Append(frames, g)) /\ Append(frames, g) # <<>>
  <1>1. D \in 1..MaxNested + 1 /\ 1 \in 1..Len(frames) /\ frames \in Seq(AFrame)
        /\ Bottom(path, frames[1])
    BY TopFrame
  <1>2. /\ m \in Mapping
        /\ Location(m.share, TargetPath(m, f.path)) \in Stages(worlds, path)[D]
    <2>1. /\ Hand(frames) \in Mapping
          /\ Location(Hand(frames).share, TargetPath(Hand(frames), Top(frames).path))
               \in Stages(worlds, path)[Len(frames)]
      <3>1. Top(frames).todo # <<>>
        BY DEF Top
      <3> QED BY <3>1, HandLeads
    <2>2. m = Hand(frames) /\ f = Top(frames)
      BY DEF Top, Hand
    <2> QED BY <2>1, <2>2
  <1>3. m # None
    BY <1>2, NoneAssumption DEF Mapping
  <1>4. ShareOf(g) = m.share
    BY <1>3 DEF ShareOf
  <1>5. (D + 1) - 1 = D /\ D + 1 <= MaxNested + 1 /\ D \in Nat
    BY <1>1, NestedAssumption
  <1>6. Level(worlds, k, path, g, D + 1)
    BY <1>2, <1>4, <1>5 DEF Level
  <1>7. PICK new : new = Append(frames, g)
    OBVIOUS
  <1>8. /\ new \in Seq(AFrame) /\ Len(new) = D + 1 /\ \A i \in 1..D : new[i] = frames[i]
        /\ new[D + 1] = g /\ new # <<>>
    BY <1>1, <1>7, AppendFacts
  <1>9. \A d \in 1..D + 1 : d = D + 1 \/ d \in 1..D
    BY <1>1
  <1>10. \A d \in 1..D + 1 : Level(worlds, k, path, new[d], d)
    BY <1>6, <1>8, <1>9 DEF Stack
  <1>11. ASSUME NEW d \in 1..D + 1, d > 1 PROVE Above(new[d - 1], new[d])
    <2>1. d - 1 \in 1..D
      BY <1>5, <1>11
    <2>2. CASE d = D + 1
      BY <1>5, <1>8, <2>1, <2>2 DEF Above
    <2>3. CASE d # D + 1
      BY <1>8, <1>9, <1>11, <2>1, <2>3 DEF Stack
    <2> QED BY <2>2, <2>3
  <1> QED BY <1>1, <1>5, <1>7, <1>8, <1>10, <1>11 DEF Stack

-----------------------------------------------------------------------------
(* The effort of a listing *)

\* The mapping in hand, and what is behind it, is done with.
Spent(k, frames, calls) ==
  \E b : /\ Paced(k, frames, b)
         /\ calls + (Len(Top(frames).todo) - 1) * Cost(k, Len(frames)) <= b[Len(frames)]

\* Frames no deeper than the limit.
LimitedStack(frames) == frames \in Seq(AFrame) /\ frames # <<>> /\ Len(frames) <= MaxNested + 1

\* The limit of every kind of call is a number.
LEMMA LimitFacts ==
  ASSUME NEW k \in Nat, NEW kind
  PROVE  Limit(k, kind) \in Nat /\ Limit(k, kind) <= 2 * MostCalls(k) + 2 * k + 1
  BY MostCallsFacts DEF Limit

\* What the counts of a stack are.
LEMMA StackNumbers ==
  ASSUME NEW k \in Nat, NEW frames, LimitedStack(frames), NEW D, D = Len(frames)
  PROVE  /\ D \in 1..MaxNested + 1 /\ D \in 1..Len(frames) /\ Cost(k, D) \in Nat \ {0}
         /\ Top(frames) \in AFrame /\ Len(Top(frames).todo) \in Nat
         /\ (Top(frames).todo # <<>> => Len(Top(frames).todo) # 0)
         /\ (Top(frames).todo = <<>> => Len(Top(frames).todo) = 0)
  <1>1. frames \in Seq(AFrame) /\ frames # <<>> /\ D <= MaxNested + 1
    BY DEF LimitedStack
  <1>2. D \in Nat \ {0} /\ Top(frames) \in AFrame
    BY <1>1, FrontFacts DEF Top
  <1>3. D \in 1..MaxNested + 1 /\ D \in 1..Len(frames)
    BY <1>1, <1>2, NestedAssumption
  <1>4. Top(frames).todo \in Seq(Mapping)
    BY <1>2 DEF AFrame
  <1>5. /\ Len(Top(frames).todo) \in Nat
        /\ (Top(frames).todo # <<>> => Len(Top(frames).todo) # 0)
        /\ (Top(frames).todo = <<>> => Len(Top(frames).todo) = 0)
    BY <1>4, EmptySeq
  <1> QED BY <1>2, <1>3, <1>5, CostFacts

\* A call for the mapping in hand: there was one left.
LEMMA CallSpends ==
  ASSUME NEW k \in Nat, NEW frames, LimitedStack(frames), Top(frames).todo # <<>>,
         NEW calls \in Nat, Affordable(k, frames, calls, 0)
  PROVE  Spent(k, frames, calls + 1) /\ Affordable(k, frames, calls + 1, 1)
  <1>1. PICK D : D = Len(frames)
    OBVIOUS
  <1>2. PICK n, C : n = Len(Top(frames).todo) /\ C = Cost(k, D)
    OBVIOUS
  <1>3. n \in Nat \ {0} /\ C \in Nat \ {0} /\ D \in 1..Len(frames)
    BY <1>1, <1>2, StackNumbers
  <1>4. PICK b : Paced(k, frames, b) /\ calls + n * C <= b[D] + 0
    BY <1>1, <1>2 DEF Affordable, Top
  <1>5. b[D] \in Nat
    BY <1>1, <1>3, <1>4 DEF Paced
  <1>6. n * C \in Nat /\ n * C = (n - 1) * C + C /\ (n - 1) * C \in Nat
    BY <1>3, Times
  <1>7. (calls + 1) + (n - 1) * C <= b[D]
    BY <1>3, <1>4, <1>5, <1>6
  <1>8. (calls + 1) + n * C <= b[D] + 1
    BY <1>4, <1>5, <1>6
  <1> QED BY <1>1, <1>2, <1>4, <1>7, <1>8 DEF Spent, Affordable, Top

\* Nothing is behind it.
LEMMA NothingBehind ==
  ASSUME NEW k \in Nat, NEW frames, LimitedStack(frames), Top(frames).todo # <<>>,
         NEW calls \in Nat, Affordable(k, frames, calls, 1)
  PROVE  Spent(k, frames, calls)
  <1>1. PICK D : D = Len(frames)
    OBVIOUS
  <1>2. PICK n, C : n = Len(Top(frames).todo) /\ C = Cost(k, D)
    OBVIOUS
  <1>3. n \in Nat \ {0} /\ C \in Nat \ {0} /\ D \in 1..Len(frames)
    BY <1>1, <1>2, StackNumbers
  <1>4. PICK b : Paced(k, frames, b) /\ calls + n * C <= b[D] + 1
    BY <1>1, <1>2 DEF Affordable, Top
  <1>5. b[D] \in Nat
    BY <1>1, <1>3, <1>4 DEF Paced
  <1>6. n * C \in Nat /\ n * C = (n - 1) * C + C /\ (n - 1) * C \in Nat
    BY <1>3, Times
  <1>7. calls + (n - 1) * C <= b[D]
    BY <1>3, <1>4, <1>5, <1>6
  <1> QED BY <1>1, <1>2, <1>4, <1>7 DEF Spent, Top

\* What is behind it has been paid for.
LEMMA BehindIsPaid ==
  ASSUME NEW k \in Nat, NEW frames, LimitedStack(frames), Top(frames).todo # <<>>,
         Len(frames) <= MaxNested, NEW calls \in Nat, Affordable(k, frames, calls, 1),
         NEW g \in AFrame, Len(g.todo) <= k
  PROVE  Affordable(k, Append(frames, g), calls, 0)
  <1>1. PICK D : D = Len(frames)
    OBVIOUS
  <1>2. PICK n, C : n = Len(Top(frames).todo) /\ C = Cost(k, D)
    OBVIOUS
  <1>3. n \in Nat \ {0} /\ C \in Nat \ {0} /\ D \in 1..Len(frames)
        /\ D \in 1..MaxNested + 1 /\ frames \in Seq(AFrame)
    BY <1>1, <1>2, StackNumbers DEF LimitedStack
  <1>4. PICK b : Paced(k, frames, b) /\ calls + n * C <= b[D] + 1
    BY <1>1, <1>2 DEF Affordable, Top
  <1>5. b \in Seq(Nat) /\ Len(b) = D /\ b[D] \in Nat /\ b[D] <= Limit(k, frames[1].kind)
    BY <1>1, <1>3, <1>4 DEF Paced
  <1>6. n * C \in Nat /\ n * C = (n - 1) * C + C /\ (n - 1) * C \in Nat
    BY <1>3, Times
  <1>7. PICK x : x = calls + C - 1
    OBVIOUS
  <1>8. x \in Nat /\ x + (n - 1) * C <= b[D] /\ x <= b[D]
    <2>1. PICK rest, all, most : rest = (n - 1) * C /\ all = n * C /\ most = b[D]
      OBVIOUS
    <2>2. /\ rest \in Nat /\ all \in Nat /\ most \in Nat
          /\ all = rest + C /\ calls + all <= most + 1
      BY <1>4, <1>5, <1>6, <2>1
    <2>3. x \in Nat /\ x + rest <= most /\ x <= most
      BY <1>3, <1>7, <2>2
    <2> QED BY <2>1, <2>3
  <1>9. PICK new, a : new = Append(frames, g) /\ a = Append(b, x)
    OBVIOUS
  <1>10. /\ new \in Seq(AFrame) /\ Len(new) = D + 1 /\ new[D + 1] = g
         /\ \A d \in 1..D : new[d] = frames[d]
    BY <1>1, <1>3, <1>9, AppendFacts
  <1>11. /\ a \in Seq(Nat) /\ Len(a) = D + 1 /\ a[D + 1] = x
         /\ \A d \in 1..D : a[d] = b[d]
    BY <1>5, <1>8, <1>9, AppendFacts
  <1>12. new[1] = frames[1] /\ Limit(k, frames[1].kind) \in Nat
    BY <1>3, <1>10, LimitFacts
  <1>13. \A d \in 1..D + 1 : d = D + 1 \/ d \in 1..D
    BY <1>3
  <1>14. \A d \in 1..D + 1 : a[d] <= Limit(k, new[1].kind)
    <2>1. x <= Limit(k, frames[1].kind)
      BY <1>5, <1>8, <1>12
    <2> QED BY <1>1, <1>4, <1>11, <1>12, <1>13, <2>1 DEF Paced
  <1>15. ASSUME NEW d \in 1..D + 1, d > 1
         PROVE  a[d] + (Len(new[d - 1].todo) - 1) * Cost(k, d - 1) <= a[d - 1]
    <2>1. d - 1 \in 1..D /\ a[d - 1] = b[d - 1] /\ new[d - 1] = frames[d - 1]
      BY <1>3, <1>10, <1>11, <1>15
    <2>2. CASE d = D + 1
      <3>1. d - 1 = D
        BY <1>3, <2>2
      <3> QED BY <1>1, <1>2, <1>8, <1>11, <2>1, <2>2, <3>1 DEF Top
    <2>3. CASE d # D + 1
      BY <1>1, <1>4, <1>11, <1>13, <1>15, <2>1, <2>3 DEF Paced
    <2> QED BY <2>2, <2>3
  <1>16. Paced(k, new, a)
    BY <1>10, <1>11, <1>14, <1>15 DEF Paced
  <1>17. calls + Len(g.todo) * Cost(k, D + 1) <= x + 0
    <2>1. D + 1 \in 1..MaxNested + 1 /\ MaxNested + 2 - (D + 1) = MaxNested + 1 - D
      BY <1>1, <1>3, NestedAssumption
    <2>2. Len(g.todo) \in Nat
      BY DEF AFrame
    <2>3. Tries(k)[MaxNested + 1 - D] = C - 1
      BY <1>2, <1>3, CostFacts
    <2>4. Len(g.todo) * Cost(k, D + 1) <= Tries(k)[MaxNested + 2 - (D + 1)]
      BY <2>1, <2>2, CostFacts
    <2>5. PICK y : y = Len(g.todo) * Cost(k, D + 1)
      OBVIOUS
    <2>6. y <= C - 1
      BY <2>1, <2>3, <2>4, <2>5
    <2>7. y \in Nat
      <3>1. Cost(k, D + 1) \in Nat
        BY <2>1, CostFacts
      <3> QED BY <2>2, <2>5, <3>1
    <2> QED BY <1>3, <1>7, <2>5, <2>6, <2>7
  <1> QED BY <1>9, <1>10, <1>11, <1>16, <1>17 DEF Affordable

\* The frame on top is done with.
LEMMA TopIsDone ==
  ASSUME NEW k \in Nat, NEW frames, LimitedStack(frames), Top(frames).todo = <<>>,
         Len(frames) > 1, NEW calls \in Nat, Affordable(k, frames, calls, 0)
  PROVE  Spent(k, Front(frames), calls)
  <1>1. PICK D : D = Len(frames)
    OBVIOUS
  <1>2. /\ Len(Top(frames).todo) = 0 /\ D \in 1..MaxNested + 1 /\ Cost(k, D) \in Nat
        /\ frames \in Seq(AFrame) /\ frames # <<>>
    BY <1>1, StackNumbers DEF LimitedStack
  <1>3. PICK b : Paced(k, frames, b) /\ calls + 0 * Cost(k, D) <= b[D] + 0
    BY <1>1, <1>2 DEF Affordable, Top
  <1>4. b \in Seq(Nat) /\ Len(b) = D /\ b # <<>> /\ D - 1 \in 1..D /\ D \in 1..Len(frames)
    BY <1>1, <1>2, <1>3, EmptySeq DEF Paced
  <1>5. PICK below, a : below = Front(frames) /\ a = Front(b)
    OBVIOUS
  <1>6. /\ below \in Seq(AFrame) /\ Len(below) = D - 1
        /\ \A d \in 1..D - 1 : below[d] = frames[d]
    BY <1>1, <1>2, <1>5, FrontFacts
  <1>7. a \in Seq(Nat) /\ Len(a) = D - 1 /\ \A d \in 1..D - 1 : a[d] = b[d]
    BY <1>4, <1>5, FrontFacts
  <1>8. Paced(k, below, a)
    <2>1. \A d \in 1..D - 1 : d \in 1..D /\ (d > 1 => d - 1 \in 1..D - 1) /\ 1 \in 1..D - 1
      BY <1>2
    <2> QED BY <1>1, <1>3, <1>6, <1>7, <2>1 DEF Paced
  <1>9. calls <= b[D] /\ b[D] \in Nat /\ b[D - 1] \in Nat
    BY <1>2, <1>3, <1>4
  <1>10. b[D] + (Len(frames[D - 1].todo) - 1) * Cost(k, D - 1) <= b[D - 1]
    BY <1>1, <1>3, <1>4 DEF Paced
  <1>11. PICK y : y = (Len(frames[D - 1].todo) - 1) * Cost(k, D - 1)
    OBVIOUS
  <1>12. y \in Int
    <2>1. D - 1 \in 1..MaxNested + 1 /\ frames[D - 1] \in AFrame
      BY <1>1, <1>2, <1>4, NestedAssumption
    <2>2. frames[D - 1].todo \in Seq(Mapping)
      BY <2>1 DEF AFrame
    <2>3. Len(frames[D - 1].todo) \in Nat
      BY <2>2
    <2>4. Cost(k, D - 1) \in Nat
      BY <2>1, CostFacts
    <2> QED BY <1>11, <2>3, <2>4
  <1>13. calls + y <= b[D - 1]
    BY <1>9, <1>10, <1>11, <1>12
  <1>14. Top(below).todo = frames[D - 1].todo /\ a[D - 1] = b[D - 1]
    BY <1>1, <1>2, <1>6, <1>7 DEF Top
  <1> QED BY <1>5, <1>6, <1>8, <1>11, <1>13, <1>14 DEF Spent

\* The next mapping is in hand.
LEMMA NextInHand ==
  ASSUME NEW k \in Nat, NEW frames, LimitedStack(frames), NEW calls \in Nat,
         Spent(k, frames, calls), NEW new, Len(new) = Len(frames),
         new[1].kind = frames[1].kind, \A d \in 1..Len(frames) - 1 : new[d] = frames[d],
         Len(Top(new).todo) = Len(Top(frames).todo) - 1
  PROVE  Affordable(k, new, calls, 0)
  <1>1. PICK D : D = Len(frames)
    OBVIOUS
  <1>2. PICK b : Paced(k, frames, b)
                 /\ calls + (Len(Top(frames).todo) - 1) * Cost(k, D) <= b[D]
    BY <1>1 DEF Spent
  <1>3. D \in 1..Len(frames)
    BY <1>1, StackNumbers
  <1>4. b[D] \in Nat
    BY <1>1, <1>2, <1>3 DEF Paced
  <1>5. Paced(k, new, b)
    <2>1. \A d \in 1..D : d > 1 => d - 1 \in 1..D - 1
      BY <1>3
    <2> QED BY <1>1, <1>2, <2>1 DEF Paced
  <1>6. calls + Len(new[D].todo) * Cost(k, D) <= b[D] + 0
    <2>1. Len(new[D].todo) = Len(Top(frames).todo) - 1 /\ b[D] + 0 = b[D]
      BY <1>1, <1>4 DEF Top
    <2>2. PICK n : n = Len(Top(frames).todo) - 1
      OBVIOUS
    <2>3. calls + n * Cost(k, D) <= b[D] /\ n = Len(new[D].todo)
      BY <1>2, <2>1, <2>2
    <2> QED BY <2>1, <2>3
  <1> QED BY <1>1, <1>5, <1>6 DEF Affordable

\* An error of a frame changes nothing.
LEMMA SameEffort ==
  ASSUME NEW k \in Nat, NEW frames, LimitedStack(frames), NEW calls \in Nat, NEW made,
         Affordable(k, frames, calls, made), NEW new, Len(new) = Len(frames),
         new[1].kind = frames[1].kind, \A d \in 1..Len(frames) - 1 : new[d] = frames[d],
         Top(new).todo = Top(frames).todo
  PROVE  Affordable(k, new, calls, made)
  <1>1. PICK D : D = Len(frames)
    OBVIOUS
  <1>2. PICK b : Paced(k, frames, b)
                 /\ calls + Len(Top(frames).todo) * Cost(k, D) <= b[D] + made
    BY <1>1 DEF Affordable, Top
  <1>3. D \in 1..Len(frames)
    BY <1>1, StackNumbers
  <1>4. Paced(k, new, b)
    <2>1. \A d \in 1..D : d > 1 => d - 1 \in 1..D - 1
      BY <1>3
    <2> QED BY <1>1, <1>2, <2>1 DEF Paced
  <1>5. calls + Len(new[D].todo) * Cost(k, D) <= b[D] + made
    BY <1>1, <1>2 DEF Top
  <1> QED BY <1>1, <1>4, <1>5 DEF Affordable

\* In any case the limit is kept.
LEMMA WithinLimit ==
  ASSUME NEW k \in Nat, NEW frames, LimitedStack(frames), NEW calls \in Nat,
         \/ Spent(k, frames, calls) /\ Top(frames).todo # <<>>
         \/ Affordable(k, frames, calls, 0)
  PROVE  calls <= Limit(k, frames[1].kind) /\ calls <= 2 * MostCalls(k) + 2 * k + 1
  <1>1. PICK D : D = Len(frames)
    OBVIOUS
  <1>2. PICK n, C : n = Len(Top(frames).todo) /\ C = Cost(k, D)
    OBVIOUS
  <1>3. n \in Nat /\ C \in Nat /\ D \in 1..Len(frames)
        /\ (Top(frames).todo # <<>> => n # 0)
    BY <1>1, <1>2, StackNumbers
  <1>4. PICK b : Paced(k, frames, b)
                 /\ \/ calls + (n - 1) * C <= b[D] /\ n # 0
                    \/ calls + n * C <= b[D] + 0
    BY <1>1, <1>2, <1>3 DEF Spent, Affordable, Top
  <1>5. b[D] \in Nat /\ b[D] <= Limit(k, frames[1].kind)
    BY <1>1, <1>3, <1>4 DEF Paced
  <1>6. n * C \in Nat /\ (n # 0 => (n - 1) * C \in Nat)
    BY <1>3
  <1>7. calls <= b[D]
    BY <1>4, <1>5, <1>6
  <1>8. PICK x : x = Limit(k, frames[1].kind)
    OBVIOUS
  <1>9. x \in Nat /\ x <= 2 * MostCalls(k) + 2 * k + 1 /\ MostCalls(k) \in Nat
    BY <1>8, LimitFacts, MostCallsFacts
  <1>10. calls <= x
    BY <1>5, <1>7, <1>8, <1>9
  <1>11. calls <= 2 * MostCalls(k) + 2 * k + 1
    BY <1>9, <1>10
  <1> QED BY <1>8, <1>10, <1>11

-----------------------------------------------------------------------------
(* Records of calls *)

\* Types of the values a call begins with.
LEMMA SomePaths ==
  /\ <<>> \in Path /\ <<>> \in Seq(Target) /\ <<>> \in Seq(AFrame) /\ None \in Errors
  /\ \A path \in Path : EntryOf(path) \in Path
  <1>1. ASSUME NEW path \in Path PROVE EntryOf(path) \in Path
    <2>1. "x" \in Names
      BY NamesAssumption
    <2>2. Append(path, "x") \in Path
      BY <2>1, EntryBelow, Zenon
    <2> QED BY <2>2 DEF EntryOf
  <1> QED BY <1>1, EmptyPath, EmptySeq DEF Errors

\* The limit for the calls of an operation that is over.
LastLimit(k, req) == IF req.kind = "copy" THEN 2 ELSE 2 * MostCalls(k) + 2 * k + 1

\* What an operation may have touched when it is over.
Served(worlds, req, touched) ==
  \/ req.kind = "rename" /\ CrossesLink(worlds, req)
  \/ \A end \in touched : end[2] \in Reach(worlds, end[1])

\* A call that ends with a result keeps the invariant when it was served in its limit,
LEMMA FinishedInv ==
  ASSUME NEW worlds, NEW k \in Nat, NEW c \in ACall, c.req \in Request,
         NEW result \in Errors \cup {"ok"}, NEW touched \in SUBSET (Path \X Place),
         NEW named \in Path, result = "ok" => Served(worlds, c.req, touched),
         c.req.kind = "list" /\ result = "ok" /\ ~LeadsPastReferral(worlds) =>
           named = EntryOf(c.req.path),
         c.calls <= LastLimit(k, c.req)
  PROVE  CallInv(worlds, k, Finished(c, result, touched, named))
  <1>1. PICK d : d = Finished(c, result, touched, named)
    OBVIOUS
  <1>2. d = [at |-> "done", req |-> c.req, frames |-> <<>>, todo |-> <<>>,
             error |-> None, result |-> result,
             touched |-> IF result = "ok" THEN touched ELSE {}, named |-> named,
             calls |-> c.calls]
    BY <1>1 DEF Finished, NoCall
  <1>3. d \in ACall
    BY <1>2, SomePaths DEF ACall, Steps
  <1>4. d.at = "done" /\ d.req = c.req /\ d.result = result /\ d.named = named
        /\ d.calls = c.calls /\ (d.touched = touched \/ d.touched = {})
        /\ (result # "ok" => d.touched = {})
    BY <1>2
  <1>5. Served(worlds, d.req, d.touched)
    BY <1>4 DEF Served
  <1>6. AtEnd(worlds, k, d)
    BY <1>4, <1>5 DEF AtEnd, Served, LastLimit
  <1>7. AtShare(worlds, k, d) /\ AtPath(worlds, k, d) /\ AtFrames(worlds, k, d)
    BY <1>4 DEF AtShare, AtPath, AtFrames
  <1>8. d.at \in StepsOf(d.req.kind)
    BY <1>4 DEF StepsOf
  <1> QED BY <1>1, <1>3, <1>4, <1>6, <1>7, <1>8 DEF CallInv

\* and one that ends with an error when it was in its limit.
LEMMA FailedInv ==
  ASSUME NEW worlds, NEW k \in Nat, NEW c \in ACall, c.req \in Request,
         NEW error \in Errors, c.calls <= LastLimit(k, c.req)
  PROVE  CallInv(worlds, k, Failed(c, error))
  <1>1. error # "ok"
    BY NoneAssumption DEF Errors
  <1>2. {} \in SUBSET (Path \X Place) /\ <<>> \in Path /\ error \in Errors \cup {"ok"}
    BY SomePaths
  <1>3. CallInv(worlds, k, Finished(c, error, {}, <<>>))
    BY <1>1, <1>2, FinishedInv
  <1> QED BY <1>3 DEF Failed

\* Before anything else is known, an operation goes to the share it names.
LEMMA RootIsReached ==
  ASSUME NEW worlds, NEW path
  PROVE  Location(Root, path) \in Reach(worlds, path)
  <1>1. Location(Root, path) \in Stages(worlds, path)[0] /\ 0 \in 0..MaxNested + 1
    BY StagesFacts, NestedAssumption
  <1> QED BY <1>1, StagesInReach

\* One step of the namespace.
LEMMA OneStepReached ==
  ASSUME NEW worlds, NEW path, NEW place \in LeadsTo(worlds, Location(Root, path))
  PROVE  place \in Reach(worlds, path)
  <1>1. PICK start : start = Location(Root, path)
    OBVIOUS
  <1>2. start \in Stages(worlds, path)[0] /\ 0 \in 0..MaxNested /\ 0 + 1 = 1
        /\ 1 \in 0..MaxNested + 1
    BY <1>1, StagesFacts, NestedAssumption
  <1>3. place \in Stages(worlds, path)[0 + 1]
    BY <1>1, <1>2, StageLeads
  <1>4. place \in Stages(worlds, path)[1]
    BY <1>2, <1>3
  <1> QED BY <1>2, <1>4, StagesInReach

\* A target of the root share serves every path.
LEMMA RootTargetReached ==
  ASSUME NEW worlds, NEW k, NEW targets, targets # <<>>, Rooted(worlds, k, Root, targets),
         NEW path \in Path
  PROVE  /\ Location(targets[1].share, path) \in Reach(worlds, path)
         /\ targets[1].share \in Shares /\ targets[1] = Head(targets)
  <1>1. targets \in Seq(Target)
    BY DEF Rooted
  <1>2. 1 \in DOMAIN targets /\ targets[1] \in Target /\ targets[1] = Head(targets)
    BY <1>1, TailFacts
  <1>3. Location(targets[1].share, path) \in LeadsTo(worlds, Location(Root, path))
    BY <1>2, RootLeads, SharesAssumption
  <1>4. targets[1].share \in Shares
    BY <1>2 DEF Target
  <1> QED BY <1>2, <1>3, <1>4, OneStepReached

\* A mapping of the connection's share.
LEMMA MappingReached ==
  ASSUME NEW worlds, NEW k, NEW ms, ms # <<>>, Backed(worlds, k, Root, ms),
         NEW path \in Path, IsPrefix(ms[1].orig, path)
  PROVE  /\ Location(ms[1].share, TargetPath(ms[1], path)) \in Reach(worlds, path)
         /\ Location(ms[1].share, TargetPath(ms[1], path)) \in Place
         /\ ms[1] \in Mapping /\ ms[1] = Head(ms) /\ Leads(worlds, Root, ms[1])
  <1>1. ms \in Seq(Mapping)
    BY DEF Backed
  <1>2. PICK m : m = ms[1]
    OBVIOUS
  <1>3. 1 \in DOMAIN ms /\ m \in Mapping /\ m = Head(ms)
    BY <1>1, <1>2, TailFacts
  <1>4. Leads(worlds, Root, m) /\ IsPrefix(m.orig, path)
    BY <1>2, <1>3 DEF Backed
  <1>5. /\ TargetPath(m, path) \in Path
        /\ Location(m.share, TargetPath(m, path)) \in LeadsTo(worlds, Location(Root, path))
    BY <1>3, <1>4, MappingLeads, SharesAssumption
  <1>6. Location(m.share, TargetPath(m, path)) \in Reach(worlds, path)
    BY <1>5, OneStepReached
  <1>7. Location(m.share, TargetPath(m, path)) \in Place
    BY <1>3, <1>5 DEF Mapping, Location, Place
  <1> QED BY <1>2, <1>3, <1>4, <1>6, <1>7

\* The answer of a share that serves the path.
LEMMA AfterShareInv ==
  ASSUME NEW worlds, NEW k \in Nat, NEW c \in ACall, c.req \in Request,
         c.req.kind # "copy", NEW share \in Shares, NEW answer \in Errors \cup {"ok"},
         \A path \in Path : Location(share, path) \in Reach(worlds, path),
         c.calls <= MostCalls(k) + 2 * k + 1
  PROVE  CallInv(worlds, k, AfterShare(c, share, answer))
  <1>1. /\ c.req.path \in Path /\ c.req.to \in Path
        /\ c.req.kind \in {"check", "list", "rename", "copy"}
    BY DEF Request
  <1>2. c.calls <= LastLimit(k, c.req)
    <2>1. c.calls \in Nat /\ MostCalls(k) \in Nat
      BY MostCallsFacts DEF ACall, Steps
    <2> QED BY <2>1 DEF LastLimit
  <1>3. CASE answer = "ok"
    <2>1. PICK touched : touched = Touches(c.req, share)
      OBVIOUS
    <2>2. touched \in SUBSET (Path \X Place)
      BY <1>1, <2>1 DEF Touches, Location, Place
    <2>3. \A end \in touched : end[2] \in Reach(worlds, end[1])
      BY <1>1, <2>1 DEF Touches
    <2>4. Served(worlds, c.req, touched)
      BY <2>3 DEF Served
    <2>5. PICK named : named = EntryOf(c.req.path)
      OBVIOUS
    <2>6. named \in Path /\ Append(c.req.path, "x") = named
      BY <1>1, <2>5, SomePaths DEF EntryOf
    <2>7. CallInv(worlds, k, Finished(c, "ok", touched, named))
      BY <1>2, <2>2, <2>4, <2>5, <2>6, FinishedInv
    <2> QED BY <1>3, <2>1, <2>6, <2>7 DEF AfterShare
  <1>4. CASE answer # "ok" /\ (\/ c.req.kind = "list" /\ MayHavePathReferral(answer)
                               \/ c.req.kind = "rename" /\ PathReferral(answer))
    <2>1. PICK d : d = [c EXCEPT !.at = "resolvePath", !.error = answer]
      OBVIOUS
    <2>2. answer \in Errors
      BY <1>4
    <2>3. d \in ACall /\ d.at = "resolvePath" /\ d.req = c.req /\ d.calls = c.calls
      BY <2>1, <2>2 DEF ACall, Steps
    <2>4. d.at \in StepsOf(d.req.kind)
      BY <1>4, <2>3 DEF StepsOf
    <2>5. AtShare(worlds, k, d) /\ AtPath(worlds, k, d) /\ AtFrames(worlds, k, d)
          /\ AtEnd(worlds, k, d)
      BY <2>3 DEF AtShare, AtPath, AtFrames, AtEnd
    <2>6. CallInv(worlds, k, d)
      BY <2>3, <2>4, <2>5 DEF CallInv
    <2> QED BY <1>4, <2>1, <2>6 DEF AfterShare
  <1>5. CASE answer # "ok" /\ ~(\/ c.req.kind = "list" /\ MayHavePathReferral(answer)
                                \/ c.req.kind = "rename" /\ PathReferral(answer))
    <2>1. CallInv(worlds, k, Failed(c, answer))
      BY <1>2, <1>5, FailedInv
    <2> QED BY <1>5, <2>1 DEF AfterShare
  <1> QED BY <1>3, <1>4, <1>5

\* A mapping has failed: the operation fails, starts again without the cache, or goes
\* on with the next mapping.
LEMMA AfterMappingInv ==
  ASSUME NEW worlds, NEW k \in Nat, NEW c \in ACall, c.req \in Request, c.req.kind = "list",
         NEW frames, frames # <<>>, Stack(worlds, k, c.req.path, frames),
         Top(frames).todo # <<>>, Spent(k, frames, c.calls),
         NEW error \in Errors, NEW nested \in Errors
  PROVE  CallInv(worlds, k, AfterMapping(c, frames, error, nested))
  <1>1. c.req.path \in Path /\ c.calls \in Nat /\ MostCalls(k) \in Nat
    BY MostCallsFacts DEF Request, ACall
  <1>2. PICK D, f : D = Len(frames) /\ f = frames[D]
    OBVIOUS
  <1>3. /\ D \in 1..MaxNested + 1 /\ D \in 1..Len(frames) /\ f \in AFrame
        /\ f = Last(frames) /\ Level(worlds, k, c.req.path, f, D)
        /\ f.todo \in Seq(Mapping) /\ frames \in Seq(AFrame)
        /\ Bottom(c.req.path, frames[1]) /\ (D > 1 => f.kind = "nested")
    BY <1>1, <1>2, TopFrame
  <1>4. LimitedStack(frames) /\ Top(frames) = f
    BY <1>2, <1>3 DEF LimitedStack, Top, Stack
  <1>5. c.calls <= Limit(k, frames[1].kind) /\ c.calls <= 2 * MostCalls(k) + 2 * k + 1
    BY <1>1, <1>4, WithinLimit
  <1>6. c.calls <= LastLimit(k, c.req)
    BY <1>5 DEF LastLimit
  <1>7. CASE nested # None /\ ~Failover(nested)
    BY <1>3, <1>6, <1>7, FailedInv DEF AfterMapping
  <1>8. CASE ~(nested # None /\ ~Failover(nested)) /\ f.kind = "cached" /\ DfsReferral(error)
    <2>1. PICK d : d = [c EXCEPT !.at = "share", !.frames = <<>>]
      OBVIOUS
    <2>2. d \in ACall /\ d.at = "share" /\ d.req = c.req /\ d.calls = c.calls
      BY <2>1, SomePaths DEF ACall, Steps
    <2>3. D = 1
      BY <1>3, <1>8
    <2>4. d.calls <= MostCalls(k)
      BY <1>2, <1>5, <1>8, <2>2, <2>3 DEF Limit
    <2>5. d.at \in StepsOf(d.req.kind)
      BY <2>2 DEF StepsOf, ShareSteps
    <2>6. AtShare(worlds, k, d) /\ AtPath(worlds, k, d) /\ AtFrames(worlds, k, d)
          /\ AtEnd(worlds, k, d)
      BY <2>2, <2>4 DEF AtShare, AtPath, AtFrames, AtEnd
    <2>7. CallInv(worlds, k, d)
      BY <2>2, <2>5, <2>6 DEF CallInv
    <2> QED BY <1>3, <1>8, <2>1, <2>7 DEF AfterMapping
  <1>9. CASE /\ ~(nested # None /\ ~Failover(nested)) /\ ~(f.kind = "cached" /\ DfsReferral(error))
             /\ ~Failover(error)
    BY <1>3, <1>6, <1>9, FailedInv DEF AfterMapping
  <1>10. CASE /\ ~(nested # None /\ ~Failover(nested)) /\ ~(f.kind = "cached" /\ DfsReferral(error))
              /\ Failover(error)
    <2>1. PICK g : g = [f EXCEPT !.todo = Tail(@), !.error = None, !.last = error]
      OBVIOUS
    <2>2. Tail(f.todo) \in Seq(Mapping) /\ Len(Tail(f.todo)) = Len(f.todo) - 1
      BY <1>3, <1>4, TailFacts
    <2>3. /\ g \in AFrame /\ g.kind = f.kind /\ g.outer = f.outer /\ g.path = f.path
          /\ g.todo = Tail(f.todo)
      BY <1>3, <2>1, <2>2, SomePaths DEF AFrame
    <2>4. Backed(worlds, k, ShareOf(f), g.todo) /\ Covers(g.todo, g.path)
      <3>1. Backed(worlds, k, ShareOf(f), Tail(f.todo)) /\ Covers(Tail(f.todo), f.path)
        BY <1>3, <1>4, TailBacked DEF Level
      <3> QED BY <2>3, <3>1
    <2>5. PICK new : new = Append(Front(frames), g)
      OBVIOUS
    <2>6. /\ new \in Seq(AFrame) /\ Len(new) = D /\ new[D] = g
          /\ \A d \in 1..D - 1 : new[d] = frames[d]
      <3>1. PICK below : below = Front(frames)
        OBVIOUS
      <3>2. below \in Seq(AFrame) /\ Len(below) = D - 1
            /\ \A d \in 1..D - 1 : below[d] = frames[d]
        BY <1>2, <1>3, <3>1, FrontFacts
      <3>3. /\ new \in Seq(AFrame) /\ Len(new) = (D - 1) + 1 /\ new[(D - 1) + 1] = g
            /\ \A d \in 1..D - 1 : new[d] = below[d]
        BY <2>3, <2>5, <3>1, <3>2, AppendFacts
      <3>4. (D - 1) + 1 = D
        BY <1>3
      <3> QED BY <3>2, <3>3, <3>4
    <2>7. Stack(worlds, k, c.req.path, new) /\ new # <<>> /\ new[1].kind = frames[1].kind
      BY <1>1, <1>2, <2>3, <2>4, <2>6, TopReplaced
    <2>8. Affordable(k, new, c.calls, 0)
      <3>1. Len(Top(new).todo) = Len(Top(frames).todo) - 1
        BY <1>4, <2>2, <2>3, <2>6 DEF Top
      <3> QED BY <1>1, <1>2, <1>4, <2>6, <2>7, <3>1, NextInHand
    <2>9. PICK d : d = [c EXCEPT !.at = "frames", !.frames = new]
      OBVIOUS
    <2>10. d \in ACall /\ d.at = "frames" /\ d.req = c.req /\ d.calls = c.calls
           /\ d.frames = new
      BY <2>6, <2>9 DEF ACall, Steps
    <2>11. d.at \in StepsOf(d.req.kind)
      BY <2>10 DEF StepsOf, ShareSteps
    <2>12. AtShare(worlds, k, d) /\ AtPath(worlds, k, d) /\ AtFrames(worlds, k, d)
           /\ AtEnd(worlds, k, d)
      BY <2>7, <2>8, <2>10 DEF AtShare, AtPath, AtFrames, AtEnd
    <2>13. CallInv(worlds, k, d)
      BY <2>10, <2>11, <2>12 DEF CallInv
    <2> QED BY <1>3, <1>10, <2>1, <2>5, <2>9, <2>13 DEF AfterMapping
  <1> QED BY <1>7, <1>8, <1>9, <1>10

-----------------------------------------------------------------------------
(* The steps of a call *)

\* Answers of a server are results,
LEMMA AnswersType ==
  ASSUME InHistory, NEW place, place.share \in Shares
  PROVE  Answers(place) \subseteq Errors \cup {"ok"}
  <1>1. World.status[place.share] \in {"up", "down", "gone", "closed", "denying"}
    BY WorldFacts DEF AnyWorld
  <1> QED BY <1>1 DEF Answers, Errors

\* of two places,
LEMMA AnswersBothType ==
  ASSUME InHistory, NEW from, from.share \in Shares, NEW to, to.share \in Shares
  PROVE  AnswersBoth(from, to) \subseteq Errors \cup {"ok"}
  BY AnswersType DEF AnswersBoth

\* and of the places of a request.
LEMMA AnswersAtType ==
  ASSUME InHistory, NEW req, NEW share \in Shares
  PROVE  AnswersAt(req, share) \subseteq Errors \cup {"ok"}
  <1>1. Location(share, req.path).share = share /\ Location(share, req.to).share = share
    BY DEF Location
  <1> QED BY <1>1, AnswersType, AnswersBothType DEF AnswersAt

\* What the invariant says of a call.
LEMMA CallFacts ==
  ASSUME Inv, NEW t \in Threads, NEW c, c = call[t]
  PROVE  /\ InHistory /\ MostTargets \in Nat /\ MostCalls(MostTargets) \in Nat
         /\ CallInv(Past, MostTargets, c) /\ c \in ACall /\ c.calls \in Nat
         /\ c.at # "idle" => /\ c.req \in Request /\ c.req.path \in Path
                             /\ c.req.to \in Path /\ c.at \in StepsOf(c.req.kind)
         /\ ConnectionCache(Past, MostTargets, resolvedConnections)
         /\ MappingCache(Past, MostTargets, resolvedMappings)
  <1>1. InHistory /\ CallInv(Past, MostTargets, c)
        /\ ConnectionCache(Past, MostTargets, resolvedConnections)
        /\ MappingCache(Past, MostTargets, resolvedMappings)
    BY DEF Inv
  <1>2. MostTargets \in Nat
    BY <1>1, WorldFacts
  <1>3. c \in ACall /\ (c.at # "idle" => c.req \in Request /\ c.at \in StepsOf(c.req.kind))
    BY <1>1 DEF CallInv
  <1>4. c.calls \in Nat
    BY <1>3 DEF ACall
  <1>5. c.at # "idle" => c.req.path \in Path /\ c.req.to \in Path
    BY <1>3 DEF Request
  <1> QED BY <1>1, <1>2, <1>3, <1>4, <1>5, MostCallsFacts

\* A step of one thread: it is enough to look at its call and at the caches.
LEMMA StepKeeps ==
  ASSUME Inv, NEW t \in Threads, NEW d, CallInv(Past, MostTargets, d), Goes(t, d),
         ConnectionCache(Past, MostTargets, resolvedConnections'),
         MappingCache(Past, MostTargets, resolvedMappings'), UNCHANGED <<history, now>>
  PROVE  Inv'
  <1>1. Past' = Past
    BY DEF Past
  <1>2. MostTargets' = MostTargets
    BY DEF MostTargets
  <1>3. InHistory'
    BY DEF Inv, InHistory
  <1>4. DOMAIN call' = Threads
        /\ \A s \in Threads : call'[s] = IF s = t THEN d ELSE call[s]
    BY DEF Inv, Goes
  <1>5. \A s \in Threads : CallInv(Past, MostTargets, call'[s])
    BY <1>4 DEF Inv
  <1>6. \A s \in Threads : CallInv(Past', MostTargets', call'[s])
    BY <1>1, <1>2, <1>5
  <1>7. ConnectionCache(Past', MostTargets', resolvedConnections')
        /\ MappingCache(Past', MostTargets', resolvedMappings')
    BY <1>1, <1>2
  <1> QED BY <1>3, <1>4, <1>6, <1>7 DEF Inv

\* A call that goes on with another step of an operation on shares.
LEMMA ShareStep ==
  ASSUME NEW worlds, NEW k, NEW c \in ACall, NEW d \in ACall, d.req = c.req,
         c.req \in Request, d.at \in ShareSteps, c.req.kind # "copy",
         AtShare(worlds, k, d)
  PROVE  CallInv(worlds, k, d)
  <1>1. d.at \in StepsOf(d.req.kind)
    BY DEF StepsOf, Request
  <1>2. AtPath(worlds, k, d) /\ AtFrames(worlds, k, d) /\ AtEnd(worlds, k, d)
        /\ d.at # "idle"
    BY DEF AtPath, AtFrames, AtEnd, ShareSteps
  <1> QED BY <1>1, <1>2 DEF CallInv

\* One lemma per action: a call begins.
LEMMA StartKeeps ==
  ASSUME Inv, NEW t \in Threads, Start(t)
  PROVE  Inv'
  <1>1. InHistory /\ MostTargets \in Nat /\ MostCalls(MostTargets) \in Nat
        /\ ConnectionCache(Past, MostTargets, resolvedConnections)
        /\ MappingCache(Past, MostTargets, resolvedMappings)
    BY CallFacts
  <1>2. PICK req \in Requests[t] :
          Goes(t, [NoCall EXCEPT !.at = FirstStep(req.kind), !.req = req])
    BY DEF Start
  <1>3. req \in Request
    BY RequestsAssumption
  <1>4. PICK d : d = [NoCall EXCEPT !.at = FirstStep(req.kind), !.req = req]
    OBVIOUS
  <1>5. req.kind \in {"check", "list", "rename", "copy"}
    BY <1>3 DEF Request
  <1>6. FirstStep(req.kind) \in Steps /\ FirstStep(req.kind) \in StepsOf(req.kind)
        /\ FirstStep(req.kind) \in {"share", "lookup", "rename", "copy"}
    BY <1>5 DEF FirstStep, StepsOf, ShareSteps, Steps
  <1>7. d = [at |-> FirstStep(req.kind), req |-> req, frames |-> <<>>, todo |-> <<>>,
             error |-> None, result |-> None, touched |-> {}, named |-> <<>>,
             calls |-> 0]
    BY <1>4 DEF NoCall
  <1>8. d \in ACall
    BY <1>3, <1>6, <1>7, SomePaths DEF ACall
  <1>9. d.at \in {"share", "lookup", "rename", "copy"} /\ d.req = req /\ d.calls = 0
        /\ d.at \in StepsOf(d.req.kind)
    BY <1>6, <1>7
  <1>10. /\ AtShare(Past, MostTargets, d) /\ AtPath(Past, MostTargets, d)
         /\ AtFrames(Past, MostTargets, d) /\ AtEnd(Past, MostTargets, d)
    BY <1>1, <1>9 DEF AtShare, AtPath, AtFrames, AtEnd
  <1>11. CallInv(Past, MostTargets, d)
    BY <1>3, <1>8, <1>9, <1>10 DEF CallInv
  <1>12. Goes(t, d)
    BY <1>2, <1>4
  <1>13. UNCHANGED <<history, now, resolvedConnections, resolvedMappings>>
    BY DEF Start
  <1> QED BY <1>1, <1>11, <1>12, <1>13, StepKeeps

\* A share is looked up in the cache.
LEMMA ShareLookupKeeps ==
  ASSUME Inv, NEW t \in Threads, ShareLookup(t)
  PROVE  Inv'
  <1>1. PICK c : c = call[t]
    OBVIOUS
  <1>2. /\ InHistory /\ MostTargets \in Nat /\ MostCalls(MostTargets) \in Nat
        /\ CallInv(Past, MostTargets, c) /\ c \in ACall /\ c.calls \in Nat
        /\ c.at # "idle" => c.req \in Request /\ c.at \in StepsOf(c.req.kind)
        /\ ConnectionCache(Past, MostTargets, resolvedConnections)
        /\ MappingCache(Past, MostTargets, resolvedMappings)
    BY <1>1, CallFacts
  <1>3. c.at = "share" /\ UNCHANGED <<history, now, resolvedConnections, resolvedMappings>>
    BY <1>1 DEF ShareLookup
  <1>4. PICK cached : cached = resolvedConnections[Root]
    OBVIOUS
  <1>5. Rooted(Past, MostTargets, Root, cached) /\ cached \in Seq(Target)
    BY <1>2, <1>4, SharesAssumption DEF ConnectionCache
  <1>6. PICK d : d = [c EXCEPT !.at = IF cached = <<>> THEN "direct" ELSE "cachedShare",
                               !.todo = cached]
    OBVIOUS
  <1>7. /\ d \in ACall /\ d.req = c.req /\ d.calls = c.calls /\ d.todo = cached
        /\ d.at = IF cached = <<>> THEN "direct" ELSE "cachedShare"
    BY <1>2, <1>5, <1>6 DEF ACall, Steps
  <1>8. c.calls <= MostCalls(MostTargets) /\ c.req \in Request /\ c.req.kind # "copy"
    BY <1>2, <1>3 DEF CallInv, AtShare, StepsOf
  <1>9. AtShare(Past, MostTargets, d)
    <2>1. Len(cached) \in Nat /\ Len(cached) <= MostTargets
      BY <1>5 DEF Rooted
    <2> QED BY <1>2, <1>5, <1>7, <1>8, <2>1 DEF AtShare
  <1>10. d.at \in ShareSteps
    BY <1>7 DEF ShareSteps
  <1>11. CallInv(Past, MostTargets, d)
    BY <1>2, <1>7, <1>8, <1>9, <1>10, ShareStep
  <1>12. Goes(t, d)
    BY <1>1, <1>4, <1>6 DEF ShareLookup
  <1> QED BY <1>2, <1>3, <1>11, <1>12, StepKeeps

\* One more call to the backend.
LEMMA CalledFacts ==
  ASSUME NEW c \in ACall
  PROVE  /\ Called(c) \in ACall /\ Called(c).calls = c.calls + 1 /\ c.calls \in Nat
         /\ Called(c).at = c.at /\ Called(c).req = c.req /\ Called(c).frames = c.frames
         /\ Called(c).todo = c.todo /\ Called(c).error = c.error
         /\ Called(c).touched = c.touched
  BY DEF Called, ACall

\* The targets that are left: the one in hand is reached, the others after it.
LEMMA TargetInHand ==
  ASSUME NEW worlds, NEW k \in Nat, NEW targets, targets # <<>>,
         Rooted(worlds, k, Root, targets)
  PROVE  /\ Head(targets).share \in Shares
         /\ \A path \in Path : Location(Head(targets).share, path) \in Reach(worlds, path)
         /\ Len(targets) \in Nat \ {0} /\ Len(Tail(targets)) = Len(targets) - 1
         /\ Rooted(worlds, k, Root, Tail(targets)) /\ Tail(targets) \in Seq(Target)
         /\ (Len(targets) > 1 => Tail(targets) # <<>>)
  <1>1. targets \in Seq(Target)
    BY DEF Rooted
  <1>2. Head(targets) = targets[1] /\ Len(targets) \in Nat \ {0}
        /\ Len(Tail(targets)) = Len(targets) - 1 /\ Tail(targets) \in Seq(Target)
    BY <1>1, TailFacts
  <1>3. targets[1].share \in Shares
    <2>1. targets[1] \in Target
      BY <1>1, TailFacts
    <2> QED BY <2>1 DEF Target
  <1>4. \A path \in Path : Location(targets[1].share, path) \in Reach(worlds, path)
    BY RootTargetReached
  <1>5. Len(targets) > 1 => Tail(targets) # <<>>
    <2>1. PICK rest : rest = Tail(targets)
      OBVIOUS
    <2>2. rest = <<>> => Len(rest) = 0
      BY EmptySeq
    <2> QED BY <1>2, <2>1, <2>2
  <1> QED BY <1>2, <1>3, <1>4, <1>5, TailRooted

\* A cached target of the share is tried.
LEMMA CachedShareKeeps ==
  ASSUME Inv, NEW t \in Threads, CachedShare(t)
  PROVE  Inv'
  <1>1. PICK b : b = call[t]
    OBVIOUS
  <1>2. /\ InHistory /\ MostTargets \in Nat /\ MostCalls(MostTargets) \in Nat
        /\ CallInv(Past, MostTargets, b) /\ b \in ACall
        /\ b.at # "idle" => b.req \in Request /\ b.at \in StepsOf(b.req.kind)
        /\ ConnectionCache(Past, MostTargets, resolvedConnections)
        /\ MappingCache(Past, MostTargets, resolvedMappings)
    BY <1>1, CallFacts
  <1>3. PICK c : c = Called(b)
    OBVIOUS
  <1>4. c \in ACall /\ c.calls = b.calls + 1 /\ b.calls \in Nat /\ c.at = b.at
        /\ c.req = b.req /\ c.todo = b.todo
    BY <1>2, <1>3, CalledFacts
  <1>5. c.at = "cachedShare" /\ UNCHANGED <<history, now, resolvedMappings>>
    BY <1>1, <1>3 DEF CachedShare
  <1>6. PICK todo, share : todo = c.todo /\ share = Head(todo).share
    OBVIOUS
  <1>7. PICK answer \in AnswersAt(c.req, share) :
          IF ShareReferral(answer)
          THEN /\ resolvedConnections' = [resolvedConnections EXCEPT ![Root] = <<>>]
               /\ Goes(t, [c EXCEPT !.at = "direct", !.todo = <<>>])
          ELSE /\ UNCHANGED resolvedConnections
               /\ Goes(t, IF Failover(answer) /\ Len(c.todo) > 1
                          THEN [c EXCEPT !.todo = Tail(@)]
                          ELSE AfterShare([c EXCEPT !.todo = <<>>], share, answer))
    BY <1>1, <1>3, <1>6 DEF CachedShare
  <1>8. /\ Rooted(Past, MostTargets, Root, todo) /\ todo # <<>>
        /\ b.calls + Len(todo) <= MostCalls(MostTargets) + MostTargets
        /\ c.req \in Request /\ c.req.kind # "copy"
    BY <1>2, <1>4, <1>5, <1>6 DEF CallInv, AtShare, StepsOf
  <1>9. /\ share \in Shares
        /\ \A path \in Path : Location(share, path) \in Reach(Past, path)
        /\ Len(todo) \in Nat \ {0} /\ Len(Tail(todo)) = Len(todo) - 1
        /\ Rooted(Past, MostTargets, Root, Tail(todo)) /\ Tail(todo) \in Seq(Target)
        /\ (Len(todo) > 1 => Tail(todo) # <<>>)
    BY <1>2, <1>6, <1>8, TargetInHand
  <1>10. answer \in Errors \cup {"ok"}
    BY <1>2, <1>7, <1>9, AnswersAtType
  <1>11. c.calls <= MostCalls(MostTargets) + MostTargets
    BY <1>2, <1>4, <1>8, <1>9
  <1>12. CASE ShareReferral(answer)
    <2>1. PICK d : d = [c EXCEPT !.at = "direct", !.todo = <<>>]
      OBVIOUS
    <2>2. d \in ACall /\ d.at = "direct" /\ d.req = c.req /\ d.calls = c.calls
      BY <1>4, <2>1, SomePaths DEF ACall, Steps
    <2>3. AtShare(Past, MostTargets, d) /\ d.at \in ShareSteps
      BY <1>11, <2>2 DEF AtShare, ShareSteps
    <2>4. CallInv(Past, MostTargets, d)
      BY <1>4, <1>8, <2>2, <2>3, ShareStep
    <2>5. ConnectionCache(Past, MostTargets, resolvedConnections')
      <3>1. ConnectionCache(Past, MostTargets, [resolvedConnections EXCEPT ![Root] = <<>>])
        BY <1>2, NoTargetsCache, SharesAssumption
      <3> QED BY <1>7, <1>12, <3>1
    <2>6. Goes(t, d) /\ MappingCache(Past, MostTargets, resolvedMappings')
      BY <1>2, <1>5, <1>7, <1>12, <2>1
    <2> QED BY <1>5, <2>4, <2>5, <2>6, StepKeeps
  <1>13. CASE ~ShareReferral(answer) /\ Failover(answer) /\ Len(todo) > 1
    <2>1. PICK d : d = [c EXCEPT !.todo = Tail(@)]
      OBVIOUS
    <2>2. d \in ACall /\ d.at = "cachedShare" /\ d.req = c.req /\ d.calls = c.calls
          /\ d.todo = Tail(todo)
      BY <1>4, <1>5, <1>6, <1>9, <2>1 DEF ACall
    <2>3. d.calls + Len(d.todo) <= MostCalls(MostTargets) + MostTargets
      BY <1>2, <1>4, <1>8, <1>9, <2>2
    <2>4. AtShare(Past, MostTargets, d) /\ d.at \in ShareSteps
      BY <1>9, <1>13, <2>2, <2>3 DEF AtShare, ShareSteps
    <2>5. CallInv(Past, MostTargets, d)
      BY <1>4, <1>8, <2>2, <2>4, ShareStep
    <2>6. /\ Goes(t, d) /\ MappingCache(Past, MostTargets, resolvedMappings')
          /\ ConnectionCache(Past, MostTargets, resolvedConnections')
      BY <1>2, <1>5, <1>6, <1>7, <1>13, <2>1
    <2> QED BY <1>5, <2>5, <2>6, StepKeeps
  <1>14. CASE ~ShareReferral(answer) /\ ~(Failover(answer) /\ Len(todo) > 1)
    <2>1. PICK e : e = [c EXCEPT !.todo = <<>>]
      OBVIOUS
    <2>2. e \in ACall /\ e.req = c.req /\ e.calls = c.calls
      BY <1>4, <2>1, SomePaths DEF ACall
    <2>3. e.calls <= MostCalls(MostTargets) + 2 * MostTargets + 1
      BY <1>2, <1>4, <1>11, <2>2
    <2>4. CallInv(Past, MostTargets, AfterShare(e, share, answer))
      BY <1>2, <1>8, <1>9, <1>10, <2>2, <2>3, AfterShareInv
    <2>5. /\ Goes(t, AfterShare(e, share, answer))
          /\ MappingCache(Past, MostTargets, resolvedMappings')
          /\ ConnectionCache(Past, MostTargets, resolvedConnections')
      BY <1>2, <1>5, <1>6, <1>7, <1>14, <2>1
    <2> QED BY <1>5, <2>4, <2>5, StepKeeps
  <1> QED BY <1>12, <1>13, <1>14

\* The root share serves every path.
LEMMA RootServes ==
  ASSUME NEW worlds
  PROVE  Root \in Shares /\ \A path \in Path : Location(Root, path) \in Reach(worlds, path)
  BY RootIsReached, SharesAssumption

\* The share is asked directly.
LEMMA DirectKeeps ==
  ASSUME Inv, NEW t \in Threads, Direct(t)
  PROVE  Inv'
  <1>1. PICK b : b = call[t]
    OBVIOUS
  <1>2. /\ InHistory /\ MostTargets \in Nat /\ MostCalls(MostTargets) \in Nat
        /\ CallInv(Past, MostTargets, b) /\ b \in ACall
        /\ b.at # "idle" => b.req \in Request /\ b.at \in StepsOf(b.req.kind)
        /\ ConnectionCache(Past, MostTargets, resolvedConnections)
        /\ MappingCache(Past, MostTargets, resolvedMappings)
    BY <1>1, CallFacts
  <1>3. PICK c : c = Called(b)
    OBVIOUS
  <1>4. c \in ACall /\ c.calls = b.calls + 1 /\ b.calls \in Nat /\ c.at = b.at
        /\ c.req = b.req
    BY <1>2, <1>3, CalledFacts
  <1>5. c.at = "direct" /\ UNCHANGED <<history, now, resolvedConnections, resolvedMappings>>
    BY <1>1, <1>3 DEF Direct
  <1>6. PICK answer \in AnswersAt(c.req, Root) :
          Goes(t, IF ShareReferral(answer)
                  THEN [c EXCEPT !.at = "resolveShare", !.error = answer]
                  ELSE AfterShare(c, Root, answer))
    BY <1>1, <1>3 DEF Direct
  <1>7. /\ b.calls <= MostCalls(MostTargets) + MostTargets
        /\ c.req \in Request /\ c.req.kind # "copy"
    BY <1>2, <1>4, <1>5 DEF CallInv, AtShare, StepsOf
  <1>8. answer \in Errors \cup {"ok"}
    BY <1>2, <1>6, AnswersAtType, SharesAssumption
  <1>9. c.calls <= MostCalls(MostTargets) + MostTargets + 1
        /\ c.calls <= MostCalls(MostTargets) + 2 * MostTargets + 1
    BY <1>2, <1>4, <1>7
  <1>10. CASE ShareReferral(answer)
    <2>1. PICK d : d = [c EXCEPT !.at = "resolveShare", !.error = answer]
      OBVIOUS
    <2>2. answer \in Errors
      BY <1>8, <1>10 DEF ShareReferral
    <2>3. d \in ACall /\ d.at = "resolveShare" /\ d.req = c.req /\ d.calls = c.calls
      BY <1>4, <2>1, <2>2 DEF ACall, Steps
    <2>4. AtShare(Past, MostTargets, d) /\ d.at \in ShareSteps
      BY <1>9, <2>3 DEF AtShare, ShareSteps
    <2>5. CallInv(Past, MostTargets, d)
      BY <1>4, <1>7, <2>3, <2>4, ShareStep
    <2>6. Goes(t, d)
      BY <1>6, <1>10, <2>1
    <2> QED BY <1>2, <1>5, <2>5, <2>6, StepKeeps
  <1>11. CASE ~ShareReferral(answer)
    <2>1. CallInv(Past, MostTargets, AfterShare(c, Root, answer))
      BY <1>2, <1>4, <1>7, <1>8, <1>9, RootServes, AfterShareInv
    <2>2. Goes(t, AfterShare(c, Root, answer))
      BY <1>6, <1>11
    <2> QED BY <1>2, <1>5, <2>1, <2>2, StepKeeps
  <1> QED BY <1>10, <1>11

\* Its targets are resolved,
LEMMA ResolveShareKeeps ==
  ASSUME Inv, NEW t \in Threads, ResolveShare(t)
  PROVE  Inv'
  <1>1. PICK c : c = call[t]
    OBVIOUS
  <1>2. /\ InHistory /\ MostTargets \in Nat /\ MostCalls(MostTargets) \in Nat
        /\ CallInv(Past, MostTargets, c) /\ c \in ACall /\ c.calls \in Nat
        /\ c.at # "idle" => c.req \in Request /\ c.at \in StepsOf(c.req.kind)
        /\ ConnectionCache(Past, MostTargets, resolvedConnections)
        /\ MappingCache(Past, MostTargets, resolvedMappings)
    BY <1>1, CallFacts
  <1>3. c.at = "resolveShare" /\ UNCHANGED <<history, now, resolvedMappings>>
    BY <1>1 DEF ResolveShare
  <1>4. PICK targets \in ResolveTargets(Root) :
          /\ resolvedConnections' = WithTargets(resolvedConnections, Root, targets)
          /\ Goes(t, IF targets = <<>> THEN AfterShare(c, Root, c.error)
                     ELSE [c EXCEPT !.at = "resolvedShare", !.todo = targets])
    BY <1>1 DEF ResolveShare
  <1>5. Rooted(Past, MostTargets, Root, targets)
    BY <1>2, ResolvedTargetsRooted, SharesAssumption
  <1>6. ConnectionCache(Past, MostTargets, resolvedConnections')
    <2>1. ConnectionCache(Past, MostTargets, WithTargets(resolvedConnections, Root, targets))
      BY <1>2, <1>5, WithTargetsCache, SharesAssumption
    <2> QED BY <1>4, <2>1
  <1>7. MappingCache(Past, MostTargets, resolvedMappings')
    BY <1>2, <1>3
  <1>8. /\ c.calls <= MostCalls(MostTargets) + MostTargets + 1
        /\ c.req \in Request /\ c.req.kind # "copy"
    BY <1>2, <1>3 DEF CallInv, AtShare, StepsOf
  <1>9. CASE targets = <<>>
    <2>1. c.error \in Errors \cup {"ok"}
      BY <1>2 DEF ACall
    <2>2. c.calls <= MostCalls(MostTargets) + 2 * MostTargets + 1
      BY <1>2, <1>8
    <2>3. PICK answer : answer = c.error
      OBVIOUS
    <2>4. CallInv(Past, MostTargets, AfterShare(c, Root, answer))
      BY <1>2, <1>8, <2>1, <2>2, <2>3, RootServes, AfterShareInv
    <2>5. Goes(t, AfterShare(c, Root, answer))
      BY <1>4, <1>9, <2>3
    <2> QED BY <1>3, <1>6, <1>7, <2>4, <2>5, StepKeeps
  <1>10. CASE targets # <<>>
    <2>1. PICK d : d = [c EXCEPT !.at = "resolvedShare", !.todo = targets]
      OBVIOUS
    <2>2. targets \in Seq(Target) /\ Len(targets) \in Nat /\ Len(targets) <= MostTargets
      BY <1>5 DEF Rooted
    <2>3. d \in ACall /\ d.at = "resolvedShare" /\ d.req = c.req /\ d.calls = c.calls
          /\ d.todo = targets
      BY <1>2, <2>1, <2>2 DEF ACall, Steps
    <2>4. d.calls + Len(d.todo) <= MostCalls(MostTargets) + 2 * MostTargets + 1
      BY <1>2, <1>8, <2>2, <2>3
    <2>5. AtShare(Past, MostTargets, d) /\ d.at \in ShareSteps
      BY <1>5, <1>10, <2>3, <2>4 DEF AtShare, ShareSteps
    <2>6. CallInv(Past, MostTargets, d)
      BY <1>2, <1>8, <2>3, <2>5, ShareStep
    <2>7. Goes(t, d)
      BY <1>4, <1>10, <2>1
    <2> QED BY <1>3, <1>6, <1>7, <2>6, <2>7, StepKeeps
  <1> QED BY <1>9, <1>10

\* and tried.
LEMMA ResolvedShareKeeps ==
  ASSUME Inv, NEW t \in Threads, ResolvedShare(t)
  PROVE  Inv'
  <1>1. PICK b : b = call[t]
    OBVIOUS
  <1>2. /\ InHistory /\ MostTargets \in Nat /\ MostCalls(MostTargets) \in Nat
        /\ CallInv(Past, MostTargets, b) /\ b \in ACall
        /\ b.at # "idle" => b.req \in Request /\ b.at \in StepsOf(b.req.kind)
        /\ ConnectionCache(Past, MostTargets, resolvedConnections)
        /\ MappingCache(Past, MostTargets, resolvedMappings)
    BY <1>1, CallFacts
  <1>3. PICK c : c = Called(b)
    OBVIOUS
  <1>4. c \in ACall /\ c.calls = b.calls + 1 /\ b.calls \in Nat /\ c.at = b.at
        /\ c.req = b.req /\ c.todo = b.todo
    BY <1>2, <1>3, CalledFacts
  <1>5. c.at = "resolvedShare"
        /\ UNCHANGED <<history, now, resolvedConnections, resolvedMappings>>
    BY <1>1, <1>3 DEF ResolvedShare
  <1>6. PICK todo, share : todo = c.todo /\ share = Head(todo).share
    OBVIOUS
  <1>7. PICK answer \in AnswersAt(c.req, share) :
          Goes(t, IF Failover(answer) /\ Len(c.todo) > 1
                  THEN [c EXCEPT !.todo = Tail(@)]
                  ELSE AfterShare([c EXCEPT !.todo = <<>>], share, answer))
    BY <1>1, <1>3, <1>6 DEF ResolvedShare
  <1>8. /\ Rooted(Past, MostTargets, Root, todo) /\ todo # <<>>
        /\ b.calls + Len(todo) <= MostCalls(MostTargets) + 2 * MostTargets + 1
        /\ c.req \in Request /\ c.req.kind # "copy"
    BY <1>2, <1>4, <1>5, <1>6 DEF CallInv, AtShare, StepsOf
  <1>9. /\ share \in Shares
        /\ \A path \in Path : Location(share, path) \in Reach(Past, path)
        /\ Len(todo) \in Nat \ {0} /\ Len(Tail(todo)) = Len(todo) - 1
        /\ Rooted(Past, MostTargets, Root, Tail(todo)) /\ Tail(todo) \in Seq(Target)
        /\ (Len(todo) > 1 => Tail(todo) # <<>>)
    BY <1>2, <1>6, <1>8, TargetInHand
  <1>10. answer \in Errors \cup {"ok"}
    BY <1>2, <1>7, <1>9, AnswersAtType
  <1>11. c.calls <= MostCalls(MostTargets) + 2 * MostTargets + 1
    BY <1>2, <1>4, <1>8, <1>9, SMTT(30)
  <1>12. CASE Failover(answer) /\ Len(todo) > 1
    <2>1. PICK d : d = [c EXCEPT !.todo = Tail(@)]
      OBVIOUS
    <2>2. d \in ACall /\ d.at = "resolvedShare" /\ d.req = c.req /\ d.calls = c.calls
          /\ d.todo = Tail(todo)
      BY <1>4, <1>5, <1>6, <1>9, <2>1 DEF ACall
    <2>3. d.calls + Len(d.todo) <= MostCalls(MostTargets) + 2 * MostTargets + 1
      BY <1>2, <1>4, <1>8, <1>9, <2>2
    <2>4. AtShare(Past, MostTargets, d) /\ d.at \in ShareSteps
      BY <1>9, <1>12, <2>2, <2>3 DEF AtShare, ShareSteps
    <2>5. CallInv(Past, MostTargets, d)
      BY <1>4, <1>8, <2>2, <2>4, ShareStep
    <2>6. Goes(t, d)
      BY <1>6, <1>7, <1>12, <2>1
    <2> QED BY <1>2, <1>5, <2>5, <2>6, StepKeeps
  <1>13. CASE ~(Failover(answer) /\ Len(todo) > 1)
    <2>1. PICK e : e = [c EXCEPT !.todo = <<>>]
      OBVIOUS
    <2>2. e \in ACall /\ e.req = c.req /\ e.calls = c.calls
      BY <1>4, <2>1, SomePaths DEF ACall
    <2>3. CallInv(Past, MostTargets, AfterShare(e, share, answer))
      BY <1>2, <1>8, <1>9, <1>10, <1>11, <2>2, AfterShareInv
    <2>4. Goes(t, AfterShare(e, share, answer))
      BY <1>6, <1>7, <1>13, <2>1
    <2> QED BY <1>2, <1>5, <2>3, <2>4, StepKeeps
  <1> QED BY <1>12, <1>13

\* A list of mappings for the connection's share starts a stack.
LEMMA FirstFrame ==
  ASSUME NEW worlds, NEW k \in Nat, NEW path \in Path, NEW ms, ms # <<>>,
         Fits(worlds, k, Root, path, ms), NEW kind \in {"cached", "resolved"},
         NEW calls \in Nat, calls + MostCalls(k) <= Limit(k, kind), NEW frames,
         frames = <<Frame(kind, None, path, ms)>>
  PROVE  /\ frames # <<>> /\ frames \in Seq(AFrame) /\ Stack(worlds, k, path, frames)
         /\ Affordable(k, frames, calls, 0)
  <1>1. PICK f : f = Frame(kind, None, path, ms)
    OBVIOUS
  <1>2. f = [kind |-> kind, outer |-> None, path |-> path, todo |-> ms,
             error |-> None, last |-> None]
    BY <1>1 DEF Frame
  <1>3. ms \in Seq(Mapping) /\ Len(ms) \in Nat /\ Len(ms) <= k
    BY DEF Fits, Backed
  <1>4. f \in AFrame
    BY <1>2, <1>3, SomePaths DEF AFrame
  <1>5. frames = <<f>> /\ frames \in Seq(AFrame) /\ Len(frames) = 1 /\ frames[1] = f
        /\ frames # <<>>
    BY <1>1, <1>4
  <1>6. ShareOf(f) = Root /\ Bottom(path, f)
    BY <1>2 DEF ShareOf, Bottom
  <1>7. Level(worlds, k, path, f, 1)
    <2>1. Location(Root, path) \in Stages(worlds, path)[0] /\ 1 - 1 = 0
      BY StagesFacts
    <2>2. f.todo = ms /\ f.path = path
      BY <1>2
    <2> QED BY <1>6, <2>1, <2>2 DEF Level, Fits
  <1>8. Stack(worlds, k, path, frames)
    <2>1. 1 <= MaxNested + 1 /\ \A d \in 1..1 : d = 1 /\ ~(d > 1)
      BY NestedAssumption
    <2> QED BY <1>5, <1>6, <1>7, <2>1 DEF Stack
  <1>9. Affordable(k, frames, calls, 0)
    <2>1. PICK x : x = calls + MostCalls(k)
      OBVIOUS
    <2>2. x \in Nat /\ MostCalls(k) \in Nat /\ Len(ms) * Cost(k, 1) <= MostCalls(k)
      <3>1. MostCalls(k) \in Nat /\ \A n \in Nat : n <= k => n * Cost(k, 1) <= MostCalls(k)
        BY MostCallsFacts
      <3>2. Len(ms) * Cost(k, 1) <= MostCalls(k)
        BY <1>3, <3>1
      <3>3. x \in Nat
        BY <2>1, <3>1
      <3> QED BY <3>1, <3>2, <3>3
    <2>3. PICK b : b = <<x>>
      OBVIOUS
    <2>4. b \in Seq(Nat) /\ Len(b) = 1 /\ b[1] = x
      BY <2>2, <2>3
    <2>5. \A d \in 1..1 : d = 1 /\ ~(d > 1)
      OBVIOUS
    <2>6. f.kind = kind /\ f.todo = ms
      BY <1>2
    <2>7. Paced(k, frames, b)
      BY <1>5, <2>1, <2>4, <2>5, <2>6 DEF Paced
    <2>8. PICK y : y = Len(ms) * Cost(k, 1)
      OBVIOUS
    <2>9. y \in Nat
      <3>1. Cost(k, 1) \in Nat
        <4>1. 1 \in 1..MaxNested + 1
          BY NestedAssumption
        <4> QED BY <4>1, CostFacts
      <3> QED BY <1>3, <2>8, <3>1
    <2>10. calls + y <= x + 0
      BY <2>1, <2>2, <2>8, <2>9
    <2> QED BY <1>5, <2>4, <2>6, <2>7, <2>8, <2>10 DEF Affordable
  <1> QED BY <1>5, <1>8, <1>9

\* A listing that has a stack.
LEMMA FramesStep ==
  ASSUME NEW worlds, NEW k, NEW d \in ACall, d.req \in Request, d.req.kind = "list",
         d.at = "frames", d.frames # <<>>, Stack(worlds, k, d.req.path, d.frames),
         Affordable(k, d.frames, d.calls, 0)
  PROVE  CallInv(worlds, k, d)
  <1>1. d.at \in StepsOf(d.req.kind) /\ d.at # "idle"
    BY DEF StepsOf, ShareSteps
  <1>2. AtShare(worlds, k, d) /\ AtPath(worlds, k, d) /\ AtFrames(worlds, k, d)
        /\ AtEnd(worlds, k, d)
    BY DEF AtShare, AtPath, AtFrames, AtEnd
  <1> QED BY <1>1, <1>2 DEF CallInv

\* A path is looked up in the cache.
LEMMA LookupKeeps ==
  ASSUME Inv, NEW t \in Threads, Lookup(t)
  PROVE  Inv'
  <1>1. PICK c : c = call[t]
    OBVIOUS
  <1>2. /\ InHistory /\ MostTargets \in Nat /\ MostCalls(MostTargets) \in Nat
        /\ CallInv(Past, MostTargets, c) /\ c \in ACall /\ c.calls \in Nat
        /\ c.at # "idle" => c.req \in Request /\ c.req.path \in Path
                            /\ c.at \in StepsOf(c.req.kind)
        /\ ConnectionCache(Past, MostTargets, resolvedConnections)
        /\ MappingCache(Past, MostTargets, resolvedMappings)
    BY <1>1, CallFacts
  <1>3. PICK cached : cached = CachedMappings(Root, c.req.path)
    OBVIOUS
  <1>4. /\ c.at = "lookup" /\ UNCHANGED <<history, now, resolvedConnections, resolvedMappings>>
        /\ Goes(t, IF cached = <<>> THEN [c EXCEPT !.at = "share"]
                   ELSE [c EXCEPT !.at = "frames",
                                  !.frames = <<Frame("cached", None, c.req.path, cached)>>])
    BY <1>1, <1>3 DEF Lookup
  <1>5. c.req \in Request /\ c.req.path \in Path /\ c.req.kind = "list" /\ c.calls = 0
    <2>1. c.req \in Request /\ c.req.path \in Path /\ c.at \in StepsOf(c.req.kind)
          /\ c.calls = 0
      BY <1>2, <1>4 DEF CallInv, AtPath
    <2>2. c.req.kind \in {"check", "list", "rename", "copy"}
      BY <2>1 DEF Request
    <2> QED BY <1>4, <2>1, <2>2 DEF StepsOf, ShareSteps
  <1>6. Fits(Past, MostTargets, Root, c.req.path, cached)
    BY <1>2, <1>3, <1>5, CachedFits, SharesAssumption
  <1>7. CASE cached = <<>>
    <2>1. PICK d : d = [c EXCEPT !.at = "share"]
      OBVIOUS
    <2>2. d \in ACall /\ d.at = "share" /\ d.req = c.req /\ d.calls = 0
      BY <1>2, <1>5, <2>1 DEF ACall, Steps
    <2>3. AtShare(Past, MostTargets, d) /\ d.at \in ShareSteps
      BY <1>2, <2>2 DEF AtShare, ShareSteps
    <2>4. CallInv(Past, MostTargets, d)
      BY <1>2, <1>5, <2>2, <2>3, ShareStep
    <2> QED BY <1>2, <1>4, <1>7, <2>1, <2>4, StepKeeps
  <1>8. CASE cached # <<>>
    <2>1. PICK frames : frames = <<Frame("cached", None, c.req.path, cached)>>
      OBVIOUS
    <2>2. 0 + MostCalls(MostTargets) <= Limit(MostTargets, "cached") /\ 0 \in Nat
      BY <1>2 DEF Limit
    <2>3. PICK kind, path : kind = "cached" /\ path = c.req.path
      OBVIOUS
    <2>4. /\ frames # <<>> /\ frames \in Seq(AFrame) /\ Stack(Past, MostTargets, path, frames)
          /\ Affordable(MostTargets, frames, 0, 0)
      BY <1>2, <1>5, <1>6, <1>8, <2>1, <2>2, <2>3, FirstFrame
    <2>5. PICK d : d = [c EXCEPT !.at = "frames", !.frames = frames]
      OBVIOUS
    <2>6. d \in ACall /\ d.at = "frames" /\ d.req = c.req /\ d.calls = 0 /\ d.frames = frames
      BY <1>2, <1>5, <2>4, <2>5 DEF ACall, Steps
    <2>7. CallInv(Past, MostTargets, d)
      BY <1>5, <2>3, <2>4, <2>6, FramesStep
    <2>8. Goes(t, d)
      BY <1>4, <1>8, <2>1, <2>5
    <2> QED BY <1>2, <1>4, <2>7, <2>8, StepKeeps
  <1> QED BY <1>7, <1>8

\* The path is resolved.
LEMMA ResolvePathKeeps ==
  ASSUME Inv, NEW t \in Threads, ResolvePath(t)
  PROVE  Inv'
  <1>1. PICK c : c = call[t]
    OBVIOUS
  <1>2. /\ InHistory /\ MostTargets \in Nat /\ MostCalls(MostTargets) \in Nat
        /\ CallInv(Past, MostTargets, c) /\ c \in ACall /\ c.calls \in Nat
        /\ c.at # "idle" => c.req \in Request /\ c.req.path \in Path
                            /\ c.at \in StepsOf(c.req.kind)
        /\ ConnectionCache(Past, MostTargets, resolvedConnections)
        /\ MappingCache(Past, MostTargets, resolvedMappings)
    BY <1>1, CallFacts
  <1>3. c.at = "resolvePath" /\ UNCHANGED <<history, now, resolvedConnections>>
    BY <1>1 DEF ResolvePath
  <1>4. PICK ms \in ResolvePathTargets(Root, c.req.path) :
          /\ resolvedMappings' = WithMappings(resolvedMappings, Root, ms)
          /\ Goes(t, IF ms = <<>> THEN Failed(c, c.error)
                     ELSE IF c.req.kind = "rename"
                     THEN [c EXCEPT !.at = "renamed", !.todo = ms]
                     ELSE [c EXCEPT !.at = "frames",
                                    !.frames = <<Frame("resolved", None, c.req.path, ms)>>])
    BY <1>1 DEF ResolvePath
  <1>5. /\ c.req \in Request /\ c.req.path \in Path /\ c.req.kind \in {"list", "rename"}
        /\ c.calls <= MostCalls(MostTargets) + 2 * MostTargets + 1
    <2>1. c.req \in Request /\ c.req.path \in Path /\ c.at \in StepsOf(c.req.kind)
          /\ c.calls <= MostCalls(MostTargets) + 2 * MostTargets + 1
      BY <1>2, <1>3 DEF CallInv, AtPath
    <2>2. c.req.kind \in {"check", "list", "rename", "copy"}
      BY <2>1 DEF Request
    <2> QED BY <1>3, <2>1, <2>2 DEF StepsOf, ShareSteps
  <1>6. Fits(Past, MostTargets, Root, c.req.path, ms)
    BY <1>2, <1>4, <1>5, ResolvedPathFits, SharesAssumption
  <1>7. MappingCache(Past, MostTargets, resolvedMappings')
    <2>1. MappingCache(Past, MostTargets, WithMappings(resolvedMappings, Root, ms))
      BY <1>2, <1>6, WithMappingsCache, SharesAssumption
    <2> QED BY <1>4, <2>1
  <1>8. ConnectionCache(Past, MostTargets, resolvedConnections')
    BY <1>2, <1>3
  <1>9. CASE ms = <<>>
    <2>1. c.error \in Errors
      BY <1>2 DEF ACall
    <2>2. c.calls <= LastLimit(MostTargets, c.req)
      BY <1>2, <1>5 DEF LastLimit
    <2>3. CallInv(Past, MostTargets, Failed(c, c.error))
      BY <1>2, <1>5, <2>1, <2>2, FailedInv
    <2> QED BY <1>3, <1>4, <1>7, <1>8, <1>9, <2>3, StepKeeps
  <1>10. CASE ms # <<>> /\ c.req.kind = "rename"
    <2>1. PICK d : d = [c EXCEPT !.at = "renamed", !.todo = ms]
      OBVIOUS
    <2>2. ms \in Seq(Mapping)
      BY <1>6 DEF Fits, Backed
    <2>3. d \in ACall /\ d.at = "renamed" /\ d.req = c.req /\ d.calls = c.calls /\ d.todo = ms
      BY <1>2, <2>1, <2>2 DEF ACall, Steps
    <2>4. d.at \in StepsOf(d.req.kind) /\ d.at # "idle"
      BY <1>10, <2>3 DEF StepsOf
    <2>5. Backed(Past, MostTargets, Root, ms) /\ Covers(ms, c.req.path)
      BY <1>6 DEF Fits
    <2>6. /\ AtShare(Past, MostTargets, d) /\ AtPath(Past, MostTargets, d)
          /\ AtFrames(Past, MostTargets, d) /\ AtEnd(Past, MostTargets, d)
      BY <1>5, <1>10, <2>3, <2>5 DEF AtShare, AtPath, AtFrames, AtEnd
    <2>7. CallInv(Past, MostTargets, d)
      BY <1>5, <2>3, <2>4, <2>6 DEF CallInv
    <2>8. Goes(t, d)
      BY <1>4, <1>10, <2>1
    <2> QED BY <1>3, <1>7, <1>8, <2>7, <2>8, StepKeeps
  <1>11. CASE ms # <<>> /\ c.req.kind # "rename"
    <2>1. PICK kind, path : kind = "resolved" /\ path = c.req.path
      OBVIOUS
    <2>2. PICK frames : frames = <<Frame(kind, None, path, ms)>>
      OBVIOUS
    <2>3. c.calls + MostCalls(MostTargets) <= Limit(MostTargets, kind)
      BY <1>2, <1>5, <2>1 DEF Limit
    <2>4. /\ frames # <<>> /\ frames \in Seq(AFrame) /\ Stack(Past, MostTargets, path, frames)
          /\ Affordable(MostTargets, frames, c.calls, 0)
      BY <1>2, <1>5, <1>6, <1>11, <2>1, <2>2, <2>3, FirstFrame
    <2>5. PICK d : d = [c EXCEPT !.at = "frames", !.frames = frames]
      OBVIOUS
    <2>6. d \in ACall /\ d.at = "frames" /\ d.req = c.req /\ d.calls = c.calls
          /\ d.frames = frames
      BY <1>2, <2>4, <2>5 DEF ACall, Steps
    <2>7. CallInv(Past, MostTargets, d)
      BY <1>5, <1>11, <2>1, <2>4, <2>6, FramesStep
    <2>8. Goes(t, d)
      BY <1>4, <1>11, <2>1, <2>2, <2>5
    <2> QED BY <1>3, <1>7, <1>8, <2>7, <2>8, StepKeeps
  <1> QED BY <1>9, <1>10, <1>11

\* The cached mappings are used up.
LEMMA AfterCacheKeeps ==
  ASSUME MappingCache(Past, MostTargets, resolvedMappings), NEW frames, NEW error, NEW nested,
         AfterCache(frames, error, nested)
  PROVE  MappingCache(Past, MostTargets, resolvedMappings')
  <1>1. \/ resolvedMappings' =
             WithoutMapping(resolvedMappings, Root, Head(Last(frames).todo).orig)
        \/ resolvedMappings' = resolvedMappings
    BY DEF AfterCache
  <1> QED BY <1>1, WithoutMappingCache

\* Any path that is led back is a path.
LEMMA OriginalPathType ==
  ASSUME NEW orig \in Path, NEW prefix \in Path, NEW path \in Path, NEW m, m.orig = orig,
         m.prefix = prefix
  PROVE  OriginalPath(m, path) \in Path
  <1>1. SuffixAfterPrefix(path, prefix) \in Path
    <2>1. CASE IsPrefix(prefix, path)
      BY <2>1, PrefixSplit
    <2>2. CASE ~IsPrefix(prefix, path)
      BY <2>2, EmptyPath DEF SuffixAfterPrefix
    <2> QED BY <2>1, <2>2
  <1>2. PICK r : r = SuffixAfterPrefix(path, prefix)
    OBVIOUS
  <1>3. r \in Path /\ OriginalPath(m, path) = orig \o r
    BY <1>1, <1>2 DEF OriginalPath
  <1>4. orig \o r \in Path
    BY <1>3, SuffixOfConcat
  <1> QED BY <1>3, <1>4

\* The frame below the top, and the mapping there that the top is behind.
LEMMA FrameBelow ==
  ASSUME NEW worlds, NEW k \in Nat, NEW path \in Path, NEW frames,
         Stack(worlds, k, path, frames), Len(frames) > 1
  PROVE  /\ frames # <<>> /\ Front(frames) # <<>>
         /\ Stack(worlds, k, path, Front(frames))
         /\ Top(Front(frames)).todo # <<>>
         /\ Top(frames).outer = Hand(Front(frames)) /\ Top(frames).outer # None
         /\ Top(frames).path = TargetPath(Hand(Front(frames)), Top(Front(frames)).path)
         /\ ShareOf(Top(frames)) = Hand(Front(frames)).share
         /\ Len(Front(frames)) = Len(frames) - 1 /\ Len(frames) \in Nat
  <1>1. frames \in Seq(AFrame) /\ frames # <<>>
    BY EmptySeq DEF Stack
  <1>2. PICK D, below : D = Len(frames) /\ below = Front(frames)
    OBVIOUS
  <1>3. D \in Nat /\ D > 1 /\ Len(below) = D - 1 /\ below[D - 1] = frames[D - 1]
        /\ below \in Seq(AFrame)
    <2>1. /\ Len(frames) \in Nat \ {0} /\ Front(frames) \in Seq(AFrame)
          /\ Len(Front(frames)) = Len(frames) - 1
          /\ \A i \in 1..Len(frames) - 1 : Front(frames)[i] = frames[i]
      BY <1>1, FrontFacts
    <2>2. D - 1 \in 1..Len(frames) - 1
      BY <1>2, <2>1
    <2> QED BY <1>2, <2>1, <2>2
  <1>4. below # <<>>
    BY <1>3, EmptySeq
  <1>5. Stack(worlds, k, path, below)
    BY <1>1, <1>2, StackBelow
  <1>6. Above(frames[D - 1], frames[D])
    BY <1>2, <1>3 DEF Stack
  <1>7. Top(below) = frames[D - 1] /\ Top(frames) = frames[D]
        /\ Hand(below) = frames[D - 1].todo[1]
    BY <1>2, <1>3 DEF Top, Hand
  <1>8. Top(below).todo # <<>>
    BY <1>6, <1>7 DEF Above
  <1>9. Hand(below) \in Mapping
    BY <1>4, <1>5, <1>8, HandLeads
  <1>10. Hand(below) # None
    BY <1>9, NoneAssumption DEF Mapping
  <1>11. Top(frames).outer = Hand(below)
         /\ Top(frames).path = TargetPath(Hand(below), Top(below).path)
    BY <1>6, <1>7 DEF Above
  <1>12. ShareOf(Top(frames)) = Hand(below).share
    BY <1>10, <1>11 DEF ShareOf
  <1> QED BY <1>1, <1>2, <1>3, <1>4, <1>5, <1>8, <1>10, <1>11, <1>12

\* Where the level below a stack's top has looked.
PathBelow(path, frames) == IF Len(frames) > 1 THEN Top(Front(frames)).path ELSE path

\* The name of an entry that the mapping in hand has listed.
NameInHand(frames) ==
  Named(frames, Hand(frames), Append(TargetPath(Hand(frames), Top(frames).path), "x"))

\* The entries at the mapping in hand are named as those of the level below.
LEMMA NamedBack ==
  ASSUME NEW worlds, NEW k \in Nat, NEW path \in Path, NEW frames, frames # <<>>,
         Stack(worlds, k, path, frames), Top(frames).todo # <<>>
  PROVE  /\ NameInHand(frames) \in Path
         /\ ~LeadsPastReferral(worlds) => NameInHand(frames) = EntryOf(PathBelow(path, frames))
  <1>1. PICK f : f = Top(frames)
    OBVIOUS
  <1>m. PICK m : m = Hand(frames)
    OBVIOUS
  <1>t. PICK there : there = TargetPath(m, f.path)
    OBVIOUS
  <1>n. NameInHand(frames) = Named(frames, m, Append(there, "x"))
    BY <1>1, <1>m, <1>t DEF NameInHand
  <1>2. /\ m \in Mapping /\ Leads(worlds, ShareOf(f), m) /\ f.path \in Path
        /\ IsPrefix(m.orig, f.path) /\ there \in Path /\ there = TargetPath(m, f.path)
    BY <1>1, <1>m, <1>t, HandLeads
  <1>3. m.orig \in Path /\ m.prefix \in Path /\ Append(there, "x") \in Path
    BY <1>2, SomePaths DEF Mapping, EntryOf
  <1>4. f = Last(frames) /\ Len(frames) \in Nat \ {0}
        /\ (Len(frames) = 1 => f.outer = None /\ f.path = path)
    <2>1. PICK D : D = Len(frames)
      OBVIOUS
    <2>2. f = frames[D]
      BY <1>1, <2>1 DEF Top
    <2>3. f = Last(frames) /\ D \in 1..Len(frames) /\ frames \in Seq(AFrame)
          /\ (D = 1 => f.outer = None /\ f.path = path)
      BY <2>1, <2>2, TopFrame
    <2>4. Len(frames) \in Nat \ {0}
      BY <2>1, <2>3
    <2> QED BY <2>1, <2>3, <2>4
  <1>5. CASE Len(frames) = 1
    <2>1. Named(frames, m, Append(there, "x")) = OriginalPath(m, Append(there, "x"))
      BY <1>4, <1>5 DEF Named
    <2>2. OriginalPath(m, Append(there, "x")) = Append(f.path, "x")
      BY <1>2, NamesAssumption, ThereAndBack
    <2>3. PathBelow(path, frames) = f.path
      BY <1>4, <1>5 DEF PathBelow
    <2> QED BY <1>2, <1>n, <2>1, <2>2, <2>3, SomePaths DEF EntryOf
  <1>6. CASE Len(frames) > 1
    <2>0. PICK below : below = Front(frames)
      OBVIOUS
    <2>1. PICK outer, g : outer = Hand(below) /\ g = Top(below)
      OBVIOUS
    <2>2. /\ below # <<>> /\ Stack(worlds, k, path, below) /\ Top(below).todo # <<>>
          /\ f.outer = outer /\ outer # None /\ f.path = TargetPath(outer, g.path)
          /\ ShareOf(f) = outer.share
      <3>1. /\ Front(frames) # <<>> /\ Stack(worlds, k, path, Front(frames))
            /\ Top(Front(frames)).todo # <<>>
            /\ Top(frames).outer = Hand(Front(frames)) /\ Top(frames).outer # None
            /\ Top(frames).path = TargetPath(Hand(Front(frames)), Top(Front(frames)).path)
            /\ ShareOf(Top(frames)) = Hand(Front(frames)).share
        BY <1>6, FrameBelow
      <3> QED BY <1>1, <2>0, <2>1, <3>1
    <2>3. /\ outer \in Mapping /\ Leads(worlds, ShareOf(g), outer) /\ g.path \in Path
          /\ IsPrefix(outer.orig, g.path)
      BY <2>1, <2>2, HandLeads
    <2>4. outer.orig \in Path /\ outer.prefix \in Path
      BY <2>3 DEF Mapping
    <2>5. PICK composed : composed = [m EXCEPT !.orig = OriginalPath(outer, m.orig)]
      OBVIOUS
    <2>6. Named(frames, m, Append(there, "x")) = OriginalPath(composed, Append(there, "x"))
      BY <1>4, <2>2, <2>5 DEF Named
    <2>7. OriginalPath(outer, m.orig) \in Path
      BY <1>3, <2>4, OriginalPathType
    <2>8. composed.orig \in Path /\ composed.prefix \in Path
      BY <1>2, <1>3, <2>5, <2>7 DEF Mapping
    <2>9. OriginalPath(composed, Append(there, "x")) \in Path
      BY <1>3, <2>8, OriginalPathType
    <2>10. PathBelow(path, frames) = g.path
      BY <1>6, <2>0, <2>1 DEF PathBelow
    <2>11. ASSUME ~LeadsPastReferral(worlds)
           PROVE  OriginalPath(composed, Append(there, "x")) = Append(g.path, "x")
      <3>1. IsPrefix(outer.prefix, f.path)
        BY <2>2, <2>3, NamesAssumption, ThereAndBack
      <3>2. IsPrefix(outer.prefix, m.orig)
        <4>1. Leads(worlds, outer.share, m)
          BY <1>2, <2>2
        <4>2. PICK s : s = ShareOf(g)
          OBVIOUS
        <4>3. Leads(worlds, s, outer)
          BY <2>3, <4>2
        <4> QED BY <1>2, <2>3, <2>11, <3>1, <4>1, <4>3, BehindTheFolder
      <3>3. IsPrefix(m.orig, TargetPath(outer, g.path))
            /\ there = TargetPath(m, TargetPath(outer, g.path))
        BY <1>2, <2>2
      <3> QED BY <1>2, <2>3, <2>5, <3>2, <3>3, NamesAssumption, ComposedBack
    <2> QED BY <1>n, <2>6, <2>9, <2>10, <2>11 DEF EntryOf
  <1>7. Len(frames) = 1 \/ Len(frames) > 1
    <2>1. PICK n : n = Len(frames)
      OBVIOUS
    <2>2. n \in Nat \ {0}
      BY <1>4, <2>1
    <2>3. n = 1 \/ n > 1
      BY <2>2
    <2> QED BY <2>1, <2>3
  <1> QED BY <1>5, <1>6, <1>7

\* A listing at its stack: what it says, and the mapping in hand.
LEMMA ListingFacts ==
  ASSUME Inv, NEW t \in Threads, NEW c, c = call[t], c.at \in {"frames", "nested", "return"}
  PROVE  /\ c.req \in Request /\ c.req.path \in Path /\ c.req.kind = "list"
         /\ Stack(Past, MostTargets, c.req.path, c.frames) /\ c.frames \in Seq(AFrame)
         /\ (c.at # "return" => c.frames # <<>> /\ LimitedStack(c.frames))
         /\ (c.at = "frames" => Affordable(MostTargets, c.frames, c.calls, 0))
         /\ (c.at = "nested" => /\ Affordable(MostTargets, c.frames, c.calls, 1)
                                /\ Top(c.frames).todo # <<>> /\ Len(c.frames) <= MaxNested)
  <1>1. CallInv(Past, MostTargets, c) /\ c.req \in Request /\ c.req.path \in Path
        /\ c.at \in StepsOf(c.req.kind) /\ c \in ACall
    BY CallFacts
  <1>2. c.req.kind \in {"check", "list", "rename", "copy"}
    BY <1>1 DEF Request
  <1>3. c.req.kind = "list"
    BY <1>1, <1>2 DEF StepsOf, ShareSteps
  <1>4. Stack(Past, MostTargets, c.req.path, c.frames) /\ (c.at # "return" => c.frames # <<>>)
    BY <1>1 DEF CallInv, AtFrames, AtEnd
  <1>5. c.frames \in Seq(AFrame) /\ Len(c.frames) <= MaxNested + 1
    BY <1>4 DEF Stack
  <1>6. c.at = "frames" => Affordable(MostTargets, c.frames, c.calls, 0)
    BY <1>1 DEF CallInv, AtFrames
  <1>7. c.at = "nested" => /\ Affordable(MostTargets, c.frames, c.calls, 1)
                           /\ Top(c.frames).todo # <<>> /\ Len(c.frames) <= MaxNested
    BY <1>1 DEF CallInv, AtFrames, Top
  <1> QED BY <1>1, <1>3, <1>4, <1>5, <1>6, <1>7 DEF LimitedStack

\* A mapping is tried.
LEMMA TryMappingKeeps ==
  ASSUME Inv, NEW t \in Threads, TryMapping(t)
  PROVE  Inv'
  <1>1. PICK b : b = call[t]
    OBVIOUS
  <1>2. /\ InHistory /\ MostTargets \in Nat /\ MostCalls(MostTargets) \in Nat /\ b \in ACall
        /\ ConnectionCache(Past, MostTargets, resolvedConnections)
        /\ MappingCache(Past, MostTargets, resolvedMappings)
    BY <1>1, CallFacts
  <1>3. PICK c : c = Called(b)
    OBVIOUS
  <1>4. c \in ACall /\ c.calls = b.calls + 1 /\ b.calls \in Nat /\ c.at = b.at
        /\ c.req = b.req /\ c.frames = b.frames /\ c.calls \in Nat
    BY <1>2, <1>3, CalledFacts
  <1>5. PICK frames : frames = c.frames
    OBVIOUS
  <1>6. PICK f : f = Last(frames)
    OBVIOUS
  <1>7. PICK m : m = Head(f.todo)
    OBVIOUS
  <1>8. /\ c.at = "frames" /\ f.todo # <<>> /\ UNCHANGED <<history, now, resolvedConnections>>
    BY <1>1, <1>3, <1>5, <1>6 DEF TryMapping
  <1>9. PICK place : place = Location(m.share, TargetPath(m, f.path))
    OBVIOUS
  <1>10. PICK answer \in Answers(place) :
          IF answer = "ok"
          THEN /\ Goes(t, [c EXCEPT !.at = "return", !.frames = Front(frames),
                                    !.touched = {<<c.req.path, place>>},
                                    !.named = Named(frames, m, Append(place.path, "x"))])
               /\ UNCHANGED resolvedMappings
          ELSE IF MayNest(frames, answer)
          THEN /\ Goes(t, [c EXCEPT !.at = "nested",
                                    !.frames[Len(frames)].error = answer])
               /\ UNCHANGED resolvedMappings
          ELSE /\ Goes(t, AfterMapping(c, frames, answer, None))
               /\ AfterCache(frames, answer, None)
    BY <1>1, <1>3, <1>5, <1>6, <1>7, <1>9 DEF TryMapping
  <1>11. /\ c.req \in Request /\ c.req.path \in Path /\ c.req.kind = "list"
         /\ Stack(Past, MostTargets, c.req.path, frames) /\ frames # <<>>
         /\ frames \in Seq(AFrame) /\ LimitedStack(frames)
         /\ Affordable(MostTargets, frames, b.calls, 0)
    BY <1>1, <1>4, <1>5, <1>8, ListingFacts
  <1>12. f = Top(frames) /\ Top(frames).todo # <<>>
    BY <1>6, <1>8, <1>11, FrontFacts DEF Top
  <1>13. /\ m = Hand(frames) /\ m \in Mapping /\ m.share \in Shares
         /\ TargetPath(m, f.path) \in Path /\ place \in Reach(Past, c.req.path) /\ place \in Place
    BY <1>2, <1>7, <1>9, <1>11, <1>12, HandLeads
  <1>14. place.share \in Shares /\ place.path = TargetPath(m, f.path)
    BY <1>9, <1>13 DEF Location
  <1>15. answer \in Errors \cup {"ok"}
    BY <1>2, <1>10, <1>14, AnswersType
  <1>16. Spent(MostTargets, frames, c.calls) /\ Affordable(MostTargets, frames, c.calls, 1)
    BY <1>2, <1>4, <1>11, <1>12, CallSpends
  <1>17. c.calls <= 2 * MostCalls(MostTargets) + 2 * MostTargets + 1
    BY <1>2, <1>4, <1>11, <1>12, <1>16, WithinLimit
  <1>18. ConnectionCache(Past, MostTargets, resolvedConnections')
    BY <1>2, <1>8
  <1>19. CASE answer = "ok"
    <2>1. PICK named : named = Named(frames, m, Append(place.path, "x"))
      OBVIOUS
    <2>2. PICK path, there : path = c.req.path /\ there = TargetPath(m, f.path)
      OBVIOUS
    <2>3. named \in Path /\ (~LeadsPastReferral(Past) => named = EntryOf(PathBelow(path, frames)))
      <3>1. named = NameInHand(frames)
        BY <1>12, <1>13, <1>14, <2>1, <2>2 DEF NameInHand
      <3>2. path \in Path /\ frames # <<>> /\ Top(frames).todo # <<>> /\ MostTargets \in Nat
            /\ Stack(Past, MostTargets, path, frames)
        BY <1>2, <1>11, <1>12, <2>2
      <3> QED BY <3>1, <3>2, NamedBack
    <2>4. PICK below : below = Front(frames)
      OBVIOUS
    <2>5. /\ Stack(Past, MostTargets, path, below) /\ below \in Seq(AFrame)
          /\ Len(below) = Len(frames) - 1 /\ Len(frames) \in Nat \ {0}
      <3>1. Stack(Past, MostTargets, path, below) /\ Len(below) = Len(frames) - 1
        BY <1>11, <2>2, <2>4, StackBelow
      <3> QED BY <1>11, <2>4, <3>1, FrontFacts
    <2>6. PICK d : d = [c EXCEPT !.at = "return", !.frames = below,
                                 !.touched = {<<c.req.path, place>>}, !.named = named]
      OBVIOUS
    <2>7. {<<c.req.path, place>>} \in SUBSET (Path \X Place)
      BY <1>11, <1>13
    <2>8. d \in ACall /\ d.at = "return" /\ d.req = c.req /\ d.calls = c.calls
          /\ d.frames = below /\ d.touched = {<<c.req.path, place>>} /\ d.named = named
      BY <1>4, <2>3, <2>5, <2>6, <2>7 DEF ACall, Steps
    <2>9. d.at \in StepsOf(d.req.kind) /\ d.at # "idle"
      BY <1>11, <2>8 DEF StepsOf
    <2>10. d.touched \subseteq Places(Past, d.req.path)
      BY <1>13, <2>8 DEF Places
    <2>11. PathBelow(path, frames) = IF below = <<>> THEN path ELSE below[Len(below)].path
      <3>1. below = <<>> <=> ~(Len(frames) > 1)
        <4>1. below = <<>> <=> Len(below) = 0
          BY <2>5, EmptySeq
        <4> QED BY <2>5, <4>1
      <3> QED BY <2>4, <3>1 DEF PathBelow, Top
    <2>12. AtEnd(Past, MostTargets, d)
      BY <1>17, <2>2, <2>3, <2>5, <2>8, <2>10, <2>11 DEF AtEnd
    <2>13. /\ AtShare(Past, MostTargets, d) /\ AtPath(Past, MostTargets, d)
           /\ AtFrames(Past, MostTargets, d)
      BY <2>8 DEF AtShare, AtPath, AtFrames
    <2>14. CallInv(Past, MostTargets, d)
      BY <1>11, <2>8, <2>9, <2>12, <2>13 DEF CallInv
    <2>15. Goes(t, d) /\ MappingCache(Past, MostTargets, resolvedMappings')
      BY <1>2, <1>10, <1>19, <2>1, <2>4, <2>6
    <2> QED BY <1>8, <1>18, <2>14, <2>15, StepKeeps
  <1>20. CASE answer # "ok" /\ MayNest(frames, answer)
    <2>1. PICK D : D = Len(frames)
      OBVIOUS
    <2>2. answer \in Errors /\ D <= MaxNested
      BY <1>15, <1>20, <2>1 DEF MayNest
    <2>3. PICK g : g = [f EXCEPT !.error = answer]
      OBVIOUS
    <2>4. /\ D \in 1..Len(frames) /\ f = frames[D] /\ f \in AFrame
          /\ Level(Past, MostTargets, c.req.path, f, D)
      <3>1. f = frames[D]
        BY <1>12, <2>1 DEF Top
      <3>2. PICK path : path = c.req.path
        OBVIOUS
      <3>3. D \in 1..Len(frames) /\ f \in AFrame /\ Level(Past, MostTargets, path, f, D)
        BY <1>2, <1>11, <2>1, <3>1, <3>2, TopFrame
      <3> QED BY <3>1, <3>2, <3>3
    <2>5. /\ g \in AFrame /\ g.kind = f.kind /\ g.outer = f.outer /\ g.path = f.path
          /\ g.todo = f.todo
      BY <2>2, <2>3, <2>4 DEF AFrame
    <2>6. Backed(Past, MostTargets, ShareOf(f), g.todo) /\ Covers(g.todo, g.path)
      BY <2>4, <2>5 DEF Level
    <2>7. PICK new : new = [frames EXCEPT ![D] = g]
      OBVIOUS
    <2>8. /\ new \in Seq(AFrame) /\ Len(new) = D /\ new[D] = g
          /\ \A i \in 1..D - 1 : new[i] = frames[i]
      <3>1. new \in Seq(AFrame) /\ Len(new) = Len(frames)
            /\ \A i \in 1..Len(frames) : new[i] = IF i = D THEN g ELSE frames[i]
        BY <1>11, <2>4, <2>5, <2>7, ExceptSeq
      <3>2. \A i \in 1..D - 1 : i \in 1..Len(frames) /\ i # D
        BY <2>1, <2>4
      <3> QED BY <2>1, <2>4, <3>1, <3>2
    <2>9. /\ Stack(Past, MostTargets, c.req.path, new) /\ new # <<>>
          /\ new[1].kind = frames[1].kind
      <3>1. PICK path : path = c.req.path
        OBVIOUS
      <3>2. /\ Stack(Past, MostTargets, path, new) /\ new # <<>>
            /\ new[1].kind = frames[1].kind
        BY <1>2, <1>11, <2>1, <2>4, <2>5, <2>6, <2>8, <3>1, TopReplaced, SMTT(30)
      <3> QED BY <3>1, <3>2
    <2>10. Affordable(MostTargets, new, c.calls, 1)
      <3>1. Top(new).todo = Top(frames).todo
        BY <1>12, <2>5, <2>8 DEF Top
      <3> QED BY <1>2, <1>4, <1>11, <1>16, <2>1, <2>8, <2>9, <3>1, SameEffort
    <2>11. PICK d : d = [c EXCEPT !.at = "nested", !.frames[Len(frames)].error = answer]
      OBVIOUS
    <2>12. d = [c EXCEPT !.at = "nested", !.frames = new]
      <3>1. new = [frames EXCEPT ![D] = [frames[D] EXCEPT !.error = answer]]
        BY <2>3, <2>4, <2>7
      <3> QED BY <1>4, <1>5, <2>1, <2>11, <3>1 DEF ACall
    <2>13. d \in ACall /\ d.at = "nested" /\ d.req = c.req /\ d.calls = c.calls
           /\ d.frames = new
      BY <1>4, <2>8, <2>12 DEF ACall, Steps
    <2>14. d.at \in StepsOf(d.req.kind) /\ d.at # "idle"
      BY <1>11, <2>13 DEF StepsOf
    <2>15. new[Len(new)].todo # <<>> /\ Len(new) <= MaxNested
      BY <1>8, <2>2, <2>5, <2>8
    <2>16. AtFrames(Past, MostTargets, d)
      BY <2>9, <2>10, <2>13, <2>15 DEF AtFrames
    <2>17. /\ AtShare(Past, MostTargets, d) /\ AtPath(Past, MostTargets, d)
           /\ AtEnd(Past, MostTargets, d)
      BY <2>13 DEF AtShare, AtPath, AtEnd
    <2>18. CallInv(Past, MostTargets, d)
      BY <1>11, <2>13, <2>14, <2>16, <2>17 DEF CallInv
    <2>19. Goes(t, d) /\ MappingCache(Past, MostTargets, resolvedMappings')
      BY <1>2, <1>10, <1>20, <2>11
    <2> QED BY <1>8, <1>18, <2>18, <2>19, StepKeeps
  <1>21. CASE answer # "ok" /\ ~MayNest(frames, answer)
    <2>1. Goes(t, AfterMapping(c, frames, answer, None)) /\ AfterCache(frames, answer, None)
      BY <1>10, <1>21
    <2>2. answer \in Errors /\ None \in Errors
      BY <1>15, <1>21, SomePaths
    <2>3. CallInv(Past, MostTargets, AfterMapping(c, frames, answer, None))
      BY <1>2, <1>4, <1>11, <1>12, <1>16, <2>2, AfterMappingInv
    <2>4. MappingCache(Past, MostTargets, resolvedMappings')
      BY <1>2, <2>1, AfterCacheKeeps
    <2> QED BY <1>8, <1>18, <2>1, <2>3, <2>4, StepKeeps
  <1> QED BY <1>19, <1>20, <1>21

\* A success is led back by one level, or the operation is over.
LEMMA ReturnKeeps ==
  ASSUME Inv, NEW t \in Threads, Return(t)
  PROVE  Inv'
  <1>1. PICK c : c = call[t]
    OBVIOUS
  <1>2. /\ InHistory /\ MostTargets \in Nat /\ MostCalls(MostTargets) \in Nat /\ c \in ACall
        /\ CallInv(Past, MostTargets, c)
        /\ ConnectionCache(Past, MostTargets, resolvedConnections)
        /\ MappingCache(Past, MostTargets, resolvedMappings)
    BY <1>1, CallFacts
  <1>3. /\ c.at = "return" /\ UNCHANGED <<history, now, resolvedConnections, resolvedMappings>>
        /\ Goes(t, IF Len(c.frames) < 2 THEN Finished(c, "ok", c.touched, c.named)
                   ELSE [c EXCEPT !.frames = Front(@),
                                  !.named = OriginalPath(Last(c.frames).outer, @)])
    BY <1>1 DEF Return
  <1>4. PICK frames : frames = c.frames
    OBVIOUS
  <1>5. PICK path : path = c.req.path
    OBVIOUS
  <1>6. /\ c.req \in Request /\ path \in Path /\ c.req.kind = "list" /\ frames \in Seq(AFrame)
        /\ Stack(Past, MostTargets, path, frames)
    BY <1>1, <1>3, <1>4, <1>5, ListingFacts
  <1>7. /\ c.touched \subseteq Places(Past, path)
        /\ ~LeadsPastReferral(Past) =>
             c.named = EntryOf(IF frames = <<>> THEN path ELSE Top(frames).path)
        /\ c.calls <= 2 * MostCalls(MostTargets) + 2 * MostTargets + 1
    BY <1>2, <1>3, <1>4, <1>5 DEF CallInv, AtEnd, Top
  <1>8. c.named \in Path /\ c.touched \in SUBSET (Path \X Place) /\ "ok" \in Errors \cup {"ok"}
    BY <1>2 DEF ACall
  <1>9. PICK D : D = Len(frames)
    OBVIOUS
  <1>10. D \in Nat
    BY <1>6, <1>9
  <1>11. CASE D < 2
    <2>1. Served(Past, c.req, c.touched)
      BY <1>7 DEF Served, Places
    <2>2. (IF frames = <<>> THEN path ELSE Top(frames).path) = path
      <3>1. CASE frames = <<>>
        BY <3>1
      <3>2. CASE frames # <<>>
        <4>1. Bottom(path, frames[1])
          BY <1>6, <3>2 DEF Stack
        <4>2. D # 0
          BY <1>6, <1>9, <3>2, EmptySeq
        <4>3. D = 1
          BY <1>10, <1>11, <4>2
        <4> QED BY <1>9, <3>2, <4>1, <4>3 DEF Bottom, Top
      <3> QED BY <3>1, <3>2
    <2>3. ~LeadsPastReferral(Past) => c.named = EntryOf(c.req.path)
      BY <1>5, <1>7, <2>2
    <2>4. c.calls <= LastLimit(MostTargets, c.req)
      BY <1>6, <1>7 DEF LastLimit
    <2>5. PICK touched, named : touched = c.touched /\ named = c.named
      OBVIOUS
    <2>6. CallInv(Past, MostTargets, Finished(c, "ok", touched, named))
      BY <1>2, <1>6, <1>8, <2>1, <2>3, <2>4, <2>5, FinishedInv
    <2> QED BY <1>2, <1>3, <1>4, <1>9, <1>11, <2>5, <2>6, StepKeeps
  <1>12. CASE D > 1
    <2>1. PICK below : below = Front(frames)
      OBVIOUS
    <2>2. PICK outer, g : outer = Hand(below) /\ g = Top(below)
      OBVIOUS
    <2>3. PICK named : named = OriginalPath(Last(frames).outer, c.named)
      OBVIOUS
    <2>4. /\ frames # <<>> /\ below # <<>> /\ Stack(Past, MostTargets, path, below)
          /\ Top(below).todo # <<>> /\ Top(frames).outer = outer
          /\ Top(frames).path = TargetPath(outer, g.path)
      <3>1. /\ frames # <<>> /\ Front(frames) # <<>>
            /\ Stack(Past, MostTargets, path, Front(frames)) /\ Top(Front(frames)).todo # <<>>
            /\ Top(frames).outer = Hand(Front(frames))
            /\ Top(frames).path = TargetPath(Hand(Front(frames)), Top(Front(frames)).path)
        BY <1>2, <1>6, <1>9, <1>12, FrameBelow
      <3> QED BY <2>1, <2>2, <3>1
    <2>5. named = OriginalPath(outer, c.named) /\ below \in Seq(AFrame)
      <3>1. Last(frames) = Top(frames) /\ Front(frames) \in Seq(AFrame)
        BY <1>6, <2>4, FrontFacts DEF Top
      <3> QED BY <2>1, <2>3, <2>4, <3>1
    <2>6. outer \in Mapping /\ g.path \in Path /\ IsPrefix(outer.orig, g.path)
      BY <1>2, <1>6, <2>2, <2>4, HandLeads
    <2>7. named \in Path
      <3>1. outer.orig \in Path /\ outer.prefix \in Path
        BY <2>6 DEF Mapping
      <3> QED BY <1>8, <2>5, <3>1, OriginalPathType
    <2>8. ASSUME ~LeadsPastReferral(Past)
          PROVE  named = EntryOf(g.path)
      <3>1. c.named = Append(TargetPath(outer, g.path), "x")
        BY <1>7, <2>4, <2>8 DEF EntryOf
      <3>2. OriginalPath(outer, Append(TargetPath(outer, g.path), "x")) = Append(g.path, "x")
        BY <2>6, NamesAssumption, ThereAndBack
      <3> QED BY <2>5, <3>1, <3>2 DEF EntryOf
    <2>9. PICK d : d = [c EXCEPT !.frames = below, !.named = named]
      OBVIOUS
    <2>10. d \in ACall /\ d.at = "return" /\ d.req = c.req /\ d.calls = c.calls
           /\ d.frames = below /\ d.touched = c.touched /\ d.named = named
      BY <1>2, <1>3, <2>5, <2>7, <2>9 DEF ACall
    <2>11. d.at \in StepsOf(d.req.kind)
      BY <1>6, <2>10 DEF StepsOf
    <2>12. ~LeadsPastReferral(Past) =>
             d.named = EntryOf(IF d.frames = <<>> THEN path ELSE d.frames[Len(d.frames)].path)
      BY <2>2, <2>4, <2>8, <2>10 DEF Top
    <2>13. AtEnd(Past, MostTargets, d)
      BY <1>5, <1>7, <2>4, <2>10, <2>12 DEF AtEnd
    <2>14. /\ AtShare(Past, MostTargets, d) /\ AtPath(Past, MostTargets, d)
           /\ AtFrames(Past, MostTargets, d)
      BY <2>10 DEF AtShare, AtPath, AtFrames
    <2>15. CallInv(Past, MostTargets, d)
      BY <1>6, <2>10, <2>11, <2>13, <2>14 DEF CallInv
    <2>16. Goes(t, d)
      <3>1. ~(Len(c.frames) < 2)
        BY <1>4, <1>9, <1>10, <1>12
      <3>2. d = [c EXCEPT !.frames = Front(@), !.named = OriginalPath(Last(c.frames).outer, @)]
        BY <1>2, <1>4, <2>1, <2>3, <2>9 DEF ACall
      <3> QED BY <1>3, <3>1, <3>2
    <2> QED BY <1>2, <1>3, <2>15, <2>16, StepKeeps
  <1> QED BY <1>10, <1>11, <1>12

\* What is left of the mappings behind the one in hand.
LEMMA BehindFits ==
  ASSUME NEW worlds, NEW k \in Nat, NEW share, NEW path \in Path, NEW m, NEW ms,
         Fits(worlds, k, share, path, ms)
  PROVE  /\ Backed(worlds, k, share, Behind(m, path, ms)) /\ Covers(Behind(m, path, ms), path)
         /\ Len(Behind(m, path, ms)) <= k /\ Behind(m, path, ms) \in Seq(Mapping)
  <1>1. PICK places : places = {i \in DOMAIN ms : /\ ms[i].share # m.share
                                                 /\ IsPathPrefix(ms[i].orig, path)}
    OBVIOUS
  <1>2. PICK left : left = Selected(ms, places)
    OBVIOUS
  <1>3. Behind(m, path, ms) = left
    BY <1>1, <1>2 DEF Behind
  <1>4. ms \in Seq(Mapping) /\ Len(ms) <= k /\ Len(ms) \in Nat
        /\ \A i \in DOMAIN ms : Leads(worlds, share, ms[i]) /\ IsPrefix(ms[i].orig, path)
    BY DEF Fits, Backed, Covers
  <1>5. /\ left \in Seq(Mapping) /\ Len(left) <= Len(ms)
        /\ \A j \in 1..Len(left) : \E i \in 1..Len(ms) : i \in places /\ left[j] = ms[i]
    BY <1>2, <1>4, SelectedFacts
  <1>6. DOMAIN left = 1..Len(left) /\ Len(left) \in Nat /\ DOMAIN ms = 1..Len(ms)
    BY <1>4, <1>5
  <1>7. \A j \in DOMAIN left : Leads(worlds, share, left[j]) /\ IsPrefix(left[j].orig, path)
    BY <1>4, <1>5, <1>6
  <1>8. Len(left) <= k
    BY <1>4, <1>5, <1>6
  <1> QED BY <1>3, <1>5, <1>7, <1>8 DEF Backed, Covers

\* Its target led over another link.
LEMMA NestedKeeps ==
  ASSUME Inv, NEW t \in Threads, Nested(t)
  PROVE  Inv'
  <1>1. PICK c : c = call[t]
    OBVIOUS
  <1>2. /\ InHistory /\ MostTargets \in Nat /\ MostCalls(MostTargets) \in Nat /\ c \in ACall
        /\ ConnectionCache(Past, MostTargets, resolvedConnections)
        /\ MappingCache(Past, MostTargets, resolvedMappings) /\ c.calls \in Nat
    BY <1>1, CallFacts
  <1>3. PICK frames : frames = c.frames
    OBVIOUS
  <1>4. PICK f : f = Last(frames)
    OBVIOUS
  <1>5. PICK m : m = Head(f.todo)
    OBVIOUS
  <1>6. PICK path : path = TargetPath(m, f.path)
    OBVIOUS
  <1>7. PICK cached : cached = CachedMappings(m.share, path)
    OBVIOUS
  <1>8. c.at = "nested" /\ UNCHANGED <<history, now, resolvedConnections>>
    BY <1>1 DEF Nested
  <1>9. PICK ms \in IF cached # <<>> THEN {cached} ELSE ResolvePathTargets(m.share, path) :
          IF ms = <<>>
          THEN /\ Goes(t, AfterMapping(c, frames, f.error, None))
               /\ AfterCache(frames, f.error, None)
          ELSE /\ Goes(t, [c EXCEPT !.at = "frames",
                                    !.frames = Append(@, Frame("nested", m, path,
                                                               Behind(m, path, ms)))])
               /\ resolvedMappings' = IF cached # <<>> THEN resolvedMappings
                                      ELSE WithMappings(resolvedMappings, m.share, ms)
    BY <1>1, <1>3, <1>4, <1>5, <1>6, <1>7 DEF Nested
  <1>10. /\ c.req \in Request /\ c.req.path \in Path /\ c.req.kind = "list"
         /\ Stack(Past, MostTargets, c.req.path, frames) /\ frames # <<>>
         /\ frames \in Seq(AFrame) /\ LimitedStack(frames)
         /\ Affordable(MostTargets, frames, c.calls, 1)
         /\ Top(frames).todo # <<>> /\ Len(frames) <= MaxNested
    BY <1>1, <1>3, <1>8, ListingFacts
  <1>11. f = Top(frames) /\ f \in AFrame /\ f.error \in Errors
    <2>1. f = Top(frames) /\ f \in AFrame
      BY <1>4, <1>10, FrontFacts DEF Top
    <2> QED BY <2>1 DEF AFrame
  <1>12. m = Hand(frames) /\ m \in Mapping /\ m.share \in Shares /\ path \in Path
    BY <1>2, <1>5, <1>6, <1>10, <1>11, HandLeads
  <1>13. Fits(Past, MostTargets, m.share, path, ms)
    <2>1. CASE cached # <<>>
      <3>1. ms = CachedMappings(m.share, path)
        BY <1>7, <1>9, <2>1
      <3> QED BY <1>2, <1>12, <3>1, CachedFits
    <2>2. CASE cached = <<>>
      <3>1. ms \in ResolvePathTargets(m.share, path)
        BY <1>9, <2>2
      <3> QED BY <1>2, <1>12, <3>1, ResolvedPathFits
    <2> QED BY <2>1, <2>2
  <1>14. ConnectionCache(Past, MostTargets, resolvedConnections')
    BY <1>2, <1>8
  <1>15. CASE ms = <<>>
    <2>1. Goes(t, AfterMapping(c, frames, f.error, None)) /\ AfterCache(frames, f.error, None)
      BY <1>9, <1>15
    <2>2. None \in Errors
      BY SomePaths
    <2>3. Spent(MostTargets, frames, c.calls)
      BY <1>2, <1>10, NothingBehind
    <2>4. PICK error : error = f.error
      OBVIOUS
    <2>5. CallInv(Past, MostTargets, AfterMapping(c, frames, error, None))
      BY <1>2, <1>10, <1>11, <2>2, <2>3, <2>4, AfterMappingInv
    <2>6. MappingCache(Past, MostTargets, resolvedMappings')
      BY <1>2, <2>1, AfterCacheKeeps
    <2> QED BY <1>8, <1>14, <2>1, <2>4, <2>5, <2>6, StepKeeps
  <1>16. CASE ms # <<>>
    <2>1. PICK left : left = Behind(m, path, ms)
      OBVIOUS
    <2>2. /\ Backed(Past, MostTargets, m.share, left) /\ Covers(left, path)
          /\ Len(left) <= MostTargets /\ left \in Seq(Mapping)
      <3>1. PICK share : share = m.share
        OBVIOUS
      <3>2. Fits(Past, MostTargets, share, path, ms)
        BY <1>13, <3>1
      <3>3. /\ Backed(Past, MostTargets, share, left) /\ Covers(left, path)
            /\ Len(left) <= MostTargets /\ left \in Seq(Mapping)
        BY <1>2, <1>12, <2>1, <3>2, BehindFits
      <3> QED BY <3>1, <3>3
    <2>3. PICK g : g = Frame("nested", m, path, left)
      OBVIOUS
    <2>4. g \in AFrame /\ g.kind = "nested" /\ g.outer = m /\ g.path = path /\ g.todo = left
      <3>1. None \in Errors
        BY SomePaths
      <3> QED BY <1>12, <2>2, <2>3, <3>1 DEF Frame, AFrame
    <2>5. PICK D : D = Len(frames)
      OBVIOUS
    <2>6. PICK whole : whole = c.req.path
      OBVIOUS
    <2>7. f = frames[D] /\ f.todo # <<>> /\ m = f.todo[1] /\ D <= MaxNested /\ whole \in Path
          /\ Stack(Past, MostTargets, whole, frames)
      BY <1>10, <1>11, <1>12, <2>5, <2>6 DEF Top, Hand
    <2>8. Stack(Past, MostTargets, whole, Append(frames, g)) /\ Append(frames, g) # <<>>
      BY <1>2, <1>6, <1>10, <2>2, <2>4, <2>5, <2>7, FramePushed
    <2>9. Affordable(MostTargets, Append(frames, g), c.calls, 0)
      BY <1>2, <1>10, <2>2, <2>4, BehindIsPaid
    <2>10. PICK new : new = Append(frames, g)
      OBVIOUS
    <2>11. PICK d : d = [c EXCEPT !.at = "frames", !.frames = new]
      OBVIOUS
    <2>12. new \in Seq(AFrame)
      BY <1>10, <2>4, <2>10, AppendFacts
    <2>13. d \in ACall /\ d.at = "frames" /\ d.req = c.req /\ d.calls = c.calls
           /\ d.frames = new
      BY <1>2, <2>11, <2>12 DEF ACall, Steps
    <2>14. CallInv(Past, MostTargets, d)
      BY <1>10, <2>6, <2>8, <2>9, <2>10, <2>13, FramesStep
    <2>15. Goes(t, d)
      <3>1. d = [c EXCEPT !.at = "frames", !.frames = Append(@, Frame("nested", m, path,
                                                                      Behind(m, path, ms)))]
        BY <1>2, <1>3, <2>1, <2>3, <2>10, <2>11 DEF ACall
      <3> QED BY <1>9, <1>16, <3>1
    <2>16. MappingCache(Past, MostTargets, resolvedMappings')
      <3>1. MappingCache(Past, MostTargets, WithMappings(resolvedMappings, m.share, ms))
        BY <1>2, <1>12, <1>13, WithMappingsCache
      <3> QED BY <1>2, <1>9, <1>16, <3>1
    <2> QED BY <1>8, <1>14, <2>14, <2>15, <2>16, StepKeeps
  <1> QED BY <1>15, <1>16

\* A loop over mappings ends.
LEMMA EndLoopKeeps ==
  ASSUME Inv, NEW t \in Threads, EndLoop(t)
  PROVE  Inv'
  <1>1. PICK c : c = call[t]
    OBVIOUS
  <1>2. /\ InHistory /\ MostTargets \in Nat /\ MostCalls(MostTargets) \in Nat /\ c \in ACall
        /\ ConnectionCache(Past, MostTargets, resolvedConnections)
        /\ MappingCache(Past, MostTargets, resolvedMappings) /\ c.calls \in Nat
    BY <1>1, CallFacts
  <1>3. PICK frames : frames = c.frames
    OBVIOUS
  <1>4. PICK f : f = Last(frames)
    OBVIOUS
  <1>5. PICK below : below = Front(frames)
    OBVIOUS
  <1>6. /\ c.at = "frames" /\ f.todo = <<>> /\ UNCHANGED <<history, now, resolvedConnections>>
        /\ IF below = <<>>
           THEN Goes(t, Failed(c, f.last)) /\ UNCHANGED resolvedMappings
           ELSE /\ Goes(t, AfterMapping(c, below, Last(below).error, f.last))
                /\ AfterCache(below, Last(below).error, f.last)
    BY <1>1, <1>3, <1>4, <1>5 DEF EndLoop
  <1>7. PICK path : path = c.req.path
    OBVIOUS
  <1>8. /\ c.req \in Request /\ path \in Path /\ c.req.kind = "list"
        /\ Stack(Past, MostTargets, path, frames) /\ frames # <<>>
        /\ frames \in Seq(AFrame) /\ LimitedStack(frames)
        /\ Affordable(MostTargets, frames, c.calls, 0)
    BY <1>1, <1>3, <1>6, <1>7, ListingFacts
  <1>9. f = Top(frames) /\ f \in AFrame /\ Len(below) = Len(frames) - 1
        /\ below \in Seq(AFrame) /\ Len(frames) \in Nat \ {0}
    BY <1>4, <1>5, <1>8, FrontFacts DEF Top
  <1>10. PICK last : last = f.last
    OBVIOUS
  <1>11. last \in Errors
    BY <1>9, <1>10 DEF AFrame
  <1>12. ConnectionCache(Past, MostTargets, resolvedConnections')
    BY <1>2, <1>6
  <1>13. CASE below = <<>>
    <2>1. c.calls <= 2 * MostCalls(MostTargets) + 2 * MostTargets + 1
      BY <1>2, <1>8, WithinLimit
    <2>2. c.calls <= LastLimit(MostTargets, c.req)
      BY <1>8, <2>1 DEF LastLimit
    <2>3. CallInv(Past, MostTargets, Failed(c, last))
      BY <1>2, <1>8, <1>11, <2>2, FailedInv
    <2>4. Goes(t, Failed(c, last)) /\ MappingCache(Past, MostTargets, resolvedMappings')
      BY <1>2, <1>6, <1>10, <1>13
    <2> QED BY <1>6, <1>12, <2>3, <2>4, StepKeeps
  <1>14. CASE below # <<>>
    <2>1. Len(frames) > 1
      <3>1. Len(below) # 0 /\ Len(below) \in Nat
        BY <1>9, <1>14, EmptySeq
      <3> QED BY <1>9, <3>1
    <2>2. /\ Stack(Past, MostTargets, path, below) /\ Top(below).todo # <<>>
      BY <1>2, <1>5, <1>8, <2>1, FrameBelow
    <2>3. Spent(MostTargets, below, c.calls)
      <3>1. Top(frames).todo = <<>>
        BY <1>6, <1>9
      <3> QED BY <1>2, <1>5, <1>8, <2>1, <3>1, TopIsDone
    <2>4. PICK error : error = Last(below).error
      OBVIOUS
    <2>5. error \in Errors
      <3>1. Last(below) \in AFrame
        BY <1>9, <1>14, FrontFacts
      <3> QED BY <2>4, <3>1 DEF AFrame
    <2>6. Goes(t, AfterMapping(c, below, error, last)) /\ AfterCache(below, error, last)
      BY <1>6, <1>10, <1>14, <2>4
    <2>7. CallInv(Past, MostTargets, AfterMapping(c, below, error, last))
      BY <1>2, <1>7, <1>8, <1>11, <1>14, <2>2, <2>3, <2>5, AfterMappingInv
    <2>8. MappingCache(Past, MostTargets, resolvedMappings')
      BY <1>2, <2>6, AfterCacheKeeps
    <2> QED BY <1>6, <1>12, <2>6, <2>7, <2>8, StepKeeps
  <1> QED BY <1>13, <1>14

\* Where the caches have an end is a place that the namespace has given its path.
LEMMA CachedEndReached ==
  ASSUME NEW worlds, NEW k \in Nat, ConnectionCache(worlds, k, resolvedConnections),
         MappingCache(worlds, k, resolvedMappings), NEW path \in Path,
         NEW end \in CachedEnd(path)
  PROVE  end \in Reach(worlds, path) /\ end \in Place /\ end.share \in Shares
  <1>1. PICK ms : ms = CachedMappings(Root, path)
    OBVIOUS
  <1>2. PICK targets : targets = resolvedConnections[Root]
    OBVIOUS
  <1>3. end = IF ms # <<>> THEN Location(ms[1].share, TargetPath(ms[1], path))
              ELSE Location(IF targets # <<>> THEN targets[1].share ELSE Root, path)
    BY <1>1, <1>2 DEF CachedEnd
  <1>4. end \in Reach(worlds, path) /\ end \in Place
    <2>1. CASE ms # <<>>
      <3>1. Fits(worlds, k, Root, path, ms)
        BY <1>1, SharesAssumption, CachedFits
      <3>2. Backed(worlds, k, Root, ms) /\ Covers(ms, path) /\ 1 \in DOMAIN ms
        BY <2>1, <3>1, EmptyMappings DEF Fits, Backed
      <3>3. IsPrefix(ms[1].orig, path)
        BY <3>2 DEF Covers
      <3> QED BY <1>3, <2>1, <3>2, <3>3, MappingReached
    <2>2. CASE ms = <<>> /\ targets # <<>>
      <3>1. Rooted(worlds, k, Root, targets)
        BY <1>2, SharesAssumption DEF ConnectionCache
      <3>2. /\ Location(targets[1].share, path) \in Reach(worlds, path)
            /\ targets[1].share \in Shares
        BY <2>2, <3>1, RootTargetReached
      <3> QED BY <1>3, <2>2, <3>2 DEF Location, Place
    <2>3. CASE ms = <<>> /\ targets = <<>>
      BY <1>3, <2>3, RootIsReached, SharesAssumption DEF Location, Place
    <2> QED BY <2>1, <2>2, <2>3
  <1> QED BY <1>4 DEF Place

\* Both ends where the namespace has put them: the operation is over.
LEMMA EndsInv ==
  ASSUME InHistory, NEW k \in Nat, NEW c \in ACall, c.req \in Request, c.req.kind # "list",
         NEW from \in Place, from \in Reach(Past, c.req.path),
         NEW to \in Place, to \in Reach(Past, c.req.to) \/ (c.req.kind = "rename" /\ CrossesLink(Past, c.req)),
         NEW answer \in AnswersBoth(from, to), c.calls <= LastLimit(k, c.req)
  PROVE  CallInv(Past, k, Finished(c, answer, Ends(c.req, from, to), <<>>))
  <1>1. c.req.path \in Path /\ c.req.to \in Path
    BY DEF Request
  <1>2. PICK touched : touched = Ends(c.req, from, to)
    OBVIOUS
  <1>3. touched \in SUBSET (Path \X Place)
    BY <1>1, <1>2 DEF Ends
  <1>4. Served(Past, c.req, touched)
    BY <1>2 DEF Served, Ends
  <1>5. from.share \in Shares /\ to.share \in Shares
    BY DEF Place
  <1>6. answer \in Errors \cup {"ok"}
    BY <1>5, AnswersBothType
  <1>7. <<>> \in Path
    BY SomePaths
  <1>8. CallInv(Past, k, Finished(c, answer, touched, <<>>))
    BY <1>3, <1>4, <1>6, <1>7, FinishedInv
  <1> QED BY <1>2, <1>8

\* An operation with two ends that has just called the delegate.
LEMMA TwoEnds ==
  ASSUME Inv, NEW t \in Threads, NEW b, b = call[t], NEW c, c = Called(b),
         b.at \in {"rename", "renaming", "renamed", "copy", "copying", "copyPath", "copyShare"}
  PROVE  /\ InHistory /\ MostTargets \in Nat /\ MostCalls(MostTargets) \in Nat
         /\ MostTargets <= MostCalls(MostTargets)
         /\ b \in ACall /\ c \in ACall /\ CallInv(Past, MostTargets, b)
         /\ c.calls = b.calls + 1 /\ b.calls \in Nat /\ c.calls \in Nat
         /\ c.at = b.at /\ c.req = b.req /\ c.todo = b.todo /\ c.touched = b.touched
         /\ c.req \in Request /\ c.req.path \in Path /\ c.req.to \in Path
         /\ c.req.kind = IF b.at \in {"rename", "renaming", "renamed"} THEN "rename" ELSE "copy"
         /\ ConnectionCache(Past, MostTargets, resolvedConnections)
         /\ MappingCache(Past, MostTargets, resolvedMappings)
         /\ (b.at \in {"rename", "renaming", "copy", "copying"} => b.calls = 0)
         /\ (b.at = "renamed" => b.calls <= MostCalls(MostTargets) + 2 * MostTargets + 1)
         /\ (b.at \in {"copyPath", "copyShare"} => b.calls <= 1)
  <1>1. /\ InHistory /\ MostTargets \in Nat /\ MostCalls(MostTargets) \in Nat
        /\ CallInv(Past, MostTargets, b) /\ b \in ACall /\ b.calls \in Nat
        /\ b.req \in Request /\ b.req.path \in Path /\ b.req.to \in Path
        /\ b.at \in StepsOf(b.req.kind)
        /\ ConnectionCache(Past, MostTargets, resolvedConnections)
        /\ MappingCache(Past, MostTargets, resolvedMappings)
    BY CallFacts
  <1>2. /\ c \in ACall /\ c.calls = b.calls + 1 /\ c.at = b.at /\ c.req = b.req
        /\ c.todo = b.todo /\ c.touched = b.touched
    BY <1>1, CalledFacts
  <1>3. b.req.kind \in {"check", "list", "rename", "copy"}
    BY <1>1 DEF Request
  <1>4. b.req.kind = IF b.at \in {"rename", "renaming", "renamed"} THEN "rename" ELSE "copy"
    BY <1>1, <1>3 DEF StepsOf, ShareSteps
  <1>5. /\ (b.at \in {"rename", "renaming", "copy", "copying"} => b.calls = 0)
        /\ (b.at = "renamed" => b.calls <= MostCalls(MostTargets) + 2 * MostTargets + 1)
        /\ (b.at \in {"copyPath", "copyShare"} => b.calls <= 1)
    BY <1>1 DEF CallInv, AtPath
  <1>6. MostTargets <= MostCalls(MostTargets)
    BY <1>1, MostCallsFacts
  <1>7. c.calls \in Nat
    BY <1>1, <1>2
  <1> QED BY <1>1, <1>2, <1>4, <1>5, <1>6, <1>7

\* The first of the mappings that fit a path is one for it,
LEMMA FirstInHand ==
  ASSUME NEW worlds, NEW k \in Nat, NEW path \in Path, NEW ms, ms # <<>>,
         Fits(worlds, k, Root, path, ms)
  PROVE  InHand(worlds, ms[1], path) /\ ms[1] \in Mapping /\ 1 <= k
  <1>1. Backed(worlds, k, Root, ms) /\ Covers(ms, path) /\ ms \in Seq(Mapping)
    BY DEF Fits, Backed
  <1>2. Len(ms) \in Nat \ {0} /\ ms[1] \in Mapping /\ 1 \in DOMAIN ms
    BY <1>1, TailFacts
  <1>3. Leads(worlds, Root, ms[1]) /\ Len(ms) <= k
    BY <1>1, <1>2 DEF Backed
  <1>4. IsPrefix(ms[1].orig, path)
    BY <1>1, <1>2 DEF Covers
  <1> QED BY <1>2, <1>3, <1>4 DEF InHand

\* and leads to a place that the namespace gives the path.
LEMMA InHandReached ==
  ASSUME NEW worlds, NEW m, NEW path \in Path, InHand(worlds, m, path)
  PROVE  /\ Location(m.share, TargetPath(m, path)) \in Reach(worlds, path)
         /\ Location(m.share, TargetPath(m, path)) \in Place
  <1>1. PICK ms : ms = <<m>>
    OBVIOUS
  <1>2. m \in Mapping /\ Leads(worlds, Root, m) /\ IsPrefix(m.orig, path)
    BY DEF InHand
  <1>3. ms \in Seq(Mapping) /\ Len(ms) = 1 /\ DOMAIN ms = {1} /\ ms[1] = m /\ ms # <<>>
    BY <1>1, <1>2
  <1>4. Backed(worlds, 1, Root, ms)
    BY <1>2, <1>3 DEF Backed
  <1> QED BY <1>2, <1>3, <1>4, MappingReached

\* A rename looks both ends up in the cache,
LEMMA RenameLookupKeeps ==
  ASSUME Inv, NEW t \in Threads, RenameLookup(t)
  PROVE  Inv'
  <1>1. PICK c : c = call[t]
    OBVIOUS
  <1>2. PICK sources, targets : sources = CachedMappings(Root, c.req.path)
                                /\ targets = CachedMappings(Root, c.req.to)
    OBVIOUS
  <1>3. /\ c.at = "rename"
        /\ UNCHANGED <<history, now, resolvedConnections, resolvedMappings>>
        /\ Goes(t, IF sources = <<>> \/ targets = <<>> \/ sources[1].share # targets[1].share
                   THEN [c EXCEPT !.at = "share"]
                   ELSE [c EXCEPT !.at = "renaming", !.todo = <<sources[1], targets[1]>>])
    BY <1>1, <1>2 DEF RenameLookup
  <1>4. /\ InHistory /\ MostTargets \in Nat /\ MostCalls(MostTargets) \in Nat
        /\ c \in ACall /\ c.calls = 0
        /\ c.req \in Request /\ c.req.path \in Path
        /\ c.req.to \in Path /\ c.req.kind = "rename"
        /\ ConnectionCache(Past, MostTargets, resolvedConnections)
        /\ MappingCache(Past, MostTargets, resolvedMappings)
    <2>1. PICK d : d = Called(c)
      OBVIOUS
    <2> QED BY <1>1, <1>3, <2>1, TwoEnds
  <1>5. /\ ConnectionCache(Past, MostTargets, resolvedConnections')
        /\ MappingCache(Past, MostTargets, resolvedMappings')
    BY <1>3, <1>4
  <1>6. CASE sources = <<>> \/ targets = <<>> \/ sources[1].share # targets[1].share
    <2>1. PICK d : d = [c EXCEPT !.at = "share"]
      OBVIOUS
    <2>2. d \in ACall /\ d.at = "share" /\ d.req = c.req /\ d.calls = 0
      BY <1>4, <2>1 DEF ACall, Steps
    <2>3. AtShare(Past, MostTargets, d) /\ d.at \in ShareSteps
      BY <1>4, <2>2 DEF AtShare, ShareSteps
    <2>4. CallInv(Past, MostTargets, d)
      BY <1>4, <2>2, <2>3, ShareStep
    <2> QED BY <1>3, <1>5, <1>6, <2>1, <2>4, StepKeeps
  <1>7. CASE ~(sources = <<>> \/ targets = <<>> \/ sources[1].share # targets[1].share)
    <2>1. /\ Fits(Past, MostTargets, Root, c.req.path, sources)
          /\ Fits(Past, MostTargets, Root, c.req.to, targets)
      BY <1>2, <1>4, SharesAssumption, CachedFits
    <2>2. PICK source, target : source = sources[1] /\ target = targets[1]
      OBVIOUS
    <2>3. InHand(Past, source, c.req.path) /\ source \in Mapping /\ 1 <= MostTargets
      BY <1>4, <1>7, <2>1, <2>2, FirstInHand
    <2>4. InHand(Past, target, c.req.to) /\ target \in Mapping
      BY <1>4, <1>7, <2>1, <2>2, FirstInHand
    <2>5. PICK todo : todo = <<source, target>>
      OBVIOUS
    <2>6. todo \in Seq(Mapping) /\ todo[1] = source /\ todo[2] = target
      BY <2>3, <2>4, <2>5
    <2>7. PICK d : d = [c EXCEPT !.at = "renaming", !.todo = todo]
      OBVIOUS
    <2>8. d \in ACall /\ d.at = "renaming" /\ d.req = c.req /\ d.calls = 0 /\ d.todo = todo
      BY <1>4, <2>6, <2>7 DEF ACall, Steps
    <2>9. d.at \in StepsOf(d.req.kind)
      BY <1>4, <2>8 DEF StepsOf
    <2>10. AtPath(Past, MostTargets, d)
      BY <2>3, <2>4, <2>6, <2>8 DEF AtPath
    <2>11. /\ AtShare(Past, MostTargets, d) /\ AtFrames(Past, MostTargets, d)
           /\ AtEnd(Past, MostTargets, d)
      BY <2>8 DEF AtShare, AtFrames, AtEnd
    <2>12. CallInv(Past, MostTargets, d)
      BY <1>4, <2>8, <2>9, <2>10, <2>11 DEF CallInv
    <2>13. Goes(t, d)
      BY <1>3, <1>7, <2>2, <2>5, <2>7
    <2> QED BY <1>3, <1>5, <2>12, <2>13, StepKeeps
  <1> QED BY <1>6, <1>7

\* and is done at what it has found.
LEMMA RenameCachedKeeps ==
  ASSUME Inv, NEW t \in Threads, RenameCached(t)
  PROVE  Inv'
  <1>1. PICK b : b = call[t]
    OBVIOUS
  <1>2. PICK c : c = Called(b)
    OBVIOUS
  <1>3. b.at = "renaming" /\ UNCHANGED <<history, now, resolvedConnections>>
    <2>1. c.at = "renaming" /\ UNCHANGED <<history, now, resolvedConnections>>
      BY <1>1, <1>2 DEF RenameCached
    <2>2. c.at = b.at
      BY <1>1, <1>2, CallFacts, CalledFacts
    <2> QED BY <2>1, <2>2
  <1>4. /\ InHistory /\ MostTargets \in Nat /\ MostCalls(MostTargets) \in Nat
        /\ MostTargets <= MostCalls(MostTargets) /\ c \in ACall
        /\ CallInv(Past, MostTargets, b) /\ c.calls = 1 /\ c.req = b.req /\ c.todo = b.todo
        /\ c.req \in Request /\ c.req.path \in Path
        /\ c.req.to \in Path /\ c.req.kind = "rename"
        /\ ConnectionCache(Past, MostTargets, resolvedConnections)
        /\ MappingCache(Past, MostTargets, resolvedMappings)
    BY <1>1, <1>2, <1>3, TwoEnds
  <1>5. PICK source, target : source = c.todo[1] /\ target = c.todo[2]
    OBVIOUS
  <1>6. /\ InHand(Past, source, c.req.path) /\ InHand(Past, target, c.req.to)
        /\ 1 <= MostTargets
    BY <1>3, <1>4, <1>5 DEF CallInv, AtPath
  <1>7. PICK from, to : /\ from = Location(source.share, TargetPath(source, c.req.path))
                        /\ to = Location(target.share, TargetPath(target, c.req.to))
    OBVIOUS
  <1>8. PICK answer \in AnswersBoth(from, to) :
          IF DfsReferral(answer)
          THEN /\ resolvedMappings' =
                    WithoutMapping(WithoutMapping(resolvedMappings, Root, source.orig),
                                   Root, target.orig)
               /\ Goes(t, [c EXCEPT !.at = "share", !.todo = <<>>])
          ELSE /\ Goes(t, Finished(c, answer, Ends(c.req, from, to), <<>>))
               /\ UNCHANGED resolvedMappings
    BY <1>1, <1>2, <1>5, <1>7 DEF RenameCached
  <1>9. ConnectionCache(Past, MostTargets, resolvedConnections')
    BY <1>3, <1>4
  <1>10. CASE DfsReferral(answer)
    <2>1. PICK d : d = [c EXCEPT !.at = "share", !.todo = <<>>]
      OBVIOUS
    <2>2. d \in ACall /\ d.at = "share" /\ d.req = c.req /\ d.calls = 1
      <3>1. <<>> \in Seq(Mapping)
        BY EmptySeq
      <3> QED BY <1>4, <2>1, <3>1 DEF ACall, Steps
    <2>3. 1 <= MostCalls(MostTargets)
      BY <1>4, <1>6
    <2>4. AtShare(Past, MostTargets, d) /\ d.at \in ShareSteps
      BY <2>2, <2>3 DEF AtShare, ShareSteps
    <2>5. CallInv(Past, MostTargets, d)
      BY <1>4, <2>2, <2>4, ShareStep
    <2>6. MappingCache(Past, MostTargets, resolvedMappings')
      <3>1. PICK one : one = WithoutMapping(resolvedMappings, Root, source.orig)
        OBVIOUS
      <3>2. MappingCache(Past, MostTargets, one)
        BY <1>4, <3>1, WithoutMappingCache
      <3>3. MappingCache(Past, MostTargets, WithoutMapping(one, Root, target.orig))
        BY <3>2, WithoutMappingCache
      <3> QED BY <1>8, <1>10, <3>1, <3>3
    <2> QED BY <1>3, <1>8, <1>9, <1>10, <2>1, <2>5, <2>6, StepKeeps
  <1>11. CASE ~DfsReferral(answer)
    <2>1. from \in Reach(Past, c.req.path) /\ from \in Place
      BY <1>4, <1>6, <1>7, InHandReached
    <2>2. to \in Reach(Past, c.req.to) /\ to \in Place
      BY <1>4, <1>6, <1>7, InHandReached
    <2>3. c.calls <= LastLimit(MostTargets, c.req)
      BY <1>4 DEF LastLimit
    <2>4. CallInv(Past, MostTargets, Finished(c, answer, Ends(c.req, from, to), <<>>))
      BY <1>4, <2>1, <2>2, <2>3, EndsInv
    <2> QED BY <1>3, <1>4, <1>8, <1>9, <1>11, <2>4, StepKeeps
  <1> QED BY <1>10, <1>11

\* A mapping of the source that does not cover the new name is that of a link above the
\* source and not above the new name.
LEMMA UncoveredCrosses ==
  ASSUME NEW worlds, NEW req \in Request, NEW m, Leads(worlds, Root, m),
         IsPrefix(m.orig, req.path), ~IsPrefix(m.orig, req.to)
  PROVE  CrossesLink(worlds, req)
  <1>1. req.to \in Path
    BY DEF Request
  <1>2. m.orig # <<>>
    BY <1>1, EmptyPrefix
  <1>3. PICK world \in worlds : \E link \in world.links : link.share = Root /\ link.path = m.orig
    BY <1>2 DEF Leads
  <1>4. PICK link \in world.links : link.share = Root /\ link.path = m.orig
    BY <1>3
  <1>5. link \in LinksAbove(world, Root, req.path) /\ link \notin LinksAbove(world, Root, req.to)
    BY <1>4 DEF LinksAbove
  <1> QED BY <1>5 DEF CrossesLink

\* and by what was resolved.
LEMMA RenameResolvedKeeps ==
  ASSUME Inv, NEW t \in Threads, RenameResolved(t)
  PROVE  Inv'
  <1>1. PICK b : b = call[t]
    OBVIOUS
  <1>2. PICK c : c = Called(b)
    OBVIOUS
  <1>3. PICK m : m = Head(c.todo)
    OBVIOUS
  <1>4. b.at = "renamed" /\ UNCHANGED <<history, now, resolvedConnections, resolvedMappings>>
    <2>1. c.at = "renamed" /\ UNCHANGED <<history, now, resolvedConnections, resolvedMappings>>
      BY <1>1, <1>2 DEF RenameResolved
    <2>2. c.at = b.at
      BY <1>1, <1>2, CallFacts, CalledFacts
    <2> QED BY <2>1, <2>2
  <1>5. /\ InHistory /\ MostTargets \in Nat /\ MostCalls(MostTargets) \in Nat
        /\ MostTargets <= MostCalls(MostTargets) /\ c \in ACall
        /\ CallInv(Past, MostTargets, b) /\ c.calls = b.calls + 1 /\ b.calls \in Nat
        /\ b.calls <= MostCalls(MostTargets) + 2 * MostTargets + 1 /\ c.todo = b.todo
        /\ c.req = b.req /\ c.req \in Request /\ c.req.path \in Path
        /\ c.req.to \in Path /\ c.req.kind = "rename"
        /\ ConnectionCache(Past, MostTargets, resolvedConnections)
        /\ MappingCache(Past, MostTargets, resolvedMappings)
    BY <1>1, <1>2, <1>4, TwoEnds
  <1>6. PICK ms : ms = c.todo
    OBVIOUS
  <1>7. Backed(Past, MostTargets, Root, ms) /\ ms # <<>> /\ Covers(ms, c.req.path)
    BY <1>4, <1>5, <1>6 DEF CallInv, AtPath
  <1>8. ms \in Seq(Mapping) /\ 1 \in DOMAIN ms /\ Len(ms) \in Nat \ {0} /\ Len(ms) <= MostTargets
    BY <1>7, TailFacts DEF Backed
  <1>9. IsPrefix(ms[1].orig, c.req.path)
    BY <1>7, <1>8 DEF Covers
  <1>10. PICK from, to : /\ from = Location(m.share, TargetPath(m, c.req.path))
                         /\ to = Location(m.share, IF IsPathPrefix(m.orig, c.req.to)
                                                   THEN TargetPath(m, c.req.to) ELSE c.req.to)
    OBVIOUS
  <1>11. PICK answer \in AnswersBoth(from, to) :
           Goes(t, Finished(c, answer, Ends(c.req, from, to), <<>>))
    BY <1>1, <1>2, <1>3, <1>10 DEF RenameResolved
  <1>12. /\ m = ms[1] /\ from \in Reach(Past, c.req.path) /\ from \in Place
         /\ m \in Mapping /\ Leads(Past, Root, m)
    BY <1>3, <1>5, <1>6, <1>7, <1>9, <1>10, MappingReached
  <1>13. /\ to \in Place
         /\ to \in Reach(Past, c.req.to) \/ (c.req.kind = "rename" /\ CrossesLink(Past, c.req))
    <2>1. CASE IsPrefix(m.orig, c.req.to)
      <3>1. to = Location(m.share, TargetPath(m, c.req.to))
        BY <1>10, <2>1 DEF IsPathPrefix
      <3> QED BY <1>5, <1>7, <1>12, <2>1, <3>1, MappingReached
    <2>2. CASE ~IsPrefix(m.orig, c.req.to)
      <3>1. to = Location(m.share, c.req.to)
        BY <1>10, <2>2 DEF IsPathPrefix
      <3>2. to \in Place
        BY <1>5, <1>12, <3>1 DEF Location, Place, Mapping
      <3>3. CrossesLink(Past, c.req)
        BY <1>5, <1>9, <1>12, <2>2, UncoveredCrosses
      <3> QED BY <1>5, <3>2, <3>3
    <2> QED BY <2>1, <2>2
  <1>14. c.calls <= LastLimit(MostTargets, c.req)
    <2>1. c.calls <= 2 * MostCalls(MostTargets) + 2 * MostTargets + 1
      BY <1>5, <1>8
    <2> QED BY <1>5, <2>1 DEF LastLimit
  <1>15. CallInv(Past, MostTargets, Finished(c, answer, Ends(c.req, from, to), <<>>))
    BY <1>5, <1>12, <1>13, <1>14, EndsInv
  <1> QED BY <1>4, <1>5, <1>11, <1>15, StepKeeps

\* A copy looks both ends up in the caches.
LEMMA CopyLookupKeeps ==
  ASSUME Inv, NEW t \in Threads, CopyLookup(t)
  PROVE  Inv'
  <1>1. PICK c : c = call[t]
    OBVIOUS
  <1>2. c.at = "copy" /\ UNCHANGED <<history, now, resolvedConnections, resolvedMappings>>
    BY <1>1 DEF CopyLookup
  <1>3. /\ InHistory /\ MostTargets \in Nat /\ c \in ACall /\ c.calls = 0
        /\ c.req \in Request /\ c.req.path \in Path /\ c.req.to \in Path /\ c.req.kind = "copy"
        /\ ConnectionCache(Past, MostTargets, resolvedConnections)
        /\ MappingCache(Past, MostTargets, resolvedMappings)
    <2>1. PICK d : d = Called(c)
      OBVIOUS
    <2> QED BY <1>1, <1>2, <2>1, TwoEnds
  <1>4. PICK from \in CachedEnd(c.req.path), to \in CachedEnd(c.req.to) :
          Goes(t, [c EXCEPT !.at = "copying", !.touched = Ends(c.req, from, to)])
    BY <1>1 DEF CopyLookup
  <1>5. from \in Reach(Past, c.req.path) /\ from \in Place
    BY <1>3, <1>4, CachedEndReached
  <1>6. to \in Reach(Past, c.req.to) /\ to \in Place
    BY <1>3, <1>4, CachedEndReached
  <1>7. PICK d : d = [c EXCEPT !.at = "copying", !.touched = Ends(c.req, from, to)]
    OBVIOUS
  <1>8. Ends(c.req, from, to) \in SUBSET (Path \X Place)
    BY <1>3, <1>5, <1>6 DEF Ends
  <1>9. d \in ACall /\ d.at = "copying" /\ d.req = c.req /\ d.calls = 0
        /\ d.touched = Ends(c.req, from, to)
    BY <1>3, <1>7, <1>8 DEF ACall, Steps
  <1>10. d.at \in StepsOf(d.req.kind)
    BY <1>3, <1>9 DEF StepsOf
  <1>11. AtPath(Past, MostTargets, d)
    BY <1>5, <1>6, <1>9 DEF AtPath
  <1>12. /\ AtShare(Past, MostTargets, d) /\ AtFrames(Past, MostTargets, d)
         /\ AtEnd(Past, MostTargets, d)
    BY <1>9 DEF AtShare, AtFrames, AtEnd
  <1>13. CallInv(Past, MostTargets, d)
    BY <1>3, <1>9, <1>10, <1>11, <1>12 DEF CallInv
  <1> QED BY <1>2, <1>3, <1>4, <1>7, <1>13, StepKeeps

\* The directory of the new name is above it.
LEMMA ParentAbove ==
  ASSUME NEW path \in Path
  PROVE  ParentPath(path) \in Path /\ IsPrefix(ParentPath(path), path)
  <1>1. CASE path = <<>>
    BY <1>1, EmptyPrefix DEF ParentPath
  <1>2. CASE path # <<>>
    <2>1. PICK parent : parent = Front(path)
      OBVIOUS
    <2>2. /\ Len(path) \in Nat \ {0} /\ parent \in Path /\ Len(parent) = Len(path) - 1
          /\ \A i \in 1..Len(path) - 1 : parent[i] = path[i]
      BY <1>2, <2>1, FrontFacts DEF Path
    <2>3. IsPrefix(parent, path)
      BY <2>2, PrefixPlaces
    <2> QED BY <1>2, <2>1, <2>2, <2>3 DEF ParentPath
  <1> QED BY <1>1, <1>2

\* Where an end of a copy is after resolving it, or was before.
LEMMA ResolvedEnd ==
  ASSUME NEW k \in Nat, NEW touched \in SUBSET (Path \X Place),
         \A end \in touched : end[2] \in Reach(Past, end[1]),
         NEW path \in Path, \E end \in touched : end[1] = path,
         NEW above \in Path, IsPrefix(above, path), NEW ms, Fits(Past, k, Root, above, ms),
         NEW at \in EndAfter(touched, ms, path)
  PROVE  at \in Reach(Past, path) /\ at \in Place
  <1>1. CASE ms = <<>>
    <2>1. PICK old : old = CHOOSE end \in touched : end[1] = path
      OBVIOUS
    <2>2. old \in touched /\ old[1] = path
      BY <2>1
    <2>3. at = old[2]
      BY <1>1, <2>1 DEF EndAfter
    <2> QED BY <2>2, <2>3
  <1>2. CASE ms # <<>>
    <2>1. Backed(Past, k, Root, ms) /\ Covers(ms, above) /\ 1 \in DOMAIN ms
          /\ ms \in Seq(Mapping)
      BY <1>2, EmptyMappings DEF Fits, Backed
    <2>2. ms[1].orig \in Path /\ IsPrefix(ms[1].orig, above)
      <3>1. ms[1] \in Mapping
        BY <1>2, <2>1, TailFacts
      <3>2. IsPrefix(ms[1].orig, above)
        BY <2>1 DEF Covers
      <3> QED BY <3>1, <3>2 DEF Mapping
    <2>3. IsPrefix(ms[1].orig, path)
      BY <2>2, PrefixTransitive
    <2>4. at = Location(ms[1].share, TargetPath(ms[1], path))
      BY <1>2 DEF EndAfter
    <2> QED BY <1>2, <2>1, <2>3, <2>4, MappingReached
  <1> QED BY <1>1, <1>2

\* It is done there,
LEMMA CopyKeeps ==
  ASSUME Inv, NEW t \in Threads, Copy(t)
  PROVE  Inv'
  <1>1. PICK b : b = call[t]
    OBVIOUS
  <1>2. PICK c : c = Called(b)
    OBVIOUS
  <1>3. b.at = "copying" /\ UNCHANGED <<history, now, resolvedConnections, resolvedMappings>>
    <2>1. c.at = "copying" /\ UNCHANGED <<history, now, resolvedConnections, resolvedMappings>>
      BY <1>1, <1>2 DEF Copy
    <2>2. c.at = b.at
      BY <1>1, <1>2, CallFacts, CalledFacts
    <2> QED BY <2>1, <2>2
  <1>4. /\ InHistory /\ MostTargets \in Nat /\ c \in ACall /\ c.calls = 1
        /\ CallInv(Past, MostTargets, b) /\ c.req = b.req /\ c.touched = b.touched
        /\ c.req \in Request /\ c.req.path \in Path /\ c.req.to \in Path /\ c.req.kind = "copy"
        /\ ConnectionCache(Past, MostTargets, resolvedConnections)
        /\ MappingCache(Past, MostTargets, resolvedMappings)
    BY <1>1, <1>2, <1>3, TwoEnds
  <1>5. PICK touched, path, new : touched = c.touched /\ path = c.req.path /\ new = c.req.to
    OBVIOUS
  <1>6. PICK from \in EndAfter(touched, <<>>, path), to \in EndAfter(touched, <<>>, new) :
          \E answer \in AnswersBoth(from, to) :
            Goes(t, IF PathReferral(answer) THEN [c EXCEPT !.at = "copyPath"]
                    ELSE IF ShareReferral(answer) THEN [c EXCEPT !.at = "copyShare"]
                    ELSE Finished(c, answer, Ends(c.req, from, to), <<>>))
    BY <1>1, <1>2, <1>5 DEF Copy
  <1>7. PICK answer \in AnswersBoth(from, to) :
            Goes(t, IF PathReferral(answer) THEN [c EXCEPT !.at = "copyPath"]
                    ELSE IF ShareReferral(answer) THEN [c EXCEPT !.at = "copyShare"]
                    ELSE Finished(c, answer, Ends(c.req, from, to), <<>>))
    BY <1>6
  <1>8. PICK oldFrom \in Reach(Past, path), oldTo \in Reach(Past, new) :
          touched = Ends(c.req, oldFrom, oldTo)
    BY <1>3, <1>4, <1>5 DEF CallInv, AtPath
  <1>9. /\ touched \in SUBSET (Path \X Place)
        /\ \A end \in touched : end[2] \in Reach(Past, end[1])
        /\ (\E end \in touched : end[1] = path) /\ (\E end \in touched : end[1] = new)
    BY <1>4, <1>5, <1>8 DEF ACall, Ends
  <1>10. /\ path \in Path /\ new \in Path /\ IsPrefix(path, path) /\ IsPrefix(new, new)
         /\ Fits(Past, MostTargets, Root, path, <<>>) /\ Fits(Past, MostTargets, Root, new, <<>>)
    BY <1>4, <1>5, NothingFits, PrefixPlaces DEF Path
  <1>11. from \in Reach(Past, path) /\ from \in Place
    BY <1>4, <1>6, <1>9, <1>10, ResolvedEnd
  <1>12. to \in Reach(Past, new) /\ to \in Place
    BY <1>4, <1>6, <1>9, <1>10, ResolvedEnd
  <1>13. CASE PathReferral(answer)
    <2>1. PICK d : d = [c EXCEPT !.at = "copyPath"]
      OBVIOUS
    <2>2. d \in ACall /\ d.at = "copyPath" /\ d.req = c.req /\ d.calls = 1
          /\ d.touched = touched
      BY <1>4, <1>5, <2>1 DEF ACall, Steps
    <2>3. d.at \in StepsOf(d.req.kind)
      BY <1>4, <2>2 DEF StepsOf
    <2>4. AtPath(Past, MostTargets, d)
      BY <1>5, <1>8, <2>2 DEF AtPath
    <2>5. /\ AtShare(Past, MostTargets, d) /\ AtFrames(Past, MostTargets, d)
          /\ AtEnd(Past, MostTargets, d)
      BY <2>2 DEF AtShare, AtFrames, AtEnd
    <2>6. CallInv(Past, MostTargets, d)
      BY <1>4, <2>2, <2>3, <2>4, <2>5 DEF CallInv
    <2> QED BY <1>3, <1>4, <1>7, <1>13, <2>1, <2>6, StepKeeps
  <1>14. CASE ~PathReferral(answer) /\ ShareReferral(answer)
    <2>1. PICK d : d = [c EXCEPT !.at = "copyShare"]
      OBVIOUS
    <2>2. d \in ACall /\ d.at = "copyShare" /\ d.req = c.req /\ d.calls = 1
      BY <1>4, <2>1 DEF ACall, Steps
    <2>3. d.at \in StepsOf(d.req.kind)
      BY <1>4, <2>2 DEF StepsOf
    <2>4. AtPath(Past, MostTargets, d)
      BY <2>2 DEF AtPath
    <2>5. /\ AtShare(Past, MostTargets, d) /\ AtFrames(Past, MostTargets, d)
          /\ AtEnd(Past, MostTargets, d)
      BY <2>2 DEF AtShare, AtFrames, AtEnd
    <2>6. CallInv(Past, MostTargets, d)
      BY <1>4, <2>2, <2>3, <2>4, <2>5 DEF CallInv
    <2> QED BY <1>3, <1>4, <1>7, <1>14, <2>1, <2>6, StepKeeps
  <1>15. CASE ~PathReferral(answer) /\ ~ShareReferral(answer)
    <2>1. c.calls <= LastLimit(MostTargets, c.req)
      BY <1>4 DEF LastLimit
    <2>2. CallInv(Past, MostTargets, Finished(c, answer, Ends(c.req, from, to), <<>>))
      BY <1>4, <1>5, <1>11, <1>12, <2>1, EndsInv
    <2> QED BY <1>3, <1>4, <1>7, <1>15, <2>2, StepKeeps
  <1> QED BY <1>13, <1>14, <1>15

\* in the targets of the paths,
LEMMA CopyPathKeeps ==
  ASSUME Inv, NEW t \in Threads, CopyPath(t)
  PROVE  Inv'
  <1>1. PICK b : b = call[t]
    OBVIOUS
  <1>2. PICK c : c = Called(b)
    OBVIOUS
  <1>3. b.at = "copyPath" /\ UNCHANGED <<history, now, resolvedConnections>>
    <2>1. c.at = "copyPath" /\ UNCHANGED <<history, now, resolvedConnections>>
      BY <1>1, <1>2 DEF CopyPath
    <2>2. c.at = b.at
      BY <1>1, <1>2, CallFacts, CalledFacts
    <2> QED BY <2>1, <2>2
  <1>4. /\ InHistory /\ MostTargets \in Nat /\ c \in ACall /\ c.calls = b.calls + 1
        /\ b.calls \in Nat /\ b.calls <= 1 /\ c.touched = b.touched /\ c.req = b.req
        /\ CallInv(Past, MostTargets, b)
        /\ c.req \in Request /\ c.req.path \in Path /\ c.req.to \in Path /\ c.req.kind = "copy"
        /\ ConnectionCache(Past, MostTargets, resolvedConnections)
        /\ MappingCache(Past, MostTargets, resolvedMappings)
    BY <1>1, <1>2, <1>3, TwoEnds
  <1>5. PICK touched, path, new : touched = c.touched /\ path = c.req.path /\ new = c.req.to
    OBVIOUS
  <1>6. PICK sources \in ResolvePathTargets(Root, path),
             targets \in ResolvePathTargets(Root, ParentPath(new)) :
          /\ resolvedMappings' = WithMappings(WithMappings(resolvedMappings, Root, sources),
                                              Root, targets)
          /\ \E from \in EndAfter(touched, sources, path),
                to \in EndAfter(touched, targets, new) :
               \E answer \in AnswersBoth(from, to) :
                 Goes(t, Finished(c, answer, Ends(c.req, from, to), <<>>))
    BY <1>1, <1>2, <1>5 DEF CopyPath
  <1>7. PICK from \in EndAfter(touched, sources, path), to \in EndAfter(touched, targets, new) :
          \E answer \in AnswersBoth(from, to) :
            Goes(t, Finished(c, answer, Ends(c.req, from, to), <<>>))
    BY <1>6
  <1>8. PICK answer \in AnswersBoth(from, to) :
          Goes(t, Finished(c, answer, Ends(c.req, from, to), <<>>))
    BY <1>7
  <1>9. PICK oldFrom \in Reach(Past, path), oldTo \in Reach(Past, new) :
          touched = Ends(c.req, oldFrom, oldTo)
    BY <1>3, <1>4, <1>5 DEF CallInv, AtPath
  <1>10. /\ touched \in SUBSET (Path \X Place)
         /\ \A end \in touched : end[2] \in Reach(Past, end[1])
         /\ (\E end \in touched : end[1] = path) /\ (\E end \in touched : end[1] = new)
    BY <1>4, <1>5, <1>9 DEF ACall, Ends
  <1>11. Root \in Shares /\ path \in Path /\ new \in Path /\ IsPrefix(path, path)
         /\ ParentPath(new) \in Path /\ IsPrefix(ParentPath(new), new)
    BY <1>4, <1>5, SharesAssumption, ParentAbove, PrefixPlaces DEF Path
  <1>12. Fits(Past, MostTargets, Root, path, sources)
    BY <1>4, <1>6, <1>11, ResolvedPathFits
  <1>13. Fits(Past, MostTargets, Root, ParentPath(new), targets)
    BY <1>4, <1>6, <1>11, ResolvedPathFits
  <1>14. from \in Reach(Past, path) /\ from \in Place
    BY <1>4, <1>7, <1>10, <1>11, <1>12, ResolvedEnd
  <1>15. to \in Reach(Past, new) /\ to \in Place
    BY <1>4, <1>7, <1>10, <1>11, <1>13, ResolvedEnd
  <1>16. c.calls <= LastLimit(MostTargets, c.req)
    BY <1>4 DEF LastLimit
  <1>17. CallInv(Past, MostTargets, Finished(c, answer, Ends(c.req, from, to), <<>>))
    BY <1>4, <1>5, <1>14, <1>15, <1>16, EndsInv
  <1>18. MappingCache(Past, MostTargets, resolvedMappings')
    <2>1. PICK one : one = WithMappings(resolvedMappings, Root, sources)
      OBVIOUS
    <2>2. MappingCache(Past, MostTargets, one)
      BY <1>4, <1>11, <1>12, <2>1, WithMappingsCache
    <2>3. MappingCache(Past, MostTargets, WithMappings(one, Root, targets))
      BY <1>11, <1>13, <2>2, WithMappingsCache
    <2> QED BY <1>6, <2>1, <2>3
  <1>19. ConnectionCache(Past, MostTargets, resolvedConnections')
    BY <1>3, <1>4
  <1> QED BY <1>3, <1>8, <1>17, <1>18, <1>19, StepKeeps

\* or in those of the share.
LEMMA CopyShareKeeps ==
  ASSUME Inv, NEW t \in Threads, CopyShare(t)
  PROVE  Inv'
  <1>1. PICK b : b = call[t]
    OBVIOUS
  <1>2. PICK c : c = Called(b)
    OBVIOUS
  <1>3. b.at = "copyShare" /\ UNCHANGED <<history, now, resolvedMappings>>
    <2>1. c.at = "copyShare" /\ UNCHANGED <<history, now, resolvedMappings>>
      BY <1>1, <1>2 DEF CopyShare
    <2>2. c.at = b.at
      BY <1>1, <1>2, CallFacts, CalledFacts
    <2> QED BY <2>1, <2>2
  <1>4. /\ InHistory /\ MostTargets \in Nat /\ c \in ACall /\ c.calls = b.calls + 1
        /\ b.calls \in Nat /\ b.calls <= 1
        /\ c.req \in Request /\ c.req.path \in Path /\ c.req.to \in Path /\ c.req.kind = "copy"
        /\ ConnectionCache(Past, MostTargets, resolvedConnections)
        /\ MappingCache(Past, MostTargets, resolvedMappings)
    BY <1>1, <1>2, <1>3, TwoEnds
  <1>5. PICK targets \in ResolveTargets(Root) :
          LET share == IF targets = <<>> THEN Root ELSE targets[1].share
              from == Location(share, c.req.path)
              to == Location(share, c.req.to)
          IN /\ resolvedConnections' = WithTargets(resolvedConnections, Root, targets)
             /\ \E answer \in AnswersBoth(from, to) :
                  Goes(t, Finished(c, answer, Ends(c.req, from, to), <<>>))
    BY <1>1, <1>2 DEF CopyShare
  <1>6. PICK share : share = IF targets = <<>> THEN Root ELSE targets[1].share
    OBVIOUS
  <1>7. PICK from, to : from = Location(share, c.req.path) /\ to = Location(share, c.req.to)
    OBVIOUS
  <1>8. resolvedConnections' = WithTargets(resolvedConnections, Root, targets)
    BY <1>5
  <1>9. PICK answer \in AnswersBoth(from, to) :
          Goes(t, Finished(c, answer, Ends(c.req, from, to), <<>>))
    BY <1>5, <1>6, <1>7
  <1>10. Root \in Shares /\ Rooted(Past, MostTargets, Root, targets)
    BY <1>4, <1>5, SharesAssumption, ResolvedTargetsRooted
  <1>11. share \in Shares /\ \A path \in Path : Location(share, path) \in Reach(Past, path)
    <2>1. CASE targets = <<>>
      BY <1>6, <1>10, <2>1, RootIsReached
    <2>2. CASE targets # <<>>
      <3>1. share = targets[1].share
        BY <1>6, <2>2
      <3>2. \A path \in Path : /\ Location(targets[1].share, path) \in Reach(Past, path)
                               /\ targets[1].share \in Shares
        BY <1>10, <2>2, RootTargetReached
      <3>3. <<>> \in Path
        BY SomePaths
      <3> QED BY <3>1, <3>2, <3>3
    <2> QED BY <2>1, <2>2
  <1>12. /\ from \in Reach(Past, c.req.path) /\ from \in Place
         /\ to \in Reach(Past, c.req.to) /\ to \in Place
    BY <1>4, <1>7, <1>11 DEF Location, Place
  <1>13. c.calls <= LastLimit(MostTargets, c.req)
    BY <1>4 DEF LastLimit
  <1>14. CallInv(Past, MostTargets, Finished(c, answer, Ends(c.req, from, to), <<>>))
    BY <1>4, <1>12, <1>13, EndsInv
  <1>15. ConnectionCache(Past, MostTargets, resolvedConnections')
    BY <1>4, <1>8, <1>10, WithTargetsCache
  <1> QED BY <1>3, <1>4, <1>9, <1>14, <1>15, StepKeeps

\* What a call has reached it has reached in a longer past too.
LEMMA ReachGrows ==
  ASSUME NEW few, NEW many, few \subseteq many, NEW path
  PROVE  Reach(few, path) \subseteq Reach(many, path)
  <1>1. MaxNested + 1 \in 0..MaxNested + 1
    BY NestedAssumption
  <1> QED BY <1>1, StagesGrow DEF Reach

\* The stack of a call stays one as the namespace changes;
LEMMA StackGrows ==
  ASSUME NEW few, NEW many, few \subseteq many, NEW k, NEW path, NEW frames,
         Stack(few, k, path, frames)
  PROVE  Stack(many, k, path, frames)
  <1>1. ASSUME NEW d \in 1..Len(frames)
        PROVE  Level(many, k, path, frames[d], d)
    <2>1. PICK f : f = frames[d]
      OBVIOUS
    <2>2. Level(few, k, path, f, d)
      BY <2>1 DEF Stack
    <2>3. Backed(many, k, ShareOf(f), f.todo)
      <3>1. PICK share, todo : share = ShareOf(f) /\ todo = f.todo
        OBVIOUS
      <3>2. Backed(few, k, share, todo)
        BY <2>2, <3>1 DEF Level
      <3>3. Backed(many, k, share, todo)
        BY <3>2, BackedGrows
      <3> QED BY <3>1, <3>3
    <2>4. d - 1 \in 0..MaxNested + 1
      <3>1. Len(frames) \in Nat /\ Len(frames) <= MaxNested + 1
        BY DEF Stack
      <3> QED BY <3>1, NestedAssumption
    <2>5. Stages(few, path)[d - 1] \subseteq Stages(many, path)[d - 1]
      BY <2>4, StagesGrow
    <2>6. Level(many, k, path, f, d)
      BY <2>2, <2>3, <2>5 DEF Level
    <2> QED BY <2>1, <2>6
  <1> QED BY <1>1 DEF Stack

\* so does all that holds of the call.
LEMMA CallInvGrows ==
  ASSUME NEW few, NEW many, few \subseteq many, NEW k, NEW c, CallInv(few, k, c)
  PROVE  CallInv(many, k, c)
  <1>1. AtShare(many, k, c)
    <2>1. PICK todo : todo = c.todo
      OBVIOUS
    <2>2. Rooted(few, k, Root, todo) => Rooted(many, k, Root, todo)
      BY RootedGrows
    <2> QED BY <2>1, <2>2 DEF CallInv, AtShare
  <1>2. AtPath(many, k, c)
    <2>1. PICK todo : todo = c.todo
      OBVIOUS
    <2>2. Backed(few, k, Root, todo) => Backed(many, k, Root, todo)
      BY BackedGrows
    <2>3. Reach(few, c.req.path) \subseteq Reach(many, c.req.path)
          /\ Reach(few, c.req.to) \subseteq Reach(many, c.req.to)
      BY ReachGrows
    <2>4. \A m, path : InHand(few, m, path) => InHand(many, m, path)
      BY LeadsGrows DEF InHand
    <2> QED BY <2>1, <2>2, <2>3, <2>4 DEF CallInv, AtPath
  <1>3. PICK path, frames : path = c.req.path /\ frames = c.frames
    OBVIOUS
  <1>4. Stack(few, k, path, frames) => Stack(many, k, path, frames)
    BY StackGrows
  <1>5. AtFrames(many, k, c)
    BY <1>3, <1>4 DEF CallInv, AtFrames
  <1>6. ~LeadsPastReferral(many) => ~LeadsPastReferral(few)
    BY LeadsPastReferralGrows
  <1>7. AtEnd(few, k, c)
    BY DEF CallInv
  <1>8. AtEnd(many, k, c)
    <2>1. c.touched \subseteq Places(few, path) => c.touched \subseteq Places(many, path)
      <3>1. Reach(few, path) \subseteq Reach(many, path)
        BY ReachGrows
      <3> QED BY <3>1 DEF Places
    <2>2. CrossesLink(few, c.req) => CrossesLink(many, c.req)
      BY DEF CrossesLink
    <2>3. (\A end \in c.touched : end[2] \in Reach(few, end[1]))
          => \A end \in c.touched : end[2] \in Reach(many, end[1])
      <3>1. \A end : Reach(few, end[1]) \subseteq Reach(many, end[1])
        BY ReachGrows
      <3> QED BY <3>1
    <2>4. CASE c.at = "return"
      BY <1>3, <1>4, <1>6, <1>7, <2>1, <2>4 DEF AtEnd
    <2>5. CASE c.at = "done"
      BY <1>6, <1>7, <2>2, <2>3, <2>5 DEF AtEnd
    <2>6. CASE c.at \notin {"return", "done"}
      BY <2>6 DEF AtEnd
    <2> QED BY <2>4, <2>5, <2>6
  <1> QED BY <1>1, <1>2, <1>5, <1>8 DEF CallInv

\* The namespace changes.
LEMMA ChangesKeeps ==
  ASSUME Inv, Changes
  PROVE  Inv'
  <1>1. /\ now < Len(history) /\ now' = now + 1
        /\ UNCHANGED <<history, resolvedConnections, resolvedMappings, call>>
    BY DEF Changes
  <1>2. InHistory /\ DOMAIN call = Threads
        /\ ConnectionCache(Past, MostTargets, resolvedConnections)
        /\ MappingCache(Past, MostTargets, resolvedMappings)
        /\ \A t \in Threads : CallInv(Past, MostTargets, call[t])
    BY DEF Inv
  <1>3. history \in Seq(AnyWorld) /\ now \in DOMAIN history
    BY <1>2, HistoriesAssumption DEF InHistory
  <1>4. DOMAIN history = 1..Len(history) /\ Len(history) \in Nat
    BY <1>3
  <1>5. now \in Nat /\ now' \in DOMAIN history
    BY <1>1, <1>3, <1>4
  <1>6. InHistory'
    BY <1>1, <1>2, <1>5 DEF InHistory
  <1>7. Past \subseteq Past'
    BY <1>1, <1>5 DEF Past
  <1>8. MostTargets' = MostTargets
    BY <1>1 DEF MostTargets
  <1>9. PICK few, many, k : few = Past /\ many = Past' /\ k = MostTargets
    OBVIOUS
  <1>10. /\ ConnectionCache(many, k, resolvedConnections)
         /\ MappingCache(many, k, resolvedMappings)
    BY <1>2, <1>7, <1>9, CachesGrow
  <1>11. \A t \in Threads : CallInv(many, k, call[t])
    <2>1. ASSUME NEW t \in Threads
          PROVE  CallInv(many, k, call[t])
      BY <1>2, <1>7, <1>9, CallInvGrows
    <2> QED BY <2>1
  <1>12. /\ ConnectionCache(Past', MostTargets', resolvedConnections')
         /\ MappingCache(Past', MostTargets', resolvedMappings')
         /\ \A t \in Threads : CallInv(Past', MostTargets', call'[t])
    BY <1>1, <1>8, <1>9, <1>10, <1>11
  <1>13. DOMAIN call' = Threads
    BY <1>1, <1>2
  <1> QED BY <1>6, <1>12, <1>13 DEF Inv

\* A step that leaves the calls alone and puts nothing into the caches.
LEMMA CachesKeep ==
  ASSUME Inv, UNCHANGED <<history, now, call>>,
         ConnectionCache(Past, MostTargets, resolvedConnections'),
         MappingCache(Past, MostTargets, resolvedMappings')
  PROVE  Inv'
  <1>1. InHistory' /\ Past' = Past /\ MostTargets' = MostTargets
    BY DEF Inv, InHistory, Past, MostTargets
  <1>2. /\ ConnectionCache(Past', MostTargets', resolvedConnections')
        /\ MappingCache(Past', MostTargets', resolvedMappings')
    BY <1>1
  <1>3. DOMAIN call' = Threads /\ \A t \in Threads : CallInv(Past', MostTargets', call'[t])
    BY <1>1 DEF Inv
  <1> QED BY <1>1, <1>2, <1>3 DEF Inv

\* Entries of the caches expire.
LEMMA ExpireKeeps ==
  ASSUME Inv, ExpireTargets \/ ExpireMappings
  PROVE  Inv'
  <1>1. /\ ConnectionCache(Past, MostTargets, resolvedConnections)
        /\ MappingCache(Past, MostTargets, resolvedMappings) /\ MostTargets \in Nat
    BY MostTargetsFacts DEF Inv, InHistory
  <1>2. CASE ExpireTargets
    <2>1. PICK share \in Shares :
            resolvedConnections' = [resolvedConnections EXCEPT ![share] = <<>>]
      BY <1>2 DEF ExpireTargets
    <2>2. UNCHANGED <<history, now, resolvedMappings, call>>
      BY <1>2 DEF ExpireTargets
    <2>3. ConnectionCache(Past, MostTargets, resolvedConnections')
      BY <1>1, <2>1, NoTargetsCache
    <2> QED BY <1>1, <2>2, <2>3, CachesKeep
  <1>3. CASE ExpireMappings
    <2>1. PICK entry \in resolvedMappings : resolvedMappings' = resolvedMappings \ {entry}
      BY <1>3 DEF ExpireMappings
    <2>2. UNCHANGED <<history, now, resolvedConnections, call>>
      BY <1>3 DEF ExpireMappings
    <2>3. resolvedMappings' \subseteq resolvedMappings
      BY <2>1
    <2>4. MappingCache(Past, MostTargets, resolvedMappings')
      BY <1>1, <2>3, SmallerCache
    <2> QED BY <1>1, <2>2, <2>4, CachesKeep
  <1> QED BY <1>2, <1>3

\* The invariant holds at the beginning.
LEMMA InitInv == Init => Inv
  <1> SUFFICES ASSUME Init
               PROVE  Inv
    OBVIOUS
  <1>1. history \in Histories /\ now = 1 /\ resolvedConnections = [s \in Shares |-> <<>>]
        /\ resolvedMappings = {} /\ call = [t \in Threads |-> NoCall]
    BY DEF Init
  <1>2. InHistory
    <2>1. history \in Seq(AnyWorld) /\ history # <<>>
      BY <1>1, HistoriesAssumption
    <2>2. 1 \in DOMAIN history
      BY <2>1, TailFacts
    <2> QED BY <1>1, <2>2 DEF InHistory
  <1>3. MostTargets \in Nat
    BY <1>2, MostTargetsFacts DEF InHistory
  <1>4. ConnectionCache(Past, MostTargets, resolvedConnections)
    <2>1. Rooted(Past, MostTargets, Root, <<>>) /\ \A s : Rooted(Past, MostTargets, s, <<>>)
      BY <1>3, EmptyMappings DEF Rooted
    <2> QED BY <1>1, <2>1 DEF ConnectionCache
  <1>5. MappingCache(Past, MostTargets, resolvedMappings)
    BY <1>1 DEF MappingCache
  <1>6. CallInv(Past, MostTargets, NoCall)
    <2>1. NoCall \in ACall
      BY SomePaths DEF NoCall, ACall, Steps
    <2>2. NoCall.at = "idle" /\ NoCall.calls = 0
      BY DEF NoCall
    <2> QED BY <2>1, <2>2 DEF CallInv, AtShare, AtPath, AtFrames, AtEnd
  <1> QED BY <1>1, <1>2, <1>4, <1>5, <1>6 DEF Inv

-----------------------------------------------------------------------------
(* The theorems *)

\* The invariant holds in every state: the caches hold what some world of the past has
\* said, and every operation is where the past leads, with calls left for what it still
\* has in hand.
THEOREM Invariance == Spec => []Inv
  <1>1. Init => Inv
    BY InitInv
  <1>2. Inv /\ [Next]_vars => Inv'
    <2> SUFFICES ASSUME Inv, [Next]_vars
                 PROVE  Inv'
      OBVIOUS
    <2>1. ASSUME NEW t \in Threads, Start(t)
          PROVE  Inv'
      BY <2>1, StartKeeps
    <2>2. ASSUME NEW t \in Threads, Step(t)
          PROVE  Inv'
      <3>1. CASE ShareLookup(t)
        BY <3>1, ShareLookupKeeps
      <3>2. CASE CachedShare(t)
        BY <3>2, CachedShareKeeps
      <3>3. CASE Direct(t)
        BY <3>3, DirectKeeps
      <3>4. CASE ResolveShare(t)
        BY <3>4, ResolveShareKeeps
      <3>5. CASE ResolvedShare(t)
        BY <3>5, ResolvedShareKeeps
      <3>6. CASE Lookup(t)
        BY <3>6, LookupKeeps
      <3>7. CASE ResolvePath(t)
        BY <3>7, ResolvePathKeeps
      <3>8. CASE TryMapping(t)
        BY <3>8, TryMappingKeeps
      <3>9. CASE Return(t)
        BY <3>9, ReturnKeeps
      <3>10. CASE Nested(t)
        BY <3>10, NestedKeeps
      <3>11. CASE EndLoop(t)
        BY <3>11, EndLoopKeeps
      <3>12. CASE RenameLookup(t)
        BY <3>12, RenameLookupKeeps
      <3>13. CASE RenameCached(t)
        BY <3>13, RenameCachedKeeps
      <3>14. CASE RenameResolved(t)
        BY <3>14, RenameResolvedKeeps
      <3>15. CASE CopyLookup(t)
        BY <3>15, CopyLookupKeeps
      <3>16. CASE Copy(t)
        BY <3>16, CopyKeeps
      <3>17. CASE CopyPath(t)
        BY <3>17, CopyPathKeeps
      <3>18. CASE CopyShare(t)
        BY <3>18, CopyShareKeeps
      <3> QED BY <2>2, <3>1, <3>2, <3>3, <3>4, <3>5, <3>6, <3>7, <3>8, <3>9, <3>10, <3>11,
                 <3>12, <3>13, <3>14, <3>15, <3>16, <3>17, <3>18 DEF Step
    <2>3. CASE ExpireTargets \/ ExpireMappings
      BY <2>3, ExpireKeeps
    <2>4. CASE Changes
      BY <2>4, ChangesKeeps
    <2>5. CASE UNCHANGED vars
      <3>1. UNCHANGED <<history, now, call>>
            /\ resolvedConnections' = resolvedConnections /\ resolvedMappings' = resolvedMappings
        BY <2>5 DEF vars
      <3>2. /\ ConnectionCache(Past, MostTargets, resolvedConnections')
            /\ MappingCache(Past, MostTargets, resolvedMappings')
        BY <3>1 DEF Inv
      <3> QED BY <3>1, <3>2, CachesKeep
    <2> QED BY <2>1, <2>2, <2>3, <2>4, <2>5 DEF Next
  <1> QED BY <1>1, <1>2, PTL DEF Spec

\* A successful operation was done where the namespace leads the path it was asked for,
\* for any namespace, any changes of it, any threads and whatever they have cached.
THEOREM Serving == Spec => []ServesTheNamespace
  <1>1. Inv => ServesTheNamespace
    <2> SUFFICES ASSUME Inv, NEW t \in Threads, Done(t)
                 PROVE  \/ call[t].req.kind = "rename" /\ CrossesLink(Past, call[t].req)
                        \/ \A end \in call[t].touched : end[2] \in Reach(Past, end[1])
      BY DEF ServesTheNamespace
    <2>1. AtEnd(Past, MostTargets, call[t])
      BY DEF Inv, CallInv
    <2> QED BY <2>1 DEF AtEnd, Done
  <1> QED BY <1>1, Invariance, PTL

\* The entries of a listing come back below the directory that was asked for, through any
\* number of links.
THEOREM Naming == Spec => []NamesComeBack
  <1>1. Inv => NamesComeBack
    <2> SUFFICES ASSUME Inv, NEW t \in Threads, Done(t), call[t].req.kind = "list",
                        call[t].result = "ok", ~LeadsPastReferral(Past)
                 PROVE  call[t].named = Append(call[t].req.path, "x")
      BY DEF NamesComeBack
    <2>1. AtEnd(Past, MostTargets, call[t])
      BY DEF Inv, CallInv
    <2> QED BY <2>1 DEF AtEnd, Done, EntryOf
  <1> QED BY <1>1, Invariance, PTL

\* The number of calls that an operation has made, at every step of it.
LEMMA EffortWithin ==
  ASSUME Inv, NEW t \in Threads
  PROVE  call[t].calls <= IF call[t].at # "idle" /\ call[t].req.kind = "copy" THEN 2
                          ELSE 2 * MostCalls(MostTargets) + 2 * MostTargets + 1
  <1>1. PICK c : c = call[t]
    OBVIOUS
  <1>2. PICK k, most : k = MostTargets /\ most = MostCalls(MostTargets)
    OBVIOUS
  <1>3. /\ k \in Nat /\ most \in Nat /\ CallInv(Past, k, c) /\ c \in ACall /\ c.calls \in Nat
        /\ c.at # "idle" => c.req \in Request /\ c.at \in StepsOf(c.req.kind)
    BY <1>1, <1>2, CallFacts
  <1>4. k <= most /\ most = MostCalls(k)
    BY <1>2, <1>3, MostCallsFacts
  <1>5. c.at \in Steps /\ (c.at = "idle" => c.calls = 0)
        /\ AtShare(Past, k, c) /\ AtPath(Past, k, c) /\ AtFrames(Past, k, c) /\ AtEnd(Past, k, c)
    BY <1>3 DEF CallInv, ACall
  <1>6. CASE c.at = "idle"
    BY <1>1, <1>2, <1>3, <1>5, <1>6
  <1>7. CASE c.at # "idle" /\ c.req.kind = "copy"
    <2>1. c.at \in {"done", "copy", "copying", "copyPath", "copyShare"}
      BY <1>3, <1>7 DEF StepsOf
    <2>2. c.calls <= 2
      BY <1>3, <1>5, <1>7, <2>1 DEF AtPath, AtEnd
    <2> QED BY <1>1, <1>7, <2>2
  <1>8. CASE c.at # "idle" /\ c.req.kind # "copy"
    <2>1. c.req.kind \in {"check", "list", "rename"}
      BY <1>3, <1>8 DEF Request
    <2>2. c.at \in {"done"} \cup ShareSteps
                   \cup {"lookup", "resolvePath", "frames", "nested", "return", "rename",
                         "renaming", "renamed"}
      BY <1>3, <1>8, <2>1 DEF StepsOf
    <2>3. CASE c.at \in ShareSteps
      <3>1. c.at \in {"cachedShare", "resolvedShare"} => Len(c.todo) \in Nat
        BY <1>5 DEF AtShare, Rooted
      <3>2. c.calls <= most + 2 * k + 1
        BY <1>3, <1>4, <1>5, <2>3, <3>1 DEF AtShare, ShareSteps
      <3>3. c.calls <= 2 * most + 2 * k + 1
        BY <1>3, <3>2
      <3> QED BY <1>1, <1>2, <1>8, <3>3
    <2>4. CASE c.at \in {"lookup", "resolvePath", "rename", "renaming", "renamed"}
      <3>1. c.calls <= most + 2 * k + 1
        BY <1>3, <1>4, <1>5, <2>4 DEF AtPath
      <3>2. c.calls <= 2 * most + 2 * k + 1
        BY <1>3, <3>1
      <3> QED BY <1>1, <1>2, <1>8, <3>2
    <2>5. CASE c.at \in {"done", "return"}
      BY <1>1, <1>2, <1>4, <1>5, <1>8, <2>5 DEF AtEnd
    <2>6. CASE c.at \in {"frames", "nested"}
      <3>1. PICK frames : frames = c.frames
        OBVIOUS
      <3>2. /\ LimitedStack(frames)
            /\ (c.at = "frames" => Affordable(k, frames, c.calls, 0))
            /\ (c.at = "nested" => Affordable(k, frames, c.calls, 1) /\ Top(frames).todo # <<>>)
        BY <1>1, <1>2, <2>6, <3>1, ListingFacts
      <3>3. c.at = "nested" => Spent(k, frames, c.calls) /\ Top(frames).todo # <<>>
        BY <1>3, <3>2, NothingBehind
      <3>4. c.calls <= 2 * MostCalls(k) + 2 * k + 1
        BY <1>3, <2>6, <3>2, <3>3, WithinLimit
      <3> QED BY <1>1, <1>2, <1>8, <3>4
    <2> QED BY <2>2, <2>3, <2>4, <2>5, <2>6
  <1> QED BY <1>6, <1>7, <1>8

\* No operation calls the delegate more often than its bound, whatever circles the links
\* make and however the caches change while it runs.
THEOREM Effort == Spec => []EffortIsBounded
  <1>1. Inv => EffortIsBounded
    BY EffortWithin DEF EffortIsBounded
  <1> QED BY <1>1, Invariance, PTL
=============================================================================
