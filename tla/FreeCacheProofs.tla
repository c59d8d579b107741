--------------------------- MODULE FreeCacheProofs ---------------------------
(***************************************************************************)
(* Theorems about FreeCache, for any files, processes, sizes and needs.   *)
(***************************************************************************)
EXTENDS FreeCache, Folds, FiniteSetTheorems, WellFoundedInduction, TLAPS

\* The file the loop deletes next, the first in the order of the paths, is one of those it has
\* still to delete.
LEMMA NextFile ==
  ASSUME NEW S, S \subseteq Nat, S # {}
  PROVE  Min(S) \in S
<1>1. \E x \in S : \A y \in S : ~(<<y, x>> \in OpToRel(<, Nat))
  BY NatLessThanWellFounded, WFMin, Zenon
<1> DEFINE R == {ss \in Nat \X Nat : ss[1] < ss[2]}
<1>2. R = OpToRel(<, Nat)
  BY Zenon DEF OpToRel
<1>3. \E x \in S : \A y \in S : x <= y
  <2>1. PICK x \in S : \A y \in S : ~(<<y, x>> \in R)
    BY <1>1, <1>2, Zenon
  <2>2. ASSUME NEW y \in S PROVE x <= y
    <3>1. ~(y < x)
      BY <2>1
    <3> QED
      BY <3>1
  <2> QED
    BY <2>2
<1> QED
  BY <1>3 DEF Min

\* The saved source exists, and the loop will not come to it; it has a file to delete when it
\* turns to one.
SourceInv ==
  /\ TempSource \in present /\ TempSource \notin files
  /\ files \subseteq Files /\ present \subseteq Files
  /\ pc = "unlink" => files # {}

LEMMA InitSource == Init => SourceInv
  BY FilesAssumption DEF Init, SourceInv

LEMMA StepSource == SourceInv /\ [Next]_vars => SourceInv'
<1> SUFFICES ASSUME SourceInv, [Next]_vars PROVE SourceInv'
  OBVIOUS
<1> USE DEF SourceInv, disk, users
<1>1. CASE Call
  BY <1>1 DEF Call, Return
<1>2. CASE FindExpendableFiles
  BY <1>2 DEF FindExpendableFiles, Expendable, Return
<1>3. CASE EliminateOpenFiles
  BY <1>3 DEF EliminateOpenFiles
<1>4. CASE ScanEnds
  BY <1>4 DEF ScanEnds, Return
<1>5. CASE Unlink
  <2>1. Min(files) \in files
    BY <1>5, NextFile, FilesAssumption DEF Unlink
  <2> QED
    BY <1>5, <2>1 DEF Unlink
<1>6. CASE CheckSpace
  BY <1>6 DEF CheckSpace, Return
<1>7. CASE Elsewhere
  BY <1>7 DEF Elsewhere
<1>8. CASE UNCHANGED vars
  BY <1>8 DEF vars
<1> QED
  BY <1>1, <1>2, <1>3, <1>4, <1>5, <1>6, <1>7, <1>8 DEF Next, Returned

\* The copy that an interrupted patch depends on is never deleted by MakeFreeSpaceOnCache,
\* whatever other processes open and close meanwhile and whichever deletions fail.
THEOREM SavedSourceKept == Spec => []TempSourceKept
<1>1. SourceInv => TempSourceKept
  BY DEF SourceInv, TempSourceKept
<1> QED
  BY <1>1, InitSource, StepSource, PTL DEF Spec

\* What a process has held open exists and is not on the list once its descriptors have been
\* read; when files are deleted those of all processes have been.
HeldInv ==
  /\ open \in [Processes -> SUBSET Files] /\ held \in [Processes -> SUBSET Files]
  /\ \A q \in Processes : held[q] \subseteq open[q] /\ held[q] \subseteq present
  /\ pc \in {"scan", "unlink", "check"} =>
       \A q \in Processes \ unread : files \cap held[q] = {}
  /\ pc \in {"unlink", "check"} => unread = {}

LEMMA InitHeld == Init => HeldInv
<1> SUFFICES ASSUME Init PROVE HeldInv
  OBVIOUS
<1>1. open \in [Processes -> SUBSET Files] /\ held = open /\ present = Files /\ pc = "call"
  BY DEF Init
<1> QED
  BY <1>1 DEF HeldInv

LEMMA StepHeld == SourceInv /\ HeldInv /\ [Next]_vars => HeldInv'
<1> SUFFICES ASSUME SourceInv, HeldInv, [Next]_vars PROVE HeldInv'
  OBVIOUS
<1> USE DEF HeldInv, disk, users
<1>1. CASE Call
  BY <1>1 DEF Call, Return
<1>2. CASE FindExpendableFiles
  BY <1>2 DEF FindExpendableFiles, Return
<1>3. CASE EliminateOpenFiles
  <2>1. PICK q \in unread : unread' = unread \ {q} /\ files' = files \ open[q]
    BY <1>3 DEF EliminateOpenFiles
  <2>2. pc = "scan" /\ UNCHANGED <<open, held, present, pc>>
    BY <1>3 DEF EliminateOpenFiles
  <2>3. ASSUME NEW p \in Processes \ unread' PROVE files' \cap held[p] = {}
    <3>1. CASE p = q
      BY <2>1, <3>1
    <3>2. CASE p # q
      BY <2>1, <2>2, <2>3, <3>2
    <3> QED
      BY <3>1, <3>2
  <2> QED
    BY <2>2, <2>3
<1>4. CASE ScanEnds
  BY <1>4 DEF ScanEnds, Return
<1>5. CASE Unlink
  <2>1. Min(files) \in files
    BY <1>5, NextFile, FilesAssumption DEF Unlink, SourceInv
  <2>2. PICK f \in files : present \ {f} \subseteq present' /\ files' \subseteq files
    BY <1>5, <2>1 DEF Unlink
  <2>3. UNCHANGED <<open, held, unread>> /\ pc = "unlink" /\ pc' = "check"
    BY <1>5 DEF Unlink
  <2>4. ASSUME NEW q \in Processes
        PROVE  held[q] \subseteq present' /\ files' \cap held[q] = {}
    BY <2>2, <2>3
  <2> QED
    BY <2>3, <2>4
<1>6. CASE CheckSpace
  BY <1>6 DEF CheckSpace, Return
<1>7. CASE Elsewhere
  <2>0. UNCHANGED <<present, files, unread, pc>>
    BY <1>7 DEF Elsewhere
  <2>1. PICK q \in Processes, f \in Files :
           \/ open' = [open EXCEPT ![q] = @ \cup {f}] /\ UNCHANGED held
           \/ /\ open' = [open EXCEPT ![q] = @ \ {f}] /\ held' = [held EXCEPT ![q] = @ \ {f}]
    BY <1>7 DEF Elsewhere
  <2>2. open' \in [Processes -> SUBSET Files] /\ held' \in [Processes -> SUBSET Files]
    BY <2>1
  <2>3. ASSUME NEW p \in Processes
        PROVE  held'[p] \subseteq open'[p] /\ held'[p] \subseteq held[p]
    BY <2>1
  <2> QED
    BY <2>0, <2>2, <2>3
<1>8. CASE UNCHANGED vars
  BY <1>8 DEF vars
<1> QED
  BY <1>1, <1>2, <1>3, <1>4, <1>5, <1>6, <1>7, <1>8 DEF Next, Returned

\* "We're allowed to delete unopened regular files": no file is deleted that a process has had
\* open since the call, for any number of processes and however they open and close files and
\* hand them on while /proc is read.
THEOREM HeldFilesAreKept == Spec => []HeldFilesKept
<1>1. HeldInv => HeldFilesKept
  BY DEF HeldInv, HeldFilesKept
<1> QED
  BY <1>1, InitSource, StepSource, InitHeld, StepHeld, PTL DEF Spec

-----------------------------------------------------------------------------
(***************************************************************************)
(* The sum of the sizes of a set of files                                  *)
(***************************************************************************)

\* The element of a set that the fold of the library takes out first, and the equation of its
\* recursion for the subsets of T.
Chosen(s) == CHOOSE x \in s : TRUE
Sums(f, T, g) == g = [s \in SUBSET T |-> IF s = {} THEN 0 ELSE f[Chosen(s)] + g[s \ {Chosen(s)}]]

\* The sum over a set is what this recursion yields for it.
LEMMA SumIs ==
  ASSUME NEW f, NEW S
  PROVE  SumFunctionOnSet(f, S) = (CHOOSE g : Sums(f, S, g))[S]
  BY Zenon DEF SumFunctionOnSet, FoldFunctionOnSet, MapThenFoldSet, Sums, Chosen

\* Induction over the subsets of a finite set, for a set Q in the place of a property: otherwise
\* there would be a smallest subset outside Q.
LEMMA SubsetInduction ==
  ASSUME NEW S, IsFiniteSet(S), NEW Q,
         \A T \in SUBSET S : (\A U \in SUBSET T : U # T => U \in Q) => T \in Q
  PROVE  S \in Q
<1> SUFFICES ASSUME S \notin Q PROVE FALSE
  OBVIOUS
<1> DEFINE Bad == {T \in SUBSET S : T \notin Q}
<1>1. FiniteSubsetsOf(S) = SUBSET S
  BY FS_FiniteSubsetsOfFinite
<1>2. IsWellFoundedOn(StrictSubsetOrdering(S), SUBSET S)
  <2>1. IsWellFoundedOn(StrictSubsetOrdering(S), FiniteSubsetsOf(S))
    BY FS_StrictSubsetOrderingWellFounded, Zenon
  <2> QED BY <1>1, <2>1, Zenon
<1>3. Bad \subseteq SUBSET S /\ S \in Bad
  OBVIOUS
<1>4. PICK T \in Bad : \A U \in Bad : ~(<<U, T>> \in StrictSubsetOrdering(S))
  <2>1. PICK A, R : A = SUBSET S /\ R = StrictSubsetOrdering(S)
    OBVIOUS
  <2>2. PICK B : B = Bad
    OBVIOUS
  <2>3. IsWellFoundedOn(R, A)
    BY <1>2, <2>1, Zenon
  <2>4. B \subseteq A
    BY <1>3, <2>1, <2>2, Zenon
  <2>5. B # {}
    BY <1>3, <2>2, Zenon
  <2>6. \E T \in B : \A U \in B : ~(<<U, T>> \in R)
    BY ONLY <2>3, <2>4, <2>5, WFMin, Zenon
  <2> HIDE DEF Bad
  <2> QED BY <2>1, <2>2, <2>6, Zenon
<1>5. ASSUME NEW U \in SUBSET T, U # T PROVE U \in Q
  <2>1. U \in SUBSET S /\ T \in SUBSET S
    OBVIOUS
  <2>2. <<U, T>> \in StrictSubsetOrdering(S)
    BY <1>5, <2>1, Zenon DEF StrictSubsetOrdering
  <2> QED BY <1>4, <2>1, <2>2
<1> QED BY <1>5

\* What the recursion says at one set.
LEMMA SumsAt ==
  ASSUME NEW f, NEW T, NEW g, Sums(f, T, g), NEW s \in SUBSET T
  PROVE  g[s] = IF s = {} THEN 0 ELSE f[Chosen(s)] + g[s \ {Chosen(s)}]
<1> DEFINE G == [u \in SUBSET T |-> IF u = {} THEN 0 ELSE f[Chosen(u)] + g[u \ {Chosen(u)}]]
<1>1. g = G
  BY DEF Sums
<1>2. G[s] = IF s = {} THEN 0 ELSE f[Chosen(s)] + g[s \ {Chosen(s)}]
  OBVIOUS
<1> HIDE DEF G
<1> QED BY <1>1, <1>2, Zenon

\* The chosen element is one of the set, and the recursion goes on with a smaller one.
LEMMA ChosenIn ==
  ASSUME NEW s, s # {}
  PROVE  Chosen(s) \in s /\ s \ {Chosen(s)} \in SUBSET s /\ s \ {Chosen(s)} # s
<1>1. \E x : x \in s
  OBVIOUS
<1>2. Chosen(s) \in s
  BY <1>1, Zenon DEF Chosen
<1> QED BY <1>2

\* Two solutions of the equation agree wherever both are defined.
LEMMA SumsUnique ==
  ASSUME NEW f, NEW T, NEW g, Sums(f, T, g), NEW U, NEW h, Sums(f, U, h),
         NEW s, s \in SUBSET T, s \in SUBSET U, IsFiniteSet(s)
  PROVE  g[s] = h[s]
<1> DEFINE Q == {u \in SUBSET s : g[u] = h[u]}
<1>1. ASSUME NEW u \in SUBSET s, \A v \in SUBSET u : v # u => v \in Q
      PROVE  u \in Q
  <2>0. u \in SUBSET T /\ u \in SUBSET U
    OBVIOUS
  <2>1. CASE u = {}
    <3>1. g[u] = 0 /\ h[u] = 0
      BY <2>0, <2>1, SumsAt
    <3> QED BY <3>1
  <2>2. CASE u # {}
    <3>1. PICK v : v = u \ {Chosen(u)}
      OBVIOUS
    <3>2. v \in SUBSET u /\ v # u
      BY <2>2, <3>1, ChosenIn
    <3>3. g[v] = h[v]
      BY <1>1, <3>2
    <3>4. g[u] = f[Chosen(u)] + g[v] /\ h[u] = f[Chosen(u)] + h[v]
      BY <2>0, <2>2, <3>1, SumsAt
    <3> QED BY <3>3, <3>4
  <2> QED BY <2>1, <2>2
<1>2. PICK QQ : QQ = Q
  OBVIOUS
<1>3. s \in QQ
  <2>1. \A u \in SUBSET s : (\A v \in SUBSET u : v # u => v \in QQ) => u \in QQ
    BY <1>1, <1>2
  <2> QED BY ONLY <2>1, IsFiniteSet(s), SubsetInduction
<1> QED BY <1>2, <1>3

\* The equation has a solution: the value for a set is put together from the solutions for its
\* smaller subsets.
LEMMA SumsExist ==
  ASSUME NEW f, NEW S, IsFiniteSet(S)
  PROVE  \E g : Sums(f, S, g)
<1> DEFINE Q == {T \in SUBSET S : \E g : Sums(f, T, g)}
           Own(u) == CHOOSE g : Sums(f, u, g)
<1>1. ASSUME NEW T \in SUBSET S, \A U \in SUBSET T : U # T => U \in Q
      PROVE  T \in Q
  <2> DEFINE Value(s) == IF s = {} THEN 0
                         ELSE f[Chosen(s)] + Own(s \ {Chosen(s)})[s \ {Chosen(s)}]
             g == [s \in SUBSET T |-> Value(s)]
  <2>1. ASSUME NEW u \in SUBSET T, u # T PROVE Sums(f, u, Own(u)) /\ IsFiniteSet(u)
    <3>1. \E h : Sums(f, u, h)
      BY <1>1, <2>1
    <3>2. IsFiniteSet(u)
      <4>1. u \in SUBSET S
        OBVIOUS
      <4> QED BY <4>1, FS_Subset
    <3> QED BY <3>1, <3>2, Zenon
  <2>2. ASSUME NEW u \in SUBSET T, u # T PROVE Value(u) = Own(u)[u]
    <3>1. Sums(f, u, Own(u)) /\ IsFiniteSet(u) /\ u \in SUBSET u
      BY <2>1, <2>2
    <3>2. CASE u = {}
      BY <3>1, <3>2, SumsAt
    <3>3. CASE u # {}
      <4>1. PICK v : v = u \ {Chosen(u)}
        OBVIOUS
      <4>2. v \in SUBSET u /\ v \in SUBSET T /\ v # T
        BY <2>2, <3>3, <4>1, ChosenIn
      <4>3. Sums(f, v, Own(v)) /\ IsFiniteSet(v)
        BY <2>1, <4>2
      <4>4. Own(u)[u] = f[Chosen(u)] + Own(u)[v]
        BY <3>1, <3>3, <4>1, SumsAt
      <4>5. Own(u)[v] = Own(v)[v]
        <5>1. v \in SUBSET v
          OBVIOUS
        <5> HIDE DEF Own
        <5> QED BY <3>1, <4>2, <4>3, <5>1, SumsUnique
      <4> QED BY <3>3, <4>1, <4>4, <4>5
    <3> QED BY <3>2, <3>3
  <2>3. PICK h : h = g
    OBVIOUS
  <2>4. ASSUME NEW s \in SUBSET T
        PROVE  Value(s) = IF s = {} THEN 0 ELSE f[Chosen(s)] + h[s \ {Chosen(s)}]
    <3>1. CASE s # {}
      <4>1. PICK v : v = s \ {Chosen(s)}
        OBVIOUS
      <4>2. v \in SUBSET T /\ v # T
        BY <3>1, <4>1, ChosenIn
      <4>3. h[v] = Own(v)[v]
        BY <2>3, <2>2, <4>2
      <4> QED BY <3>1, <4>1, <4>3
    <3> QED BY <3>1
  <2>5. Sums(f, T, h)
    <3>1. h = [s \in SUBSET T |-> Value(s)]
      BY <2>3
    <3> HIDE DEF Value, g
    <3>2. h = [s \in SUBSET T |-> IF s = {} THEN 0 ELSE f[Chosen(s)] + h[s \ {Chosen(s)}]]
      BY <2>4, <3>1, Zenon
    <3> QED BY <3>2 DEF Sums
  <2> QED BY <2>5
<1>2. PICK QQ : QQ = Q
  OBVIOUS
<1>3. S \in QQ
  <2>1. \A u \in SUBSET S : (\A v \in SUBSET u : v # u => v \in QQ) => u \in QQ
    BY <1>1, <1>2
  <2> QED BY ONLY <2>1, IsFiniteSet(S), SubsetInduction
<1> QED BY <1>2, <1>3

\* A sum of Cardinality(S) sizes of at most M each.
LEMMA SumBound ==
  ASSUME NEW M \in Nat, NEW S, IsFiniteSet(S), NEW f, \A x \in S : f[x] \in 0..M
  PROVE  SumFunctionOnSet(f, S) \in 0..(M * Cardinality(S))
<1>1. PICK g : Sums(f, S, g) /\ SumFunctionOnSet(f, S) = g[S]
  BY SumIs, SumsExist, Zenon
<1> DEFINE Q == {T \in SUBSET S : g[T] \in 0..(M * Cardinality(T))}
<1>2. ASSUME NEW T \in SUBSET S, \A U \in SUBSET T : U # T => U \in Q
      PROVE  T \in Q
  <2>1. CASE T = {}
    <3>1. g[T] = 0 /\ Cardinality(T) = 0
      BY <1>1, <2>1, SumsAt, FS_EmptySet
    <3> QED BY <3>1
  <2>2. CASE T # {}
    <3>1. PICK x, U : x = Chosen(T) /\ U = T \ {x}
      OBVIOUS
    <3>2. x \in T /\ U \in SUBSET T /\ U # T
      BY <2>2, <3>1, ChosenIn
    <3>3. g[U] \in 0..(M * Cardinality(U)) /\ f[x] \in 0..M
      BY <1>2, <3>2
    <3>4. g[T] = f[x] + g[U]
      BY <1>1, <2>2, <3>1, SumsAt
    <3>5. PICK n, k \in Nat : n = Cardinality(T) /\ k = Cardinality(U) /\ k = n - 1
      <4>1. IsFiniteSet(T)
        BY FS_Subset
      <4>2. IsFiniteSet(U) /\ Cardinality(U) = Cardinality(T) - 1
        BY <3>1, <3>2, <4>1, FS_RemoveElement
      <4>3. Cardinality(T) \in Nat /\ Cardinality(U) \in Nat
        BY <4>1, <4>2, FS_CardinalityType
      <4> QED BY <4>2, <4>3
    <3>6. M * n = M * k + M /\ M * k \in Nat
      BY <3>5
    <3> QED BY <3>3, <3>4, <3>5, <3>6
  <2> QED BY <2>1, <2>2
<1>3. PICK QQ : QQ = Q
  OBVIOUS
<1>4. S \in QQ
  <2>1. \A u \in SUBSET S : (\A v \in SUBSET u : v # u => v \in QQ) => u \in QQ
    BY <1>2, <1>3
  <2> QED BY ONLY <2>1, IsFiniteSet(S), SubsetInduction
<1> QED BY <1>1, <1>3, <1>4

\* The free space is less than what statfs reports when it fails.
LEMMA FreeIsBounded ==
  ASSUME TypeOK
  PROVE  Free \in 0..(SizeMax - 1)
<1>1. PICK S : S = Files \ (present \cup InUse)
  OBVIOUS
<1>2. IsFiniteSet(S) /\ Cardinality(S) <= Cardinality(Files)
  BY <1>1, FilesAssumption, FS_Subset
<1>3. PICK n, k \in Nat : n = Cardinality(Files) /\ k = Cardinality(S) /\ k <= n
  BY <1>2, FilesAssumption, FS_CardinalityType
<1>4. SumFunctionOnSet(size, S) \in 0..(MaxSize * k)
  <2>1. \A f \in S : size[f] \in 0..MaxSize
    BY <1>1 DEF TypeOK
  <2> QED BY <1>2, <1>3, <2>1, SumBound, LimitsAssumption
<1>5. MaxSize * k <= MaxSize * n /\ MaxSize * k \in Nat /\ MaxSize * n \in Nat
  BY <1>3, LimitsAssumption
<1>6. base \in 0..MaxFree /\ SizeMax > MaxFree + MaxSize * n
  BY <1>3, LimitsAssumption DEF TypeOK
<1>7. Free = base + SumFunctionOnSet(size, S)
  BY <1>1 DEF Free, Space
<1> QED BY <1>4, <1>5, <1>6, <1>7, LimitsAssumption

LEMMA StepTypes == TypeOK /\ [Next]_vars => TypeOK'
<1> SUFFICES ASSUME TypeOK, [Next]_vars PROVE TypeOK'
  OBVIOUS
<1> USE DEF TypeOK, disk, users
<1>1. ASSUME FreeSpaceForFile PROVE free_now' \in 0..SizeMax
  BY <1>1, FreeIsBounded, LimitsAssumption DEF FreeSpaceForFile
<1>2. CASE Call
  BY <1>1, <1>2 DEF Call, Return
<1>3. CASE FindExpendableFiles
  BY <1>3 DEF FindExpendableFiles, Expendable, Return
<1>4. CASE EliminateOpenFiles
  BY <1>4 DEF EliminateOpenFiles
<1>5. CASE ScanEnds
  BY <1>5 DEF ScanEnds, Return
<1>6. CASE Unlink
  BY <1>6 DEF Unlink
<1>7. CASE CheckSpace
  BY <1>1, <1>7 DEF CheckSpace, Return
<1>8. CASE Elsewhere
  BY <1>8 DEF Elsewhere
<1>9. CASE UNCHANGED vars
  BY <1>9 DEF vars
<1> QED
  BY <1>2, <1>3, <1>4, <1>5, <1>6, <1>7, <1>8, <1>9 DEF Next, Returned

\* Type correctness of MakeFreeSpaceOnCache: whatever is deleted, opened and closed, the free
\* space stays in the range of a size_t and below the value an error of statfs turns into.
THEOREM Types == Spec => []TypeOK
<1>1. Init => TypeOK
  <2> SUFFICES ASSUME Init PROVE TypeOK
    OBVIOUS
  <2>1. PICK n \in Nat : n = Cardinality(Files)
    BY FilesAssumption, FS_CardinalityType
  <2>2. MaxFree + MaxSize * n \in Nat
    BY <2>1, LimitsAssumption
  <2>3. needed \in Nat
    BY <2>1, <2>2 DEF Init
  <2> QED BY <2>3, LimitsAssumption DEF Init, TypeOK
<1> QED
  BY <1>1, StepTypes, PTL DEF Spec
=============================================================================
