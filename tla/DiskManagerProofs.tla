------------------------- MODULE DiskManagerProofs --------------------------
(***************************************************************************)
(* Proofs about DiskManager: what is mounted belongs to a listed disk, the *)
(* list settles on the disks there are, and the app is told of changes.    *)
(***************************************************************************)
EXTENDS DiskManager, TLAPS, FiniteSetTheorems, SequenceTheorems, NaturalsInduction,
        WellFoundedInduction

(* What the theorems about mounts assume of the names, the places and the tag *)
(* file: no two disks, and no two partitions, share a directory.  (Partition  *)
(* 1 and the whole disk may: they are not mounted at the same time.)          *)
DirsApart ==
  \A m, n \in Names : \A p, q \in Nums :
    PathsOf(m, p) \cap PathsOf(n, q) # {} => m = n /\ (p = q \/ Whole \in {p, q})

-----------------------------------------------------------------------------
(* The inductive invariant.                                                   *)

Passes == {"mnt1", "mnt2", "mnt3", "find", "mount"}

(* Until the socket is bound no event has come, and the first passes are for  *)
(* all disks, with an empty list, before the app can ask.                     *)
Early ==
  /\ ~bound => uevents = <<>> /\ scope = Names /\ evpc # "poll"
  /\ ~bound /\ evpc = "mnt1" => list = <<>>
  /\ ~bound /\ evpc \in Passes => app.told
  /\ bound => evpc # "bind"

(* The third pass has only listed partitions left.                            *)
WorkListed ==
  evpc \in {"mnt3", "find", "mount"} =>
    \A k \in DOMAIN work : ListedPart(work[k][1], work[k][2])

(* The partition in hand was not the firmware's when the table was looked at, *)
(* and nothing was found to be mounted.                                       *)
InHand ==
  evpc \in {"find", "mount"} =>
    /\ work # <<>>
    /\ \A i \in DOMAIN list :
         list[i].name = Head(work)[1] /\ list[i].gpt => Head(work)[2] \notin look
    /\ evpc = "mount" => ~FindMountPoint(Head(work)[1], Head(work)[2])

(* A partition is mounted once, at the place for it, which the list has       *)
(* noted, and from the medium that was there then: since the disk was listed. *)
MountsOnce ==
  \A i, j \in DOMAIN mounts :
    mounts[i].name = mounts[j].name /\ mounts[i].num = mounts[j].num => i = j

OwnPaths ==
  /\ \A m \in Mounts : m.at \in PathsOf(m.name, m.num)
  /\ \A i \in DOMAIN list : \A j \in DOMAIN list[i].parts :
       list[i].parts[j].mnt \in PathsOf(list[i].name, list[i].parts[j].num) \cup {NoPath}
  /\ \A i \in DOMAIN list : list[i].tag \in TagsOf(list[i].name)

MountsNoted ==
  \A m \in Mounts : \E i \in DOMAIN list : \E j \in DOMAIN list[i].parts :
    /\ list[i].name = m.name /\ list[i].parts[j].num = m.num
    /\ list[i].parts[j].mounted /\ list[i].parts[j].mnt = m.at

MediumMounted ==
  /\ \A m \in Mounts : table[m.name].open /\ m.inst = table[m.name].inst =>
       m.num \in table[m.name].good
  /\ \A l, m \in Mounts : l.name = m.name /\ l.num = Whole => m.num = Whole

InstOrder ==
  /\ \A n \in Names : table[n].inst <= inserted
  /\ \A i \in DOMAIN list :
       /\ list[i].inst <= inserted
       /\ table[list[i].name].inst # 0 => list[i].inst <= table[list[i].name].inst
  /\ \A m \in Mounts :
       /\ table[m.name].inst # 0 => m.inst <= table[m.name].inst
       /\ \A i \in DOMAIN list : list[i].name = m.name => list[i].inst <= m.inst

(* The last event of a disk that is in the queue says whether it is there.    *)
EventOf(k, n)  == k \in DOMAIN uevents /\ uevents[k][2] = n
Pending(n)     == \E k \in DOMAIN uevents : EventOf(k, n)
LastOf(k, n)   == EventOf(k, n) /\ \A l \in DOMAIN uevents : EventOf(l, n) => l <= k

LastUevent ==
  \A n \in Names : \A k \in DOMAIN uevents :
    LastOf(k, n) => (uevents[k][1] = "remove" <=> table[n] = Absent)

(* A disk is added after it has been removed: the removal is in the queue     *)
(* before it, or has been worked off.                                         *)
Passing(n) == evpc \in Passes /\ n \in scope

RemovedBefore(k, n) ==
  \E l \in DOMAIN uevents :
    /\ EventOf(l, n) /\ l < k /\ uevents[l][1] = "remove"
    /\ \A i \in DOMAIN uevents : EventOf(i, n) /\ i < k => i <= l

FirstOf(k, n) == \A l \in DOMAIN uevents : EventOf(l, n) => k <= l

AddAfterRemove ==
  ~deaf => \A n \in Names : \A k \in DOMAIN uevents :
    uevents[k] = <<"add", n>> =>
      \/ RemovedBefore(k, n)
      \/ FirstOf(k, n) /\ ~Listed(n) /\ ~Passing(n)

(* A disk with no event in the queue is listed if it is there, or will be     *)
(* when the passes are through with it.                                       *)
ListedWhole(n) ==
  /\ table[n].open <=> Listed(n)
  /\ \A i \in DOMAIN list : list[i].name = n => Rows(n) \subseteq PartSet(list[i])

AllUp(n) == \A i \in DOMAIN list : list[i].name = n => list[i].status = "MOUNTED"

CalmOf(n) ==
  /\ Passing(n) /\ bound => table[n].open
  /\ Passing(n) /\ evpc # "mnt1" => ListedWhole(n)
  /\ ~Passing(n) => ListedWhole(n) /\ AllUp(n)

Calm == ~deaf => \A n \in Names : ~Pending(n) => CalmOf(n)

(* The app knows the mounted disks, or will be told: at any time.             *)
NewsKept ==
  \/ notify \/ app.told
  \/ app.view = ViewOf(Cut(MountedDisks(list), MaxNodes))
  \/ app.view = NamesOf(Cut(MountedDisks(list), MaxInfoNodes))

(* A mark is of a mount, or of the whole of a disk that has one.              *)
MarksTrue ==
  \A i \in DOMAIN list : \A j \in DOMAIN list[i].parts :
    list[i].parts[j].mounted =>
      \E m \in MountsOf(list[i].name) :
        list[i].parts[j].num \in {m.num, Whole}

IInv ==
  /\ TypeOK /\ Early /\ WorkListed /\ InHand /\ OwnPaths
  /\ LastUevent /\ AddAfterRemove /\ Calm

MountInv ==
  /\ MountsOnce /\ MountsNoted /\ MediumMounted /\ InstOrder /\ EfiIgnored

-----------------------------------------------------------------------------
(* Induction, and functions that are defined by recursion over an interval.   *)

LEMMA LeastElement ==
  ASSUME NEW T, T \subseteq Nat, T # {}
  PROVE  \E x \in T : \A y \in T : x <= y
<1>1. IsWellFoundedOn(OpToRel(<, Nat), Nat)
  BY NatLessThanWellFounded
<1>2. PICK x \in T : \A y \in T : ~(<<y, x>> \in OpToRel(<, Nat))
  BY <1>1, WFMin, Zenon
<1>3. ASSUME NEW y \in T PROVE x <= y
  <2>1. y \in Nat /\ x \in Nat
    OBVIOUS
  <2>2. ~(y < x)
    BY <1>2, <2>1 DEF OpToRel
  <2> QED BY <2>1, <2>2
<1> QED BY <1>3

Closed(S) == S \subseteq Nat /\ 0 \in S /\ \A n \in S : n + 1 \in S

LEMMA Induction ==
  ASSUME NEW S, Closed(S)
  PROVE  S = Nat
<1> USE DEF Closed
<1> SUFFICES ASSUME Nat \ S # {} PROVE FALSE
  OBVIOUS
<1>1. PICK x \in Nat \ S : \A y \in Nat \ S : x <= y
  <2> DEFINE T == Nat \ S
  <2>1. T \subseteq Nat /\ T # {}
    OBVIOUS
  <2> HIDE DEF T
  <2>2. \E x \in T : \A y \in T : x <= y
    BY <2>1, LeastElement
  <2> QED BY <2>2 DEF T
<1>2. x # 0
  OBVIOUS
<1>3. x - 1 \in S
  BY <1>1, <1>2
<1> QED BY <1>3

LEMMA MinIn ==
  ASSUME NEW T, T \subseteq Nat, T # {}
  PROVE  Min(T) \in T /\ \A y \in T : Min(T) <= y
BY LeastElement DEF Min

LEMMA MaxIn ==
  ASSUME NEW n \in Nat, NEW T, T \subseteq 0..n, T # {}
  PROVE  Max(T) \in T /\ \A y \in T : y <= Max(T)
<1> DEFINE U == {i \in 0..n : n - i \in T}
<1>1. U \subseteq Nat /\ U # {}
  <2>1. PICK t \in T : t \in 0..n
    OBVIOUS
  <2>2. n - t \in 0..n /\ n - (n - t) = t
    BY <2>1
  <2>3. n - t \in U
    BY <2>1, <2>2
  <2> QED BY <2>3
<1>2. PICK u \in U : \A v \in U : u <= v
  <2> HIDE DEF U
  <2> QED BY <1>1, LeastElement
<1>3. n - u \in T /\ u \in 0..n
  OBVIOUS
<1>4. ASSUME NEW y \in T PROVE n - u >= y
  <2>1. y \in 0..n /\ n - y \in 0..n /\ n - (n - y) = y
    OBVIOUS
  <2>2. n - y \in U
    BY <2>1
  <2>3. u <= n - y
    BY <1>2, <2>2
  <2> QED BY <2>1, <2>3, <1>3
<1>5. \E x \in T : \A y \in T : x >= y
  BY <1>3, <1>4
<1>6. Max(T) \in T /\ \A y \in T : Max(T) >= y
  BY <1>5 DEF Max
<1>7. Max(T) \in 0..n /\ T \subseteq 0..n
  BY <1>6
<1> QED BY <1>6, <1>7

(* What n steps make of x, one after the other.                               *)
Steps(f, T, x, n, step) ==
  f \in [0..n -> T] /\ f[0] = x /\ \A i \in 1..n : f[i] = step[i][f[i - 1]]

LEMMA Recursion ==
  ASSUME NEW T, NEW x \in T, NEW n \in Nat, NEW step \in [1..n -> [T -> T]]
  PROVE  \E f : Steps(f, T, x, n, step)
<1> DEFINE R(f, k) == f[0] = x /\ \A i \in 1..k : f[i] = step[i][f[i - 1]]
           S == {k \in Nat : k <= n => \E f \in [0..k -> T] : R(f, k)}
<1>1. 0 \in S
  <2> DEFINE f == [i \in 0..0 |-> x]
  <2>1. f \in [0..0 -> T] /\ R(f, 0)
    OBVIOUS
  <2> QED BY <2>1
<1>2. ASSUME NEW k \in S PROVE k + 1 \in S
  <2>1. ASSUME k + 1 <= n PROVE \E f \in [0..k + 1 -> T] : R(f, k + 1)
    <3>1. PICK f \in [0..k -> T] : R(f, k)
      BY <2>1
    <3>2. k + 1 \in 1..n /\ f[k] \in T /\ step[k + 1] \in [T -> T]
      BY <2>1
    <3> DEFINE g == [i \in 0..k + 1 |-> IF i <= k THEN f[i] ELSE step[k + 1][f[k]]]
    <3>3. g \in [0..k + 1 -> T]
      BY <3>2
    <3>4. \A i \in 0..k : g[i] = f[i]
      OBVIOUS
    <3>5. g[k + 1] = step[k + 1][f[k]]
      OBVIOUS
    <3> HIDE DEF g
    <3>6. R(g, k + 1)
      <4>1. g[0] = x
        BY <3>1, <3>4
      <4>2. ASSUME NEW i \in 1..k + 1 PROVE g[i] = step[i][g[i - 1]]
        <5>1. CASE i = k + 1
          <6>1. g[i - 1] = f[k]
            BY <5>1, <3>4
          <6> QED BY <5>1, <6>1, <3>5
        <5>2. CASE i \in 1..k
          <6>1. g[i] = f[i] /\ g[i - 1] = f[i - 1]
            BY <5>2, <3>4
          <6> QED BY <5>2, <6>1, <3>1
        <5> QED BY <5>1, <5>2
      <4> QED BY <4>1, <4>2
    <3> HIDE DEF R
    <3> QED BY <3>3, <3>6
  <2> HIDE DEF R
  <2> QED BY <2>1
<1>3. S = Nat
  <2>1. S \subseteq Nat /\ \A k \in S : k + 1 \in S
    BY <1>2
  <2> HIDE DEF S
  <2>c. Closed(S)
    BY <1>1, <2>1 DEF Closed
  <2> QED BY <2>c, Induction
<1>4. n \in S
  BY <1>3
<1>5. \E f \in [0..n -> T] : R(f, n)
  BY <1>4
<1> QED BY <1>5, Zenon DEF Steps

-----------------------------------------------------------------------------
(* What the helpers return.                                                   *)

LEMMA SetToSeqIs ==
  ASSUME NEW S, IsFiniteSet(S)
  PROVE  LET s == SetToSeq(S) IN
         /\ Cardinality(S) \in Nat /\ s \in [1..Cardinality(S) -> S] /\ Len(s) = Cardinality(S)
         /\ s \in Seq(S) /\ DOMAIN s = 1..Len(s)
         /\ \A i, j \in DOMAIN s : s[i] = s[j] => i = j
         /\ \A x \in S : \E i \in DOMAIN s : s[i] = x
<1> DEFINE s == SetToSeq(S)
           n == Cardinality(S)
<1>1. n \in Nat /\ ExistsBijection(1..n, S)
  BY FS_CardinalityType
<1>2. PICK f \in [1..n -> S] : \A a, b \in 1..n : f[a] = f[b] => a = b
  BY <1>1, Zenon DEF ExistsBijection, Bijection, Injection, IsInjective
<1>3. s \in [1..n -> S] /\ IsInjective(s)
  <2>1. IsInjective(f)
    BY <1>2 DEF IsInjective
  <2> QED BY <2>1, Zenon DEF SetToSeq
<1> HIDE DEF s, n
<1>4. s \in Injection(1..n, S)
  BY <1>3 DEF Injection, IsInjective
<1>5. Cardinality(1..n) = n
  BY <1>1, FS_Interval
<1>6. s \in Surjection(1..n, S)
  BY <1>4, <1>5, FS_Injection DEF n
<1>7. \A x \in S : \E i \in 1..n : s[i] = x
  BY <1>6 DEF Surjection
<1>8. s \in Seq(S) /\ Len(s) = n
  BY <1>1, <1>3
<1>9. \A i, j \in DOMAIN s : s[i] = s[j] => i = j
  BY <1>3 DEF IsInjective
<1> QED BY <1>1, <1>3, <1>7, <1>8, <1>9 DEF s, n

LEMMA NumsFinite ==
  /\ IsFiniteSet(Nums) /\ Nums \subseteq Nat /\ Whole \in Nums /\ PartNums \subseteq Nums
  /\ Whole \notin PartNums
  /\ \A S \in SUBSET Nums : IsFiniteSet(S)
<1>1. IsFiniteSet(PartNums) /\ PartNums \subseteq Nat \ {0}
  BY DiskManagerAssumption
<1>2. IsFiniteSet(Nums)
  BY <1>1, FS_AddElement DEF Nums
<1>3. \A S \in SUBSET Nums : IsFiniteSet(S)
  BY <1>2, FS_Subset
<1> QED BY <1>1, <1>2, <1>3 DEF Nums, Whole

(* New partitions are those, each once, not looked at yet.                    *)
LEMMA NewPartsIs ==
  ASSUME NEW S \in SUBSET Nums
  PROVE  LET s == NewParts(S) IN
         /\ s \in Seq(Part) /\ Len(s) \in Nat /\ DOMAIN s = 1..Len(s)
         /\ \A j \in DOMAIN s : /\ s[j].num \in S /\ s[j].fs = FALSE
                                /\ s[j].mounted = FALSE /\ s[j].mnt = NoPath
         /\ \A j, k \in DOMAIN s : s[j].num = s[k].num => j = k
         /\ \A x \in S : \E j \in DOMAIN s : s[j].num = x
<1> DEFINE t == SetToSeq(S)
           s == NewParts(S)
           Row(x) == [num |-> x, fs |-> FALSE, mounted |-> FALSE, mnt |-> NoPath]
<1>1. /\ Len(t) \in Nat /\ t \in [1..Len(t) -> S]
      /\ \A i, j \in 1..Len(t) : t[i] = t[j] => i = j
      /\ \A x \in S : \E i \in 1..Len(t) : t[i] = x
  <2>1. IsFiniteSet(S)
    BY NumsFinite
  <2> QED BY <2>1, SetToSeqIs
<1>2. s = [i \in 1..Len(t) |-> Row(t[i])]
  BY Zenon DEF NewParts
<1> HIDE DEF t, s
<1>3. \A x \in S : Row(x) \in Part
  BY DEF Part
<1>4. s \in [1..Len(t) -> Part]
  BY <1>1, <1>2, <1>3
<1>5. s \in Seq(Part) /\ Len(s) = Len(t) /\ DOMAIN s = 1..Len(t)
  BY <1>1, <1>4
<1>6. \A j \in 1..Len(t) : /\ s[j].num = t[j] /\ s[j].fs = FALSE
                           /\ s[j].mounted = FALSE /\ s[j].mnt = NoPath
  BY <1>2
<1> QED BY <1>1, <1>5, <1>6 DEF s

LEMMA RemoveAtIs ==
  ASSUME NEW T, NEW s \in Seq(T), NEW i \in 1..Len(s)
  PROVE  /\ RemoveAt(s, i) \in Seq(T) /\ Len(RemoveAt(s, i)) = Len(s) - 1
         /\ \A j \in 1..Len(s) - 1 : RemoveAt(s, i)[j] = s[IF j < i THEN j ELSE j + 1]
<1> DEFINE a == SubSeq(s, 1, i - 1)
           b == SubSeq(s, i + 1, Len(s))
<1>1. a \in Seq(T) /\ Len(a) = i - 1 /\ \A j \in 1..i - 1 : a[j] = s[j]
  OBVIOUS
<1>2. b \in Seq(T) /\ Len(b) = Len(s) - i /\ \A j \in 1..Len(s) - i : b[j] = s[i + j]
  OBVIOUS
<1>3. RemoveAt(s, i) = a \o b
  BY DEF RemoveAt
<1> HIDE DEF a, b
<1>0. Len(s) \in Nat /\ i \in Nat
  OBVIOUS
<1>4. a \o b \in Seq(T) /\ Len(a \o b) = Len(s) - 1
  <2>1. a \o b \in Seq(T) /\ Len(a \o b) = Len(a) + Len(b)
    BY <1>1, <1>2, ConcatProperties
  <2> QED BY <2>1, <1>0, <1>1, <1>2
<1>5. \A j \in 1..Len(s) - 1 : (a \o b)[j] = IF j < i THEN a[j] ELSE b[j - (i - 1)]
  BY <1>1, <1>2
<1>6. ASSUME NEW j \in 1..Len(s) - 1
      PROVE  (a \o b)[j] = s[IF j < i THEN j ELSE j + 1]
  <2>1. CASE j < i
    BY <2>1, <1>1, <1>5
  <2>2. CASE j >= i
    <3> DEFINE k == j - (i - 1)
    <3>1. k \in 1..Len(s) - i /\ i + k = j + 1
      BY <2>2, <1>0
    <3>0. ~(j < i)
      BY <2>2, <1>0
    <3>2. (a \o b)[j] = b[k]
      BY <3>0, <1>5
    <3> HIDE DEF k
    <3>3. b[k] = s[i + k]
      BY <3>1, <1>2
    <3> QED BY <3>0, <3>1, <3>2, <3>3
  <2>3. j < i \/ j >= i
    BY <1>0
  <2> QED BY <2>1, <2>2, <2>3
<1> QED BY <1>3, <1>4, <1>6

(* Mounts on different directories.                                           *)
AtApart(ms)  == \A i, j \in DOMAIN ms : ms[i].at = ms[j].at => i = j
In(m, ms)    == \E i \in DOMAIN ms : ms[i] = m

LEMMA UnmountIs ==
  ASSUME NEW ms \in Seq(Mount), NEW path
  PROVE  /\ Unmount(ms, path) \in Seq(Mount)
         /\ \A m : In(m, Unmount(ms, path)) => In(m, ms)
         /\ AtApart(ms) => /\ AtApart(Unmount(ms, path))
                           /\ \A m : In(m, Unmount(ms, path)) <=> In(m, ms) /\ m.at # path
<1> DEFINE on == {i \in DOMAIN ms : ms[i].at = path}
<1>1. CASE on = {}
  <2>1. Unmount(ms, path) = ms
    BY <1>1 DEF Unmount
  <2>2. \A m : In(m, ms) => m.at # path
    BY <1>1 DEF In
  <2> QED BY <2>1, <2>2
<1>2. CASE on # {}
  <2> DEFINE k == Max(on)
             r == RemoveAt(ms, k)
  <2>1. k \in on
    <3>1. on \subseteq 0..Len(ms) /\ Len(ms) \in Nat
      OBVIOUS
    <3> HIDE DEF on
    <3> QED BY <3>1, <1>2, MaxIn
  <2>2. k \in 1..Len(ms) /\ ms[k].at = path
    BY <2>1
  <2>3. Unmount(ms, path) = r
    BY <1>2 DEF Unmount
  <2> HIDE DEF on, k
  <2>4. /\ r \in Seq(Mount) /\ Len(r) = Len(ms) - 1
        /\ \A j \in 1..Len(ms) - 1 : r[j] = ms[IF j < k THEN j ELSE j + 1]
    BY <2>2, RemoveAtIs
  <2> HIDE DEF r
  <2>5. DOMAIN r = 1..Len(ms) - 1 /\ DOMAIN ms = 1..Len(ms) /\ Len(ms) \in Nat
    BY <2>4
  <2>6. ASSUME NEW m, In(m, r) PROVE In(m, ms)
    <3>1. PICK j \in 1..Len(ms) - 1 : r[j] = m
      BY <2>6, <2>5 DEF In
    <3>2. (IF j < k THEN j ELSE j + 1) \in 1..Len(ms)
      BY <2>2, <2>5
    <3> QED BY <3>1, <3>2, <2>4, <2>5 DEF In
  <2>7. ASSUME AtApart(ms)
        PROVE  AtApart(r) /\ \A m : In(m, r) <=> In(m, ms) /\ m.at # path
    <3> DEFINE h(j) == IF j < k THEN j ELSE j + 1
    <3>1. \A j \in 1..Len(ms) - 1 : h(j) \in 1..Len(ms) /\ h(j) # k /\ r[j] = ms[h(j)]
      BY <2>2, <2>4, <2>5
    <3>2. \A i, j \in 1..Len(ms) - 1 : h(i) = h(j) => i = j
      BY <2>2
    <3>3. \A i \in 1..Len(ms) : i # k => \E j \in 1..Len(ms) - 1 : h(j) = i
      <4> TAKE i \in 1..Len(ms)
      <4>1. CASE i < k
        <5>1. i \in 1..Len(ms) - 1 /\ h(i) = i
          BY <4>1, <2>2, <2>5
        <5> QED BY <5>1
      <4>2. CASE i > k
        <5>1. i - 1 \in 1..Len(ms) - 1 /\ h(i - 1) = i
          BY <4>2, <2>2, <2>5
        <5> QED BY <5>1
      <4> QED BY <4>1, <4>2, <2>2
    <3> HIDE DEF h
    <3>4. AtApart(r)
      BY <3>1, <3>2, <2>5, <2>7 DEF AtApart
    <3>5. ASSUME NEW m, In(m, ms), m.at # path PROVE In(m, r)
      <4>1. PICK i \in 1..Len(ms) : ms[i] = m
        BY <3>5, <2>5 DEF In
      <4>2. i # k
        BY <4>1, <3>5, <2>2
      <4>3. PICK j \in 1..Len(ms) - 1 : h(j) = i
        BY <4>2, <3>3
      <4> QED BY <4>1, <4>3, <3>1, <2>5 DEF In
    <3>6. ASSUME NEW m, In(m, r) PROVE m.at # path
      <4>1. PICK j \in 1..Len(ms) - 1 : r[j] = m
        BY <3>6, <2>5 DEF In
      <4>2. ms[h(j)] = m /\ h(j) \in 1..Len(ms) /\ h(j) # k
        BY <4>1, <3>1
      <4> QED BY <4>2, <2>2, <2>5, <2>7 DEF AtApart
    <3> QED BY <3>4, <3>5, <3>6, <2>6, Zenon
  <2> QED BY <2>3, <2>4, <2>6, <2>7, Zenon
<1> QED BY <1>1, <1>2

LEMMA UnmountAllSteps ==
  ASSUME mounts \in Seq(Mount), NEW parts \in Seq(Part)
  PROVE  \E f \in [0..Len(parts) -> Seq(Mount)] :
           /\ f[0] = mounts /\ UnmountAll(parts) = f[Len(parts)]
           /\ \A i \in 1..Len(parts) :
                f[i] = IF parts[i].mounted THEN Unmount(f[i - 1], parts[i].mnt) ELSE f[i - 1]
<1> DEFINE n == Len(parts)
           step == [i \in 1..n |-> [ms \in Seq(Mount) |->
                     IF parts[i].mounted THEN Unmount(ms, parts[i].mnt) ELSE ms]]
           R(f) == f = [j \in 0..Len(parts) |->
                          IF j = 0 THEN mounts
                          ELSE IF parts[j].mounted THEN Unmount(f[j - 1], parts[j].mnt)
                               ELSE f[j - 1]]
<1>1. n \in Nat /\ step \in [1..n -> [Seq(Mount) -> Seq(Mount)]]
  BY UnmountIs
<1>2. \A i \in 1..n : \A ms \in Seq(Mount) :
        step[i][ms] = IF parts[i].mounted THEN Unmount(ms, parts[i].mnt) ELSE ms
  OBVIOUS
<1> HIDE DEF step
<1>3. PICK f \in [0..n -> Seq(Mount)] : f[0] = mounts /\ \A i \in 1..n : f[i] = step[i][f[i - 1]]
  <2> DEFINE T == Seq(Mount)
  <2>1. mounts \in T /\ step \in [1..n -> [T -> T]]
    BY <1>1
  <2> HIDE DEF T, n
  <2>2. \E f : Steps(f, T, mounts, n, step)
    BY <2>1, <1>1, Recursion, Zenon
  <2> QED BY <2>2, Zenon DEF T, Steps
<1>4. \A i \in 1..n :
        f[i] = IF parts[i].mounted THEN Unmount(f[i - 1], parts[i].mnt) ELSE f[i - 1]
  <2> TAKE i \in 1..n
  <2>1. i - 1 \in 0..n
    BY <1>1
  <2> QED BY <2>1, <1>2, <1>3
<1>5. \A j \in 0..n : f[j] = IF j = 0 THEN mounts
                             ELSE IF parts[j].mounted THEN Unmount(f[j - 1], parts[j].mnt)
                                  ELSE f[j - 1]
  <2> TAKE j \in 0..n
  <2>1. j = 0 \/ j \in 1..n
    BY <1>1
  <2> QED BY <2>1, <1>1, <1>3, <1>4
<1>6. R(f)
  BY <1>3, <1>5
<1> DEFINE g == CHOOSE h : R(h)
<1>7. R(g)
  BY <1>6, Zenon
<1>8. UnmountAll(parts) = g[Len(parts)]
  BY Zenon DEF UnmountAll
<1>9. \A j \in 0..n : g[j] = IF j = 0 THEN mounts
                             ELSE IF parts[j].mounted THEN Unmount(g[j - 1], parts[j].mnt)
                                  ELSE g[j - 1]
  <2> HIDE DEF g
  <2> QED BY <1>7
<1>10. \A j \in 0..n : g[j] = f[j]
  <2> HIDE DEF g, R
  <2> DEFINE S == {k \in Nat : k <= n => g[k] = f[k]}
  <2>1. 0 \in S
    BY <1>1, <1>3, <1>9
  <2>2. ASSUME NEW k \in S PROVE k + 1 \in S
    <3>1. ASSUME k + 1 <= n PROVE g[k + 1] = f[k + 1]
      <4>1. k + 1 \in 1..n /\ (k + 1) - 1 = k /\ g[k] = f[k] /\ k + 1 \in 0..n /\ k + 1 # 0
        BY <3>1, <1>1
      <4> QED BY <4>1, <1>4, <1>9
    <3> QED BY <3>1
  <2>3. S = Nat
    <3>1. S \subseteq Nat /\ \A k \in S : k + 1 \in S
      BY <2>2
    <3> HIDE DEF S
    <3>c. Closed(S)
      BY <2>1, <3>1 DEF Closed
    <3> QED BY <3>c, Induction
  <2> QED BY <2>3
<1>11. n \in 0..n
  BY <1>1
<1>12. UnmountAll(parts) = f[n]
  BY <1>8, <1>10, <1>11, Zenon
<1> HIDE DEF g, R
<1> QED BY <1>3, <1>4, <1>12

(* Unmounting a disk takes away what is mounted at its places, and no more.   *)
LEMMA UnmountAllIs ==
  ASSUME mounts \in Seq(Mount), NEW parts \in Seq(Part)
  PROVE  /\ UnmountAll(parts) \in Seq(Mount)
         /\ \A m : In(m, UnmountAll(parts)) => In(m, mounts)
         /\ AtApart(mounts) =>
              /\ AtApart(UnmountAll(parts))
              /\ \A m : In(m, UnmountAll(parts)) <=>
                   /\ In(m, mounts)
                   /\ \A j \in DOMAIN parts : parts[j].mounted => m.at # parts[j].mnt
<1> DEFINE n == Len(parts)
<1>1. PICK f \in [0..n -> Seq(Mount)] :
        /\ f[0] = mounts /\ UnmountAll(parts) = f[n]
        /\ \A i \in 1..n :
             f[i] = IF parts[i].mounted THEN Unmount(f[i - 1], parts[i].mnt) ELSE f[i - 1]
  BY UnmountAllSteps
<1> DEFINE Gone(m, k) == \E j \in 1..k : parts[j].mounted /\ m.at = parts[j].mnt
           P(k) == /\ \A m : In(m, f[k]) => In(m, mounts)
                   /\ AtApart(mounts) =>
                        /\ AtApart(f[k])
                        /\ \A m : In(m, f[k]) <=> In(m, mounts) /\ ~Gone(m, k)
           S == {k \in Nat : k <= n => P(k)}
<1>2. n \in Nat /\ DOMAIN parts = 1..n
  OBVIOUS
<1>3. 0 \in S
  <2>1. \A m : ~Gone(m, 0)
    OBVIOUS
  <2> HIDE DEF Gone
  <2> QED BY <2>1, <1>1, <1>2
<1>4. ASSUME NEW k \in S PROVE k + 1 \in S
  <2> SUFFICES ASSUME k + 1 <= n PROVE P(k + 1)
    OBVIOUS
  <2>1. k \in Nat /\ k \in 0..n /\ k + 1 \in 1..n /\ (k + 1) - 1 = k /\ f[k] \in Seq(Mount)
    BY <1>2
  <2>2. P(k)
    BY <2>1
  <2>3. f[k + 1] = IF parts[k + 1].mounted THEN Unmount(f[k], parts[k + 1].mnt) ELSE f[k]
    BY <2>1, <1>1
  <2>4. \A m : Gone(m, k + 1) <=> Gone(m, k)
                                  \/ (parts[k + 1].mounted /\ m.at = parts[k + 1].mnt)
    <3>1. \A j : j \in 1..k + 1 <=> j \in 1..k \/ j = k + 1
      BY <2>1
    <3> QED BY <3>1, Zenon
  <2> HIDE DEF Gone, S
  <2>5. CASE parts[k + 1].mounted
    <3>1. f[k + 1] = Unmount(f[k], parts[k + 1].mnt)
      BY <2>3, <2>5
    <3>2. /\ \A m : In(m, f[k + 1]) => In(m, f[k])
          /\ AtApart(f[k]) => /\ AtApart(f[k + 1])
                              /\ \A m : In(m, f[k + 1]) <=> In(m, f[k]) /\ m.at # parts[k + 1].mnt
      <4> DEFINE ms == f[k]
                 path == parts[k + 1].mnt
      <4>1. ms \in Seq(Mount) /\ f[k + 1] = Unmount(ms, path)
        BY <3>1, <2>1
      <4> HIDE DEF ms, path
      <4>2. /\ \A m : In(m, f[k + 1]) => In(m, ms)
            /\ AtApart(ms) => /\ AtApart(f[k + 1])
                              /\ \A m : In(m, f[k + 1]) <=> In(m, ms) /\ m.at # path
        BY <4>1, UnmountIs
      <4> QED BY <4>2 DEF ms, path
    <3> QED BY <3>2, <2>2, <2>4, <2>5, Zenon
  <2>6. CASE ~parts[k + 1].mounted
    <3>1. f[k + 1] = f[k]
      BY <2>3, <2>6
    <3> QED BY <3>1, <2>2, <2>4, <2>6, Zenon
  <2> QED BY <2>5, <2>6
<1>5. S = Nat
  <2>1. S \subseteq Nat /\ \A k \in S : k + 1 \in S
    BY <1>4
  <2> HIDE DEF S
  <2>c. Closed(S)
    BY <1>3, <2>1 DEF Closed
  <2> QED BY <2>c, Induction
<1>6. P(n)
  <2>1. n \in S
    BY <1>5, <1>2
  <2> HIDE DEF P
  <2> QED BY <2>1, <1>2
<1>7. \A m : Gone(m, n) <=> ~ \A j \in DOMAIN parts : parts[j].mounted => m.at # parts[j].mnt
  BY <1>2, Zenon
<1>8. UnmountAll(parts) \in Seq(Mount)
  BY <1>1, <1>2
<1> QED BY <1>1, <1>6, <1>7, <1>8, Zenon

LEMMA FlattenSteps ==
  ASSUME NEW T, NEW ss \in Seq(Seq(T)), ss # <<>>
  PROVE  \E f \in [0..Len(ss) -> Seq(T)] :
           /\ f[0] = <<>> /\ FlattenSeq(ss) = f[Len(ss)]
           /\ \A i \in 1..Len(ss) : f[i] = f[i - 1] \o ss[i]
<1> DEFINE n == Len(ss)
           step == [i \in 1..n |-> [s \in Seq(T) |-> s \o ss[i]]]
           Body(g) == [i \in 1..Len(ss) |-> IF i = 1 THEN ss[i] ELSE g[i - 1] \o ss[i]]
           R(g) == g = Body(g)
<1>1. n \in Nat /\ n # 0 /\ \A i \in 1..n : ss[i] \in Seq(T)
  OBVIOUS
<1>2. step \in [1..n -> [Seq(T) -> Seq(T)]]
  <2>1. \A i \in 1..n : \A s \in Seq(T) : s \o ss[i] \in Seq(T)
    BY <1>1, ConcatProperties
  <2> QED BY <2>1
<1>3. \A i \in 1..n : \A s \in Seq(T) : step[i][s] = s \o ss[i]
  OBVIOUS
<1> HIDE DEF step, n
<1>4. \E f : Steps(f, Seq(T), <<>>, n, step)
  <2> DEFINE U == Seq(T)
  <2>1. <<>> \in U /\ step \in [1..n -> [U -> U]]
    BY <1>2
  <2> HIDE DEF U
  <2>2. \E f : Steps(f, U, <<>>, n, step)
    BY <2>1, <1>1, Recursion, Zenon
  <2> QED BY <2>2 DEF U
<1>5. PICK f : Steps(f, Seq(T), <<>>, n, step)
  BY <1>4
<1>6. f \in [0..n -> Seq(T)] /\ f[0] = <<>> /\ \A i \in 1..n : f[i] = step[i][f[i - 1]]
  BY <1>5, Zenon DEF Steps
<1>7. \A i \in 1..n : f[i] = f[i - 1] \o ss[i]
  <2> TAKE i \in 1..n
  <2>1. i - 1 \in 0..n
    BY <1>1
  <2>2. f[i - 1] \in Seq(T)
    BY <2>1, <1>6
  <2> QED BY <2>2, <1>3, <1>6
<1> DEFINE h == [i \in 1..n |-> f[i]]
<1>8. \A i \in 1..n : h[i] = IF i = 1 THEN ss[i] ELSE h[i - 1] \o ss[i]
  <2> TAKE i \in 1..n
  <2>1. CASE i = 1
    <3>1. <<>> \o ss[1] = ss[1] /\ 1 \in 1..n /\ 1 - 1 = 0
      BY <1>1, <2>1, ConcatEmptySeq
    <3>2. f[1] = f[0] \o ss[1]
      BY <3>1, <1>7
    <3> QED BY <3>1, <3>2, <2>1, <1>6
  <2>2. CASE i # 1
    <3>1. i - 1 \in 1..n
      BY <2>2, <1>1
    <3> QED BY <3>1, <2>2, <1>7
  <2> QED BY <2>1, <2>2
<1>9. h = [i \in 1..n |-> h[i]]
  OBVIOUS
<1> HIDE DEF h
<1>10. R(h)
  BY <1>8, <1>9 DEF n
<1> DEFINE g == CHOOSE x : R(x)
<1>11. R(g)
  BY <1>10, Zenon
<1>12. FlattenSeq(ss) = g[n]
  BY <1>1, Zenon DEF FlattenSeq, n
<1>13. \A i \in 1..n : g[i] = IF i = 1 THEN ss[i] ELSE g[i - 1] \o ss[i]
  <2> HIDE DEF g
  <2> QED BY <1>11 DEF n
<1> HIDE DEF g, R
<1>14. \A i \in 1..n : g[i] = f[i]
  <2> DEFINE S == {k \in Nat : k \in 1..n => g[k] = f[k]}
  <2>1. 0 \in S
    OBVIOUS
  <2>2. ASSUME NEW k \in S PROVE k + 1 \in S
    <3>1. ASSUME k + 1 \in 1..n PROVE g[k + 1] = f[k + 1]
      <4>1. CASE k = 0
        <5>1. 1 \in 1..n /\ k + 1 = 1
          BY <3>1, <4>1
        <5>2. g[1] = ss[1]
          BY <5>1, <1>13
        <5>3. h[1] = f[1]
          BY <5>1 DEF h
        <5>4. h[1] = ss[1]
          BY <5>1, <1>8
        <5> QED BY <5>1, <5>2, <5>3, <5>4
      <4>2. CASE k # 0
        <5>1. k \in 1..n /\ (k + 1) - 1 = k /\ k + 1 # 1
          BY <3>1, <4>2, <1>1
        <5>2. g[k] = f[k]
          BY <5>1
        <5>3. g[k + 1] = g[k] \o ss[k + 1]
          BY <5>1, <3>1, <1>13
        <5>4. f[k + 1] = f[k] \o ss[k + 1]
          BY <5>1, <3>1, <1>7
        <5> QED BY <5>2, <5>3, <5>4
      <4> QED BY <4>1, <4>2
    <3> QED BY <3>1
  <2>3. S = Nat
    <3>1. S \subseteq Nat /\ \A k \in S : k + 1 \in S
      BY <2>2
    <3> HIDE DEF S
    <3>c. Closed(S)
      BY <2>1, <3>1 DEF Closed
    <3> QED BY <3>c, Induction
  <2>4. \A k \in Nat : k \in 1..n => g[k] = f[k]
    BY <2>3
  <2> HIDE DEF S
  <2>5. 1..n \subseteq Nat
    BY <1>1
  <2> QED BY <2>4, <2>5
<1>15. FlattenSeq(ss) = f[n]
  BY <1>1, <1>12, <1>14
<1> QED BY <1>6, <1>7, <1>15 DEF n

LEMMA FlattenIs ==
  ASSUME NEW T, NEW ss \in Seq(Seq(T))
  PROVE  /\ FlattenSeq(ss) \in Seq(T)
         /\ \A k \in DOMAIN FlattenSeq(ss) : \E i \in DOMAIN ss : \E j \in DOMAIN ss[i] :
              FlattenSeq(ss)[k] = ss[i][j]
<1>0. Len(ss) \in Nat /\ DOMAIN ss = 1..Len(ss) /\ \A i \in 1..Len(ss) : ss[i] \in Seq(T)
  OBVIOUS
<1>1. CASE ss = <<>>
  <2>1. FlattenSeq(ss) = <<>>
    BY <1>1 DEF FlattenSeq
  <2> QED BY <2>1
<1>2. CASE ss # <<>>
  <2>1. PICK f \in [0..Len(ss) -> Seq(T)] :
          /\ f[0] = <<>> /\ FlattenSeq(ss) = f[Len(ss)]
          /\ \A i \in 1..Len(ss) : f[i] = f[i - 1] \o ss[i]
    BY <1>2, FlattenSteps
  <2> DEFINE From(x) == \E i \in DOMAIN ss : \E j \in DOMAIN ss[i] : x = ss[i][j]
             S == {k \in Nat : k <= Len(ss) => \A j \in DOMAIN f[k] : From(f[k][j])}
  <2>2. 0 \in S
    BY <2>1
  <2>3. ASSUME NEW k \in S PROVE k + 1 \in S
    <3> SUFFICES ASSUME k + 1 <= Len(ss), NEW j \in DOMAIN f[k + 1] PROVE From(f[k + 1][j])
      <4> HIDE DEF From
      <4>1. k + 1 \in Nat
        OBVIOUS
      <4> QED BY <4>1
    <3>1. /\ k + 1 \in 1..Len(ss) /\ f[k + 1] = f[k] \o ss[k + 1] /\ k \in 0..Len(ss)
          /\ f[k] \in Seq(T) /\ ss[k + 1] \in Seq(T)
      <4>1. k \in 0..Len(ss) /\ k + 1 \in 1..Len(ss) /\ (k + 1) - 1 = k
        BY <1>0
      <4>2. f[k + 1] = f[k] \o ss[k + 1]
        BY <4>1, <2>1
      <4> QED BY <4>1, <4>2, <1>0
    <3>2. \A i \in DOMAIN f[k] : From(f[k][i])
      <4> HIDE DEF From
      <4> QED BY <3>1
    <3> DEFINE a == f[k]  b == ss[k + 1]
    <3>3. a \in Seq(T) /\ b \in Seq(T) /\ j \in DOMAIN (a \o b)
      BY <3>1
    <3>4. \/ j \in DOMAIN a /\ (a \o b)[j] = a[j]
          \/ j - Len(a) \in DOMAIN b /\ (a \o b)[j] = b[j - Len(a)]
      <4> HIDE DEF a, b
      <4>1. Len(a) \in Nat /\ Len(b) \in Nat /\ DOMAIN a = 1..Len(a) /\ DOMAIN b = 1..Len(b)
            /\ DOMAIN (a \o b) = 1..Len(a) + Len(b)
        BY <3>3
      <4>2. \A i \in 1..Len(a) + Len(b) :
              (a \o b)[i] = IF i <= Len(a) THEN a[i] ELSE b[i - Len(a)]
        BY <3>3
      <4> QED BY <3>3, <4>1, <4>2
    <3> HIDE DEF From
    <3>5. CASE j \in DOMAIN a /\ (a \o b)[j] = a[j]
      BY <3>1, <3>2, <3>5
    <3>6. CASE j - Len(a) \in DOMAIN b /\ (a \o b)[j] = b[j - Len(a)]
      BY <3>1, <3>6, <1>0 DEF From
    <3> QED BY <3>4, <3>5, <3>6
  <2>4. S = Nat
    <3>1. S \subseteq Nat /\ \A k \in S : k + 1 \in S
      BY <2>3
    <3> HIDE DEF S
    <3>c. Closed(S)
      BY <2>2, <3>1 DEF Closed
    <3> QED BY <3>c, Induction
  <2>5. Len(ss) \in S
    <3> HIDE DEF S
    <3> QED BY <2>4, <1>0
  <2>6. \A j \in DOMAIN f[Len(ss)] : From(f[Len(ss)][j])
    <3> HIDE DEF From
    <3> QED BY <2>5, <1>0
  <2>7. f[Len(ss)] \in Seq(T)
    BY <1>0
  <2>8. FlattenSeq(ss) = f[Len(ss)]
    BY <2>1
  <2> DEFINE flat == FlattenSeq(ss)
  <2>9. flat \in Seq(T) /\ \A j \in DOMAIN flat : From(flat[j])
    <3> HIDE DEF From
    <3> QED BY <2>6, <2>7, <2>8
  <2> QED BY <2>9
<1> QED BY <1>1, <1>2

LEMMA MountedSteps ==
  ASSUME NEW l \in Seq(Disk)
  PROVE  \E f \in [0..Len(l) -> Seq(Disk)] :
           /\ f[0] = <<>> /\ MountedDisks(l) = f[Len(l)]
           /\ \A i \in 1..Len(l) :
                f[i] = IF l[i].status = "MOUNTED" THEN Append(f[i - 1], l[i]) ELSE f[i - 1]
<1> DEFINE n == Len(l)
           step == [i \in 1..n |-> [s \in Seq(Disk) |->
                     IF l[i].status = "MOUNTED" THEN Append(s, l[i]) ELSE s]]
           R(f) == f = [i \in 0..Len(l) |->
                          IF i = 0 THEN <<>>
                          ELSE IF l[i].status = "MOUNTED" THEN Append(f[i - 1], l[i])
                               ELSE f[i - 1]]
<1>1. n \in Nat /\ step \in [1..n -> [Seq(Disk) -> Seq(Disk)]]
  <2>1. \A i \in 1..n : l[i] \in Disk
    OBVIOUS
  <2>2. \A i \in 1..n : \A s \in Seq(Disk) : Append(s, l[i]) \in Seq(Disk)
    BY <2>1, AppendProperties
  <2> QED BY <2>2
<1>2. \A i \in 1..n : \A s \in Seq(Disk) :
        step[i][s] = IF l[i].status = "MOUNTED" THEN Append(s, l[i]) ELSE s
  OBVIOUS
<1> HIDE DEF step
<1>3. PICK f \in [0..n -> Seq(Disk)] : f[0] = <<>> /\ \A i \in 1..n : f[i] = step[i][f[i - 1]]
  <2> DEFINE T == Seq(Disk)
  <2>1. <<>> \in T /\ step \in [1..n -> [T -> T]]
    BY <1>1
  <2> HIDE DEF T, n
  <2>2. \E f : Steps(f, T, <<>>, n, step)
    BY <2>1, <1>1, Recursion, Zenon
  <2> QED BY <2>2, Zenon DEF T, Steps
<1>4. \A i \in 1..n :
        f[i] = IF l[i].status = "MOUNTED" THEN Append(f[i - 1], l[i]) ELSE f[i - 1]
  <2> TAKE i \in 1..n
  <2>1. i - 1 \in 0..n
    BY <1>1
  <2> QED BY <2>1, <1>2, <1>3
<1>5. \A i \in 0..n : f[i] = IF i = 0 THEN <<>>
                             ELSE IF l[i].status = "MOUNTED" THEN Append(f[i - 1], l[i])
                                  ELSE f[i - 1]
  <2> TAKE i \in 0..n
  <2>1. i = 0 \/ i \in 1..n
    BY <1>1
  <2> QED BY <2>1, <1>1, <1>3, <1>4
<1>6. R(f)
  BY <1>3, <1>5
<1> DEFINE g == CHOOSE h : R(h)
<1>7. R(g)
  BY <1>6, Zenon
<1>8. MountedDisks(l) = g[Len(l)]
  BY Zenon DEF MountedDisks
<1>9. \A i \in 0..n : g[i] = IF i = 0 THEN <<>>
                             ELSE IF l[i].status = "MOUNTED" THEN Append(g[i - 1], l[i])
                                  ELSE g[i - 1]
  <2> HIDE DEF g
  <2> QED BY <1>7
<1>10. \A i \in 0..n : g[i] = f[i]
  <2> HIDE DEF g, R
  <2> DEFINE S == {k \in Nat : k <= n => g[k] = f[k]}
  <2>1. 0 \in S
    BY <1>1, <1>3, <1>9
  <2>2. ASSUME NEW k \in S PROVE k + 1 \in S
    <3>1. ASSUME k + 1 <= n PROVE g[k + 1] = f[k + 1]
      <4>1. k + 1 \in 1..n /\ (k + 1) - 1 = k /\ g[k] = f[k] /\ k + 1 \in 0..n /\ k + 1 # 0
        BY <3>1, <1>1
      <4> QED BY <4>1, <1>4, <1>9
    <3> QED BY <3>1
  <2>3. S = Nat
    <3>1. S \subseteq Nat /\ \A k \in S : k + 1 \in S
      BY <2>2
    <3> HIDE DEF S
    <3>c. Closed(S)
      BY <2>1, <3>1 DEF Closed
    <3> QED BY <3>c, Induction
  <2> QED BY <2>3
<1>11. n \in 0..n
  BY <1>1
<1>12. MountedDisks(l) = f[n]
  BY <1>8, <1>10, <1>11, Zenon
<1> HIDE DEF g, R
<1> QED BY <1>3, <1>4, <1>12

(* The app sees names and numbers of the mounted disks, whatever else there   *)
(* is to them and whatever disks are still to be mounted.                     *)
Alike(s, t) ==
  Len(s) = Len(t) /\ \A x \in 1..Len(s) : s[x].name = t[x].name /\ s[x].plug = t[x].plug

LEMMA ViewSame ==
  ASSUME NEW k \in Seq(Disk), NEW l \in Seq(Disk), Len(k) <= Len(l),
         \A i \in 1..Len(k) : /\ l[i].name = k[i].name /\ l[i].plug = k[i].plug
                              /\ l[i].status = k[i].status,
         \A i \in Len(k) + 1..Len(l) : l[i].status # "MOUNTED"
  PROVE  \A c \in Nat :
           /\ ViewOf(Cut(MountedDisks(l), c)) = ViewOf(Cut(MountedDisks(k), c))
           /\ NamesOf(Cut(MountedDisks(l), c)) = NamesOf(Cut(MountedDisks(k), c))
<1>0. Len(k) \in Nat /\ Len(l) \in Nat
  OBVIOUS
<1>1. PICK f \in [0..Len(k) -> Seq(Disk)] :
        /\ f[0] = <<>> /\ MountedDisks(k) = f[Len(k)]
        /\ \A i \in 1..Len(k) :
             f[i] = IF k[i].status = "MOUNTED" THEN Append(f[i - 1], k[i]) ELSE f[i - 1]
  BY MountedSteps
<1>2. PICK g \in [0..Len(l) -> Seq(Disk)] :
        /\ g[0] = <<>> /\ MountedDisks(l) = g[Len(l)]
        /\ \A i \in 1..Len(l) :
             g[i] = IF l[i].status = "MOUNTED" THEN Append(g[i - 1], l[i]) ELSE g[i - 1]
  BY MountedSteps
<1> DEFINE At(i) == IF i <= Len(k) THEN i ELSE Len(k)
           S == {i \in Nat : i <= Len(l) => Alike(g[i], f[At(i)])}
<1>3. 0 \in S
  BY <1>0, <1>1, <1>2 DEF Alike
<1>4. ASSUME NEW i \in S PROVE i + 1 \in S
  <2> SUFFICES ASSUME i + 1 <= Len(l) PROVE Alike(g[i + 1], f[At(i + 1)])
    OBVIOUS
  <2>1. /\ i \in 0..Len(l) /\ i + 1 \in 1..Len(l) /\ (i + 1) - 1 = i
        /\ Alike(g[i], f[At(i)]) /\ At(i) \in 0..Len(k)
    BY <1>0
  <2>2. g[i + 1] = IF l[i + 1].status = "MOUNTED" THEN Append(g[i], l[i + 1]) ELSE g[i]
    BY <2>1, <1>2
  <2>3. CASE i + 1 <= Len(k)
    <3>1. i + 1 \in 1..Len(k) /\ At(i) = i /\ At(i + 1) = i + 1
      BY <2>3, <2>1
    <3>2. f[i + 1] = IF k[i + 1].status = "MOUNTED" THEN Append(f[i], k[i + 1]) ELSE f[i]
      BY <3>1, <2>1, <1>1
    <3>3. CASE k[i + 1].status = "MOUNTED"
      <4> DEFINE s == g[i]  t == f[i]  d == l[i + 1]  e == k[i + 1]
      <4>1. s \in Seq(Disk) /\ t \in Seq(Disk) /\ Alike(s, t) /\ d.name = e.name /\ d.plug = e.plug
        BY <3>1, <2>1, <1>0
      <4>2. g[i + 1] = Append(s, d) /\ f[i + 1] = Append(t, e)
        BY <3>1, <3>2, <3>3, <2>2
      <4> HIDE DEF s, t, d, e
      <4>3. Alike(Append(s, d), Append(t, e))
        BY <4>1 DEF Alike
      <4> QED BY <4>2, <4>3, <3>1
    <3>4. CASE k[i + 1].status # "MOUNTED"
      BY <3>1, <3>2, <3>4, <2>1, <2>2
    <3> QED BY <3>3, <3>4
  <2>4. CASE i + 1 > Len(k)
    <3>1. i + 1 \in Len(k) + 1..Len(l) /\ At(i) = Len(k) /\ At(i + 1) = Len(k)
      BY <2>1, <2>4, <1>0
    <3> QED BY <3>1, <2>1, <2>2
  <2> QED BY <2>1, <2>3, <2>4, <1>0
<1>5. S = Nat
  <2>1. S \subseteq Nat /\ \A i \in S : i + 1 \in S
    BY <1>4
  <2> HIDE DEF S
  <2>c. Closed(S)
    BY <1>3, <2>1 DEF Closed
  <2> QED BY <2>c, Induction
<1> DEFINE s == g[Len(l)]  t == f[Len(k)]
<1>6. Alike(s, t)
  <2>1. Len(l) \in S
    <3> HIDE DEF S
    <3> QED BY <1>0, <1>5
  <2>2. At(Len(l)) = Len(k)
    BY <1>0
  <2> QED BY <2>1, <2>2
<1>7. s \in Seq(Disk) /\ t \in Seq(Disk)
  <2>1. Len(l) \in 0..Len(l) /\ Len(k) \in 0..Len(k)
    BY <1>0
  <2> QED BY <2>1
<1> HIDE DEF s, t
<1>8. ASSUME NEW c \in Nat
      PROVE  ViewOf(Cut(s, c)) = ViewOf(Cut(t, c)) /\ NamesOf(Cut(s, c)) = NamesOf(Cut(t, c))
  <2> DEFINE a == Cut(s, c)  b == Cut(t, c)
  <2>1. Alike(a, b) /\ DOMAIN a = 1..Len(a) /\ DOMAIN b = 1..Len(b)
    <3>1. Alike(a, b) /\ a \in Seq(Disk) /\ b \in Seq(Disk)
      BY <1>6, <1>7 DEF Alike, Cut
    <3> HIDE DEF a, b
    <3> QED BY <3>1
  <2> HIDE DEF a, b
  <2>2. DOMAIN a = DOMAIN b /\ \A i \in DOMAIN a : a[i].name = b[i].name /\ a[i].plug = b[i].plug
    BY <2>1 DEF Alike
  <2>3. ViewOf(a) = ViewOf(b) /\ NamesOf(a) = NamesOf(b)
    BY <2>2 DEF ViewOf, NamesOf
  <2> QED BY <2>3 DEF a, b
<1> QED BY <1>1, <1>2, <1>8 DEF s, t

-----------------------------------------------------------------------------
(* The types, digested.                                                       *)

DiskType(n) == {Absent} \cup UNION {Disks(i, p) : i \in 1..MaxInsert, p \in Places[n]}

LEMMA DiskTypes ==
  ASSUME NEW n \in Names, NEW c \in DiskType(n)
  PROVE  /\ c.open \in BOOLEAN /\ c.gpt \in BOOLEAN /\ c.inst \in 0..MaxInsert
         /\ c.parts \subseteq PartNums /\ c.good \subseteq Nums
         /\ c.efi \in {{}, Efi}
         /\ c.inst = 0 <=> c = Absent
         /\ c.inst # 0 => c.inst \in 1..MaxInsert /\ c.port \in Places[n]
         /\ c.open => c.inst # 0 /\ c.good \subseteq IF c.parts = {} THEN {Whole} ELSE c.parts
         /\ ~c.open => c.parts = {} /\ c.good = {} /\ c.efi = {}
<1>0. MaxInsert \in Nat \ {0}
  BY DiskManagerAssumption
<1>1. CASE c = Absent
  BY <1>0, <1>1 DEF Absent
<1>2. CASE c # Absent
  <2>1. PICK i \in 1..MaxInsert, p \in Places[n] : c \in Disks(i, p)
    BY <1>2 DEF DiskType
  <2>0. i \in 1..MaxInsert /\ i # 0 /\ p \in Places[n]
    BY <1>0
  <2>2. CASE c \in Content(i, p)
    <3>1. /\ c \in [inst : {i}, port : {p}, open : {TRUE}, parts : SUBSET PartNums,
                     good : SUBSET Nums, gpt : BOOLEAN, efi : {{}, Efi}]
          /\ c.good \subseteq IF c.parts = {} THEN {Whole} ELSE c.parts
      BY <2>2 DEF Content
    <3>2. /\ c.inst = i /\ c.port = p /\ c.open = TRUE /\ c.gpt \in BOOLEAN
          /\ c.parts \subseteq PartNums /\ c.good \subseteq Nums /\ c.efi \in {{}, Efi}
      BY <3>1
    <3>3. c.inst \in 0..MaxInsert /\ c.inst # 0
      BY <3>2, <2>0, <1>0
    <3>4. Absent.inst = 0
      BY DEF Absent
    <3> QED BY <3>1, <3>2, <3>3, <3>4, <2>0, Zenon
  <2>3. CASE c = Empty(i, p)
    <3>1. /\ c.inst = i /\ c.port = p /\ c.open = FALSE /\ c.parts = {} /\ c.good = {}
          /\ c.gpt = FALSE /\ c.efi = {}
      BY <2>3 DEF Empty, Absent
    <3>2. c.inst \in 0..MaxInsert /\ c.inst # 0
      BY <3>1, <2>0, <1>0
    <3>3. Absent.inst = 0
      BY DEF Absent
    <3>4. c.parts \subseteq PartNums /\ c.good \subseteq Nums /\ c.efi \in {{}, Efi}
      BY <3>1
    <3> QED BY <3>1, <3>2, <3>3, <3>4, <2>0, Zenon
  <2> QED BY <2>1, <2>2, <2>3 DEF Disks
<1> QED BY <1>1, <1>2

LEMMA TableTypes ==
  ASSUME TypeOK, NEW n \in Names
  PROVE  table[n] \in DiskType(n)
BY DEF TypeOK, DiskType

NamesOnce(l) == \A i, j \in DOMAIN l : l[i].name = l[j].name => i = j
NumsOnce(l)  ==
  \A i \in DOMAIN l : \A j, k \in DOMAIN l[i].parts :
    l[i].parts[j].num = l[i].parts[k].num => j = k

LEMMA ListTypes ==
  ASSUME TypeOK
  PROVE  /\ list \in Seq(Disk) /\ Len(list) \in Nat /\ DOMAIN list = 1..Len(list)
         /\ NamesOnce(list) /\ NumsOnce(list)
         /\ \A i \in DOMAIN list :
              /\ list[i] \in Disk /\ list[i].name \in Names /\ list[i].parts \in Seq(Part)
              /\ Len(list[i].parts) \in Nat /\ DOMAIN list[i].parts = 1..Len(list[i].parts)
              /\ \A j \in DOMAIN list[i].parts : list[i].parts[j] \in Part
                                                 /\ list[i].parts[j].num \in Nums
<1>1. list \in Seq(Disk) /\ NamesOnce(list) /\ NumsOnce(list)
  BY DEF TypeOK, NamesOnce, NumsOnce
<1>2. Len(list) \in Nat /\ DOMAIN list = 1..Len(list) /\ \A i \in DOMAIN list : list[i] \in Disk
  BY <1>1
<1>3. \A d \in Disk : d.name \in Names /\ d.parts \in Seq(Part)
  BY DEF Disk
<1>4. \A s \in Seq(Part) : /\ Len(s) \in Nat /\ DOMAIN s = 1..Len(s)
                           /\ \A j \in DOMAIN s : s[j] \in Part
  OBVIOUS
<1>5. \A q \in Part : q.num \in Nums
  BY DEF Part
<1> QED BY <1>1, <1>2, <1>3, <1>4, <1>5, Zenon

-----------------------------------------------------------------------------
(* What the passes make of the list.                                          *)

SameDisk(d, e) ==
  /\ e.name = d.name /\ e.tag = d.tag /\ e.gpt = d.gpt /\ e.plug = d.plug /\ e.inst = d.inst

Clean(q) == q.mounted = FALSE /\ q.mnt = NoPath

Distinct(parts) == \A j, k \in DOMAIN parts : parts[j].num = parts[k].num => j = k

(* A listed disk gets more partitions, and new file systems may be found.     *)
Grown(d, e) ==
  /\ SameDisk(d, e) /\ e.status = d.status
  /\ DOMAIN d.parts \subseteq DOMAIN e.parts
  /\ \A j \in DOMAIN d.parts : /\ e.parts[j].num = d.parts[j].num
                               /\ e.parts[j].mounted = d.parts[j].mounted
                               /\ e.parts[j].mnt = d.parts[j].mnt
  /\ \A j \in DOMAIN e.parts \ DOMAIN d.parts : Clean(e.parts[j])

(* A disk is added.                                                           *)
Added(e) ==
  /\ e.name \in scope /\ table[e.name].open /\ ~Listed(e.name)
  /\ e.tag \in {NoTag, TagOf(table[e.name].port)} /\ e.inst = table[e.name].inst
  /\ e.status = "INIT"
  /\ \A j \in DOMAIN e.parts : Clean(e.parts[j])

(* The list as it is after the first or the second pass.                      *)
Grows(l) ==
  /\ l \in Seq(Disk) /\ NamesOnce(l) /\ NumsOnce(l)
  /\ Len(l) \in Nat /\ DOMAIN l = 1..Len(l) /\ Len(list) <= Len(l)
  /\ \A i \in DOMAIN list : i \in DOMAIN l /\ Grown(list[i], l[i])
  /\ \A i \in DOMAIN l \ DOMAIN list : Added(l[i])

LEMMA ConcatParts ==
  ASSUME NEW s \in Seq(Part), NEW S \in SUBSET Nums,
         \A j \in DOMAIN s : s[j].num \notin S,
         \A j, k \in DOMAIN s : s[j].num = s[k].num => j = k
  PROVE  LET t == s \o NewParts(S) IN
         /\ t \in Seq(Part)
         /\ DOMAIN s \subseteq DOMAIN t /\ \A j \in DOMAIN s : t[j] = s[j]
         /\ \A j \in DOMAIN t \ DOMAIN s : t[j].num \in S /\ Clean(t[j])
         /\ \A j, k \in DOMAIN t : t[j].num = t[k].num => j = k
         /\ \A x \in S : \E j \in DOMAIN t : t[j].num = x
<1> DEFINE u == NewParts(S)
           t == s \o u
           m == Len(s)
           n == Len(u)
<1>1. /\ u \in Seq(Part) /\ DOMAIN u = 1..n /\ n \in Nat
      /\ \A j \in 1..n : u[j].num \in S /\ Clean(u[j])
      /\ \A j, k \in 1..n : u[j].num = u[k].num => j = k
      /\ \A x \in S : \E j \in 1..n : u[j].num = x
  <2>1. /\ u \in Seq(Part) /\ DOMAIN u = 1..n /\ n \in Nat
        /\ \A j \in DOMAIN u : u[j].num \in S /\ u[j].mounted = FALSE /\ u[j].mnt = NoPath
        /\ \A j, k \in DOMAIN u : u[j].num = u[k].num => j = k
        /\ \A x \in S : \E j \in DOMAIN u : u[j].num = x
    BY NewPartsIs, Zenon
  <2> HIDE DEF u, n
  <2> QED BY <2>1 DEF Clean
<1>2. m \in Nat /\ DOMAIN s = 1..m
  OBVIOUS
<1> HIDE DEF u
<1>3. t \in Seq(Part) /\ DOMAIN t = 1..m + n
  <2>1. t \in Seq(Part) /\ Len(t) = m + n
    BY <1>1, ConcatProperties
  <2> QED BY <2>1, <1>1, <1>2
<1>4. \A j \in 1..m + n : t[j] = IF j <= m THEN s[j] ELSE u[j - m]
  BY <1>1, <1>2
<1> HIDE DEF t, m, n
<1>5. \A j \in 1..m : j \in 1..m + n /\ t[j] = s[j]
  BY <1>1, <1>2, <1>4
<1>6. \A j \in (1..m + n) \ (1..m) : j - m \in 1..n /\ t[j] = u[j - m]
  BY <1>1, <1>2, <1>4
<1>7. \A j \in 1..n : m + j \in 1..m + n /\ t[m + j] = u[j]
  <2> TAKE j \in 1..n
  <2>1. m + j \in (1..m + n) \ (1..m) /\ (m + j) - m = j
    BY <1>1, <1>2
  <2> QED BY <2>1, <1>6
<1>8. \A j, k \in DOMAIN t : t[j].num = t[k].num => j = k
  <2> TAKE j, k \in DOMAIN t
  <2>1. CASE j \in 1..m /\ k \in 1..m
    BY <2>1, <1>2, <1>5
  <2>2. CASE j \in 1..m /\ k \notin 1..m
    BY <2>2, <1>1, <1>2, <1>3, <1>5, <1>6
  <2>3. CASE j \notin 1..m /\ k \in 1..m
    BY <2>3, <1>1, <1>2, <1>3, <1>5, <1>6
  <2>4. CASE j \notin 1..m /\ k \notin 1..m
    <3>1. /\ j \in (1..m + n) \ (1..m) /\ k \in (1..m + n) \ (1..m)
      BY <2>4, <1>3
    <3>2. /\ j - m \in 1..n /\ k - m \in 1..n /\ t[j] = u[j - m] /\ t[k] = u[k - m]
      BY <3>1, <1>6
    <3>3. t[j].num = t[k].num => j - m = k - m
      BY <3>2, <1>1
    <3> QED BY <3>1, <3>3, <1>1, <1>2
  <2> QED BY <2>1, <2>2, <2>3, <2>4
<1>9. \A x \in S : \E j \in DOMAIN t : t[j].num = x
  BY <1>1, <1>3, <1>7
<1>10. \A j \in DOMAIN t \ DOMAIN s : t[j].num \in S /\ Clean(t[j])
  BY <1>1, <1>2, <1>3, <1>6
<1> QED BY <1>2, <1>3, <1>5, <1>8, <1>9, <1>10 DEF t, u

LEMMA GrowPart ==
  ASSUME NEW d \in Disk, NEW S \in SUBSET Nums, Distinct(d.parts), PartSet(d) \cap S = {}
  PROVE  LET e == [d EXCEPT !.parts = d.parts \o NewParts(S)] IN
         /\ e \in Disk /\ Grown(d, e) /\ Distinct(e.parts)
         /\ PartSet(d) \cup S \subseteq PartSet(e)
<1> DEFINE s == d.parts
           t == s \o NewParts(S)
           e == [d EXCEPT !.parts = t]
<1>1. s \in Seq(Part) /\ \A j \in DOMAIN s : s[j].num \notin S
  BY DEF Disk, PartSet
<1>2. \A j, k \in DOMAIN s : s[j].num = s[k].num => j = k
  BY DEF Distinct
<1> HIDE DEF s
<1>3. /\ t \in Seq(Part)
      /\ DOMAIN s \subseteq DOMAIN t /\ \A j \in DOMAIN s : t[j] = s[j]
      /\ \A j \in DOMAIN t \ DOMAIN s : t[j].num \in S /\ Clean(t[j])
      /\ \A j, k \in DOMAIN t : t[j].num = t[k].num => j = k
      /\ \A x \in S : \E j \in DOMAIN t : t[j].num = x
  BY <1>1, <1>2, ConcatParts, Zenon
<1> HIDE DEF t
<1>4. /\ e \in Disk /\ e.parts = t /\ SameDisk(d, e) /\ e.status = d.status
  BY <1>3 DEF Disk, SameDisk
<1> HIDE DEF e
<1>5. Grown(d, e)
  BY <1>3, <1>4 DEF Grown, s
<1>6. Distinct(e.parts)
  BY <1>3, <1>4 DEF Distinct
<1>7. PartSet(d) \cup S \subseteq PartSet(e)
  BY <1>3, <1>4 DEF PartSet, s
<1> QED BY <1>4, <1>5, <1>6, <1>7 DEF e, t, s

LEMMA TagsOfTable ==
  ASSUME TypeOK, NEW n \in Names, table[n].open
  PROVE  {NoTag, TagOf(table[n].port)} \subseteq TagsOf(n) /\ TagsOf(n) \subseteq Tags
<1>1. table[n].port \in Places[n]
  BY TableTypes, DiskTypes
<1> QED BY <1>1 DEF TagsOf, Tags

(* What the first pass makes of the list: the disks that are there are in it, *)
(* with their partitions.                                                     *)
Scanned(l) ==
  /\ \A n \in scope : table[n].open => \E i \in DOMAIN l : l[i].name = n
  /\ \A i \in DOMAIN l : l[i].name \in scope => Rows(l[i].name) \subseteq PartSet(l[i])

LEMMA Mnt1List ==
  ASSUME TypeOK, Mnt1
  PROVE  Grows(list') /\ Scanned(list') /\ plugcount' \in Nat
<1> DEFINE Known(n) == {p \in Nums : ListedPart(n, p)}
<1>u. PICK unlinked \in SUBSET NewDisks : Scan([n \in Names |-> Known(n)], unlinked)
  BY Zenon DEF Mnt1
<1> DEFINE S == {n \in scope : table[n].open /\ ~Listed(n)}
           new == SetToSeq(S)
           k == Len(new)
           m == Len(list)
           Tag(n) == IF n \in unlinked THEN NoTag ELSE TagOf(table[n].port)
           Add(i) == [name |-> new[i], gpt |-> table[new[i]].gpt, tag |-> Tag(new[i]), plug |-> plugcount + i - 1,
                      inst |-> table[new[i]].inst, status |-> "INIT", parts |-> <<>>]
           added == [i \in DOMAIN new |-> Add(i)]
           all == list \o added
           More(n) == Rows(n) \ Known(n)
           After(d) == IF d.name \notin scope THEN d
                       ELSE [d EXCEPT !.parts = d.parts \o NewParts(More(d.name))]
<1>0. /\ scope \subseteq Names /\ plugcount \in Nat /\ m \in Nat /\ DOMAIN list = 1..m
      /\ list \in Seq(Disk) /\ NamesOnce(list) /\ NumsOnce(list)
  BY ListTypes DEF TypeOK
<1>1. /\ k \in Nat /\ DOMAIN new = 1..k /\ \A i \in 1..k : new[i] \in S
      /\ \A i, j \in 1..k : new[i] = new[j] => i = j
      /\ \A n \in S : \E i \in 1..k : new[i] = n
  <2>1. IsFiniteSet(S)
    BY <1>0, FS_Subset, DiskManagerAssumption
  <2> HIDE DEF S
  <2> QED BY <2>1, SetToSeqIs
<1>2. list' = [i \in DOMAIN all |-> After(all[i])] /\ plugcount' = plugcount + k
  <2> HIDE DEF Known
  <2>1. \A n \in Names : [x \in Names |-> Known(x)][n] = Known(n)
    OBVIOUS
  <2>2. \A i \in DOMAIN all : all[i].name \in scope => all[i].name \in Names
    BY <1>0
  <2> QED BY <1>u, <2>1, <2>2 DEF Scan, NewDisks
<1>3. \A i \in 1..k : Add(i) \in Disk
  <2> TAKE i \in 1..k
  <2> DEFINE n == new[i]
  <2>1. n \in Names /\ table[n].open
    BY <1>0, <1>1
  <2>2. Tag(n) \in Tags
    BY <2>1, TagsOfTable
  <2>3. table[n].gpt \in BOOLEAN /\ table[n].inst \in 1..MaxInsert
    BY <2>1, TableTypes, DiskTypes
  <2>4. plugcount + i - 1 \in Nat
    BY <1>0, <1>1
  <2>5. <<>> \in Seq(Part)
    OBVIOUS
  <2> HIDE DEF n, Tag
  <2> QED BY <2>1, <2>2, <2>3, <2>4, <2>5 DEF Disk, n
<1>4. /\ all \in Seq(Disk) /\ Len(all) = m + k /\ DOMAIN all = 1..m + k
      /\ \A i \in 1..m : all[i] = list[i]
      /\ \A i \in 1..k : all[m + i] = Add(i)
  <2> DEFINE b == added
  <2>1. b \in Seq(Disk) /\ Len(b) = k /\ \A i \in 1..k : b[i] = Add(i)
    <3> HIDE DEF Add, new
    <3> QED BY <1>1, <1>3
  <2> HIDE DEF b, Add, new
  <2>2. list \o b \in Seq(Disk) /\ Len(list \o b) = m + k
    <3>1. list \o b \in Seq(Disk) /\ Len(list \o b) = Len(list) + Len(b)
      BY <2>1, <1>0, ConcatProperties
    <3> QED BY <3>1, <2>1
  <2>3. \A i \in 1..m : (list \o b)[i] = list[i]
    BY <2>1, <1>0, <1>1
  <2>4. \A i \in 1..k : (list \o b)[m + i] = b[i]
    BY <2>1, <1>0, <1>1
  <2>5. DOMAIN (list \o b) = 1..m + k
    BY <2>2, <1>0, <1>1
  <2> QED BY <2>1, <2>2, <2>3, <2>4, <2>5 DEF b
<1> HIDE DEF all, new
<1>5. \A i \in 1..m + k : i \in 1..m \/ \E j \in 1..k : i = m + j
  <2> TAKE i \in 1..m + k
  <2>1. i \in 1..m \/ (i - m \in 1..k /\ i = m + (i - m))
    BY <1>0, <1>1
  <2> QED BY <2>1
<1> DEFINE Fine(d) ==
      /\ After(d) \in Disk /\ Grown(d, After(d)) /\ Distinct(After(d).parts)
      /\ d.name \in scope => Rows(d.name) \subseteq PartSet(After(d))
<1>6. ASSUME NEW d \in Disk, Distinct(d.parts), \A p \in Nums : ListedPart(d.name, p) <=> p \in PartSet(d)
      PROVE  Fine(d)
  <2>1. Rows(d.name) \subseteq Nums
    <3>1. d.name \in Names
      BY DEF Disk
    <3> QED BY <3>1, TableTypes, DiskTypes, NumsFinite DEF Rows
  <2>2. CASE d.name \notin scope
    BY <2>2, <1>6 DEF Grown, SameDisk
  <2>3. CASE d.name \in scope
    <3> DEFINE M == More(d.name)
    <3>1. M \in SUBSET Nums /\ PartSet(d) \cap M = {} /\ Rows(d.name) \subseteq PartSet(d) \cup M
      BY <2>1, <1>6
    <3> HIDE DEF M
    <3>2. /\ [d EXCEPT !.parts = d.parts \o NewParts(M)] \in Disk
          /\ Grown(d, [d EXCEPT !.parts = d.parts \o NewParts(M)])
          /\ Distinct([d EXCEPT !.parts = d.parts \o NewParts(M)].parts)
          /\ PartSet(d) \cup M \subseteq PartSet([d EXCEPT !.parts = d.parts \o NewParts(M)])
      BY <3>1, <1>6, GrowPart, Zenon
    <3>3. After(d) = [d EXCEPT !.parts = d.parts \o NewParts(M)]
      BY <2>3 DEF M
    <3> HIDE DEF After
    <3> QED BY <3>1, <3>2, <3>3
  <2> QED BY <2>2, <2>3
<1>7. \A i \in 1..m : Fine(all[i])
  <2> TAKE i \in 1..m
  <2>1. all[i] = list[i] /\ list[i] \in Disk /\ Distinct(list[i].parts)
    BY <1>0, <1>4 DEF NumsOnce, Distinct
  <2>2. \A p \in Nums : ListedPart(list[i].name, p) <=> p \in PartSet(list[i])
    BY <1>0 DEF NamesOnce, ListedPart
  <2> HIDE DEF Fine
  <2> QED BY <2>1, <2>2, <1>6
<1>8. \A i \in 1..k : Fine(all[m + i])
  <2> TAKE i \in 1..k
  <2>1. /\ all[m + i] = Add(i) /\ Add(i) \in Disk /\ Add(i).parts = <<>>
        /\ Add(i).name = new[i] /\ ~Listed(new[i])
    BY <1>1, <1>3, <1>4
  <2> HIDE DEF Add
  <2>2. Distinct(Add(i).parts)
    BY <2>1 DEF Distinct
  <2>3. \A p \in Nums : ListedPart(Add(i).name, p) <=> p \in PartSet(Add(i))
    BY <2>1 DEF ListedPart, Listed, PartSet
  <2> HIDE DEF Fine
  <2> QED BY <2>1, <2>2, <2>3, <1>6
<1>9. /\ DOMAIN list' = 1..m + k /\ Len(list') = m + k /\ list' \in Seq(Disk)
      /\ \A i \in 1..m + k : list'[i] = After(all[i]) /\ Fine(all[i])
  <2>1. \A i \in 1..m + k : Fine(all[i])
    <3> HIDE DEF Fine, all
    <3> QED BY <1>5, <1>7, <1>8
  <2>2. \A i \in 1..m + k : After(all[i]) \in Disk
    <3> HIDE DEF After, all
    <3> QED BY <2>1
  <2> HIDE DEF Fine, After, all
  <2>3. DOMAIN list' = 1..m + k /\ \A i \in 1..m + k : list'[i] = After(all[i])
    BY <1>2, <1>4
  <2>4. list' \in Seq(Disk) /\ Len(list') = m + k
    BY <2>2, <1>0, <1>1, <1>2, <1>4
  <2> QED BY <2>1, <2>3, <2>4
<1>10. /\ \A i \in 1..m + k : Grown(all[i], list'[i]) /\ Distinct(list'[i].parts)
       /\ \A i \in 1..m + k : list'[i].name = all[i].name
       /\ \A i \in 1..m + k : list'[i].name \in scope =>
            Rows(list'[i].name) \subseteq PartSet(list'[i])
  <2> HIDE DEF all, After
  <2>1. \A i \in 1..m + k : Grown(all[i], list'[i]) /\ Distinct(list'[i].parts)
    BY <1>9
  <2>2. \A i \in 1..m + k : list'[i].name = all[i].name
    BY <2>1 DEF Grown, SameDisk
  <2> QED BY <2>1, <2>2, <1>9
<1> HIDE DEF all, After, Fine
<1>11. NamesOnce(list')
  <2>1. ASSUME NEW i \in 1..m + k, NEW j \in 1..m + k, all[i].name = all[j].name
        PROVE  i = j
    <3>1. \A x \in 1..m : Listed(all[x].name)
      BY <1>0, <1>4 DEF Listed
    <3>2. \A x \in 1..k : ~Listed(all[m + x].name) /\ all[m + x].name = new[x]
      <4> TAKE x \in 1..k
      <4>1. all[m + x] = Add(x) /\ new[x] \in S
        BY <1>1, <1>4
      <4> QED BY <4>1
    <3>3. CASE i \in 1..m /\ j \in 1..m
      BY <3>3, <2>1, <1>0, <1>4 DEF NamesOnce
    <3>4. CASE \E x, y \in 1..k : i = m + x /\ j = m + y
      BY <3>4, <3>2, <2>1, <1>1
    <3>5. ~\E x \in 1..m, y \in 1..k : all[x].name = all[m + y].name
      BY <3>1, <3>2
    <3> HIDE DEF all, new
    <3>6. (i \in 1..m \/ \E x \in 1..k : i = m + x) /\ (j \in 1..m \/ \E y \in 1..k : j = m + y)
      BY <1>5
    <3> QED BY <3>3, <3>4, <3>5, <3>6, <2>1
  <2> QED BY <2>1, <1>9, <1>10 DEF NamesOnce
<1>12. NumsOnce(list')
  BY <1>9, <1>10 DEF NumsOnce, Distinct
<1>13. \A i \in DOMAIN list : i \in DOMAIN list' /\ Grown(list[i], list'[i])
  <2> TAKE i \in DOMAIN list
  <2>1. i \in 1..m /\ i \in 1..m + k
    BY <1>0, <1>1
  <2> QED BY <2>1, <1>4, <1>9, <1>10
<1>14. \A i \in DOMAIN list' \ DOMAIN list : Added(list'[i])
  <2> TAKE i \in DOMAIN list' \ DOMAIN list
  <2>1. PICK x \in 1..k : i = m + x
    BY <1>0, <1>5, <1>9
  <2> DEFINE d == all[i]  e == list'[i]
  <2>2. /\ d.name = new[x] /\ d.tag = Tag(new[x]) /\ d.status = "INIT"
        /\ d.inst = table[new[x]].inst /\ d.parts = <<>> /\ new[x] \in S /\ Grown(d, e)
    <3>1. all[m + x] = Add(x) /\ new[x] \in S /\ i \in 1..m + k
      BY <2>1, <1>1, <1>4, <1>9
    <3>2. Grown(d, e)
      BY <3>1, <1>10
    <3> QED BY <2>1, <3>1, <3>2
  <2> HIDE DEF d, e
  <2>3. /\ e.name = new[x] /\ e.tag = Tag(new[x]) /\ e.status = "INIT"
        /\ e.inst = table[new[x]].inst
        /\ \A j \in DOMAIN e.parts : Clean(e.parts[j])
    BY <2>2 DEF Grown, SameDisk
  <2> QED BY <2>2, <2>3 DEF Added, e
<1>15. Scanned(list')
  <2>1. ASSUME NEW n \in scope, table[n].open PROVE \E i \in DOMAIN list' : list'[i].name = n
    <3>1. CASE Listed(n)
      <4>1. PICK i \in DOMAIN list : list[i].name = n
        BY <3>1 DEF Listed
      <4> QED BY <4>1, <1>13 DEF Grown, SameDisk
    <3>2. CASE ~Listed(n)
      <4>1. PICK x \in 1..k : new[x] = n
        BY <3>2, <2>1, <1>1
      <4>2. m + x \in 1..m + k
        BY <1>0, <1>1
      <4>3. all[m + x] = Add(x) /\ Add(x).name = n
        BY <4>1, <1>4
      <4> HIDE DEF Add
      <4> QED BY <4>2, <4>3, <1>9, <1>10
    <3> QED BY <3>1, <3>2
  <2> QED BY <2>1, <1>9, <1>10 DEF Scanned
<1>16. plugcount' \in Nat /\ Len(list') \in Nat /\ Len(list) <= Len(list')
  BY <1>0, <1>1, <1>2, <1>9
<1> QED BY <1>9, <1>11, <1>12, <1>13, <1>14, <1>15, <1>16 DEF Grows

LEMMA ProbedIs ==
  ASSUME NEW d \in Disk, Distinct(d.parts)
  PROVE  Probed(d) \in Disk /\ Grown(d, Probed(d)) /\ Distinct(Probed(d).parts)
<1>1. CASE d.name \notin scope
  BY <1>1 DEF Probed, Grown, SameDisk
<1>2. CASE d.name \in scope
  <2> DEFINE parts == IF d.parts = <<>> THEN NewParts({Whole}) ELSE d.parts
             probed == [j \in DOMAIN parts |->
                       [parts[j] EXCEPT !.fs = parts[j].num \in table[d.name].good]]
             e == [d EXCEPT !.parts = probed]
  <2>1. Probed(d) = e
    BY <1>2 DEF Probed
  <2>2. /\ parts \in Seq(Part) /\ Len(parts) \in Nat /\ DOMAIN parts = 1..Len(parts)
        /\ \A j, k \in DOMAIN parts : parts[j].num = parts[k].num => j = k
        /\ DOMAIN d.parts \subseteq DOMAIN parts /\ \A j \in DOMAIN d.parts : parts[j] = d.parts[j]
        /\ \A j \in DOMAIN parts \ DOMAIN d.parts : Clean(parts[j])
    <3>1. CASE d.parts = <<>>
      <4> DEFINE u == NewParts({Whole})
      <4>1. /\ u \in Seq(Part) /\ Len(u) \in Nat /\ DOMAIN u = 1..Len(u)
            /\ \A j, k \in DOMAIN u : u[j].num = u[k].num => j = k
            /\ \A j \in DOMAIN u : Clean(u[j])
        <5>1. {Whole} \in SUBSET Nums
          BY NumsFinite
        <5> QED BY <5>1, NewPartsIs DEF Clean
      <4> HIDE DEF u
      <4>2. parts = u /\ DOMAIN d.parts = {}
        BY <3>1 DEF u
      <4> QED BY <4>1, <4>2
    <3>2. CASE d.parts # <<>>
      <4>1. parts = d.parts /\ d.parts \in Seq(Part)
        BY <3>2 DEF Disk
      <4>2. \A s \in Seq(Part) : Len(s) \in Nat /\ DOMAIN s = 1..Len(s)
        OBVIOUS
      <4>3. \A j, k \in DOMAIN d.parts : d.parts[j].num = d.parts[k].num => j = k
        BY DEF Distinct
      <4> HIDE DEF parts
      <4> QED BY <4>1, <4>2, <4>3
    <3> QED BY <3>1, <3>2
  <2> HIDE DEF parts
  <2>3. /\ probed \in Seq(Part) /\ DOMAIN probed = DOMAIN parts
        /\ \A j \in DOMAIN parts : /\ probed[j].num = parts[j].num
                                   /\ probed[j].mounted = parts[j].mounted
                                   /\ probed[j].mnt = parts[j].mnt
    <3>1. \A j \in DOMAIN parts : parts[j] \in Part
      BY <2>2
    <3>2. \A q \in Part : \A b \in BOOLEAN :
            /\ [q EXCEPT !.fs = b] \in Part /\ [q EXCEPT !.fs = b].num = q.num
            /\ [q EXCEPT !.fs = b].mounted = q.mounted /\ [q EXCEPT !.fs = b].mnt = q.mnt
      BY DEF Part
    <3> DEFINE fs(j) == parts[j].num \in table[d.name].good
    <3>3. \A j \in DOMAIN parts : fs(j) \in BOOLEAN
      OBVIOUS
    <3>4. probed = [j \in DOMAIN parts |-> [parts[j] EXCEPT !.fs = fs(j)]]
      OBVIOUS
    <3> HIDE DEF probed, fs
    <3>5. \A j \in DOMAIN parts : probed[j] = [parts[j] EXCEPT !.fs = fs(j)]
      BY <3>4
    <3>6. \A j \in DOMAIN parts : probed[j] \in Part /\ probed[j].num = parts[j].num
                                  /\ probed[j].mounted = parts[j].mounted
                                  /\ probed[j].mnt = parts[j].mnt
      <4> TAKE j \in DOMAIN parts
      <4> DEFINE q == parts[j]  b == fs(j)
      <4>1. q \in Part /\ b \in BOOLEAN /\ probed[j] = [q EXCEPT !.fs = b]
        BY <3>1, <3>3, <3>5
      <4> HIDE DEF q, b
      <4>2. /\ [q EXCEPT !.fs = b] \in Part /\ [q EXCEPT !.fs = b].num = q.num
            /\ [q EXCEPT !.fs = b].mounted = q.mounted /\ [q EXCEPT !.fs = b].mnt = q.mnt
        BY <4>1, <3>2, Zenon
      <4> QED BY <4>1, <4>2, Zenon DEF q
    <3>7. probed \in [1..Len(parts) -> Part] /\ DOMAIN probed = DOMAIN parts
      BY <3>4, <3>6, <2>2
    <3> QED BY <3>6, <3>7, <2>2
  <2> HIDE DEF probed
  <2>4. e \in Disk /\ e.parts = probed /\ SameDisk(d, e) /\ e.status = d.status
    BY <2>3 DEF Disk, SameDisk
  <2> HIDE DEF e
  <2>5. Grown(d, e)
    BY <2>2, <2>3, <2>4 DEF Grown, Clean
  <2>6. Distinct(e.parts)
    BY <2>2, <2>3, <2>4 DEF Distinct
  <2> QED BY <2>1, <2>4, <2>5, <2>6
<1> QED BY <1>1, <1>2

(* What is left to the third pass is listed.                                  *)
LEMMA WorkOfIs ==
  ASSUME NEW l \in Seq(Disk)
  PROVE  /\ WorkOf(l) \in Seq(Names \X Nums)
         /\ \A k \in DOMAIN WorkOf(l) : \E i \in DOMAIN l :
              l[i].name = WorkOf(l)[k][1] /\ WorkOf(l)[k][2] \in PartSet(l[i])
<1> DEFINE row(i) == [j \in DOMAIN l[i].parts |-> <<l[i].name, l[i].parts[j].num>>]
           ss == [i \in DOMAIN l |-> IF l[i].name \notin scope THEN <<>> ELSE row(i)]
           T == Names \X Nums
<1>1. \A i \in DOMAIN l : l[i] \in Disk /\ l[i].name \in Names /\ l[i].parts \in Seq(Part)
  <2>1. \A d \in Disk : d.name \in Names /\ d.parts \in Seq(Part)
    BY DEF Disk
  <2> QED BY <2>1
<1>2. \A i \in DOMAIN l : /\ row(i) \in Seq(T) /\ DOMAIN row(i) = DOMAIN l[i].parts
                          /\ \A j \in DOMAIN l[i].parts : row(i)[j] = <<l[i].name, l[i].parts[j].num>>
  <2> TAKE i \in DOMAIN l
  <2> DEFINE s == l[i].parts
  <2>1. Len(s) \in Nat /\ DOMAIN s = 1..Len(s) /\ \A j \in 1..Len(s) : s[j].num \in Nums
    <3>1. s \in Seq(Part)
      BY <1>1
    <3> HIDE DEF s
    <3>2. \A q \in Part : q.num \in Nums
      BY DEF Part
    <3> QED BY <3>1, <3>2
  <2> HIDE DEF s
  <2>2. row(i) = [j \in 1..Len(s) |-> <<l[i].name, s[j].num>>]
    BY <2>1 DEF s
  <2> HIDE DEF row
  <2>3. row(i) \in [1..Len(s) -> T]
    BY <2>1, <2>2, <1>1
  <2>4. row(i) \in Seq(T)
    <3> HIDE DEF T
    <3> QED BY <2>1, <2>3
  <2> QED BY <2>1, <2>2, <2>4 DEF s
<1> HIDE DEF row, T
<1>3. /\ ss \in Seq(Seq(T))
      /\ \A i \in DOMAIN ss : i \in DOMAIN l /\ (DOMAIN ss[i] # {} => ss[i] = row(i))
  <2>1. Len(l) \in Nat /\ DOMAIN l = 1..Len(l) /\ <<>> \in Seq(T)
    OBVIOUS
  <2>2. ss \in [1..Len(l) -> Seq(T)]
    BY <2>1, <1>2
  <2>3. \A i \in DOMAIN ss : i \in DOMAIN l /\ (DOMAIN ss[i] # {} => ss[i] = row(i))
    OBVIOUS
  <2> HIDE DEF ss
  <2>4. ss \in Seq(Seq(T))
    BY <2>1, <2>2
  <2> QED BY <2>3, <2>4
<1>4. WorkOf(l) = FlattenSeq(ss)
  BY DEF WorkOf, row
<1> HIDE DEF ss
<1>5. /\ WorkOf(l) \in Seq(T)
      /\ \A k \in DOMAIN WorkOf(l) : \E i \in DOMAIN ss : \E j \in DOMAIN ss[i] :
           WorkOf(l)[k] = ss[i][j]
  BY <1>3, <1>4, FlattenIs
<1>6. ASSUME NEW k \in DOMAIN WorkOf(l)
      PROVE  \E i \in DOMAIN l :
               l[i].name = WorkOf(l)[k][1] /\ WorkOf(l)[k][2] \in PartSet(l[i])
  <2>0. PICK i \in DOMAIN ss : \E j \in DOMAIN ss[i] : WorkOf(l)[k] = ss[i][j]
    BY <1>5
  <2>1. PICK j \in DOMAIN ss[i] : WorkOf(l)[k] = ss[i][j]
    BY <2>0
  <2>2. i \in DOMAIN l /\ ss[i] = row(i)
    BY <2>1, <1>3
  <2>3. j \in DOMAIN l[i].parts /\ WorkOf(l)[k] = <<l[i].name, l[i].parts[j].num>>
    BY <2>1, <2>2, <1>2
  <2>4. WorkOf(l)[k][1] = l[i].name /\ WorkOf(l)[k][2] = l[i].parts[j].num
    BY <2>3
  <2> QED BY <2>2, <2>3, <2>4 DEF PartSet
<1> QED BY <1>5, <1>6 DEF T

LEMMA Mnt2List ==
  ASSUME TypeOK, Mnt2
  PROVE  /\ Grows(list') /\ DOMAIN list' = DOMAIN list
         /\ work' \in Seq(Names \X Nums)
         /\ \A k \in DOMAIN work' : \E i \in DOMAIN list' :
              list'[i].name = work'[k][1] /\ work'[k][2] \in PartSet(list'[i])
<1>1. list' = [i \in DOMAIN list |-> Probed(list[i])] /\ work' = WorkOf(list')
  BY DEF Mnt2
<1>2. /\ list \in Seq(Disk) /\ Len(list) \in Nat /\ DOMAIN list = 1..Len(list)
      /\ NamesOnce(list) /\ NumsOnce(list) /\ \A i \in DOMAIN list : list[i] \in Disk
  BY ListTypes
<1>3. \A i \in DOMAIN list :
        /\ list'[i] = Probed(list[i]) /\ list'[i] \in Disk /\ Grown(list[i], list'[i])
        /\ Distinct(list'[i].parts)
  BY <1>1, <1>2, ProbedIs DEF NumsOnce, Distinct
<1>4. DOMAIN list' = DOMAIN list /\ list' \in Seq(Disk) /\ Len(list') = Len(list)
  <2>1. list' \in [1..Len(list) -> Disk]
    BY <1>1, <1>2, <1>3
  <2> QED BY <2>1, <1>2
<1>5. NamesOnce(list') /\ NumsOnce(list')
  BY <1>2, <1>3, <1>4 DEF NamesOnce, NumsOnce, Grown, SameDisk, Distinct
<1>6. Grows(list')
  BY <1>2, <1>3, <1>4, <1>5 DEF Grows
<1> DEFINE l == list'
<1>7. l \in Seq(Disk) /\ work' = WorkOf(l)
  BY <1>1, <1>4
<1> HIDE DEF l
<1>8. /\ work' \in Seq(Names \X Nums)
      /\ \A k \in DOMAIN work' : \E i \in DOMAIN l :
           l[i].name = work'[k][1] /\ work'[k][2] \in PartSet(l[i])
  BY <1>7, WorkOfIs
<1> QED BY <1>4, <1>6, <1>8 DEF l

(* One partition is noted as mounted, or not, at a path.                      *)
Noted(l, n, p, path, m) ==
  /\ l \in Seq(Disk) /\ NamesOnce(l) /\ NumsOnce(l) /\ DOMAIN l = DOMAIN list
  /\ Len(l) = Len(list)
  /\ \A i \in DOMAIN list :
       /\ SameDisk(list[i], l[i]) /\ l[i].status = list[i].status
       /\ DOMAIN l[i].parts = DOMAIN list[i].parts
       /\ \A j \in DOMAIN list[i].parts :
            /\ l[i].parts[j].num = list[i].parts[j].num
            /\ list[i].name = n /\ list[i].parts[j].num = p =>
                 l[i].parts[j].mounted = m /\ l[i].parts[j].mnt = path
            /\ ~(list[i].name = n /\ list[i].parts[j].num = p) =>
                 /\ l[i].parts[j].mounted = list[i].parts[j].mounted
                 /\ l[i].parts[j].mnt = list[i].parts[j].mnt

LEMMA NoteIs ==
  ASSUME TypeOK, NEW n, NEW p, NEW path \in Paths \cup {NoPath}, NEW m \in BOOLEAN,
         Note(n, p, path, m)
  PROVE  Noted(list', n, p, path, m)
<1> DEFINE q(i, j) == IF list[i].parts[j].num # p THEN list[i].parts[j]
                      ELSE [list[i].parts[j] EXCEPT !.mounted = m, !.mnt = path]
           ps(i) == [j \in DOMAIN list[i].parts |-> q(i, j)]
           e(i) == [list[i] EXCEPT !.parts = ps(i)]
<1>1. list' = [i \in DOMAIN list |-> IF list[i].name # n THEN list[i] ELSE e(i)]
  BY DEF Note
<1>2. /\ list \in Seq(Disk) /\ Len(list) \in Nat /\ DOMAIN list = 1..Len(list)
      /\ NamesOnce(list) /\ NumsOnce(list)
      /\ \A i \in DOMAIN list :
           /\ list[i] \in Disk /\ list[i].parts \in Seq(Part)
           /\ Len(list[i].parts) \in Nat /\ DOMAIN list[i].parts = 1..Len(list[i].parts)
           /\ \A j \in DOMAIN list[i].parts : list[i].parts[j] \in Part
  BY ListTypes
<1>3. \A r \in Part : LET s == [r EXCEPT !.mounted = m, !.mnt = path] IN
        s \in Part /\ s.num = r.num /\ s.mounted = m /\ s.mnt = path
  BY DEF Part
<1>4. \A i \in DOMAIN list : \A j \in DOMAIN list[i].parts :
        /\ q(i, j) \in Part /\ q(i, j).num = list[i].parts[j].num
        /\ list[i].parts[j].num = p => q(i, j).mounted = m /\ q(i, j).mnt = path
        /\ list[i].parts[j].num # p => q(i, j) = list[i].parts[j]
  BY <1>2, <1>3
<1> HIDE DEF q
<1>5. \A i \in DOMAIN list : /\ DOMAIN ps(i) = DOMAIN list[i].parts /\ ps(i) \in Seq(Part)
                             /\ \A j \in DOMAIN list[i].parts : ps(i)[j] = q(i, j)
  <2> TAKE i \in DOMAIN list
  <2>1. ps(i) \in [1..Len(list[i].parts) -> Part]
    BY <1>2, <1>4
  <2>2. ps(i) \in Seq(Part) /\ DOMAIN ps(i) = DOMAIN list[i].parts
    <3> DEFINE m1 == Len(list[i].parts)  r == ps(i)
    <3>1. m1 \in Nat /\ DOMAIN list[i].parts = 1..m1 /\ r \in [1..m1 -> Part]
      BY <2>1, <1>2
    <3> HIDE DEF m1, r
    <3>2. r \in Seq(Part) /\ DOMAIN r = 1..m1
      BY <3>1
    <3> QED BY <3>1, <3>2 DEF r
  <2>3. \A j \in DOMAIN list[i].parts : ps(i)[j] = q(i, j)
    BY DEF ps
  <2> HIDE DEF ps
  <2> QED BY <2>2, <2>3
<1> HIDE DEF ps
<1>6. \A i \in DOMAIN list : /\ e(i) \in Disk /\ e(i).parts = ps(i)
                             /\ SameDisk(list[i], e(i)) /\ e(i).status = list[i].status
  BY <1>2, <1>5 DEF Disk, SameDisk
<1> HIDE DEF e
<1>7. \A i \in DOMAIN list :
        /\ list'[i] \in Disk
        /\ SameDisk(list[i], list'[i]) /\ list'[i].status = list[i].status
        /\ DOMAIN list'[i].parts = DOMAIN list[i].parts
        /\ \A j \in DOMAIN list[i].parts :
             /\ list'[i].parts[j].num = list[i].parts[j].num
             /\ list[i].name = n /\ list[i].parts[j].num = p =>
                  list'[i].parts[j].mounted = m /\ list'[i].parts[j].mnt = path
             /\ ~(list[i].name = n /\ list[i].parts[j].num = p) =>
                  /\ list'[i].parts[j].mounted = list[i].parts[j].mounted
                  /\ list'[i].parts[j].mnt = list[i].parts[j].mnt
  <2> TAKE i \in DOMAIN list
  <2>1. CASE list[i].name # n
    <3>1. list'[i] = list[i]
      BY <2>1, <1>1
    <3> QED BY <3>1, <2>1, <1>2 DEF SameDisk
  <2>2. CASE list[i].name = n
    <3>1. list'[i] = e(i)
      BY <2>2, <1>1
    <3> QED BY <3>1, <2>2, <1>4, <1>5, <1>6
  <2> QED BY <2>1, <2>2
<1>8. DOMAIN list' = DOMAIN list /\ list' \in Seq(Disk) /\ Len(list') = Len(list)
  <2>1. list' \in [1..Len(list) -> Disk]
    BY <1>1, <1>2, <1>7
  <2> QED BY <2>1, <1>2
<1>9. NamesOnce(list') /\ NumsOnce(list')
  <2>1. NamesOnce(list')
    BY <1>2, <1>7, <1>8 DEF NamesOnce, SameDisk
  <2>2. NumsOnce(list')
    BY <1>2, <1>7, <1>8 DEF NumsOnce
  <2> QED BY <2>1, <2>2
<1> QED BY <1>7, <1>8, <1>9 DEF Noted

(* The disks in scope count as mounted, and nothing else changes.             *)
Done(l) ==
  /\ l \in Seq(Disk) /\ NamesOnce(l) /\ NumsOnce(l) /\ DOMAIN l = DOMAIN list
  /\ Len(l) = Len(list)
  /\ \A i \in DOMAIN list :
       /\ SameDisk(list[i], l[i]) /\ l[i].parts = list[i].parts
       /\ list[i].name \in scope => l[i].status = "MOUNTED"
       /\ list[i].name \notin scope => l[i].status = list[i].status

LEMMA Mnt3DoneList ==
  ASSUME TypeOK, Mnt3Done
  PROVE  Done(list')
<1>1. list' = [i \in DOMAIN list |-> IF list[i].name \in scope
                                     THEN [list[i] EXCEPT !.status = "MOUNTED"] ELSE list[i]]
  BY DEF Mnt3Done
<1>2. /\ list \in Seq(Disk) /\ Len(list) \in Nat /\ DOMAIN list = 1..Len(list)
      /\ NamesOnce(list) /\ NumsOnce(list)
      /\ \A i \in DOMAIN list : list[i] \in Disk
  BY ListTypes
<1>3. \A d \in Disk : LET e == [d EXCEPT !.status = "MOUNTED"] IN
        e \in Disk /\ SameDisk(d, e) /\ e.parts = d.parts /\ e.status = "MOUNTED"
  BY DEF Disk, SameDisk
<1>4. \A i \in DOMAIN list :
        /\ list'[i] \in Disk /\ SameDisk(list[i], list'[i]) /\ list'[i].parts = list[i].parts
        /\ list[i].name \in scope => list'[i].status = "MOUNTED"
        /\ list[i].name \notin scope => list'[i].status = list[i].status
  <2> TAKE i \in DOMAIN list
  <2>1. CASE list[i].name \in scope
    <3>1. list'[i] = [list[i] EXCEPT !.status = "MOUNTED"]
      BY <2>1, <1>1
    <3> QED BY <3>1, <2>1, <1>2, <1>3
  <2>2. CASE list[i].name \notin scope
    <3>1. list'[i] = list[i]
      BY <2>2, <1>1
    <3> QED BY <3>1, <2>2, <1>2 DEF SameDisk
  <2> QED BY <2>1, <2>2
<1>5. DOMAIN list' = DOMAIN list /\ list' \in Seq(Disk) /\ Len(list') = Len(list)
  <2>1. list' \in [1..Len(list) -> Disk]
    BY <1>1, <1>2, <1>4
  <2> QED BY <2>1, <1>2
<1>6. NamesOnce(list') /\ NumsOnce(list')
  BY <1>2, <1>4, <1>5 DEF NamesOnce, NumsOnce, SameDisk
<1> QED BY <1>4, <1>5, <1>6 DEF Done

LEMMA PlaceIs ==
  ASSUME TypeOK, NEW n, Listed(n)
  PROVE  /\ Place(n) \in DOMAIN list /\ list[Place(n)].name = n
         /\ \A i \in DOMAIN list : list[i].name = n => i = Place(n)
<1>1. \E i \in DOMAIN list : list[i].name = n
  BY DEF Listed
<1>2. Place(n) \in DOMAIN list /\ list[Place(n)].name = n
  BY <1>1, Zenon DEF Place
<1>3. NamesOnce(list)
  BY ListTypes
<1> QED BY <1>2, <1>3, Zenon DEF NamesOnce

LEMMA EntryIs ==
  ASSUME TypeOK, NEW n, NEW p, ListedPart(n, p)
  PROVE  /\ Listed(n)
         /\ \E j \in DOMAIN list[Place(n)].parts :
              /\ list[Place(n)].parts[j].num = p /\ Entry(n, p) = list[Place(n)].parts[j]
         /\ \A i \in DOMAIN list : \A j \in DOMAIN list[i].parts :
              list[i].name = n /\ list[i].parts[j].num = p => Entry(n, p) = list[i].parts[j]
<1>1. Listed(n)
  BY DEF Listed, ListedPart
<1> DEFINE k == Place(n)  parts == list[k].parts
<1>2. /\ k \in DOMAIN list /\ list[k].name = n
      /\ \A i \in DOMAIN list : list[i].name = n => i = k
  BY <1>1, PlaceIs
<1>3. \E j \in DOMAIN parts : parts[j].num = p
  <2> HIDE DEF k
  <2> QED BY <1>2 DEF ListedPart, PartSet
<1> DEFINE x == CHOOSE j \in DOMAIN parts : parts[j].num = p
<1>4. x \in DOMAIN parts /\ parts[x].num = p
  <2> HIDE DEF parts
  <2> QED BY <1>3, Zenon
<1>5. Entry(n, p) = parts[x]
  BY DEF Entry
<1>6. \A i, j \in DOMAIN parts : parts[i].num = parts[j].num => i = j
  <2> HIDE DEF k
  <2> QED BY <1>2, ListTypes DEF NumsOnce
<1> HIDE DEF x, k
<1>7. \A j \in DOMAIN parts : parts[j].num = p => j = x
  BY <1>4, <1>6
<1> QED BY <1>1, <1>2, <1>4, <1>5, <1>7 DEF k

(* A disk is taken from the list.                                             *)
Gone(l, n) ==
  /\ l \in Seq(Disk) /\ NamesOnce(l) /\ NumsOnce(l)
  /\ \A i \in DOMAIN l : l[i].name # n /\ \E j \in DOMAIN list : l[i] = list[j]
  /\ \A j \in DOMAIN list : list[j].name # n => \E i \in DOMAIN l : l[i] = list[j]

LEMMA RemoveDiskList ==
  ASSUME TypeOK, NEW n, RemoveDisk(n)
  PROVE  Gone(list', n)
<1>1. /\ list \in Seq(Disk) /\ Len(list) \in Nat /\ DOMAIN list = 1..Len(list)
      /\ NamesOnce(list) /\ NumsOnce(list)
  BY ListTypes
<1>2. CASE ~Listed(n)
  <2>1. list' = list
    BY <1>2 DEF RemoveDisk
  <2> QED BY <2>1, <1>1, <1>2 DEF Gone, Listed
<1>3. CASE Listed(n)
  <2> DEFINE k == Place(n)  h(j) == IF j < k THEN j ELSE j + 1
             r == RemoveAt(list, k)  m == Len(list)
  <2>1. k \in 1..m /\ list[k].name = n /\ \A i \in 1..m : list[i].name = n => i = k
    BY <1>1, <1>3, PlaceIs
  <2>2. list' = r
    BY <1>3 DEF RemoveDisk
  <2> HIDE DEF k
  <2>3. r \in Seq(Disk) /\ Len(r) = m - 1 /\ \A j \in 1..m - 1 : r[j] = list[h(j)]
    BY <2>1, <1>1, RemoveAtIs
  <2> HIDE DEF r
  <2>4. DOMAIN r = 1..m - 1
    BY <2>3, <1>1
  <2>5. /\ \A j \in 1..m - 1 : h(j) \in 1..m /\ h(j) # k
        /\ \A i, j \in 1..m - 1 : h(i) = h(j) => i = j
    BY <2>1, <1>1
  <2>6. ASSUME NEW j \in 1..m, j # k PROVE \E i \in 1..m - 1 : h(i) = j
    <3>1. CASE j < k
      <4>1. j \in 1..m - 1 /\ h(j) = j
        BY <3>1, <2>1, <1>1
      <4> QED BY <4>1
    <3>2. CASE j > k
      <4>1. j - 1 \in 1..m - 1 /\ h(j - 1) = j
        BY <3>2, <2>1, <1>1
      <4> QED BY <4>1
    <3> QED BY <3>1, <3>2, <2>1, <2>6
  <2> HIDE DEF h, m
  <2>7. NamesOnce(r)
    <3>1. \A i, j \in 1..m - 1 : r[i].name = r[j].name => h(i) = h(j)
      BY <2>3, <2>5, <1>1 DEF NamesOnce, m
    <3> QED BY <3>1, <2>4, <2>5 DEF NamesOnce
  <2>8. NumsOnce(r)
    BY <2>3, <2>4, <2>5, <1>1 DEF NumsOnce, m
  <2>9. \A i \in DOMAIN r : r[i].name # n /\ \E j \in DOMAIN list : r[i] = list[j]
    BY <2>1, <2>3, <2>4, <2>5, <1>1 DEF m
  <2>10. \A j \in DOMAIN list : list[j].name # n => \E i \in DOMAIN r : r[i] = list[j]
    <3> SUFFICES ASSUME NEW j \in 1..m, list[j].name # n PROVE \E i \in 1..m - 1 : r[i] = list[j]
      BY <2>4, <1>1 DEF m
    <3>1. PICK i \in 1..m - 1 : h(i) = j
      BY <2>1, <2>6
    <3> QED BY <3>1, <2>3
  <2> QED BY <2>2, <2>3, <2>7, <2>8, <2>9, <2>10 DEF Gone
<1> QED BY <1>2, <1>3

-----------------------------------------------------------------------------
(* What the steps of the kernel and of the third pass do.                     *)

LEMMA ContentIs ==
  ASSUME NEW n \in Names, NEW i \in 1..MaxInsert, NEW p \in Places[n], NEW c \in Disks(i, p)
  PROVE  c \in DiskType(n) /\ c # Absent /\ c.inst = i
<1>1. c \in DiskType(n)
  BY DEF DiskType
<1>2. i # 0
  BY DiskManagerAssumption
<1>3. c.inst = i
  <2>1. CASE c \in Content(i, p)
    BY <2>1 DEF Content
  <2>2. CASE c = Empty(i, p)
    BY <2>2 DEF Empty, Absent
  <2> QED BY <2>1, <2>2 DEF Disks
<1>4. Absent.inst = 0
  BY DEF Absent
<1> QED BY <1>1, <1>2, <1>3, <1>4

(* The kernel reports a disk, and its other disks stay as they are.  What is  *)
(* mounted keeps its medium until that leaves, and another has a new number.  *)
KernelStep(n, a) ==
  /\ n \in Names /\ a \in {"add", "remove", "change"}
  /\ Uevent(a, n)
  /\ DOMAIN table' = Names /\ \A m \in Names \ {n} : table'[m] = table[m]
  /\ table'[n] \in DiskType(n)
  /\ a = "remove" <=> table'[n] = Absent
  /\ a = "add" => table[n] = Absent
  /\ \/ table'[n] = table[n] \/ MountsOf(n) = {} \/ ~table'[n].open
     \/ table'[n].inst = inserted + 1
  /\ \/ inserted' = inserted /\ table'[n].inst \in {0, table[n].inst}
     \/ /\ inserted' = inserted + 1 /\ table'[n].inst = inserted + 1
        /\ table[n].inst # 0 \/ MountsOf(n) = {}
  /\ inserted' \in 0..MaxInsert /\ changes' \in 0..MaxChange

KernelNext == Plug \/ Unplug \/ MediumOut \/ MediumIn \/ Change \/ Repartition

LEMMA KernelIs ==
  ASSUME TypeOK, KernelNext
  PROVE  \E n \in Names, a \in {"add", "remove", "change"} : KernelStep(n, a)
<1>0. /\ DOMAIN table = Names /\ inserted \in 0..MaxInsert /\ changes \in 0..MaxChange
      /\ MaxInsert \in Nat /\ MaxChange \in Nat
      /\ \A n \in Names : table[n] \in DiskType(n)
      /\ \A n \in Names : table[n].open => table[n] # Absent
  BY TableTypes, DiskManagerAssumption DEF TypeOK, Absent
<1> USE DEF KernelStep
<1>1. CASE Plug
  <2>a. PICK n \in Names : \E p \in Places[n] : \E c \in Disks(inserted + 1, p) :
          table[n] = Absent /\ MountsOf(n) = {} /\ Insert(n, c) /\ Uevent("add", n)
    BY <1>1, Zenon DEF Plug
  <2>b. PICK p \in Places[n] : \E c \in Disks(inserted + 1, p) :
          table[n] = Absent /\ MountsOf(n) = {} /\ Insert(n, c) /\ Uevent("add", n)
    BY <2>a, Zenon
  <2>1. PICK c \in Disks(inserted + 1, p) :
          table[n] = Absent /\ MountsOf(n) = {} /\ Insert(n, c) /\ Uevent("add", n)
    BY <2>b, Zenon
  <2>2. inserted + 1 \in 1..MaxInsert
    BY <2>1, <1>0 DEF Insert
  <2>3. c \in DiskType(n) /\ c # Absent /\ c.inst = inserted + 1
    BY <2>2, ContentIs
  <2>4. table'[n] = c /\ DOMAIN table' = Names /\ \A m \in Names \ {n} : table'[m] = table[m]
    BY <2>1, <1>0 DEF Insert
  <2>5. inserted' = inserted + 1 /\ inserted' \in 0..MaxInsert /\ changes' \in 0..MaxChange
    BY <2>1, <2>2, <1>0 DEF Insert
  <2>6. KernelStep(n, "add")
    BY <2>1, <2>3, <2>4, <2>5
  <2> HIDE DEF KernelStep
  <2> QED BY <2>6
<1>2. CASE Unplug
  <2>1. PICK n \in Names : /\ table' = [table EXCEPT ![n] = Absent]
                           /\ UNCHANGED <<inserted, changes>> /\ Uevent("remove", n)
    BY <1>2, Zenon DEF Unplug
  <2>2. Absent \in DiskType(n) /\ ~Absent.open /\ Absent.inst = 0
    BY DEF DiskType, Absent
  <2>3. KernelStep(n, "remove")
    BY <2>1, <2>2, <1>0
  <2> HIDE DEF KernelStep
  <2> QED BY <2>3
<1>3. CASE MediumOut
  <2>1. PICK n \in Names : /\ table[n].open
                           /\ table' = [table EXCEPT ![n] = Empty(table[n].inst, table[n].port)]
                           /\ UNCHANGED <<inserted, changes>> /\ Uevent("change", n)
    BY <1>3, Zenon DEF MediumOut
  <2>2. table[n].inst \in 1..MaxInsert /\ table[n].port \in Places[n]
    BY <2>1, <1>0, DiskTypes
  <2> DEFINE c == Empty(table[n].inst, table[n].port)
  <2>3. c \in DiskType(n) /\ c # Absent /\ c.inst = table[n].inst
    BY <2>2, ContentIs DEF Disks
  <2>4. ~c.open
    BY DEF Empty, Absent
  <2> HIDE DEF c
  <2>5. KernelStep(n, "change")
    BY <2>1, <2>3, <2>4, <1>0 DEF c
  <2> HIDE DEF KernelStep
  <2> QED BY <2>5
<1>4. CASE MediumIn
  <2>a. PICK n \in Names : \E c \in Content(inserted + 1, table[n].port) :
          table[n].inst # 0 /\ ~table[n].open /\ Insert(n, c) /\ Uevent("change", n)
    BY <1>4, Zenon DEF MediumIn
  <2>1. PICK c \in Content(inserted + 1, table[n].port) :
          table[n].inst # 0 /\ ~table[n].open /\ Insert(n, c) /\ Uevent("change", n)
    BY <2>a, Zenon
  <2>2. inserted + 1 \in 1..MaxInsert /\ table[n].port \in Places[n]
    BY <2>1, <1>0, DiskTypes DEF Insert
  <2>3. c \in DiskType(n) /\ c # Absent /\ c.inst = inserted + 1
    BY <2>2, ContentIs DEF Disks
  <2>4. table'[n] = c /\ DOMAIN table' = Names /\ \A m \in Names \ {n} : table'[m] = table[m]
    BY <2>1, <1>0 DEF Insert
  <2>5. inserted' = inserted + 1 /\ inserted' \in 0..MaxInsert /\ changes' \in 0..MaxChange
    BY <2>1, <2>2, <1>0 DEF Insert
  <2>6. KernelStep(n, "change")
    BY <2>1, <2>3, <2>4, <2>5
  <2> HIDE DEF KernelStep
  <2> QED BY <2>6
<1>5. CASE Change
  <2>1. PICK n \in Names : table[n].open /\ UNCHANGED table /\ Uevent("change", n)
    BY <1>5, Zenon DEF Change
  <2>2. inserted' = inserted /\ inserted' \in 0..MaxInsert /\ changes' \in 0..MaxChange
    BY <1>0, <1>5 DEF Change
  <2>3. KernelStep(n, "change")
    BY <2>1, <2>2, <1>0
  <2> HIDE DEF KernelStep
  <2> QED BY <2>3
<1>6. CASE Repartition
  <2>a. PICK n \in Names : \E c \in Content(table[n].inst, table[n].port) :
          /\ table[n].open /\ MountsOf(n) = {}
          /\ table' = [table EXCEPT ![n] = c] /\ Uevent("change", n)
    BY <1>6, Zenon DEF Repartition
  <2>1. PICK c \in Content(table[n].inst, table[n].port) :
          /\ table[n].open /\ MountsOf(n) = {}
          /\ table' = [table EXCEPT ![n] = c] /\ Uevent("change", n)
    BY <2>a, Zenon
  <2>2. inserted' = inserted /\ inserted' \in 0..MaxInsert /\ changes' \in 0..MaxChange
    BY <1>0, <1>6 DEF Repartition
  <2>3. table[n].inst \in 1..MaxInsert /\ table[n].port \in Places[n]
    BY <2>1, <1>0, DiskTypes
  <2>4. c \in DiskType(n) /\ c # Absent /\ c.inst = table[n].inst
    BY <2>3, ContentIs DEF Disks
  <2>5. KernelStep(n, "change")
    BY <2>1, <2>2, <2>4, <1>0
  <2> HIDE DEF KernelStep
  <2> QED BY <2>5
<1> QED BY <1>1, <1>2, <1>3, <1>4, <1>5, <1>6 DEF KernelNext

LEMMA PathsIs ==
  ASSUME NEW n \in Names, NEW p \in Nums
  PROVE  /\ PathsOf(n, p) \subseteq Paths /\ NoPath \notin PathsOf(n, p)
         /\ \A d \in Disk : d.name = n /\ d.tag \in TagsOf(n) => MntPoint(d, p) \in PathsOf(n, p)
<1>1. PathsOf(n, p) \subseteq Paths
  <2> DEFINE X == PathsOf(n, p)
  <2>1. \A x \in X : x \in Paths
    BY DEF Paths
  <2> QED BY <2>1
<1>2. \A d : MntPoint(d, p) # NoPath
  BY DEF MntPoint, NoPath
<1>3. NoPath \notin PathsOf(n, p)
  BY <1>2, Zenon DEF PathsOf
<1>4. ASSUME NEW d \in Disk, d.name = n, d.tag \in TagsOf(n) PROVE MntPoint(d, p) \in PathsOf(n, p)
  <2> DEFINE e == [name |-> n, tag |-> d.tag]
  <2>1. e.name = n /\ e.tag = d.tag
    OBVIOUS
  <2> HIDE DEF e
  <2>2. MntPoint(d, p) = MntPoint(e, p)
    BY <1>4, <2>1, Zenon DEF MntPoint
  <2> QED BY <1>4, <2>2, Zenon DEF PathsOf, e
<1> QED BY <1>1, <1>3, <1>4

(* The third pass has a partition in hand: in three steps.                    *)
Third == Mnt3Probe \/ Mnt3Find \/ Mnt3Mount

Pass3(n, p) ==
  /\ n \in Names /\ p \in Nums /\ ListedPart(n, p)
  /\ \/ list' = list /\ mounts' = mounts
     \/ /\ FindMountPoint(n, p) /\ mounts' = mounts
        /\ MountedAt(n, p) \in PathsOf(n, p) \cup {NoPath}
        /\ Noted(list', n, p, MountedAt(n, p), TRUE)
     \/ /\ ~FindMountPoint(n, p)
        /\ \E path \in PathsOf(n, p) :
             \/ mounts' = mounts /\ Noted(list', n, p, path, FALSE)
             \/ /\ p \in table[n].good /\ table[n].inst \in 1..MaxInsert
                /\ \A m \in MountsOf(n) : m.num # Whole
                /\ \A i \in DOMAIN list : list[i].name = n /\ list[i].gpt => p \notin look
                /\ mounts' = Append(mounts, [name |-> n, num |-> p,
                                             inst |-> table[n].inst, at |-> path,
                                             late |-> table[n].efi # look])
                /\ Noted(list', n, p, path, TRUE)

LEMMA Pass3Keeps ==
  ASSUME NEW n, NEW p, Pass3(n, p)
  PROVE  /\ DOMAIN list' = DOMAIN list
         /\ \A i \in DOMAIN list : /\ SameDisk(list[i], list'[i])
                                   /\ list'[i].status = list[i].status
                                   /\ PartSet(list'[i]) = PartSet(list[i])
<1>1. CASE list' = list
  BY <1>1 DEF SameDisk
<1>2. ASSUME NEW path, NEW b, Noted(list', n, p, path, b)
      PROVE  /\ DOMAIN list' = DOMAIN list
             /\ \A i \in DOMAIN list : /\ SameDisk(list[i], list'[i])
                                       /\ list'[i].status = list[i].status
                                       /\ PartSet(list'[i]) = PartSet(list[i])
  <2>1. \A i \in DOMAIN list :
          /\ SameDisk(list[i], list'[i]) /\ list'[i].status = list[i].status
          /\ DOMAIN list'[i].parts = DOMAIN list[i].parts
          /\ \A j \in DOMAIN list[i].parts : list'[i].parts[j].num = list[i].parts[j].num
    BY <1>2 DEF Noted
  <2>2. \A i \in DOMAIN list : PartSet(list'[i]) = PartSet(list[i])
    BY <2>1 DEF PartSet
  <2> QED BY <1>2, <2>1, <2>2 DEF Noted
<1> QED BY <1>1, <1>2 DEF Pass3

LEMMA ThirdLeaves ==
  ASSUME Third
  PROVE  /\ UNCHANGED <<table, inserted, changes, uevents, bound, scope, plugcount,
                        notify, app, deaf>>
         /\ evpc \in {"mnt3", "find", "mount"} /\ evpc' \in {"mnt3", "find", "mount"}
<1>1. CASE Mnt3Probe
  BY <1>1 DEF Mnt3Probe, Probe, NextPart, kernel, lists
<1>2. CASE Mnt3Find
  BY <1>2 DEF Mnt3Find, Find, NextPart, kernel
<1>3. CASE Mnt3Mount
  BY <1>3 DEF Mnt3Mount, NextPart
<1> QED BY <1>1, <1>2, <1>3 DEF Third

LEMMA ThirdIs ==
  ASSUME TypeOK, WorkListed, InHand, OwnPaths, Third
  PROVE  /\ \E n \in Names, p \in Nums : Pass3(n, p)
         /\ work' \in Seq(Names \X Nums) /\ look' \in {{}, Efi}
         /\ \A k \in DOMAIN work' : \E l \in DOMAIN work : work'[k] = work[l]
<1> DEFINE n == Head(work)[1]  p == Head(work)[2]
<1>1. /\ work \in Seq(Names \X Nums) /\ work # <<>> /\ evpc \in {"mnt3", "find", "mount"}
      /\ work' \in {work, Tail(work)}
  <2>1. work \in Seq(Names \X Nums)
    BY DEF TypeOK
  <2>2. CASE Mnt3Probe
    BY <2>1, <2>2 DEF Mnt3Probe, Probe, NextPart
  <2>3. CASE Mnt3Find
    BY <2>1, <2>3 DEF Mnt3Find, Find, NextPart, InHand
  <2>4. CASE Mnt3Mount
    BY <2>1, <2>4 DEF Mnt3Mount, NextPart, InHand
  <2> QED BY <2>2, <2>3, <2>4 DEF Third
<1>2. n \in Names /\ p \in Nums /\ ListedPart(n, p)
  <2>1. 1 \in DOMAIN work /\ Head(work) = work[1] /\ work[1] \in Names \X Nums
    BY <1>1
  <2> QED BY <2>1, <1>1 DEF WorkListed
<1>3. work' \in Seq(Names \X Nums)
      /\ \A k \in DOMAIN work' : \E l \in DOMAIN work : work'[k] = work[l]
  <2>1. CASE work' = work
    BY <2>1, <1>1
  <2>2. CASE work' = Tail(work)
    <3>1. /\ work' \in Seq(Names \X Nums)
          /\ \A k \in DOMAIN work' : k + 1 \in DOMAIN work /\ work'[k] = work[k + 1]
      BY <2>2, <1>1
    <3> QED BY <3>1
  <2> QED BY <2>1, <2>2, <1>1
<1>l. look' \in {{}, Efi}
  <2>1. table[n].efi \in {{}, Efi} /\ look \in {{}, Efi}
    <3>1. table[n].efi \in {{}, Efi}
      BY <1>2, TableTypes, DiskTypes
    <3> QED BY <3>1 DEF TypeOK
  <2> QED BY <2>1 DEF Third, Mnt3Probe, Probe, Mnt3Find, Find, Mnt3Mount, NextPart
<1>4. \/ list' = list /\ mounts' = mounts
      \/ FindMountPoint(n, p) /\ Note(n, p, MountedAt(n, p), TRUE) /\ mounts' = mounts
      \/ /\ ~FindMountPoint(n, p)
         /\ Note(n, p, MntPoint(list[Place(n)], p), FALSE) /\ mounts' = mounts
      \/ /\ ~FindMountPoint(n, p) /\ p \in table[n].good
         /\ \A m \in MountsOf(n) : m.num # Whole
         /\ \A i \in DOMAIN list : list[i].name = n /\ list[i].gpt => p \notin look
         /\ Note(n, p, MntPoint(list[Place(n)], p), TRUE)
         /\ mounts' = Append(mounts, [name |-> n, num |-> p, inst |-> table[n].inst,
                                      at |-> MntPoint(list[Place(n)], p),
                                      late |-> table[n].efi # look])
  <2>1. CASE Mnt3Probe
    BY <2>1 DEF Mnt3Probe, Probe, kernel, lists
  <2>2. CASE Mnt3Find
    BY <2>2, Zenon DEF Mnt3Find, Find, kernel
  <2>3. CASE Mnt3Mount
    BY <2>3, Zenon DEF Mnt3Mount, InHand
  <2> QED BY <2>1, <2>2, <2>3 DEF Third
<1> HIDE DEF n, p
<1> SUFFICES Pass3(n, p)
  BY <1>2, <1>3, <1>l, Zenon
<1>5. Listed(n) /\ list[Place(n)] \in Disk /\ list[Place(n)].name = n
      /\ list[Place(n)].tag \in TagsOf(n) /\ Entry(n, p).mnt \in PathsOf(n, p) \cup {NoPath}
  <2>1. Listed(n)
    BY <1>2, EntryIs
  <2>2. Place(n) \in DOMAIN list /\ list[Place(n)].name = n
    BY <2>1, PlaceIs
  <2>3. list[Place(n)].tag \in TagsOf(n) /\ list[Place(n)] \in Disk
    BY <2>2, ListTypes DEF OwnPaths
  <2>4. PICK j \in DOMAIN list[Place(n)].parts :
          list[Place(n)].parts[j].num = p /\ Entry(n, p) = list[Place(n)].parts[j]
    BY <1>2, EntryIs
  <2>5. list[Place(n)].parts[j].mnt \in PathsOf(n, p) \cup {NoPath}
    BY <2>2, <2>4, Zenon DEF OwnPaths
  <2> QED BY <2>1, <2>2, <2>3, <2>4, <2>5
<1> DEFINE path == MntPoint(list[Place(n)], p)
<1>6. path \in PathsOf(n, p) /\ PathsOf(n, p) \subseteq Paths
  BY <1>2, <1>5, PathsIs
<1>7. MountedAt(n, p) \in PathsOf(n, p) \cup {NoPath}
  <2> DEFINE found == {i \in DOMAIN mounts : mounts[i].name = n /\ mounts[i].num = p}
  <2>1. CASE found = {}
    BY <2>1, <1>5 DEF MountedAt
  <2>2. CASE found # {}
    <3>1. found \subseteq Nat /\ MountedAt(n, p) = mounts[Min(found)].at
      BY <2>2 DEF MountedAt, TypeOK
    <3>2. Min(found) \in found
      <4> HIDE DEF found
      <4> QED BY <3>1, <2>2, MinIn
    <3>3. mounts[Min(found)] \in Mounts /\ mounts[Min(found)].name = n /\ mounts[Min(found)].num = p
      BY <3>2 DEF Mounts
    <3> QED BY <3>1, <3>3 DEF OwnPaths
  <2> QED BY <2>1, <2>2
<1> DEFINE m == [name |-> n, num |-> p, inst |-> table[n].inst, at |-> path,
                 late |-> table[n].efi # look]
           seen == FindMountPoint(n, p)
<1>p. ASSUME \/ list' = list /\ mounts' = mounts
             \/ /\ seen /\ mounts' = mounts
                /\ Noted(list', n, p, MountedAt(n, p), TRUE)
             \/ ~seen /\ mounts' = mounts /\ Noted(list', n, p, path, FALSE)
             \/ /\ ~seen /\ p \in table[n].good /\ table[n].inst \in 1..MaxInsert
                /\ \A x \in MountsOf(n) : x.num # Whole
                /\ \A i \in DOMAIN list : list[i].name = n /\ list[i].gpt => p \notin look
                /\ mounts' = Append(mounts, m) /\ Noted(list', n, p, path, TRUE)
      PROVE  Pass3(n, p)
  <2> HIDE DEF path
  <2> QED BY <1>p, <1>2, <1>6, <1>7 DEF Pass3
<1> HIDE DEF path, seen, m
<1>8. CASE seen /\ Note(n, p, MountedAt(n, p), TRUE) /\ mounts' = mounts
  <2>1. Noted(list', n, p, MountedAt(n, p), TRUE)
    <3>1. MountedAt(n, p) \in Paths \cup {NoPath}
      BY <1>6, <1>7
    <3> QED BY <3>1, <1>8, NoteIs
  <2> QED BY <2>1, <1>8, <1>p, Zenon
<1>a. CASE ~seen /\ Note(n, p, path, FALSE) /\ mounts' = mounts
  <2>1. Noted(list', n, p, path, FALSE)
    <3>1. path \in Paths \cup {NoPath}
      BY <1>6
    <3> QED BY <3>1, <1>a, NoteIs
  <2> QED BY <2>1, <1>a, <1>p, Zenon
<1>b. CASE /\ ~seen /\ p \in table[n].good
           /\ \A x \in MountsOf(n) : x.num # Whole
           /\ \A i \in DOMAIN list : list[i].name = n /\ list[i].gpt => p \notin look
           /\ Note(n, p, path, TRUE) /\ mounts' = Append(mounts, m)
  <2>1. Noted(list', n, p, path, TRUE)
    <3>1. path \in Paths \cup {NoPath}
      BY <1>6
    <3> QED BY <3>1, <1>b, NoteIs
  <2>2. table[n].inst \in 1..MaxInsert
    <3>1. table[n].good # {}
      BY <1>b
    <3> QED BY <3>1, <1>2, TableTypes, DiskTypes
  <2> QED BY <2>1, <2>2, <1>b, <1>p, Zenon
<1>9. CASE list' = list /\ mounts' = mounts
  BY <1>9, <1>p, Zenon
<1> QED BY <1>4, <1>8, <1>9, <1>a, <1>b, Zenon DEF path, seen, m

-----------------------------------------------------------------------------
(* Types.                                                                     *)

LEMMA ViewIs ==
  ASSUME NEW l \in Seq(Disk)
  PROVE  /\ MountedDisks(l) \in Seq(Disk) /\ InfoDisks(l) \in Seq(Disk)
         /\ \A k \in Nat : ViewOf(Cut(l, k)) \in View /\ NamesOf(Cut(l, k)) \in View
<1>0. Len(l) \in Nat /\ DOMAIN l = 1..Len(l)
  OBVIOUS
<1>1. MountedDisks(l) \in Seq(Disk)
  <2>1. PICK f \in [0..Len(l) -> Seq(Disk)] : MountedDisks(l) = f[Len(l)]
    BY MountedSteps
  <2>2. Len(l) \in 0..Len(l)
    BY <1>0
  <2> QED BY <2>1, <2>2
<1>2. InfoDisks(l) \in Seq(Disk)
  <2> DEFINE full == {i \in DOMAIN l : Cardinality(MountedParts(l[i])) >= MAX_PARTITIONS}
  <2>1. CASE full = {}
    BY <2>1 DEF InfoDisks
  <2>2. CASE full # {}
    <3>1. InfoDisks(l) = SubSeq(l, 1, Min(full) - 1)
      BY <2>2 DEF InfoDisks
    <3>2. Min(full) \in 1..Len(l)
      <4>1. full \subseteq 1..Len(l) /\ full \subseteq Nat
        BY <1>0
      <4> HIDE DEF full
      <4> QED BY <4>1, <2>2, MinIn
    <3> DEFINE k == Min(full) - 1
    <3>3. k \in 0..Len(l)
      BY <3>2, <1>0
    <3> HIDE DEF k
    <3>4. SubSeq(l, 1, k) \in Seq(Disk)
      BY <3>3, <1>0
    <3> QED BY <3>1, <3>4 DEF k
  <2> QED BY <2>1, <2>2
<1>3. ASSUME NEW k \in Nat PROVE ViewOf(Cut(l, k)) \in View /\ NamesOf(Cut(l, k)) \in View
  <2> DEFINE c == Cut(l, k)
  <2>1. c \in Seq(Disk)
    <3>1. Len(l) > k => SubSeq(l, 1, k) \in Seq(Disk)
      BY <1>0
    <3> QED BY <3>1 DEF Cut
  <2> HIDE DEF c
  <2>2. Len(c) \in Nat /\ DOMAIN c = 1..Len(c) /\ \A i \in 1..Len(c) : c[i] \in Disk
    BY <2>1
  <2>3. \A d \in Disk : d.name \in Names /\ d.plug \in Nat
    BY DEF Disk
  <2>4. ViewOf(c) \in Seq(Names \X Nat)
    <3> DEFINE T == Names \X Nat
    <3>1. ViewOf(c) \in [1..Len(c) -> T]
      BY <2>2, <2>3 DEF ViewOf
    <3> HIDE DEF T
    <3>2. ViewOf(c) \in Seq(T)
      BY <3>1, <2>2
    <3> QED BY <3>2 DEF T
  <2>5. NamesOf(c) \in Seq({<<n>> : n \in Names})
    <3> DEFINE T == {<<n>> : n \in Names}
    <3>1. \A i \in 1..Len(c) : <<c[i].name>> \in T
      BY <2>2, <2>3
    <3> HIDE DEF T
    <3>2. NamesOf(c) \in [1..Len(c) -> T]
      BY <3>1, <2>2 DEF NamesOf
    <3>3. NamesOf(c) \in Seq(T)
      BY <3>2, <2>2
    <3> QED BY <3>3 DEF T
  <2>6. ViewOf(c) \in View /\ NamesOf(c) \in View
    BY <2>4, <2>5, Zenon DEF View
  <2> QED BY <2>6 DEF c
<1> QED BY <1>1, <1>2, <1>3

ListType   == list \in Seq(Disk) /\ NamesOnce(list) /\ NumsOnce(list)
KernelType ==
  /\ DOMAIN table = Names
  /\ \A n \in Names : table[n] \in DiskType(n)
  /\ inserted \in 0..MaxInsert /\ changes \in 0..MaxChange

LEMMA TypeInit ==
  ASSUME Init
  PROVE  TypeOK
<1>0. MaxInsert \in Nat \ {0} /\ MaxChange \in Nat
  BY DiskManagerAssumption
<1>1. DOMAIN table = Names
  BY DEF Init
<1>2. ASSUME NEW n \in Names PROVE table[n] \in DiskType(n)
  <2>1. CASE table[n] = Absent
    BY <2>1 DEF DiskType
  <2>2. CASE table[n] # Absent
    <3>1. table[n].port \in Places[n]
      BY <2>2 DEF Init
    <3>2. table[n] \in {Absent} \cup UNION {Content(1, p) : p \in Ports}
      BY DEF Init
    <3>3. PICK p \in Ports : table[n] \in Content(1, p)
      BY <3>2, <2>2
    <3>4. table[n].port = p
      BY <3>3 DEF Content
    <3>5. table[n] \in Disks(1, p) /\ p \in Places[n] /\ 1 \in 1..MaxInsert
      BY <3>1, <3>3, <3>4, <1>0 DEF Disks
    <3> QED BY <3>5, ContentIs
  <2> QED BY <2>1, <2>2
<1>3. inserted \in 0..MaxInsert /\ changes \in 0..MaxChange
  BY <1>0 DEF Init
<1>4. /\ list = <<>> /\ mounts = <<>> /\ uevents = <<>> /\ work = <<>> /\ plugcount = 0
      /\ evpc = "mnt1" /\ bound = FALSE /\ scope = Names
      /\ notify = FALSE /\ deaf = FALSE /\ app = [view |-> <<>>, told |-> TRUE]
  BY DEF Init
<1>5. app \in [view : View, told : BOOLEAN]
  <2>1. <<>> \in View
    <3>1. <<>> \in Seq(Names \X Nat)
      OBVIOUS
    <3> QED BY <3>1, Zenon DEF View
  <2> QED BY <1>4, <2>1
<1>6. /\ mounts \in Seq(Mount) /\ uevents \in Seq({"add", "remove", "change"} \X Names)
      /\ work \in Seq(Names \X Nums) /\ list \in Seq(Disk)
  BY <1>4
<1>7. NamesOnce(list) /\ NumsOnce(list)
  BY <1>4 DEF NamesOnce, NumsOnce
<1>8. /\ evpc \in {"mnt1", "mnt2", "mnt3", "find", "mount", "bind", "poll"}
      /\ scope \subseteq Names /\ plugcount \in Nat /\ look \in {{}, Efi}
  BY <1>4 DEF Init
<1>9. bound \in BOOLEAN /\ notify \in BOOLEAN /\ deaf \in BOOLEAN
  BY <1>4, Zenon
<1> QED BY <1>1, <1>2, <1>3, <1>5, <1>6, <1>7, <1>8, <1>9
        DEF TypeOK, DiskType, NamesOnce, NumsOnce

LEMMA TypeStep ==
  ASSUME TypeOK, WorkListed, InHand, OwnPaths, [Next]_vars
  PROVE  TypeOK'
<1>0. KernelType /\ ListType
  BY ListTypes, TableTypes DEF TypeOK, KernelType, ListType
<1> DEFINE E == {"add", "remove", "change"} \X Names
<1>1. ASSUME KernelType', ListType', mounts' \in Seq(Mount), uevents' \in Seq(E),
             evpc' \in {"mnt1", "mnt2", "mnt3", "find", "mount", "bind", "poll"},
             bound' \in BOOLEAN, look' \in {{}, Efi}, scope' \subseteq Names, work' \in Seq(Names \X Nums), plugcount' \in Nat,
             notify' \in BOOLEAN, app' \in [view : View, told : BOOLEAN], deaf' \in BOOLEAN
      PROVE  TypeOK'
  BY <1>1 DEF TypeOK, KernelType, ListType, DiskType, NamesOnce, NumsOnce
<1>2. /\ mounts \in Seq(Mount) /\ uevents \in Seq(E)
      /\ evpc \in {"mnt1", "mnt2", "mnt3", "find", "mount", "bind", "poll"}
      /\ bound \in BOOLEAN /\ look \in {{}, Efi}
      /\ scope \subseteq Names /\ work \in Seq(Names \X Nums) /\ plugcount \in Nat
      /\ notify \in BOOLEAN /\ app \in [view : View, told : BOOLEAN] /\ deaf \in BOOLEAN
  BY DEF TypeOK
<1>3. UNCHANGED <<table, inserted, changes>> => KernelType'
  BY <1>0 DEF KernelType
<1>4. UNCHANGED list => ListType'
  BY <1>0 DEF ListType
<1> HIDE DEF E
<1>5. CASE KernelNext
  <2>1. PICK n \in Names, a \in {"add", "remove", "change"} : KernelStep(n, a)
    BY <1>5, KernelIs
  <2>2. KernelType'
    BY <2>1, <1>0 DEF KernelStep, KernelType
  <2>3. uevents' \in Seq(E) /\ deaf' \in BOOLEAN
    <3>1. <<a, n>> \in E
      BY DEF E
    <3>2. IF bound THEN uevents' = Append(uevents, <<a, n>>) /\ UNCHANGED deaf
          ELSE deaf' = TRUE /\ UNCHANGED uevents
      BY <2>1 DEF KernelStep, Uevent
    <3>3. \A x \in Seq(E) : \A y \in E : Append(x, y) \in Seq(E)
      BY AppendProperties
    <3>4. uevents' \in Seq(E)
      BY <3>1, <3>2, <3>3, <1>2
    <3>5. deaf' \in BOOLEAN
      BY <3>2, <1>2
    <3> QED BY <3>4, <3>5
  <2>4. UNCHANGED <<mounts, evVars, lists, notify, app, look>>
    BY <2>1 DEF KernelStep, Uevent
  <2> QED BY <2>2, <2>3, <2>4, <1>1, <1>2, <1>4 DEF evVars, lists
<1>6. CASE Mnt1
  <2>1. ListType' /\ plugcount' \in Nat
    BY <1>6, Mnt1List DEF Grows, ListType
  <2> QED BY <2>1, <1>1, <1>2, <1>3, <1>6 DEF Mnt1, Scan, kernel
<1>7. CASE Mnt2
  <2>1. ListType' /\ work' \in Seq(Names \X Nums)
    BY <1>7, Mnt2List DEF Grows, ListType
  <2> QED BY <2>1, <1>1, <1>2, <1>3, <1>7 DEF Mnt2, kernel
<1>8. CASE Mnt2NotFound
  BY <1>1, <1>2, <1>3, <1>4, <1>8 DEF Mnt2NotFound, kernel, lists
<1>9. CASE Third
  <2>1. PICK n \in Names, p \in Nums : Pass3(n, p)
    BY <1>9, ThirdIs
  <2>2. /\ work' \in Seq(Names \X Nums) /\ look' \in {{}, Efi}
        /\ evpc' \in {"mnt1", "mnt2", "mnt3", "find", "mount", "bind", "poll"}
    BY <1>9, ThirdIs, ThirdLeaves
  <2>3. ListType'
    BY <2>1, <1>4 DEF Pass3, Noted, ListType
  <2>4. mounts' \in Seq(Mount)
    <3>1. CASE mounts' = mounts
      BY <3>1, <1>2
    <3>2. CASE mounts' # mounts
      <4>1. PICK path \in PathsOf(n, p) :
              /\ table[n].inst \in 1..MaxInsert
              /\ mounts' = Append(mounts, [name |-> n, num |-> p, inst |-> table[n].inst,
                                           at |-> path, late |-> table[n].efi # look])
        BY <2>1, <3>2 DEF Pass3
      <4> DEFINE m == [name |-> n, num |-> p, inst |-> table[n].inst, at |-> path,
                       late |-> table[n].efi # look]
      <4>2. path \in Paths
        BY PathsIs
      <4>3. m \in Mount
        BY <4>1, <4>2 DEF Mount
      <4> HIDE DEF m
      <4> QED BY <4>1, <4>3, <1>2, AppendProperties DEF m
    <3> QED BY <3>1, <3>2
  <2>5. UNCHANGED <<table, inserted, changes, uevents, bound, scope, plugcount,
                    notify, app, deaf>>
    BY <1>9, ThirdLeaves
  <2> QED BY <2>2, <2>3, <2>4, <2>5, <1>1, <1>2, <1>3
<1>10. CASE Mnt3Done
  <2>1. ListType'
    BY <1>10, Mnt3DoneList DEF Done, ListType
  <2>2. /\ evpc' \in {"mnt1", "mnt2", "mnt3", "find", "mount", "bind", "poll"}
        /\ notify' \in BOOLEAN
        /\ UNCHANGED <<kernel, uevents, bound, scope, work, plugcount, app, deaf, look>>
    BY <1>10, <1>2 DEF Mnt3Done
  <2> QED BY <2>1, <2>2, <1>1, <1>2, <1>3 DEF kernel
<1>11. CASE Bind
  BY <1>1, <1>2, <1>3, <1>4, <1>11 DEF Bind, kernel, lists
<1>12. \A x \in Seq(E) : x # <<>> => Tail(x) \in Seq(E)
  BY HeadTailProperties
<1>13. uevents # <<>> => Head(uevents)[2] \in Names
  <2>1. uevents # <<>> => Head(uevents) \in E
    BY <1>2, HeadTailProperties
  <2> QED BY <2>1 DEF E
<1>14. CASE EvAdd
  <2>1. scope' \subseteq Names /\ uevents' \in Seq(E) /\ evpc' = "mnt1"
    BY <1>2, <1>12, <1>13, <1>14 DEF EvAdd
  <2> QED BY <2>1, <1>1, <1>2, <1>3, <1>4, <1>14 DEF EvAdd, kernel, lists
<1>15. CASE EvDrop
  <2>1. uevents' \in Seq(E)
    BY <1>2, <1>12, <1>15 DEF EvDrop, DropOf
  <2> QED BY <2>1, <1>1, <1>2, <1>3, <1>4, <1>15 DEF EvDrop, DropOf, kernel, lists, evVars
<1>16. CASE EvRemove
  <2> DEFINE n == Head(uevents)[2]
  <2>1. RemoveDisk(n) /\ notify' \in BOOLEAN
    BY <1>2, <1>16 DEF EvRemove
  <2>2. ListType'
    BY <2>1, RemoveDiskList DEF Gone, ListType
  <2>3. mounts' \in Seq(Mount)
    <3>1. CASE Listed(n)
      <4>1. list[Place(n)].parts \in Seq(Part)
        BY <3>1, PlaceIs, ListTypes
      <4> QED BY <4>1, <3>1, <2>1, <1>2, UnmountAllIs DEF RemoveDisk
    <3>2. CASE ~Listed(n)
      BY <3>2, <2>1, <1>2 DEF RemoveDisk
    <3> QED BY <3>1, <3>2
  <2>4. uevents' \in Seq(E)
    BY <2>1, <1>2, <1>12 DEF RemoveDisk
  <2> HIDE DEF n
  <2>5. UNCHANGED <<table, inserted, changes, evVars, plugcount, app, deaf, look>>
    BY <2>1 DEF RemoveDisk
  <2> QED BY <2>1, <2>2, <2>3, <2>4, <2>5, <1>1, <1>2, <1>3 DEF evVars
<1>17. \A l \in Seq(Disk) :
         /\ ViewOf(Cut(MountedDisks(l), MaxNodes)) \in View
         /\ NamesOf(Cut(InfoDisks(MountedDisks(l)), MaxInfoNodes)) \in View
  BY ViewIs, DiskManagerAssumption
<1>18. \A v \in View : Asked(v) => TypeOK'
  <2> TAKE v \in View
  <2> SUFFICES ASSUME Asked(v) PROVE TypeOK'
    OBVIOUS
  <2>1. app' \in [view : View, told : BOOLEAN]
    BY DEF Asked
  <2> QED BY <2>1, <1>1, <1>2, <1>3, <1>4 DEF Asked, kernel, lists, evVars
<1>19. CASE DiskLun \/ DiskInfo
  BY <1>0, <1>17, <1>18, <1>19 DEF DiskLun, DiskInfo, ListType
<1>20. CASE NotifyPlug
  <2>1. app' \in [view : View, told : BOOLEAN]
    BY <1>2, <1>20 DEF NotifyPlug
  <2> QED BY <2>1, <1>1, <1>2, <1>3, <1>4, <1>20 DEF NotifyPlug, kernel, lists, evVars
<1>21. CASE UNCHANGED vars
  BY <1>1, <1>2, <1>3, <1>4, <1>21 DEF vars, kernel, lists, evVars
<1> QED BY <1>5, <1>6, <1>7, <1>8, <1>9, <1>10, <1>11, <1>14, <1>15, <1>16, <1>19, <1>20, <1>21
        DEF Next, KernelNext, Third

-----------------------------------------------------------------------------
(* What comes before the socket is bound, the work left to the third pass,    *)
(* and the paths.                                                             *)

(* The steps that leave the list and the mounts as they are.                  *)
Quiet ==
  \/ KernelNext \/ Mnt2NotFound \/ Bind \/ EvAdd \/ EvDrop
  \/ DiskLun \/ DiskInfo \/ NotifyPlug \/ UNCHANGED vars

LEMMA QuietIs ==
  ASSUME TypeOK, Quiet
  PROVE  list' = list /\ mounts' = mounts
<1>1. CASE KernelNext
  <2>1. PICK n \in Names, a \in {"add", "remove", "change"} : KernelStep(n, a)
    BY <1>1, KernelIs
  <2> QED BY <2>1 DEF KernelStep, Uevent, lists
<1>2. CASE Mnt2NotFound \/ Bind \/ EvAdd \/ EvDrop
  BY <1>2 DEF Mnt2NotFound, Bind, EvAdd, EvDrop, DropOf, kernel, lists
<1>3. CASE DiskLun \/ DiskInfo \/ NotifyPlug \/ UNCHANGED vars
  BY <1>3 DEF DiskLun, DiskInfo, Asked, NotifyPlug, vars, kernel, lists
<1> QED BY <1>1, <1>2, <1>3 DEF Quiet

LEMMA EarlyStep ==
  ASSUME TypeOK, Early, [Next]_vars
  PROVE  Early'
<1>1. CASE KernelNext
  <2>1. PICK n \in Names, a \in {"add", "remove", "change"} : KernelStep(n, a)
    BY <1>1, KernelIs
  <2> QED BY <2>1 DEF KernelStep, Uevent, Early, evVars, lists
<1>2. CASE Mnt1 \/ Mnt2 \/ Mnt2NotFound \/ Third \/ Mnt3Done
  <2>1. evpc \in Passes /\ UNCHANGED <<bound, uevents, scope, app>>
    <3>1. CASE Third
      BY <3>1, ThirdLeaves DEF Passes
    <3>2. CASE ~Third
      BY <3>2, <1>2 DEF Mnt1, Scan, Mnt2, Mnt2NotFound, Mnt3Done, Passes
    <3> QED BY <3>1, <3>2
  <2>2. evpc' # "mnt1" /\ (bound => evpc' # "bind") /\ (~bound => evpc' # "poll")
    <3>1. CASE Mnt1 \/ Mnt2
      BY <3>1 DEF Mnt1, Scan, Mnt2
    <3>2. CASE Mnt2NotFound
      BY <3>2 DEF Mnt2NotFound
    <3>3. CASE Third
      BY <3>3, ThirdLeaves
    <3>4. CASE Mnt3Done
      BY <3>4 DEF Mnt3Done
    <3> QED BY <1>2, <3>1, <3>2, <3>3, <3>4
  <2> QED BY <2>1, <2>2 DEF Early
<1>3. CASE Bind \/ EvAdd \/ EvDrop \/ EvRemove
  BY <1>3 DEF Bind, EvAdd, EvDrop, DropOf, EvRemove, RemoveDisk, Early, Passes, evVars
<1>4. CASE DiskLun \/ DiskInfo \/ NotifyPlug \/ UNCHANGED vars
  BY <1>4 DEF DiskLun, DiskInfo, Asked, NotifyPlug, vars, Early, Passes, evVars, lists
<1> QED BY <1>1, <1>2, <1>3, <1>4 DEF Next, KernelNext, Third

LEMMA WorkStep ==
  ASSUME TypeOK, WorkListed, InHand, OwnPaths, [Next]_vars
  PROVE  WorkListed'
<1>1. CASE Mnt2
  <2>1. \A k \in DOMAIN work' : \E i \in DOMAIN list' :
          list'[i].name = work'[k][1] /\ work'[k][2] \in PartSet(list'[i])
    BY <1>1, Mnt2List
  <2> QED BY <2>1 DEF WorkListed, ListedPart
<1>2. CASE Third
  <2>1. /\ \A k \in DOMAIN work' : \E l \in DOMAIN work : work'[k] = work[l]
        /\ \E n \in Names, p \in Nums : Pass3(n, p)
    BY <1>2, ThirdIs
  <2>2. ASSUME NEW n, NEW p, ListedPart(n, p)
        PROVE  \E i \in DOMAIN list' : list'[i].name = n /\ p \in PartSet(list'[i])
    <3>1. PICK i \in DOMAIN list : list[i].name = n /\ p \in PartSet(list[i])
      BY <2>2 DEF ListedPart
    <3>2. i \in DOMAIN list' /\ list'[i].name = n /\ p \in PartSet(list'[i])
      BY <2>1, <3>1, Pass3Keeps DEF SameDisk
    <3> QED BY <3>2
  <2>3. \A k \in DOMAIN work : ListedPart(work[k][1], work[k][2])
    BY <1>2, ThirdLeaves DEF WorkListed
  <2>4. \A k \in DOMAIN work' : \E i \in DOMAIN list' :
          list'[i].name = work'[k][1] /\ work'[k][2] \in PartSet(list'[i])
    <3> TAKE k \in DOMAIN work'
    <3> DEFINE n == work'[k][1]  p == work'[k][2]
    <3>1. ListedPart(n, p)
      BY <2>1, <2>3
    <3> HIDE DEF n, p
    <3>2. \E i \in DOMAIN list' : list'[i].name = n /\ p \in PartSet(list'[i])
      BY <3>1, <2>2
    <3> QED BY <3>2 DEF n, p
  <2> QED BY <2>4 DEF WorkListed, ListedPart
<1>3. CASE Quiet
  <2>1. list' = list
    BY <1>3, QuietIs
  <2>2. evpc' \in {"mnt3", "find", "mount"} => evpc' = evpc /\ work' = work
    <3>1. CASE KernelNext
      <4>1. PICK n \in Names, a \in {"add", "remove", "change"} : KernelStep(n, a)
        BY <3>1, KernelIs
      <4> QED BY <4>1 DEF KernelStep, Uevent, evVars
    <3>2. CASE Mnt2NotFound \/ Bind \/ EvAdd \/ EvDrop
      BY <3>2 DEF Mnt2NotFound, Bind, EvAdd, EvDrop, DropOf, evVars
    <3>3. CASE DiskLun \/ DiskInfo \/ NotifyPlug \/ UNCHANGED vars
      BY <3>3 DEF DiskLun, DiskInfo, Asked, NotifyPlug, vars, evVars
    <3> QED BY <1>3, <3>1, <3>2, <3>3 DEF Quiet
  <2> QED BY <2>1, <2>2 DEF WorkListed, ListedPart
<1>4. CASE Mnt1 \/ Mnt3Done \/ EvRemove
  <2>1. evpc' \notin {"mnt3", "find", "mount"}
    BY <1>4 DEF Mnt1, Scan, Mnt3Done, EvRemove, RemoveDisk, evVars
  <2> QED BY <2>1 DEF WorkListed
<1> QED BY <1>1, <1>2, <1>3, <1>4 DEF Next, Quiet, KernelNext, Third

LEMMA HandStep ==
  ASSUME TypeOK, WorkListed, InHand, OwnPaths, [Next]_vars
  PROVE  InHand'
<1>1. ASSUME UNCHANGED <<evpc, work, list, look, mounts>> PROVE InHand'
  BY <1>1 DEF InHand, FindMountPoint, MountsOf, Mounts
<1>2. ASSUME evpc' \notin {"find", "mount"} PROVE InHand'
  BY <1>2 DEF InHand
<1> DEFINE n == Head(work)[1]  p == Head(work)[2]
<1>3. CASE Mnt3Probe
  <2>1. CASE NextPart
    BY <2>1, <1>2 DEF NextPart
  <2>2. CASE ~NextPart
    <3>1. /\ evpc' = "find" /\ work' = work /\ list' = list /\ work # <<>>
          /\ look' = table[n].efi /\ ~IsEfi(n, p)
      BY <2>2, <1>3 DEF Mnt3Probe, Probe, lists
    <3>2. table[n].open \/ table[n].efi = {}
      <4>1. evpc = "mnt3" /\ work \in Seq(Names \X Nums)
        BY <1>3 DEF Mnt3Probe, Probe, TypeOK
      <4>2. n \in Names
        BY <4>1, <3>1
      <4> QED BY <4>2, TableTypes, DiskTypes
    <3> HIDE DEF n, p
    <3>3. \A i \in DOMAIN list : list[i].name = n /\ list[i].gpt => p \notin table[n].efi
      BY <3>1, <3>2 DEF IsEfi
    <3> QED BY <3>1, <3>3 DEF InHand, n, p
  <2> QED BY <2>1, <2>2
<1>4. CASE Mnt3Find
  <2>1. CASE NextPart
    BY <2>1, <1>2 DEF NextPart
  <2>2. CASE ~NextPart
    <3>1. /\ evpc = "find" /\ ~FindMountPoint(n, p) /\ evpc' = "mount"
          /\ UNCHANGED <<list, work, look, mounts>>
      BY <2>2, <1>4 DEF Mnt3Find, Find, kernel
    <3>2. FindMountPoint(n, p)' <=> FindMountPoint(n, p)
      BY <3>1 DEF FindMountPoint, MountsOf, Mounts
    <3> QED BY <3>1, <3>2 DEF InHand
  <2> QED BY <2>1, <2>2
<1>5. CASE Mnt3Mount
  BY <1>5, <1>2 DEF Mnt3Mount, NextPart
<1>6. CASE KernelNext
  <2>1. PICK m \in Names, a \in {"add", "remove", "change"} : KernelStep(m, a)
    BY <1>6, KernelIs
  <2> QED BY <2>1, <1>1 DEF KernelStep, Uevent, evVars, lists
<1>7. CASE Mnt1 \/ Mnt2 \/ Mnt2NotFound \/ Mnt3Done \/ Bind \/ EvAdd
  BY <1>7, <1>2 DEF Mnt1, Scan, Mnt2, Mnt2NotFound, Mnt3Done, Bind, EvAdd
<1>8. CASE EvDrop \/ EvRemove
  BY <1>8, <1>2 DEF EvDrop, DropOf, EvRemove, RemoveDisk, evVars
<1>9. CASE DiskLun \/ DiskInfo \/ NotifyPlug
  BY <1>9, <1>2 DEF DiskLun, DiskInfo, Asked, NotifyPlug, evVars
<1>10. CASE UNCHANGED vars
  BY <1>10, <1>1 DEF vars, evVars, lists, kernel
<1> QED BY <1>3, <1>4, <1>5, <1>6, <1>7, <1>8, <1>9, <1>10 DEF Next, KernelNext

(* The removal of a disk takes mounts away.                                   *)
LEMMA RemoveDiskMounts ==
  ASSUME TypeOK, NEW n, RemoveDisk(n)
  PROVE  \A m : In(m, mounts)' => In(m, mounts)
<1>1. CASE ~Listed(n)
  BY <1>1 DEF RemoveDisk, In
<1>2. CASE Listed(n)
  <2> DEFINE parts == list[Place(n)].parts  u == UnmountAll(parts)
  <2>1. parts \in Seq(Part) /\ mounts' = u /\ mounts \in Seq(Mount)
    BY <1>2, PlaceIs, ListTypes DEF RemoveDisk, TypeOK
  <2>2. \A m : In(m, u) => In(m, mounts)
    BY <2>1, UnmountAllIs
  <2> HIDE DEF u
  <2> QED BY <2>1, <2>2 DEF In
<1> QED BY <1>1, <1>2

LEMMA MountsIs ==
  /\ \A m : m \in Mounts <=> In(m, mounts)
  /\ \A m : m \in Mounts' <=> In(m, mounts)'
BY DEF Mounts, In

LEMMA PathsStep ==
  ASSUME TypeOK, WorkListed, InHand, OwnPaths, [Next]_vars
  PROVE  OwnPaths'
<1> DEFINE Own(l) ==
      /\ \A i \in DOMAIN l : \A j \in DOMAIN l[i].parts :
           l[i].parts[j].mnt \in PathsOf(l[i].name, l[i].parts[j].num) \cup {NoPath}
      /\ \A i \in DOMAIN l : l[i].tag \in TagsOf(l[i].name)
           At(ms) == \A m : In(m, ms) => m.at \in PathsOf(m.name, m.num)
<1>1. Own(list) /\ At(mounts)
  BY MountsIs DEF OwnPaths
<1>2. ASSUME Own(list'), At(mounts') PROVE OwnPaths'
  <2>1. \A m \in Mounts' : m.at \in PathsOf(m.name, m.num)
    BY <1>2, MountsIs DEF In
  <2> QED BY <1>2, <2>1 DEF OwnPaths
<1>3. CASE Quiet
  BY <1>1, <1>2, <1>3, QuietIs
<1>4. CASE Mnt1 \/ Mnt2
  <2>1. Grows(list')
    BY <1>4, Mnt1List, Mnt2List
  <2>2. mounts' = mounts
    BY <1>4 DEF Mnt1, Scan, Mnt2, kernel
  <2>3. ASSUME NEW i \in DOMAIN list'
        PROVE  /\ list'[i].tag \in TagsOf(list'[i].name)
               /\ \A j \in DOMAIN list'[i].parts : list'[i].parts[j].mnt \in
                    PathsOf(list'[i].name, list'[i].parts[j].num) \cup {NoPath}
    <3>1. CASE i \in DOMAIN list
      <4> DEFINE d == list[i]  e == list'[i]
      <4>1. Grown(d, e)
        BY <2>1, <3>1 DEF Grows
      <4>2. /\ d.tag \in TagsOf(d.name)
            /\ \A j \in DOMAIN d.parts :
                 d.parts[j].mnt \in PathsOf(d.name, d.parts[j].num) \cup {NoPath}
        BY <1>1, <3>1
      <4> HIDE DEF d, e
      <4>3. e.tag \in TagsOf(e.name)
        BY <4>1, <4>2 DEF Grown, SameDisk
      <4>4. \A j \in DOMAIN e.parts :
              e.parts[j].mnt \in PathsOf(e.name, e.parts[j].num) \cup {NoPath}
        <5> TAKE j \in DOMAIN e.parts
        <5>1. CASE j \in DOMAIN d.parts
          BY <5>1, <4>1, <4>2 DEF Grown, SameDisk
        <5>2. CASE j \notin DOMAIN d.parts
          BY <5>2, <4>1 DEF Grown, Clean
        <5> QED BY <5>1, <5>2
      <4> QED BY <4>3, <4>4 DEF e
    <3>2. CASE i \notin DOMAIN list
      <4>1. Added(list'[i])
        BY <2>1, <3>2 DEF Grows
      <4>2. list'[i].name \in Names
        BY <4>1 DEF Added, TypeOK
      <4>3. list'[i].tag \in TagsOf(list'[i].name)
        BY <4>1, <4>2, TagsOfTable DEF Added
      <4> QED BY <4>1, <4>3 DEF Added, Clean
    <3> QED BY <3>1, <3>2
  <2> QED BY <1>1, <1>2, <2>2, <2>3
<1>5. CASE Third
  <2>1. PICK n \in Names, p \in Nums : Pass3(n, p)
    BY <1>5, ThirdIs
  <2>2. Own(list')
    <3>1. CASE list' = list
      BY <3>1, <1>1
    <3>2. ASSUME NEW path \in PathsOf(n, p) \cup {NoPath}, NEW b \in BOOLEAN,
                 Noted(list', n, p, path, b)
          PROVE  Own(list')
      <4>1. \A i \in DOMAIN list' : list'[i].tag \in TagsOf(list'[i].name)
        BY <3>2, <1>1 DEF Noted, SameDisk
      <4>2. ASSUME NEW i \in DOMAIN list', NEW j \in DOMAIN list'[i].parts
            PROVE  list'[i].parts[j].mnt \in
                     PathsOf(list'[i].name, list'[i].parts[j].num) \cup {NoPath}
        <5>1. /\ i \in DOMAIN list /\ j \in DOMAIN list[i].parts
              /\ list'[i].name = list[i].name /\ list'[i].parts[j].num = list[i].parts[j].num
              /\ list[i].name = n /\ list[i].parts[j].num = p => list'[i].parts[j].mnt = path
              /\ ~(list[i].name = n /\ list[i].parts[j].num = p) =>
                   list'[i].parts[j].mnt = list[i].parts[j].mnt
          BY <3>2, <4>2 DEF Noted, SameDisk
        <5>2. list[i].parts[j].mnt \in PathsOf(list[i].name, list[i].parts[j].num) \cup {NoPath}
          BY <5>1, <1>1
        <5> QED BY <5>1, <5>2
      <4> QED BY <4>1, <4>2
    <3> HIDE DEF Own
    <3> QED BY <2>1, <3>1, <3>2 DEF Pass3
  <2>3. At(mounts')
    <3>1. CASE mounts' = mounts
      BY <3>1, <1>1
    <3>2. CASE mounts' # mounts
      <4>1. PICK path \in PathsOf(n, p) :
              mounts' = Append(mounts, [name |-> n, num |-> p, inst |-> table[n].inst,
                                        at |-> path, late |-> table[n].efi # look])
        BY <2>1, <3>2 DEF Pass3
      <4> DEFINE x == [name |-> n, num |-> p, inst |-> table[n].inst, at |-> path,
                       late |-> table[n].efi # look]
      <4>2. x.name = n /\ x.num = p /\ x.at = path
        OBVIOUS
      <4> HIDE DEF x
      <4>3. \A m : In(m, mounts') => m = x \/ In(m, mounts)
        BY <4>1 DEF In, x, TypeOK
      <4> QED BY <4>2, <4>3, <1>1
    <3> QED BY <3>1, <3>2
  <2> HIDE DEF Own, At
  <2> QED BY <1>2, <2>2, <2>3
<1>6. CASE Mnt3Done
  <2>1. Done(list') /\ mounts' = mounts
    BY <1>6, Mnt3DoneList DEF Mnt3Done, kernel
  <2>2. Own(list')
    BY <2>1, <1>1 DEF Done, SameDisk
  <2> QED BY <1>1, <1>2, <2>1, <2>2
<1>7. CASE EvRemove
  <2> DEFINE n == Head(uevents)[2]
  <2>1. Gone(list', n) /\ \A m : In(m, mounts)' => In(m, mounts)
    BY <1>7, RemoveDiskList, RemoveDiskMounts DEF EvRemove
  <2>2. Own(list')
    BY <2>1, <1>1 DEF Gone
  <2>3. At(mounts')
    BY <2>1, <1>1 DEF In
  <2> HIDE DEF Own, At
  <2> QED BY <1>2, <2>2, <2>3
<1> QED BY <1>3, <1>4, <1>5, <1>6, <1>7 DEF Next, Quiet, KernelNext, Third

-----------------------------------------------------------------------------
(* Events.                                                                    *)

(* The steps that take an event from the queue, and those of the event thread *)
(* and of main() that leave the queue and the kernel alone.                   *)
Takes == EvAdd \/ EvDrop \/ EvRemove
Works ==
  \/ Mnt1 \/ Mnt2 \/ Mnt2NotFound \/ Third \/ Mnt3Done \/ Bind
  \/ DiskLun \/ DiskInfo \/ NotifyPlug \/ UNCHANGED vars

LEMMA NextIs == [Next]_vars => KernelNext \/ Takes \/ Works
BY DEF Next, KernelNext, Takes, Works, Third

LEMMA WorksIs ==
  ASSUME Works
  PROVE  table' = table /\ uevents' = uevents /\ deaf' = deaf
<1>0. CASE Third
  BY <1>0, ThirdLeaves
<1>1. CASE Mnt1 \/ Mnt2 \/ Mnt2NotFound \/ Mnt3Done \/ Bind
  BY <1>1 DEF Mnt1, Scan, Mnt2, Mnt2NotFound, Mnt3Done, Bind, kernel
<1>2. CASE DiskLun \/ DiskInfo \/ NotifyPlug \/ UNCHANGED vars
  BY <1>2 DEF DiskLun, DiskInfo, Asked, NotifyPlug, vars, kernel
<1> QED BY <1>0, <1>1, <1>2 DEF Works

LEMMA TakesIs ==
  ASSUME TypeOK, Takes
  PROVE  /\ evpc = "poll" /\ table' = table /\ deaf' = deaf
         /\ Len(uevents) \in Nat \ {0} /\ DOMAIN uevents = 1..Len(uevents)
         /\ DOMAIN uevents' = 1..Len(uevents) - 1
         /\ \A k \in DOMAIN uevents' : k + 1 \in DOMAIN uevents /\ uevents'[k] = uevents[k + 1]
         /\ uevents[1] = Head(uevents) /\ Head(uevents)[2] \in Names
<1>1. /\ evpc = "poll" /\ table' = table /\ deaf' = deaf
      /\ uevents # <<>> /\ uevents' = Tail(uevents)
  BY DEF Takes, EvAdd, EvDrop, DropOf, EvRemove, RemoveDisk, kernel
<1> DEFINE E == {"add", "remove", "change"} \X Names
<1>2. uevents \in Seq(E)
  BY DEF TypeOK
<1>3. \A e \in E : e[2] \in Names
  OBVIOUS
<1> HIDE DEF E
<1>4. Len(uevents) \in Nat \ {0} /\ DOMAIN uevents = 1..Len(uevents) /\ uevents[1] = Head(uevents)
      /\ Head(uevents) \in E
  BY <1>1, <1>2
<1>5. /\ DOMAIN uevents' = 1..Len(uevents) - 1
      /\ \A k \in DOMAIN uevents' : k + 1 \in DOMAIN uevents /\ uevents'[k] = uevents[k + 1]
  BY <1>1, <1>2
<1> QED BY <1>1, <1>3, <1>4, <1>5

LEMMA KernelEvents ==
  ASSUME TypeOK, NEW n, NEW a, KernelStep(n, a)
  PROVE  /\ ~bound => uevents' = uevents /\ deaf' = TRUE
         /\ bound => /\ deaf' = deaf
                     /\ Len(uevents) \in Nat /\ DOMAIN uevents = 1..Len(uevents)
                     /\ DOMAIN uevents' = 1..Len(uevents) + 1
                     /\ \A k \in 1..Len(uevents) : uevents'[k] = uevents[k]
                     /\ uevents'[Len(uevents) + 1] = <<a, n>>
<1> DEFINE E == {"add", "remove", "change"} \X Names
<1>1. uevents \in Seq(E)
  BY DEF TypeOK
<1>2. IF bound THEN uevents' = Append(uevents, <<a, n>>) /\ deaf' = deaf
      ELSE deaf' = TRUE /\ uevents' = uevents
  BY DEF KernelStep, Uevent
<1> HIDE DEF E
<1>3. CASE bound
  BY <1>1, <1>2, <1>3
<1>4. CASE ~bound
  BY <1>2, <1>4
<1> QED BY <1>3, <1>4

LEMMA UeventStep ==
  ASSUME TypeOK, Early, LastUevent, [Next]_vars
  PROVE  LastUevent'
<1>1. CASE KernelNext
  <2>1. PICK n \in Names, a \in {"add", "remove", "change"} : KernelStep(n, a)
    BY <1>1, KernelIs
  <2>2. CASE ~bound
    <3>1. uevents' = <<>>
      BY <2>1, <2>2, KernelEvents DEF Early
    <3>2. DOMAIN uevents' = {}
      BY <3>1
    <3> QED BY <3>2 DEF LastUevent
  <2>3. CASE bound
    <3> DEFINE L == Len(uevents)
    <3>1. /\ L \in Nat /\ DOMAIN uevents = 1..L /\ DOMAIN uevents' = 1..L + 1
          /\ \A k \in 1..L : uevents'[k] = uevents[k]
          /\ uevents'[L + 1] = <<a, n>>
      BY <2>1, <2>3, KernelEvents
    <3> HIDE DEF L
    <3>2. ASSUME NEW m \in Names, NEW k \in 1..L + 1, LastOf(k, m)'
          PROVE  uevents'[k][1] = "remove" <=> table'[m] = Absent
      <4>1. uevents'[k][2] = m /\ \A l \in 1..L + 1 : uevents'[l][2] = m => l <= k
        BY <3>1, <3>2 DEF LastOf, EventOf
      <4>2. CASE m = n
        <5>1. k = L + 1
          BY <4>1, <4>2, <3>1
        <5> QED BY <5>1, <4>2, <3>1, <2>1 DEF KernelStep
      <4>3. CASE m # n
        <5>1. k \in 1..L
          BY <4>1, <4>3, <3>1
        <5>2. \A l \in 1..L : uevents[l][2] = m => l <= k
          BY <4>1, <3>1
        <5>3. LastOf(k, m)
          BY <4>1, <5>1, <5>2, <3>1 DEF LastOf, EventOf
        <5> QED BY <5>1, <5>3, <4>3, <3>1, <2>1 DEF KernelStep, LastUevent
      <4> QED BY <4>2, <4>3
    <3> QED BY <3>1, <3>2 DEF LastUevent
  <2> QED BY <2>2, <2>3
<1>2. CASE Takes
  <2>1. /\ table' = table /\ DOMAIN uevents = 1..Len(uevents) /\ Len(uevents) \in Nat \ {0}
        /\ DOMAIN uevents' = 1..Len(uevents) - 1
        /\ \A k \in DOMAIN uevents' : k + 1 \in DOMAIN uevents /\ uevents'[k] = uevents[k + 1]
    BY <1>2, TakesIs
  <2>2. ASSUME NEW m \in Names, NEW k \in DOMAIN uevents', LastOf(k, m)'
        PROVE  LastOf(k + 1, m)
    <3> DEFINE L == Len(uevents)
    <3>0. L \in Nat \ {0} /\ DOMAIN uevents = 1..L /\ DOMAIN uevents' = 1..L - 1
      BY <2>1
    <3> HIDE DEF L
    <3>1. uevents'[k][2] = m /\ \A l \in 1..L - 1 : uevents'[l][2] = m => l <= k
      BY <2>2, <3>0 DEF LastOf, EventOf
    <3>2. ASSUME NEW l \in 1..L, uevents[l][2] = m PROVE l <= k + 1
      <4>1. CASE l = 1
        BY <4>1, <3>0, <2>2
      <4>2. CASE l # 1
        <5>1. l - 1 \in 1..L - 1 /\ (l - 1) + 1 = l
          BY <4>2, <3>0
        <5>2. uevents'[l - 1] = uevents[l]
          BY <5>1, <2>1, <3>0
        <5> QED BY <5>1, <5>2, <3>0, <3>1, <3>2, <2>2
      <4> QED BY <4>1, <4>2
    <3> QED BY <3>0, <3>1, <3>2, <2>1 DEF LastOf, EventOf
  <2> QED BY <2>1, <2>2 DEF LastUevent
<1>3. CASE Works
  BY <1>3, WorksIs DEF LastUevent, LastOf, EventOf
<1> QED BY <1>1, <1>2, <1>3, NextIs

(* When the first event is taken away, ...                                    *)
LEMMA TakesEvents ==
  ASSUME TypeOK, Takes, NEW n \in Names, NEW k \in DOMAIN uevents'
  PROVE  /\ RemovedBefore(k + 1, n) =>
              \/ RemovedBefore(k, n)'
              \/ uevents[1] = <<"remove", n>> /\ FirstOf(k, n)'
         /\ FirstOf(k + 1, n) => FirstOf(k, n)' /\ uevents[1][2] # n
<1> DEFINE L == Len(uevents)
<1>1. /\ L \in Nat \ {0} /\ DOMAIN uevents = 1..L /\ DOMAIN uevents' = 1..L - 1
      /\ \A i \in 1..L - 1 : i + 1 \in 1..L /\ uevents'[i] = uevents[i + 1]
  BY TakesIs
<1>2. \A i \in 1..L : uevents[i] = <<uevents[i][1], uevents[i][2]>>
  <2> DEFINE E == {"add", "remove", "change"} \X Names
  <2>1. uevents \in Seq(E)
    BY DEF TypeOK
  <2>2. \A e \in E : e = <<e[1], e[2]>>
    OBVIOUS
  <2> HIDE DEF E
  <2>3. \A i \in 1..L : uevents[i] \in E
    BY <2>1
  <2> QED BY <2>2, <2>3
<1> HIDE DEF L
<1>3. ASSUME RemovedBefore(k + 1, n)
      PROVE  \/ RemovedBefore(k, n)'
             \/ uevents[1] = <<"remove", n>> /\ FirstOf(k, n)'
  <2>1. PICK l \in 1..L : /\ uevents[l][2] = n /\ l < k + 1 /\ uevents[l][1] = "remove"
                          /\ \A i \in 1..L : uevents[i][2] = n /\ i < k + 1 => i <= l
    BY <1>1, <1>3 DEF RemovedBefore, EventOf
  <2>2. \A i \in 1..L - 1 : uevents'[i][2] = n /\ i < k => i + 1 <= l
    BY <2>1, <1>1
  <2>3. CASE l = 1
    <3>1. uevents[1] = <<"remove", n>>
      BY <2>1, <2>3, <1>2
    <3>2. \A i \in 1..L - 1 : uevents'[i][2] = n => k <= i
      BY <2>2, <2>3, <1>1
    <3>3. FirstOf(k, n)'
      BY <3>2, <1>1 DEF FirstOf, EventOf
    <3> QED BY <3>1, <3>3
  <2>4. CASE l # 1
    <3> DEFINE j == l - 1
    <3>1. j \in 1..L - 1 /\ j + 1 = l /\ j < k
      BY <2>1, <2>4, <1>1
    <3>2. uevents'[j] = uevents[l]
      BY <3>1, <1>1
    <3>3. \A i \in 1..L - 1 : uevents'[i][2] = n /\ i < k => i <= j
      BY <2>2, <3>1, <1>1
    <3> HIDE DEF j
    <3>4. RemovedBefore(k, n)'
      <4>1. /\ j \in DOMAIN uevents' /\ uevents'[j][2] = n /\ j < k /\ uevents'[j][1] = "remove"
            /\ \A i \in DOMAIN uevents' : uevents'[i][2] = n /\ i < k => i <= j
        BY <3>1, <3>2, <3>3, <2>1, <1>1
      <4> QED BY <4>1 DEF RemovedBefore, EventOf
    <3> QED BY <3>4
  <2> QED BY <2>3, <2>4
<1>4. ASSUME FirstOf(k + 1, n) PROVE FirstOf(k, n)' /\ uevents[1][2] # n
  <2>1. \A i \in 1..L : uevents[i][2] = n => k + 1 <= i
    BY <1>1, <1>4 DEF FirstOf, EventOf
  <2>2. \A i \in 1..L - 1 : uevents'[i][2] = n => k <= i
    BY <2>1, <1>1
  <2>3. FirstOf(k, n)'
    BY <2>2, <1>1 DEF FirstOf, EventOf
  <2>4. uevents[1][2] # n
    BY <2>1, <1>1
  <2> QED BY <2>3, <2>4
<1> QED BY <1>3, <1>4

-----------------------------------------------------------------------------
(* The list follows the events.                                               *)

(* A disk stays in the list, or stays out of it.                              *)
Follows(l, n) ==
  /\ \A i \in DOMAIN l : l[i].name = n =>
       \E j \in DOMAIN list :
         /\ list[j].name = n /\ PartSet(list[j]) \subseteq PartSet(l[i])
         /\ l[i].status = list[j].status \/ l[i].status = "MOUNTED"
  /\ \A j \in DOMAIN list : list[j].name = n => \E i \in DOMAIN l : l[i].name = n

LEMMA FollowsSame == \A n : Follows(list, n)
BY DEF Follows

LEMMA GrownParts ==
  ASSUME NEW d, NEW e, Grown(d, e)
  PROVE  PartSet(d) \subseteq PartSet(e)
BY DEF Grown, PartSet

LEMMA WorksFollow ==
  ASSUME TypeOK, WorkListed, InHand, OwnPaths, Works, NEW n, Mnt1 => n \notin scope
  PROVE  Follows(list', n)
<1>1. CASE Mnt1 \/ Mnt2
  <2>1. Grows(list') /\ (Mnt2 => DOMAIN list' = DOMAIN list)
    BY <1>1, Mnt1List, Mnt2List
  <2>2. ASSUME NEW i \in DOMAIN list', list'[i].name = n
        PROVE  \E j \in DOMAIN list :
                 /\ list[j].name = n /\ PartSet(list[j]) \subseteq PartSet(list'[i])
                 /\ list'[i].status = list[j].status \/ list'[i].status = "MOUNTED"
    <3>1. i \in DOMAIN list
      BY <1>1, <2>1, <2>2 DEF Grows, Added
    <3>2. Grown(list[i], list'[i])
      BY <2>1, <3>1 DEF Grows
    <3>3. list[i].name = n /\ list'[i].status = list[i].status
      BY <2>2, <3>2 DEF Grown, SameDisk
    <3> QED BY <3>1, <3>2, <3>3, GrownParts
  <2>3. \A j \in DOMAIN list : list[j].name = n => \E i \in DOMAIN list' : list'[i].name = n
    BY <2>1 DEF Grows, Grown, SameDisk
  <2> QED BY <2>2, <2>3 DEF Follows
<1>2. CASE Third
  <2>1. PICK x \in Names, p \in Nums : Pass3(x, p)
    BY <1>2, ThirdIs
  <2>2. /\ DOMAIN list' = DOMAIN list
        /\ \A i \in DOMAIN list : /\ SameDisk(list[i], list'[i])
                                  /\ list'[i].status = list[i].status
                                  /\ PartSet(list'[i]) = PartSet(list[i])
    BY <2>1, Pass3Keeps
  <2> QED BY <2>2 DEF Follows, SameDisk
<1>3. CASE Mnt3Done
  <2>1. Done(list')
    BY <1>3, Mnt3DoneList
  <2>2. \A i \in DOMAIN list : PartSet(list'[i]) = PartSet(list[i])
    BY <2>1 DEF Done, PartSet
  <2> QED BY <2>1, <2>2 DEF Follows, Done, SameDisk
<1>4. CASE Mnt2NotFound \/ Bind \/ DiskLun \/ DiskInfo \/ NotifyPlug \/ UNCHANGED vars
  BY <1>4, QuietIs, FollowsSame DEF Quiet
<1> QED BY <1>1, <1>2, <1>3, <1>4 DEF Works

LEMMA RemoveFollows ==
  ASSUME TypeOK, EvRemove, NEW n, n # Head(uevents)[2]
  PROVE  Follows(list', n)
<1>1. Gone(list', Head(uevents)[2])
  BY RemoveDiskList DEF EvRemove
<1> QED BY <1>1 DEF Gone, Follows

LEMMA FollowsKeeps ==
  ASSUME NEW n \in Names, Follows(list', n), table'[n] = table[n]
  PROVE  /\ Listed(n)' <=> Listed(n)
         /\ ListedWhole(n) => ListedWhole(n)'
         /\ AllUp(n) => AllUp(n)'
<1>1. Listed(n)' <=> Listed(n)
  BY DEF Follows, Listed
<1>2. ListedWhole(n) => ListedWhole(n)'
  <2> SUFFICES ASSUME ListedWhole(n) PROVE ListedWhole(n)'
    OBVIOUS
  <2>1. \A j \in DOMAIN list : list[j].name = n => table[n].parts \subseteq PartSet(list[j])
    BY DEF ListedWhole, Rows
  <2>2. \A i \in DOMAIN list' : list'[i].name = n => table[n].parts \subseteq PartSet(list'[i])
    BY <2>1 DEF Follows
  <2>3. table'[n].open <=> Listed(n)'
    BY <1>1 DEF ListedWhole
  <2>4. \A i \in DOMAIN list' : list'[i].name = n => Rows(n)' \subseteq PartSet(list'[i])
    BY <2>2 DEF Rows
  <2> QED BY <2>3, <2>4 DEF ListedWhole, PartSet
<1>3. AllUp(n) => AllUp(n)'
  BY DEF Follows, AllUp
<1> QED BY <1>1, <1>2, <1>3

LEMMA WorksPassing ==
  ASSUME Works, NEW n
  PROVE  /\ Passing(n)' => Passing(n)
         /\ scope' = scope
         /\ Passing(n) => bound' = bound
<1>1. CASE Mnt1 \/ Mnt2
  BY <1>1 DEF Mnt1, Scan, Mnt2, Passing, Passes
<1>2. CASE Mnt2NotFound
  BY <1>2 DEF Mnt2NotFound, Passing, Passes
<1>3. CASE Third
  BY <1>3, ThirdLeaves DEF Passing, Passes
<1>4. CASE Mnt3Done
  BY <1>4 DEF Mnt3Done, Passing, Passes
<1>5. CASE Bind
  BY <1>5 DEF Bind, Passing, Passes
<1>6. CASE DiskLun \/ DiskInfo \/ NotifyPlug \/ UNCHANGED vars
  BY <1>6 DEF DiskLun, DiskInfo, Asked, NotifyPlug, vars, evVars, Passing
<1> QED BY <1>1, <1>2, <1>3, <1>4, <1>5, <1>6 DEF Works

LEMMA AddStep ==
  ASSUME TypeOK, Early, WorkListed, InHand, OwnPaths, LastUevent, AddAfterRemove, Calm,
         [Next]_vars
  PROVE  AddAfterRemove'
<1>1. CASE KernelNext
  <2>1. PICK n \in Names, a \in {"add", "remove", "change"} : KernelStep(n, a)
    BY <1>1, KernelIs
  <2> SUFFICES ASSUME ~deaf', NEW m \in Names, NEW k \in DOMAIN uevents',
                      uevents'[k] = <<"add", m>>
               PROVE  \/ RemovedBefore(k, m)'
                      \/ FirstOf(k, m)' /\ ~Listed(m)' /\ ~Passing(m)'
    BY DEF AddAfterRemove
  <2> DEFINE L == Len(uevents)
  <2>2. /\ bound /\ ~deaf /\ L \in Nat /\ DOMAIN uevents = 1..L /\ DOMAIN uevents' = 1..L + 1
        /\ \A i \in 1..L : uevents'[i] = uevents[i]
        /\ uevents'[L + 1] = <<a, n>>
    BY <2>1, KernelEvents
  <2> HIDE DEF L
  <2>3. (Listed(m)' <=> Listed(m)) /\ (Passing(m)' <=> Passing(m))
    BY <2>1 DEF KernelStep, Uevent, lists, evVars, Listed, Passing
  <2>4. CASE k \in 1..L
    <3>1. RemovedBefore(k, m) \/ (FirstOf(k, m) /\ ~Listed(m) /\ ~Passing(m))
      BY <2>2, <2>4 DEF AddAfterRemove
    <3>2. ASSUME RemovedBefore(k, m) PROVE RemovedBefore(k, m)'
      <4>1. PICK l \in 1..L : /\ uevents[l][2] = m /\ l < k /\ uevents[l][1] = "remove"
                              /\ \A i \in 1..L : uevents[i][2] = m /\ i < k => i <= l
        BY <2>2, <3>2 DEF RemovedBefore, EventOf
      <4>2. l \in 1..L + 1 /\ \A i \in 1..L + 1 : i < k => i \in 1..L
        BY <2>2, <2>4
      <4>3. /\ l \in DOMAIN uevents' /\ uevents'[l][2] = m /\ l < k /\ uevents'[l][1] = "remove"
            /\ \A i \in DOMAIN uevents' : uevents'[i][2] = m /\ i < k => i <= l
        BY <4>1, <4>2, <2>2
      <4> QED BY <4>3 DEF RemovedBefore, EventOf
    <3>3. ASSUME FirstOf(k, m) PROVE FirstOf(k, m)'
      <4>1. \A i \in 1..L : uevents[i][2] = m => k <= i
        BY <2>2, <3>3 DEF FirstOf, EventOf
      <4>2. \A i \in 1..L + 1 : uevents'[i][2] = m => k <= i
        BY <4>1, <2>2, <2>4
      <4> QED BY <4>2, <2>2 DEF FirstOf, EventOf
    <3> QED BY <3>1, <3>2, <3>3, <2>3
  <2>5. CASE k = L + 1
    <3>1. m = n /\ a = "add" /\ table[n] = Absent /\ ~table[n].open
      BY <2>1, <2>2, <2>5 DEF KernelStep, Absent
    <3> DEFINE of == {i \in 1..L : uevents[i][2] = n}
    <3>2. CASE of = {}
      <4>1. \A i \in 1..L : uevents[i][2] # n
        BY <3>2
      <4>2. ~Pending(n)
        BY <4>1, <2>2 DEF Pending, EventOf
      <4>3. \A i \in 1..L + 1 : uevents'[i][2] = m => k <= i
        BY <4>1, <3>1, <2>2, <2>5
      <4>4. FirstOf(k, m)'
        BY <4>3, <2>2 DEF FirstOf, EventOf
      <4>5. CalmOf(n)
        BY <4>2, <2>2 DEF Calm
      <4>6. ~Passing(n) /\ ~Listed(n)
        BY <4>5, <3>1, <2>2 DEF CalmOf, ListedWhole
      <4> QED BY <4>4, <4>6, <3>1, <2>3
    <3>3. CASE of # {}
      <4> DEFINE l == Max(of)
      <4>1. l \in of /\ \A i \in of : i <= l
        <5>1. of \subseteq 0..L
          BY <2>2
        <5> HIDE DEF of
        <5> QED BY <5>1, <3>3, <2>2, MaxIn
      <4> HIDE DEF l
      <4>2. l \in 1..L /\ uevents[l][2] = n /\ \A i \in 1..L : uevents[i][2] = n => i <= l
        BY <4>1
      <4>3. LastOf(l, n)
        BY <4>2, <2>2 DEF LastOf, EventOf
      <4>4. uevents[l][1] = "remove"
        BY <4>2, <4>3, <3>1, <2>2 DEF LastUevent
      <4>5. /\ l \in DOMAIN uevents' /\ uevents'[l][2] = m /\ l < k /\ uevents'[l][1] = "remove"
            /\ \A i \in DOMAIN uevents' : uevents'[i][2] = m /\ i < k => i <= l
        BY <4>2, <4>4, <3>1, <2>2, <2>5
      <4>6. RemovedBefore(k, m)'
        BY <4>5 DEF RemovedBefore, EventOf
      <4> QED BY <4>6
    <3> QED BY <3>2, <3>3
  <2> QED BY <2>2, <2>4, <2>5
<1>2. CASE Takes
  <2> SUFFICES ASSUME ~deaf', NEW n \in Names, NEW k \in DOMAIN uevents',
                      uevents'[k] = <<"add", n>>
               PROVE  \/ RemovedBefore(k, n)'
                      \/ FirstOf(k, n)' /\ ~Listed(n)' /\ ~Passing(n)'
    BY DEF AddAfterRemove
  <2>1. /\ evpc = "poll" /\ deaf' = deaf /\ uevents[1] = Head(uevents)
        /\ k + 1 \in DOMAIN uevents /\ uevents[k + 1] = <<"add", n>>
    BY <1>2, TakesIs
  <2>2. RemovedBefore(k + 1, n) \/ (FirstOf(k + 1, n) /\ ~Listed(n) /\ ~Passing(n))
    BY <2>1 DEF AddAfterRemove
  <2>3. CASE uevents[1] = <<"remove", n>> /\ FirstOf(k, n)'
    <3>1. EvRemove /\ Head(uevents)[2] = n
      BY <1>2, <2>1, <2>3 DEF Takes, EvAdd, EvDrop, DropOf
    <3>2. Gone(list', n) /\ evpc' = evpc
      BY <3>1, RemoveDiskList DEF EvRemove, RemoveDisk, evVars
    <3>3. ~Listed(n)' /\ ~Passing(n)'
      BY <3>2, <2>1 DEF Gone, Listed, Passing, Passes
    <3> QED BY <3>3, <2>3
  <2>4. CASE FirstOf(k, n)' /\ uevents[1][2] # n /\ ~Listed(n)
    <3>1. CASE EvAdd \/ EvDrop
      <4>1. list' = list
        BY <3>1, QuietIs DEF Quiet
      <4>2. ~Passing(n)'
        BY <3>1, <2>1, <2>4 DEF EvAdd, EvDrop, DropOf, evVars, Passing, Passes
      <4> QED BY <4>1, <4>2, <2>4 DEF Listed
    <3>2. CASE EvRemove
      <4>1. Follows(list', n) /\ evpc' = evpc
        BY <3>2, <2>1, <2>4, RemoveFollows DEF EvRemove, RemoveDisk, evVars
      <4>2. ~Listed(n)'
        BY <4>1, <2>4 DEF Follows, Listed
      <4>3. ~Passing(n)'
        BY <4>1, <2>1 DEF Passing, Passes
      <4> QED BY <4>2, <4>3, <2>4
    <3> QED BY <1>2, <3>1, <3>2 DEF Takes
  <2> QED BY <1>2, <2>2, <2>3, <2>4, TakesEvents
<1>3. CASE Works
  <2> SUFFICES ASSUME ~deaf', NEW n \in Names, NEW k \in DOMAIN uevents',
                      uevents'[k] = <<"add", n>>
               PROVE  \/ RemovedBefore(k, n)'
                      \/ FirstOf(k, n)' /\ ~Listed(n)' /\ ~Passing(n)'
    BY DEF AddAfterRemove
  <2>1. uevents' = uevents /\ deaf' = deaf /\ table' = table
    BY <1>3, WorksIs
  <2>2. RemovedBefore(k, n) \/ (FirstOf(k, n) /\ ~Listed(n) /\ ~Passing(n))
    BY <2>1 DEF AddAfterRemove
  <2>3. (RemovedBefore(k, n)' <=> RemovedBefore(k, n)) /\ (FirstOf(k, n)' <=> FirstOf(k, n))
    BY <2>1 DEF RemovedBefore, FirstOf, EventOf
  <2>4. ASSUME ~Listed(n), ~Passing(n) PROVE ~Listed(n)' /\ ~Passing(n)'
    <3>1. Mnt1 => n \notin scope
      BY <2>4 DEF Mnt1, Scan, Passing, Passes
    <3>2. Follows(list', n)
      BY <1>3, <3>1, WorksFollow
    <3>3. ~Listed(n)'
      BY <2>4, <3>2, <2>1, FollowsKeeps
    <3>4. ~Passing(n)'
      BY <1>3, <2>4, WorksPassing
    <3> QED BY <3>3, <3>4
  <2> QED BY <2>2, <2>3, <2>4
<1> QED BY <1>1, <1>2, <1>3, NextIs

LEMMA CalmStep ==
  ASSUME TypeOK, Early, WorkListed, InHand, OwnPaths, LastUevent, AddAfterRemove, Calm,
         [Next]_vars
  PROVE  Calm'
<1>1. CASE KernelNext
  <2>1. PICK n \in Names, a \in {"add", "remove", "change"} : KernelStep(n, a)
    BY <1>1, KernelIs
  <2> SUFFICES ASSUME ~deaf', NEW m \in Names, ~Pending(m)' PROVE CalmOf(m)'
    BY DEF Calm
  <2> DEFINE L == Len(uevents)
  <2>2. /\ ~deaf /\ L \in Nat /\ DOMAIN uevents = 1..L /\ DOMAIN uevents' = 1..L + 1
        /\ \A i \in 1..L : uevents'[i] = uevents[i]
        /\ uevents'[L + 1] = <<a, n>>
    BY <2>1, KernelEvents
  <2> HIDE DEF L
  <2>3. \A i \in 1..L + 1 : uevents'[i][2] # m
    BY <2>2 DEF Pending, EventOf
  <2>4. m # n
    BY <2>2, <2>3
  <2>5. ~Pending(m)
    BY <2>2, <2>3 DEF Pending, EventOf
  <2>6. CalmOf(m)
    BY <2>2, <2>5 DEF Calm
  <2>7. table'[m] = table[m] /\ list' = list /\ evpc' = evpc /\ bound' = bound /\ scope' = scope
    BY <2>1, <2>4 DEF KernelStep, Uevent, lists, evVars
  <2> QED BY <2>6, <2>7 DEF CalmOf, Passing, ListedWhole, AllUp, Listed, Rows, PartSet
<1>2. CASE Takes
  <2> SUFFICES ASSUME ~deaf', NEW m \in Names, ~Pending(m)' PROVE CalmOf(m)'
    BY DEF Calm
  <2> DEFINE L == Len(uevents)  h == Head(uevents)[2]
  <2>1. /\ evpc = "poll" /\ table' = table /\ ~deaf
        /\ L \in Nat \ {0} /\ DOMAIN uevents = 1..L /\ DOMAIN uevents' = 1..L - 1
        /\ \A k \in DOMAIN uevents' : k + 1 \in DOMAIN uevents /\ uevents'[k] = uevents[k + 1]
        /\ uevents[1] = Head(uevents) /\ uevents[1][2] = h /\ h \in Names
    BY <1>2, TakesIs
  <2> HIDE DEF L, h
  <2>2. \A k \in 1..L - 1 : uevents'[k][2] # m
    BY <2>1 DEF Pending, EventOf
  <2>3. \A k \in 1..L : uevents[k][2] = m => k = 1
    <3> TAKE k \in 1..L
    <3> SUFFICES ASSUME k # 1, uevents[k][2] = m PROVE FALSE
      OBVIOUS
    <3>1. k - 1 \in 1..L - 1 /\ (k - 1) + 1 = k
      BY <2>1
    <3>2. uevents'[k - 1] = uevents[k]
      BY <3>1, <2>1
    <3> QED BY <3>1, <3>2, <2>2
  <2>4. ASSUME m # h PROVE ListedWhole(m) /\ AllUp(m)
    <3>1. ~Pending(m)
      BY <2>1, <2>3, <2>4 DEF Pending, EventOf
    <3>2. ~Passing(m)
      BY <2>1 DEF Passing, Passes
    <3> QED BY <3>1, <3>2, <2>1 DEF Calm, CalmOf
  <2>5. ASSUME ~table[m].open, ~Listed(m)', ~Passing(m)' PROVE CalmOf(m)'
    BY <2>1, <2>5 DEF CalmOf, ListedWhole, AllUp, Listed
  <2>6. ASSUME m # h, Follows(list', m), ~Passing(m)' PROVE CalmOf(m)'
    <3>1. ListedWhole(m)' /\ AllUp(m)'
      BY <2>1, <2>4, <2>6, FollowsKeeps
    <3> QED BY <3>1, <2>6 DEF CalmOf
  <2>7. CASE EvAdd
    <3>1. table[h].open /\ scope' = {h} /\ evpc' = "mnt1" /\ list' = list
      BY <2>7 DEF EvAdd, lists, h
    <3>2. CASE m = h
      BY <3>1, <3>2, <2>1 DEF CalmOf, Passing, Passes
    <3>3. CASE m # h
      <4>1. ~Passing(m)'
        BY <3>1, <3>3 DEF Passing
      <4> QED BY <3>1, <3>3, <4>1, <2>6, FollowsSame
    <3> QED BY <3>2, <3>3
  <2>8. CASE EvDrop
    <3>1. /\ ~table[h].open /\ uevents[1][1] = "add" /\ list' = list /\ evpc' = evpc
      BY <2>1, <2>8 DEF EvDrop, DropOf, lists, evVars, h
    <3>2. ~Passing(m)'
      BY <3>1, <2>1 DEF Passing, Passes
    <3>3. CASE m = h
      <4>1. uevents[1] = <<"add", h>>
        <5> DEFINE E == {"add", "remove", "change"} \X Names
        <5>1. uevents \in Seq(E) /\ \A e \in E : e = <<e[1], e[2]>>
          BY DEF TypeOK
        <5> HIDE DEF E
        <5>2. uevents[1] \in E
          BY <5>1, <2>1
        <5> QED BY <5>1, <5>2, <3>1, <2>1
      <4>2. 1 \in DOMAIN uevents /\ \A l \in DOMAIN uevents : ~(l < 1)
        BY <2>1
      <4>3. ~RemovedBefore(1, h)
        BY <4>2 DEF RemovedBefore
      <4>4. ~Listed(h)
        BY <4>1, <4>2, <4>3, <2>1 DEF AddAfterRemove
      <4>5. ~Listed(m)'
        BY <3>1, <3>3, <4>4 DEF Listed
      <4> QED BY <3>1, <3>2, <3>3, <4>5, <2>5
    <3>4. CASE m # h
      BY <3>1, <3>2, <3>4, <2>6, FollowsSame
    <3> QED BY <3>3, <3>4
  <2>9. CASE EvRemove
    <3>1. RemoveDisk(h) /\ evpc' = evpc
      BY <2>9 DEF EvRemove, RemoveDisk, evVars, h
    <3>2. ~Passing(m)'
      BY <3>1, <2>1 DEF Passing, Passes
    <3>3. CASE m = h
      <4>1. Gone(list', h)
        BY <3>1, RemoveDiskList
      <4>2. ~Listed(m)'
        BY <4>1, <3>3 DEF Gone, Listed
      <4>3. uevents[1][1] = "remove" \/ ~table[h].open
        <5>1. <<uevents[1][1], table[h].open>> \in {"remove"} \X BOOLEAN \cup {<<"change", FALSE>>}
          BY <3>1, <2>1 DEF RemoveDisk
        <5> QED BY <5>1
      <4>4. LastOf(1, h)
        <5>1. \A k \in 1..L : uevents[k][2] = h => k <= 1
          BY <2>1, <2>3, <3>3
        <5> QED BY <5>1, <2>1 DEF LastOf, EventOf
      <4>5. ~table[h].open
        <5>1. 1 \in DOMAIN uevents
          BY <2>1
        <5> QED BY <5>1, <4>3, <4>4, <2>1 DEF LastUevent, Absent
      <4> QED BY <3>2, <3>3, <4>2, <4>5, <2>5
    <3>4. CASE m # h
      BY <2>9, <3>2, <3>4, <2>6, RemoveFollows DEF h
    <3> QED BY <3>3, <3>4
  <2> QED BY <1>2, <2>7, <2>8, <2>9 DEF Takes
<1>3. CASE Works
  <2> SUFFICES ASSUME ~deaf', NEW m \in Names, ~Pending(m)' PROVE CalmOf(m)'
    BY DEF Calm
  <2>1. uevents' = uevents /\ deaf' = deaf /\ table' = table
    BY <1>3, WorksIs
  <2>2. CalmOf(m)
    BY <2>1 DEF Calm, Pending, EventOf
  <2>3. (Passing(m)' => Passing(m)) /\ scope' = scope /\ (Passing(m) => bound' = bound)
    BY <1>3, WorksPassing
  <2>4. CASE Mnt1 /\ m \in scope
    <3>1. Grows(list') /\ Scanned(list') /\ evpc = "mnt1" /\ evpc' = "mnt2"
      BY <2>4, Mnt1List DEF Mnt1, Scan
    <3>2. Passing(m) /\ Passing(m)'
      BY <2>3, <2>4, <3>1 DEF Passing, Passes
    <3>3. table[m].open <=> Listed(m)'
      <4>1. table[m].open => Listed(m)'
        BY <2>4, <3>1 DEF Scanned, Listed
      <4>2. bound => table[m].open
        BY <2>2, <3>2 DEF CalmOf
      <4>3. ASSUME ~bound, Listed(m)' PROVE table[m].open
        <5>1. list = <<>>
          BY <4>3, <3>1 DEF Early
        <5>2. DOMAIN list = {}
          BY <5>1
        <5>3. PICK i \in DOMAIN list' : list'[i].name = m
          BY <4>3 DEF Listed
        <5>4. Added(list'[i])
          BY <3>1, <5>2 DEF Grows
        <5> QED BY <5>3, <5>4 DEF Added
      <4> QED BY <4>1, <4>2, <4>3
    <3>4. \A i \in DOMAIN list' : list'[i].name = m => Rows(m) \subseteq PartSet(list'[i])
      BY <2>4, <3>1 DEF Scanned
    <3>5. ListedWhole(m)'
      BY <3>3, <3>4, <2>1 DEF ListedWhole, Rows, PartSet
    <3> QED BY <2>1, <2>2, <2>3, <3>2, <3>5 DEF CalmOf
  <2>5. CASE ~(Mnt1 /\ m \in scope)
    <3>1. Follows(list', m)
      BY <1>3, <2>5, WorksFollow
    <3>2. /\ Listed(m)' <=> Listed(m)
          /\ ListedWhole(m) => ListedWhole(m)'
          /\ AllUp(m) => AllUp(m)'
      BY <2>1, <3>1, FollowsKeeps
    <3>3. CASE ~Passing(m)
      BY <2>1, <2>2, <2>3, <3>2, <3>3 DEF CalmOf
    <3>4. CASE Passing(m) /\ Passing(m)'
      <4>1. evpc' # "mnt1" => evpc # "mnt1"
        <5>1. m \in scope /\ evpc' \in Passes
          BY <3>4, <2>3 DEF Passing
        <5>2. evpc = "mnt1" => Mnt1 \/ evpc' = evpc
          BY <1>3, ThirdLeaves DEF Works, Mnt2, Mnt2NotFound, Mnt3Done, Bind,
                                   DiskLun, DiskInfo, Asked, NotifyPlug, vars, evVars
        <5> QED BY <5>1, <5>2, <2>5
      <4>2. evpc' # "mnt1" => ListedWhole(m)'
        BY <2>2, <3>2, <3>4, <4>1 DEF CalmOf
      <4> QED BY <2>1, <2>2, <2>3, <3>4, <4>2 DEF CalmOf
    <3>5. CASE Passing(m) /\ ~Passing(m)'
      <4>1. Mnt2NotFound \/ Mnt3Done
        <5>1. CASE Mnt1 \/ Mnt2
          BY <5>1, <3>5 DEF Mnt1, Scan, Mnt2, Passing, Passes
        <5>2. CASE Third
          BY <5>2, <3>5, ThirdLeaves DEF Passing, Passes
        <5>3. CASE Bind
          BY <5>3, <3>5 DEF Bind, Passing, Passes
        <5>4. CASE DiskLun \/ DiskInfo \/ NotifyPlug \/ UNCHANGED vars
          BY <5>4, <3>5 DEF DiskLun, DiskInfo, Asked, NotifyPlug, vars, evVars, Passing
        <5> QED BY <1>3, <5>1, <5>2, <5>3, <5>4 DEF Works
      <4>2. CASE Mnt2NotFound
        <5>1. bound /\ ~Listed(m) /\ evpc = "mnt2"
          BY <4>2, <3>5 DEF Mnt2NotFound, Passing
        <5>2. FALSE
          BY <5>1, <2>2, <3>5 DEF CalmOf, ListedWhole
        <5> QED BY <5>2
      <4>3. CASE Mnt3Done
        <5>1. evpc = "mnt3" /\ Done(list') /\ m \in scope
          BY <4>3, <3>5, Mnt3DoneList DEF Mnt3Done, Passing
        <5>2. ListedWhole(m)'
          BY <5>1, <2>2, <3>2, <3>5 DEF CalmOf
        <5>3. AllUp(m)'
          BY <5>1 DEF Done, SameDisk, AllUp
        <5> QED BY <3>5, <5>2, <5>3 DEF CalmOf
      <4> QED BY <4>1, <4>2, <4>3
    <3> QED BY <3>3, <3>4, <3>5
  <2> QED BY <2>4, <2>5
<1> QED BY <1>1, <1>2, <1>3, NextIs

(* The invariant holds at first, and each step keeps it.                       *)
LEMMA InitIInv == Init => IInv
<1> SUFFICES ASSUME Init PROVE IInv
  OBVIOUS
<1>1. TypeOK
  BY TypeInit
<1>2. /\ evpc = "mnt1" /\ bound = FALSE /\ scope = Names /\ list = <<>> /\ mounts = <<>>
      /\ uevents = <<>> /\ app.told
  BY DEF Init
<1>3. DOMAIN list = {} /\ DOMAIN mounts = {} /\ DOMAIN uevents = {}
  BY <1>2
<1>4. Early /\ WorkListed /\ InHand
  BY <1>2 DEF Early, WorkListed, InHand, Passes
<1>5. OwnPaths /\ LastUevent /\ AddAfterRemove
  BY <1>3 DEF OwnPaths, Mounts, LastUevent, AddAfterRemove
<1>6. \A n \in Names : Passing(n)
  BY <1>2 DEF Passing, Passes
<1>7. Calm
  BY <1>2, <1>6 DEF Calm, CalmOf
<1> QED BY <1>1, <1>4, <1>5, <1>7 DEF IInv

LEMMA StepIInv == IInv /\ [Next]_vars => IInv'
BY TypeStep, EarlyStep, WorkStep, HandStep, PathsStep, UeventStep, AddStep, CalmStep DEF IInv

(* The parts together are an invariant, ...                                   *)
THEOREM Inductive == Spec => []IInv
BY InitIInv, StepIInv, PTL DEF Spec

(* The state is of its type: a disk is listed once, and each of its           *)
(* partitions once, whatever the kernel reports in whatever order and whatever *)
(* comes between the three passes of disk_mount_process().                    *)
THEOREM TypeCorrect == Spec => []TypeOK
<1>1. IInv => TypeOK
  BY DEF IInv
<1> QED BY Inductive, <1>1, PTL

-----------------------------------------------------------------------------
(* Mounts.                                                                    *)

LEMMA MountTypes ==
  ASSUME TypeOK
  PROVE  /\ mounts \in Seq(Mount) /\ Len(mounts) \in Nat /\ DOMAIN mounts = 1..Len(mounts)
         /\ \A i \in DOMAIN mounts : mounts[i] \in Mount /\ mounts[i] \in Mounts
         /\ \A m \in Mounts : m \in Mount /\ m.name \in Names /\ m.num \in Nums
<1>1. mounts \in Seq(Mount)
  BY DEF TypeOK
<1>2. Len(mounts) \in Nat /\ DOMAIN mounts = 1..Len(mounts)
      /\ \A i \in DOMAIN mounts : mounts[i] \in Mount
  BY <1>1
<1>3. \A m \in Mount : m.name \in Names /\ m.num \in Nums
  BY DEF Mount
<1> QED BY <1>1, <1>2, <1>3 DEF Mounts

(* No two mounts share a directory.                                           *)
LEMMA MountsApart ==
  ASSUME DirsApart, TypeOK, OwnPaths, MountsOnce, MediumMounted
  PROVE  AtApart(mounts)
<1> SUFFICES ASSUME NEW i \in DOMAIN mounts, NEW j \in DOMAIN mounts,
                    mounts[i].at = mounts[j].at
             PROVE  i = j
  BY DEF AtApart
<1> DEFINE l == mounts[i]  m == mounts[j]
<1>1. /\ l \in Mounts /\ m \in Mounts /\ l.name \in Names /\ m.name \in Names
      /\ l.num \in Nums /\ m.num \in Nums
  BY MountTypes
<1>2. l.at \in PathsOf(l.name, l.num) /\ m.at \in PathsOf(m.name, m.num) /\ l.at = m.at
  BY <1>1 DEF OwnPaths
<1> HIDE DEF l, m
<1>3. PathsOf(l.name, l.num) \cap PathsOf(m.name, m.num) # {}
  BY <1>2
<1>4. l.name = m.name /\ (l.num = m.num \/ Whole \in {l.num, m.num})
  BY <1>1, <1>3 DEF DirsApart
<1>5. l.num = m.num
  BY <1>1, <1>4 DEF MediumMounted
<1> QED BY <1>4, <1>5 DEF MountsOnce, l, m

(* The removal of a disk takes its mounts away, and no others.                *)
LEMMA RemoveExact ==
  ASSUME DirsApart, TypeOK, OwnPaths, MountsOnce, MountsNoted, MediumMounted,
         NEW n, RemoveDisk(n)
  PROVE  /\ AtApart(mounts')
         /\ \A m : In(m, mounts)' <=> In(m, mounts) /\ m.name # n
<1>1. AtApart(mounts)
  BY MountsApart
<1>2. \A m : In(m, mounts) =>
        /\ m.name \in Names /\ m.num \in Nums /\ m.at \in PathsOf(m.name, m.num)
        /\ \E i \in DOMAIN list : \E j \in DOMAIN list[i].parts :
             /\ list[i].name = m.name /\ list[i].parts[j].num = m.num
             /\ list[i].parts[j].mounted /\ list[i].parts[j].mnt = m.at
  BY MountsIs, MountTypes DEF OwnPaths, MountsNoted
<1>3. CASE ~Listed(n)
  <2>1. mounts' = mounts
    BY <1>3 DEF RemoveDisk
  <2>2. \A m : In(m, mounts) => m.name # n
    BY <1>2, <1>3 DEF Listed
  <2> QED BY <1>1, <2>1, <2>2 DEF In
<1>4. CASE Listed(n)
  <2> DEFINE parts == list[Place(n)].parts  u == UnmountAll(parts)
  <2>1. /\ Place(n) \in DOMAIN list /\ list[Place(n)].name = n
        /\ \A i \in DOMAIN list : list[i].name = n => i = Place(n)
    BY <1>4, PlaceIs
  <2>2. parts \in Seq(Part) /\ mounts' = u /\ mounts \in Seq(Mount) /\ n \in Names
        /\ \A j \in DOMAIN parts : parts[j].num \in Nums
    BY <1>4, <2>1, ListTypes DEF RemoveDisk, TypeOK
  <2>3. /\ AtApart(u)
        /\ \A m : In(m, u) <=> /\ In(m, mounts)
                               /\ \A j \in DOMAIN parts : parts[j].mounted => m.at # parts[j].mnt
    BY <1>1, <2>2, UnmountAllIs
  <2>4. ASSUME NEW m, In(m, mounts), m.name = n
        PROVE  \E j \in DOMAIN parts : parts[j].mounted /\ m.at = parts[j].mnt
    <3>1. PICK i \in DOMAIN list : \E j \in DOMAIN list[i].parts :
            /\ list[i].name = m.name /\ list[i].parts[j].mounted /\ list[i].parts[j].mnt = m.at
      BY <1>2, <2>4
    <3>2. i = Place(n)
      BY <2>1, <2>4, <3>1
    <3> QED BY <3>1, <3>2
  <2>5. ASSUME NEW m, In(m, mounts), m.name # n, NEW j \in DOMAIN parts, m.at = parts[j].mnt
        PROVE  FALSE
    <3>1. parts[j].mnt \in PathsOf(n, parts[j].num) \cup {NoPath} /\ parts[j].num \in Nums
      BY <2>1, <2>2 DEF OwnPaths
    <3>2. m.name \in Names /\ m.num \in Nums /\ m.at \in PathsOf(m.name, m.num)
      BY <1>2, <2>5
    <3>3. m.at # NoPath
      BY <3>2, PathsIs
    <3> DEFINE q == parts[j].num
    <3>4. PathsOf(m.name, m.num) \cap PathsOf(n, q) # {} /\ q \in Nums
      BY <3>1, <3>2, <3>3, <2>5
    <3> HIDE DEF q, parts
    <3>5. m.name = n
      BY <3>2, <3>4, <2>2, Zenon DEF DirsApart
    <3> QED BY <3>5, <2>5
  <2> HIDE DEF u, parts
  <2>6. \A m : In(m, u) <=> In(m, mounts) /\ m.name # n
    BY <2>3, <2>4, <2>5
  <2> QED BY <2>2, <2>3, <2>6 DEF In
<1> QED BY <1>3, <1>4

LEMMA AppendIs ==
  ASSUME NEW T, NEW s \in Seq(T), NEW e \in T
  PROVE  /\ DOMAIN Append(s, e) = 1..Len(s) + 1 /\ Append(s, e)[Len(s) + 1] = e
         /\ \A i \in 1..Len(s) : Append(s, e)[i] = s[i]
OBVIOUS

(* The third pass mounts a partition that is not seen to be mounted.          *)
MountedAs(n, p, x) ==
  /\ x.name = n /\ x.num = p /\ x.inst = table[n].inst /\ p \in table[n].good
  /\ x.late <=> table[n].efi # look
  /\ ~FindMountPoint(n, p) /\ \A m \in MountsOf(n) : m.num # Whole
  /\ \A i \in DOMAIN list : list[i].name = n /\ list[i].gpt => p \notin look
  /\ Noted(list', n, p, x.at, TRUE)
  /\ DOMAIN mounts' = 1..Len(mounts) + 1 /\ mounts'[Len(mounts) + 1] = x
  /\ \A i \in 1..Len(mounts) : mounts'[i] = mounts[i]
  /\ \A m : In(m, mounts)' <=> In(m, mounts) \/ m = x

LEMMA Pass3Mounts ==
  ASSUME TypeOK, NEW n \in Names, NEW p \in Nums, Pass3(n, p), mounts' # mounts
  PROVE  \E x \in Mount : MountedAs(n, p, x)
<1>1. PICK path \in PathsOf(n, p) :
        /\ p \in table[n].good /\ table[n].inst \in 1..MaxInsert
        /\ \A m \in MountsOf(n) : m.num # Whole
        /\ \A i \in DOMAIN list : list[i].name = n /\ list[i].gpt => p \notin look
        /\ mounts' = Append(mounts, [name |-> n, num |-> p, inst |-> table[n].inst, at |-> path,
                                     late |-> table[n].efi # look])
        /\ Noted(list', n, p, path, TRUE) /\ ~FindMountPoint(n, p)
  BY Zenon DEF Pass3
<1> DEFINE x == [name |-> n, num |-> p, inst |-> table[n].inst, at |-> path,
                 late |-> table[n].efi # look]
<1>2. path \in Paths
  BY PathsIs
<1>3. /\ x \in Mount /\ x.name = n /\ x.num = p /\ x.inst = table[n].inst /\ x.at = path
      /\ x.late <=> table[n].efi # look
  BY <1>1, <1>2 DEF Mount
<1> HIDE DEF x
<1>4. mounts' = Append(mounts, x) /\ mounts \in Seq(Mount) /\ Len(mounts) \in Nat
      /\ DOMAIN mounts = 1..Len(mounts)
  BY <1>1, MountTypes DEF x
<1> DEFINE L == Len(mounts)
<1>5. L \in Nat /\ DOMAIN mounts = 1..L
  BY <1>4
<1>6. DOMAIN mounts' = 1..L + 1 /\ mounts'[L + 1] = x /\ \A i \in 1..L : mounts'[i] = mounts[i]
  <2>1. /\ DOMAIN Append(mounts, x) = 1..L + 1 /\ Append(mounts, x)[L + 1] = x
        /\ \A i \in 1..L : Append(mounts, x)[i] = mounts[i]
    <3>1. x \in Mount
      BY <1>3
    <3>2. mounts \in Seq(Mount)
      BY <1>4
    <3> QED BY <3>1, <3>2, AppendIs
  <2> HIDE DEF L
  <2> QED BY <1>4, <2>1
<1> HIDE DEF L
<1>7. \A m : In(m, mounts)' <=> In(m, mounts) \/ m = x
  <2>1. \A i \in 1..L + 1 : i \in 1..L \/ i = L + 1
    BY <1>5
  <2>2. \A i \in 1..L : i \in 1..L + 1
    BY <1>5
  <2>3. L + 1 \in 1..L + 1
    BY <1>5
  <2> QED BY <1>5, <1>6, <2>1, <2>2, <2>3 DEF In
<1>8. MountedAs(n, p, x)
  BY <1>1, <1>3, <1>6, <1>7 DEF L, MountedAs
<1> QED BY <1>3, <1>8

LEMMA Pass3Cases ==
  ASSUME TypeOK, NEW n \in Names, NEW p \in Nums, Pass3(n, p)
  PROVE  \/ list' = list /\ mounts' = mounts
         \/ mounts' # mounts
         \/ /\ ~FindMountPoint(n, p) /\ mounts' = mounts
            /\ \E path \in PathsOf(n, p) : Noted(list', n, p, path, FALSE)
         \/ /\ FindMountPoint(n, p) /\ mounts' = mounts
            /\ Noted(list', n, p, MountedAt(n, p), TRUE)
<1>1. ASSUME NEW path \in PathsOf(n, p), table[n].inst \in 1..MaxInsert,
             mounts' = Append(mounts, [name |-> n, num |-> p, inst |-> table[n].inst, at |-> path,
                                       late |-> table[n].efi # look])
      PROVE  mounts' # mounts
  <2> DEFINE x == [name |-> n, num |-> p, inst |-> table[n].inst, at |-> path,
                   late |-> table[n].efi # look]
  <2>1. x \in Mount
    BY <1>1, PathsIs DEF Mount
  <2> HIDE DEF x
  <2>2. mounts \in Seq(Mount) /\ Len(mounts) \in Nat /\ DOMAIN mounts = 1..Len(mounts)
    BY MountTypes
  <2>3. DOMAIN Append(mounts, x) = 1..Len(mounts) + 1
    BY <2>1, <2>2, AppendIs
  <2>4. DOMAIN Append(mounts, x) # DOMAIN mounts
    <3> DEFINE k == Len(mounts) + 1
    <3>1. k \in 1..Len(mounts) + 1 /\ k \notin 1..Len(mounts)
      BY <2>2
    <3> QED BY <2>2, <2>3, <3>1
  <2> QED BY <1>1, <2>4 DEF x
<1> QED BY <1>1, Zenon DEF Pass3

(* The other steps leave the mounts as they are.                              *)
LEMMA MountsSame ==
  ASSUME TypeOK, [Next]_vars
  PROVE  mounts' = mounts \/ Third \/ EvRemove
<1>1. CASE Quiet
  BY <1>1, QuietIs
<1>2. CASE Mnt1 \/ Mnt2 \/ Mnt3Done
  BY <1>2 DEF Mnt1, Scan, Mnt2, Mnt3Done, kernel
<1> QED BY <1>1, <1>2 DEF Next, Quiet, KernelNext, Third

LEMMA OnceStep ==
  ASSUME DirsApart, IInv, MountInv, [Next]_vars
  PROVE  MountsOnce'
<1>0. TypeOK /\ OwnPaths /\ WorkListed /\ InHand /\ MountsOnce /\ MountsNoted /\ MediumMounted
  BY DEF IInv, MountInv
<1>1. CASE mounts' = mounts
  BY <1>0, <1>1 DEF MountsOnce
<1>2. CASE Third /\ mounts' # mounts
  <2>1. PICK n \in Names, p \in Nums : Pass3(n, p)
    BY <1>0, <1>2, ThirdIs
  <2> DEFINE L == Len(mounts)
  <2>m. PICK x \in Mount : MountedAs(n, p, x)
    BY <1>0, <1>2, <2>1, Pass3Mounts, Zenon
  <2>2. /\ x.name = n /\ x.num = p /\ ~FindMountPoint(n, p)
        /\ DOMAIN mounts' = 1..L + 1 /\ mounts'[L + 1] = x
        /\ \A i \in 1..L : mounts'[i] = mounts[i]
    BY <2>m DEF MountedAs, L
  <2>3. L \in Nat /\ DOMAIN mounts = 1..L
    BY <1>0, MountTypes
  <2>4. \A i \in 1..L : ~(mounts[i].name = n /\ mounts[i].num = p)
    BY <2>2, <2>3 DEF FindMountPoint, MountsOf, Mounts
  <2> HIDE DEF L
  <2>5. \A i \in 1..L + 1 : i \in 1..L \/ i = L + 1
    BY <2>3
  <2>6. ASSUME NEW i \in 1..L + 1, NEW j \in 1..L + 1,
               mounts'[i].name = mounts'[j].name, mounts'[i].num = mounts'[j].num
        PROVE  i = j
    <3>1. CASE i \in 1..L /\ j \in 1..L
      BY <3>1, <2>2, <2>3, <2>6, <1>0 DEF MountsOnce
    <3>2. CASE i = L + 1 \/ j = L + 1
      BY <3>2, <2>2, <2>4, <2>5, <2>6
    <3> QED BY <3>1, <3>2, <2>5
  <2> QED BY <2>2, <2>6 DEF MountsOnce
<1>3. CASE EvRemove
  <2>1. AtApart(mounts') /\ \A m : In(m, mounts)' => In(m, mounts)
    BY <1>0, <1>3, RemoveExact DEF EvRemove
  <2>2. ASSUME NEW i \in DOMAIN mounts', NEW j \in DOMAIN mounts',
               mounts'[i].name = mounts'[j].name, mounts'[i].num = mounts'[j].num
        PROVE  i = j
    <3>1. In(mounts'[i], mounts') /\ In(mounts'[j], mounts')
      BY DEF In
    <3> DEFINE l == mounts'[i]  m == mounts'[j]
    <3>2. In(l, mounts) /\ In(m, mounts)
      BY <2>1 DEF In
    <3> HIDE DEF l, m
    <3>3. l.name = m.name /\ l.num = m.num
      BY <2>2 DEF l, m
    <3>4. l = m
      BY <3>2, <3>3, <1>0 DEF In, MountsOnce
    <3> QED BY <3>4, <2>1 DEF AtApart, l, m
  <2> QED BY <2>2 DEF MountsOnce
<1> QED BY <1>0, <1>1, <1>2, <1>3, MountsSame

(* A partition of the list is noted as mounted on a path.                     *)
NotedAt(l, n, p, path) ==
  \E i \in DOMAIN l : \E j \in DOMAIN l[i].parts :
    /\ l[i].name = n /\ l[i].parts[j].num = p
    /\ l[i].parts[j].mounted /\ l[i].parts[j].mnt = path

LEMMA NotedStep ==
  ASSUME DirsApart, IInv, MountInv, [Next]_vars
  PROVE  MountsNoted'
<1>0. TypeOK /\ OwnPaths /\ WorkListed /\ InHand /\ MountsOnce /\ MountsNoted /\ MediumMounted
  BY DEF IInv, MountInv
<1>1. \A m : In(m, mounts) => NotedAt(list, m.name, m.num, m.at)
  BY <1>0, MountsIs DEF MountsNoted, NotedAt
<1>2. ASSUME \A m : In(m, mounts)' => NotedAt(list', m.name, m.num, m.at) PROVE MountsNoted'
  <2>1. \A m \in Mounts' : NotedAt(list', m.name, m.num, m.at)
    BY <1>2, MountsIs
  <2> QED BY <2>1 DEF MountsNoted, NotedAt
<1>3. CASE Quiet
  <2>1. list' = list /\ mounts' = mounts
    BY <1>0, <1>3, QuietIs
  <2> QED BY <2>1, <1>1, <1>2 DEF In
<1>4. CASE Mnt1 \/ Mnt2
  <2>1. Grows(list') /\ mounts' = mounts
    BY <1>0, <1>4, Mnt1List, Mnt2List DEF Mnt1, Scan, Mnt2, kernel
  <2>2. ASSUME NEW n, NEW p, NEW path, NotedAt(list, n, p, path) PROVE NotedAt(list', n, p, path)
    <3>1. PICK i \in DOMAIN list : \E j \in DOMAIN list[i].parts :
            /\ list[i].name = n /\ list[i].parts[j].num = p
            /\ list[i].parts[j].mounted /\ list[i].parts[j].mnt = path
      BY <2>2 DEF NotedAt
    <3>2. i \in DOMAIN list' /\ Grown(list[i], list'[i])
      BY <2>1 DEF Grows
    <3> QED BY <3>1, <3>2 DEF NotedAt, Grown, SameDisk
  <2> QED BY <2>1, <2>2, <1>1, <1>2 DEF In
<1>5. CASE Mnt3Done
  <2>1. Done(list') /\ mounts' = mounts
    BY <1>0, <1>5, Mnt3DoneList DEF Mnt3Done, kernel
  <2>2. \A n, p, path : NotedAt(list, n, p, path) => NotedAt(list', n, p, path)
    BY <2>1 DEF NotedAt, Done, SameDisk
  <2> QED BY <2>1, <2>2, <1>1, <1>2 DEF In
<1>6. CASE Third
  <2>1. PICK n \in Names, p \in Nums : Pass3(n, p)
    BY <1>0, <1>6, ThirdIs
  <2>2. ASSUME NEW path, NEW b, Noted(list', n, p, path, b), NEW x, NEW q, NEW at,
               NotedAt(list, x, q, at), ~(x = n /\ q = p)
        PROVE  NotedAt(list', x, q, at)
    <3>1. PICK i \in DOMAIN list : \E j \in DOMAIN list[i].parts :
            /\ list[i].name = x /\ list[i].parts[j].num = q
            /\ list[i].parts[j].mounted /\ list[i].parts[j].mnt = at
      BY <2>2 DEF NotedAt
    <3>2. PICK j \in DOMAIN list[i].parts :
            /\ list[i].name = x /\ list[i].parts[j].num = q
            /\ list[i].parts[j].mounted /\ list[i].parts[j].mnt = at
      BY <3>1
    <3>3. /\ i \in DOMAIN list' /\ j \in DOMAIN list'[i].parts
          /\ list'[i].name = x /\ list'[i].parts[j].num = q
          /\ list'[i].parts[j].mounted /\ list'[i].parts[j].mnt = at
      BY <3>2, <2>2 DEF Noted, SameDisk
    <3> QED BY <3>3 DEF NotedAt
  <2>3. ASSUME NEW path, Noted(list', n, p, path, TRUE) PROVE NotedAt(list', n, p, path)
    <3>1. PICK i \in DOMAIN list : list[i].name = n /\ p \in PartSet(list[i])
      BY <2>1 DEF Pass3, ListedPart
    <3>2. PICK j \in DOMAIN list[i].parts : list[i].parts[j].num = p
      BY <3>1 DEF PartSet
    <3>3. /\ i \in DOMAIN list' /\ j \in DOMAIN list'[i].parts
          /\ list'[i].name = n /\ list'[i].parts[j].num = p
          /\ list'[i].parts[j].mounted /\ list'[i].parts[j].mnt = path
      BY <3>1, <3>2, <2>3 DEF Noted, SameDisk
    <3> QED BY <3>3 DEF NotedAt
  <2>4. CASE list' = list /\ mounts' = mounts
    BY <2>4, <1>1, <1>2 DEF In
  <2>5. CASE mounts' # mounts
    <3>m. PICK x \in Mount : MountedAs(n, p, x)
      BY <1>0, <2>1, <2>5, Pass3Mounts, Zenon
    <3>1. /\ x.name = n /\ x.num = p /\ ~FindMountPoint(n, p)
          /\ Noted(list', n, p, x.at, TRUE)
          /\ \A m : In(m, mounts)' <=> In(m, mounts) \/ m = x
      BY <3>m DEF MountedAs
    <3>2. \A m : In(m, mounts) => ~(m.name = n /\ m.num = p)
      BY <3>1, MountsIs DEF FindMountPoint, MountsOf
    <3>3. ASSUME NEW m, In(m, mounts)' PROVE NotedAt(list', m.name, m.num, m.at)
      <4>1. CASE m = x
        BY <4>1, <3>1, <2>3
      <4>2. CASE In(m, mounts)
        BY <4>2, <3>1, <3>2, <2>2, <1>1
      <4> QED BY <4>1, <4>2, <3>1, <3>3
    <3> QED BY <3>3, <1>2
  <2>6. CASE ~FindMountPoint(n, p) /\ mounts' = mounts
             /\ \E path \in PathsOf(n, p) : Noted(list', n, p, path, FALSE)
    <3>1. \A m : In(m, mounts) => ~(m.name = n /\ m.num = p)
      BY <2>6, MountsIs DEF FindMountPoint, MountsOf
    <3>2. \A m : In(m, mounts)' => NotedAt(list', m.name, m.num, m.at)
      BY <2>2, <2>6, <3>1, <1>1 DEF In
    <3> QED BY <3>2, <1>2
  <2>7. CASE mounts' = mounts /\ Noted(list', n, p, MountedAt(n, p), TRUE)
    <3>1. ASSUME NEW m, In(m, mounts), m.name = n, m.num = p PROVE m.at = MountedAt(n, p)
      <4> DEFINE found == {i \in DOMAIN mounts : mounts[i].name = n /\ mounts[i].num = p}
      <4>1. PICK k \in DOMAIN mounts : mounts[k] = m
        BY <3>1 DEF In
      <4>2. found # {} /\ found \subseteq Nat
        BY <4>1, <3>1, <1>0, MountTypes
      <4>3. Min(found) \in found
        <5> HIDE DEF found
        <5> QED BY <4>2, MinIn
      <4>4. MountedAt(n, p) = mounts[Min(found)].at
        BY <4>2 DEF MountedAt
      <4> DEFINE x == Min(found)
      <4>5. x \in DOMAIN mounts /\ mounts[x].name = n /\ mounts[x].num = p
        BY <4>3
      <4> HIDE DEF x
      <4>6. x = k
        BY <4>1, <4>5, <3>1, <1>0 DEF MountsOnce
      <4> QED BY <4>1, <4>4, <4>6 DEF x
    <3>2. ASSUME NEW m, In(m, mounts) PROVE NotedAt(list', m.name, m.num, m.at)
      <4>1. CASE m.name = n /\ m.num = p
        BY <4>1, <3>1, <3>2, <2>3, <2>7
      <4>2. CASE ~(m.name = n /\ m.num = p)
        BY <4>2, <3>2, <2>2, <2>7, <1>1
      <4> QED BY <4>1, <4>2
    <3> QED BY <3>2, <2>7, <1>2 DEF In
  <2>8. \/ list' = list /\ mounts' = mounts
        \/ mounts' # mounts
        \/ /\ ~FindMountPoint(n, p) /\ mounts' = mounts
           /\ \E path \in PathsOf(n, p) : Noted(list', n, p, path, FALSE)
        \/ /\ FindMountPoint(n, p) /\ mounts' = mounts
           /\ Noted(list', n, p, MountedAt(n, p), TRUE)
    BY <1>0, <2>1, Pass3Cases, Zenon
  <2> QED BY <2>4, <2>5, <2>6, <2>7, <2>8
<1>7. CASE EvRemove
  <2> DEFINE n == Head(uevents)[2]
  <2>1. Gone(list', n) /\ \A m : In(m, mounts)' <=> In(m, mounts) /\ m.name # n
    BY <1>0, <1>7, RemoveDiskList, RemoveExact DEF EvRemove
  <2> HIDE DEF n
  <2>2. ASSUME NEW x, NEW q, NEW at, NotedAt(list, x, q, at), x # n PROVE NotedAt(list', x, q, at)
    <3>1. PICK i \in DOMAIN list : \E j \in DOMAIN list[i].parts :
            /\ list[i].name = x /\ list[i].parts[j].num = q
            /\ list[i].parts[j].mounted /\ list[i].parts[j].mnt = at
      BY <2>2 DEF NotedAt
    <3>2. PICK k \in DOMAIN list' : list'[k] = list[i]
      BY <3>1, <2>1, <2>2 DEF Gone
    <3> QED BY <3>1, <3>2 DEF NotedAt
  <2>3. \A m : In(m, mounts)' => NotedAt(list', m.name, m.num, m.at)
    BY <2>1, <2>2, <1>1
  <2> QED BY <2>3, <1>2
<1> QED BY <1>3, <1>4, <1>5, <1>6, <1>7 DEF Next, Quiet, KernelNext, Third

(* Only the kernel changes the disks.                                         *)
LEMMA TableSame ==
  ASSUME TypeOK, [Next]_vars
  PROVE  KernelNext \/ table' = table
BY NextIs, WorksIs, TakesIs

(* A medium that is put in while another is mounted has a number of its own.  *)
LEMMA KernelMounts ==
  ASSUME TypeOK, MountsNoted, InstOrder, NEW n \in Names, NEW a \in {"add", "remove", "change"},
         KernelStep(n, a), NEW m, In(m, mounts)
  PROVE  /\ m.name \in Names /\ m.inst \in Nat /\ In(m, mounts)' /\ list' = list
         /\ \/ table'[m.name] = table[m.name]
            \/ m.name = n /\ ~table'[n].open /\ table'[n].inst \in {0, table[n].inst}
            \/ m.name = n /\ table'[n].inst > m.inst
<1>1. /\ m.name \in Names /\ m.inst \in Nat /\ In(m, mounts)' /\ list' = list
      /\ m \in Mounts
  <2>1. m \in Mount /\ m \in Mounts
    BY MountTypes, MountsIs
  <2>2. m.name \in Names /\ m.inst \in 1..MaxInsert
    BY <2>1 DEF Mount
  <2>3. mounts' = mounts /\ list' = list
    BY DEF KernelStep, Uevent, lists
  <2> QED BY <2>1, <2>2, <2>3 DEF In
<1>2. CASE m.name # n
  BY <1>1, <1>2 DEF KernelStep
<1>3. CASE m.name = n
  <2>1. MountsOf(n) # {}
    BY <1>1, <1>3 DEF MountsOf
  <2>2. inserted \in Nat /\ table[n].inst \in Nat /\ table[n].inst <= inserted
    <3>1. inserted \in Nat
      BY DiskManagerAssumption DEF TypeOK
    <3>2. table[n].inst \in 0..MaxInsert
      BY TableTypes, DiskTypes
    <3> QED BY <3>1, <3>2, DiskManagerAssumption DEF InstOrder
  <2>3. CASE table'[n].inst = inserted + 1
    <3>1. table[n].inst # 0
      BY <2>1, <2>2, <2>3 DEF KernelStep
    <3>2. m.inst <= table[n].inst
      BY <3>1, <1>1, <1>3 DEF InstOrder
    <3> QED BY <3>2, <1>1, <1>3, <2>2, <2>3
  <2>4. CASE table'[n].inst # inserted + 1
    <3>1. table'[n].inst \in {0, table[n].inst} /\ (table'[n] = table[n] \/ ~table'[n].open)
      BY <2>1, <2>4 DEF KernelStep
    <3> QED BY <3>1, <1>1, <1>3
  <2> QED BY <2>3, <2>4
<1> QED BY <1>1, <1>2, <1>3

LEMMA MediumStep ==
  ASSUME DirsApart, IInv, MountInv, [Next]_vars
  PROVE  MediumMounted'
<1>0. TypeOK /\ OwnPaths /\ WorkListed /\ InHand /\ MountsNoted /\ MediumMounted /\ InstOrder
  BY DEF IInv, MountInv
<1>1. /\ \A m : In(m, mounts) => m.name \in Names /\ m.num \in Nums
      /\ \A m : In(m, mounts) => (table[m.name].open /\ m.inst = table[m.name].inst =>
             m.num \in table[m.name].good)
      /\ \A l, m : In(l, mounts) /\ In(m, mounts) =>
           (l.name = m.name /\ l.num = Whole => m.num = Whole)
  BY <1>0, MountsIs, MountTypes DEF MediumMounted
<1>2. ASSUME \A m : In(m, mounts)' => (table'[m.name].open /\ m.inst = table'[m.name].inst =>
                m.num \in table'[m.name].good),
             \A l, m : In(l, mounts)' /\ In(m, mounts)' =>
               (l.name = m.name /\ l.num = Whole => m.num = Whole)
      PROVE  MediumMounted'
  BY <1>2, MountsIs DEF MediumMounted
<1>3. CASE KernelNext
  <2>1. PICK n \in Names, a \in {"add", "remove", "change"} : KernelStep(n, a)
    BY <1>0, <1>3, KernelIs
  <2>2. mounts' = mounts
    BY <2>1 DEF KernelStep, Uevent
  <2>3. ASSUME NEW m, In(m, mounts), table'[m.name].open, m.inst = table'[m.name].inst
        PROVE  m.num \in table'[m.name].good
    <3>1. /\ m.inst \in Nat
          /\ \/ table'[m.name] = table[m.name]
             \/ m.name = n /\ ~table'[n].open
             \/ m.name = n /\ table'[n].inst > m.inst
      BY <1>0, <2>1, <2>3, KernelMounts
    <3>2. table'[m.name] = table[m.name]
      BY <3>1, <2>3
    <3> QED BY <3>2, <2>3, <1>1
  <2> QED BY <2>2, <2>3, <1>1, <1>2 DEF In
<1>4. CASE table' = table /\ \A m : In(m, mounts)' => In(m, mounts)
  BY <1>4, <1>1, <1>2
<1>5. CASE table' = table /\ Third /\ mounts' # mounts
  <2>1. PICK n \in Names, p \in Nums : Pass3(n, p)
    BY <1>0, <1>5, ThirdIs
  <2>m. PICK x \in Mount : MountedAs(n, p, x)
    BY <1>0, <1>5, <2>1, Pass3Mounts, Zenon
  <2>2. /\ x.name = n /\ x.num = p /\ p \in table[n].good
        /\ ~FindMountPoint(n, p) /\ \A m \in MountsOf(n) : m.num # Whole
        /\ \A m : In(m, mounts)' <=> In(m, mounts) \/ m = x
    BY <2>m DEF MountedAs
  <2>3. \A m : In(m, mounts) => (m.name = n => m.num # p /\ p # Whole /\ m.num # Whole)
    BY <2>2, MountsIs DEF FindMountPoint, MountsOf
  <2>5. ASSUME NEW l, NEW m, In(l, mounts)', In(m, mounts)', l.name = m.name, l.num = Whole
        PROVE  m.num = Whole
    <3>1. CASE In(l, mounts) /\ In(m, mounts)
      BY <3>1, <2>5, <1>1
    <3>2. CASE In(l, mounts) /\ m = x
      BY <3>2, <2>2, <2>3, <2>5
    <3>3. CASE l = x /\ In(m, mounts)
      BY <3>3, <2>2, <2>3, <2>5
    <3>4. CASE l = x /\ m = x
      BY <3>4, <2>5
    <3> QED BY <2>2, <2>5, <3>1, <3>2, <3>3, <3>4
  <2>6. \A m : In(m, mounts)' => (table'[m.name].open /\ m.inst = table'[m.name].inst =>
          m.num \in table'[m.name].good)
    BY <2>2, <1>1, <1>5
  <2> QED BY <2>5, <2>6, <1>2
<1>6. CASE EvRemove
  BY <1>0, <1>4, <1>6, RemoveDiskMounts, TakesIs DEF EvRemove, Takes
<1>7. CASE table' = table /\ mounts' = mounts
  BY <1>4, <1>7 DEF In
<1> QED BY <1>0, <1>3, <1>5, <1>6, <1>7, MountsSame, TableSame

(* A disk is listed before something is mounted from it, and a medium that    *)
(* comes later has a higher number.                                           *)
LEMMA OrderStep ==
  ASSUME DirsApart, IInv, MountInv, [Next]_vars
  PROVE  InstOrder'
<1> DEFINE Old(l, m)  == l.name = m.name => l.inst <= m.inst
           Now(d)     == table[d.name].inst # 0 => d.inst <= table[d.name].inst
           Now1(d)    == table'[d.name].inst # 0 => d.inst <= table'[d.name].inst
<1>0. TypeOK /\ OwnPaths /\ WorkListed /\ InHand /\ MountsNoted /\ InstOrder
  BY DEF IInv, MountInv
<1>t. TypeOK'
  BY StepIInv DEF IInv
<1>1. /\ inserted \in Nat /\ \A n \in Names : table[n].inst \in Nat /\ table[n].inst <= inserted
      /\ \A i \in DOMAIN list : /\ list[i].name \in Names /\ list[i].inst \in Nat
                                /\ list[i].inst <= inserted /\ Now(list[i])
      /\ \A m : In(m, mounts) => /\ m.name \in Names /\ m.inst \in Nat /\ Now(m)
                                 /\ \E i \in DOMAIN list : list[i].name = m.name
                                 /\ \A i \in DOMAIN list : Old(list[i], m)
  <2>1. inserted \in Nat
    BY <1>0, DiskManagerAssumption DEF TypeOK
  <2>2. \A n \in Names : table[n].inst \in Nat
    <3> TAKE n \in Names
    <3>1. table[n].inst \in 0..MaxInsert
      BY <1>0, TableTypes, DiskTypes
    <3> QED BY <3>1
  <2>3. ASSUME NEW i \in DOMAIN list PROVE list[i].name \in Names /\ list[i].inst \in Nat
    <3>1. list[i] \in Disk
      BY <1>0, ListTypes
    <3>2. list[i].name \in Names /\ list[i].inst \in 1..MaxInsert
      BY <3>1 DEF Disk
    <3> QED BY <3>2
  <2>4. ASSUME NEW m, In(m, mounts) PROVE m \in Mounts /\ m.name \in Names /\ m.inst \in Nat
    <3>1. m \in Mounts /\ m \in Mount
      BY <1>0, <2>4, MountsIs, MountTypes
    <3>2. m.name \in Names /\ m.inst \in 1..MaxInsert
      BY <3>1 DEF Mount
    <3> QED BY <3>1, <3>2
  <2>5. \A m : In(m, mounts) => \E i \in DOMAIN list : list[i].name = m.name
    BY <1>0, <2>4 DEF MountsNoted
  <2> QED BY <1>0, <2>1, <2>2, <2>3, <2>4, <2>5 DEF InstOrder
<1>2. ASSUME \A n \in Names : table'[n].inst <= inserted',
             \A i \in DOMAIN list' : list'[i].inst <= inserted' /\ Now1(list'[i]),
             \A m : In(m, mounts)' => Now1(m) /\ \A i \in DOMAIN list' : Old(list'[i], m)
      PROVE  InstOrder'
  BY <1>2, MountsIs DEF InstOrder
<1>3. CASE KernelNext
  <2>1. PICK n \in Names, a \in {"add", "remove", "change"} : KernelStep(n, a)
    BY <1>0, <1>3, KernelIs
  <2>2. /\ mounts' = mounts /\ list' = list
        /\ \A k \in Names \ {n} : table'[k] = table[k]
        /\ \/ inserted' = inserted /\ table'[n].inst \in {0, table[n].inst}
           \/ inserted' = inserted + 1 /\ table'[n].inst = inserted + 1
    BY <2>1 DEF KernelStep, Uevent, lists
  <2>3. inserted <= inserted' /\ \A k \in Names : table'[k].inst <= inserted'
    <3>1. inserted' \in Nat /\ inserted <= inserted' /\ table'[n].inst <= inserted'
      BY <1>1, <2>2
    <3>2. ASSUME NEW k \in Names \ {n} PROVE table'[k].inst <= inserted'
      <4>1. table'[k].inst = table[k].inst
        BY <2>2
      <4> QED BY <4>1, <3>1, <1>1
    <3> QED BY <3>1, <3>2
  <2>4. ASSUME NEW i \in DOMAIN list PROVE list[i].inst <= inserted' /\ Now1(list[i])
    <3> DEFINE k == list[i].inst  c == list[i].name
    <3>0. k \in Nat /\ k <= inserted /\ c \in Names /\ (table[c].inst # 0 => k <= table[c].inst)
      BY <1>1
    <3> HIDE DEF k, c
    <3>1. k <= inserted'
      BY <3>0, <1>1, <2>2
    <3>2. table'[c].inst # 0 => k <= table'[c].inst
      <4>1. CASE c # n
        BY <4>1, <3>0, <2>2
      <4>2. CASE c = n
        BY <4>2, <3>0, <1>1, <2>2
      <4> QED BY <4>1, <4>2
    <3> QED BY <3>1, <3>2 DEF k, c
  <2>5. ASSUME NEW m, In(m, mounts) PROVE Now1(m)
    <3>1. /\ m.inst \in Nat
          /\ \/ table'[m.name] = table[m.name]
             \/ m.name = n /\ table'[n].inst \in {0, table[n].inst}
             \/ m.name = n /\ table'[n].inst > m.inst
      BY <1>0, <2>1, <2>5, KernelMounts
    <3>2. CASE m.name = n /\ table'[n].inst > m.inst
      <4>1. table'[n].inst \in Nat
        BY <1>1, <2>2
      <4> QED BY <4>1, <3>1, <3>2
    <3> QED BY <3>1, <3>2, <2>5, <1>1
  <2> QED BY <2>2, <2>3, <2>4, <2>5, <1>1, <1>2 DEF In
<1>4. CASE table' = table /\ inserted' = inserted
  <2>1. CASE Quiet
    <3>1. list' = list /\ mounts' = mounts
      BY <1>0, <2>1, QuietIs
    <3> QED BY <3>1, <1>1, <1>2, <1>4 DEF In
  <2>2. CASE Mnt1 \/ Mnt2
    <3>1. Grows(list') /\ mounts' = mounts
      BY <1>0, <2>2, Mnt1List, Mnt2List DEF Mnt1, Scan, Mnt2, kernel
    <3>2. ASSUME NEW i \in DOMAIN list'
          PROVE  /\ list'[i].inst <= inserted /\ Now(list'[i])
                 /\ \A m : In(m, mounts) => Old(list'[i], m)
      <4>1. CASE i \in DOMAIN list
        <5>1. list'[i].name = list[i].name /\ list'[i].inst = list[i].inst
          BY <4>1, <3>1 DEF Grows, Grown, SameDisk
        <5> QED BY <4>1, <5>1, <1>1
      <4>2. CASE i \notin DOMAIN list
        <5>1. /\ list'[i].inst = table[list'[i].name].inst /\ ~Listed(list'[i].name)
              /\ list'[i].name \in Names
          BY <4>2, <3>1, <1>0 DEF Grows, Added, TypeOK
        <5>2. \A m : In(m, mounts) => m.name # list'[i].name
          BY <5>1, <1>1 DEF Listed
        <5> QED BY <5>1, <5>2, <1>1
      <4> QED BY <4>1, <4>2
    <3> QED BY <3>1, <3>2, <1>1, <1>2, <1>4 DEF In
  <2> DEFINE New(m) == m.name \in Names /\ m.inst = table[m.name].inst /\ m.inst # 0
             Kept == \A i \in DOMAIN list' : \E j \in DOMAIN list :
                       list'[i].name = list[j].name /\ list'[i].inst = list[j].inst
  <2>3. ASSUME Kept, \A m : In(m, mounts)' => In(m, mounts) \/ New(m)
        PROVE  InstOrder'
    <3>1. ASSUME NEW i \in DOMAIN list'
          PROVE  /\ list'[i].inst <= inserted /\ Now(list'[i])
                 /\ \A m : In(m, mounts)' => Old(list'[i], m)
      <4>1. PICK j \in DOMAIN list :
              list'[i].name = list[j].name /\ list'[i].inst = list[j].inst
        BY <2>3
      <4>2. ASSUME NEW m, In(m, mounts)' PROVE Old(list[j], m)
        <5>1. CASE In(m, mounts)
          BY <5>1, <1>1
        <5>2. CASE New(m)
          <6>1. m.inst = table[m.name].inst /\ m.inst # 0
            BY <5>2
          <6> QED BY <6>1, <1>1
        <5> QED BY <5>1, <5>2, <4>2, <2>3
      <4> QED BY <4>1, <4>2, <1>1
    <3>2. ASSUME NEW m, In(m, mounts)' PROVE Now(m)
      <4>1. CASE In(m, mounts)
        BY <4>1, <1>1
      <4>2. CASE New(m)
        BY <4>2, <1>1
      <4> QED BY <4>1, <4>2, <3>2, <2>3
    <3> QED BY <3>1, <3>2, <1>1, <1>2, <1>4
  <2>4. CASE Mnt3Done
    <3>1. Done(list') /\ mounts' = mounts
      BY <1>0, <2>4, Mnt3DoneList DEF Mnt3Done, kernel
    <3>2. Kept
      BY <3>1 DEF Done, SameDisk
    <3> QED BY <3>1, <3>2, <2>3 DEF In
  <2>5. CASE Third
    <3>1. PICK n \in Names, p \in Nums : Pass3(n, p)
      BY <1>0, <2>5, ThirdIs
    <3>2. Kept
      BY <3>1, Pass3Keeps DEF SameDisk
    <3>3. CASE mounts' = mounts
      BY <3>2, <3>3, <2>3 DEF In
    <3>4. CASE mounts' # mounts
      <4>1. PICK x \in Mount : MountedAs(n, p, x)
        BY <1>0, <3>1, <3>4, Pass3Mounts, Zenon
      <4>2. /\ x.name = n /\ x.inst = table[n].inst
            /\ \A m : In(m, mounts)' => In(m, mounts) \/ m = x
        BY <4>1 DEF MountedAs
      <4>3. x.inst # 0
        BY DiskManagerAssumption DEF Mount
      <4>4. New(x)
        BY <4>2, <4>3
      <4>5. \A m : In(m, mounts)' => In(m, mounts) \/ New(m)
        BY <4>2, <4>4
      <4> HIDE DEF Kept, New
      <4> QED BY <4>5, <3>2, <2>3
    <3> QED BY <3>3, <3>4
  <2>6. CASE EvRemove
    <3> DEFINE n == Head(uevents)[2]
    <3>1. Gone(list', n)
      BY <1>0, <2>6, RemoveDiskList DEF EvRemove
    <3>2. \A m : In(m, mounts)' => In(m, mounts)
      BY <1>0, <2>6, RemoveDiskMounts DEF EvRemove
    <3> HIDE DEF n
    <3>3. Kept
      BY <3>1 DEF Gone
    <3> QED BY <3>2, <3>3, <2>3
  <2> QED BY <2>1, <2>2, <2>4, <2>5, <2>6 DEF Next, Quiet, KernelNext, Third
<1>5. KernelNext \/ (table' = table /\ inserted' = inserted)
  <2>1. CASE Takes
    BY <2>1 DEF Takes, EvAdd, EvDrop, DropOf, EvRemove, RemoveDisk, kernel
  <2>2. CASE Mnt1 \/ Mnt2 \/ Mnt2NotFound \/ Mnt3Done \/ Bind
    BY <2>2 DEF Mnt1, Scan, Mnt2, Mnt2NotFound, Mnt3Done, Bind, kernel
  <2>3. CASE DiskLun \/ DiskInfo \/ NotifyPlug \/ UNCHANGED vars
    BY <2>3 DEF DiskLun, DiskInfo, Asked, NotifyPlug, vars, kernel
  <2>4. CASE Third
    BY <2>4, ThirdLeaves
  <2> QED BY <2>1, <2>2, <2>3, <2>4, NextIs DEF Works
<1> QED BY <1>3, <1>4, <1>5

(* No partition of the firmware is mounted from a disk that was listed with   *)
(* its GPT, unless its table changed after the look at it.                    *)
LEMMA EfiStep ==
  ASSUME DirsApart, IInv, MountInv, [Next]_vars
  PROVE  EfiIgnored'
<1>0. TypeOK /\ OwnPaths /\ WorkListed /\ InHand /\ MountsNoted /\ InstOrder /\ EfiIgnored
  BY DEF IInv, MountInv
<1>1. /\ \A m : In(m, mounts) => m.name \in Names /\ m.num \in Nums
      /\ \A m : In(m, mounts) => \E i \in DOMAIN list : list[i].name = m.name
      /\ \A m : In(m, mounts) => \A i \in DOMAIN list :
           list[i].name = m.name /\ list[i].gpt /\ ~m.late /\ m.inst = table[m.name].inst =>
             m.num \notin table[m.name].efi
  BY <1>0, MountsIs, MountTypes DEF MountsNoted, EfiIgnored
<1>2. ASSUME \A m : In(m, mounts)' => \A i \in DOMAIN list' :
               list'[i].name = m.name /\ list'[i].gpt /\ ~m.late /\ m.inst = table'[m.name].inst =>
                 m.num \notin table'[m.name].efi
      PROVE  EfiIgnored'
  BY <1>2, MountsIs DEF EfiIgnored
<1>3. ASSUME table' = table, NEW m, In(m, mounts),
             \A i \in DOMAIN list' : list'[i].name = m.name =>
               \E j \in DOMAIN list : list[j].name = m.name /\ list[j].gpt = list'[i].gpt
      PROVE  \A i \in DOMAIN list' :
               list'[i].name = m.name /\ list'[i].gpt /\ ~m.late /\ m.inst = table'[m.name].inst =>
                 m.num \notin table'[m.name].efi
  BY <1>1, <1>3
<1>4. CASE KernelNext
  <2>1. PICK n \in Names, a \in {"add", "remove", "change"} : KernelStep(n, a)
    BY <1>0, <1>4, KernelIs
  <2>2. mounts' = mounts /\ list' = list
    BY <2>1 DEF KernelStep, Uevent, lists
  <2>3. ASSUME NEW m, In(m, mounts), NEW i \in DOMAIN list, list[i].name = m.name,
               list[i].gpt, ~m.late, m.inst = table'[m.name].inst
        PROVE  m.num \notin table'[m.name].efi
    <3>1. CASE table'[m.name] = table[m.name]
      BY <3>1, <2>3, <1>1
    <3>2. CASE m.name = n /\ ~table'[n].open
      <4>1. table'[n] \in DiskType(n)
        BY <2>1 DEF KernelStep
      <4> QED BY <4>1, <3>2, DiskTypes
    <3>3. /\ m.inst \in Nat
          /\ \/ table'[m.name] = table[m.name]
             \/ m.name = n /\ ~table'[n].open
             \/ m.name = n /\ table'[n].inst > m.inst
      BY <1>0, <2>1, <2>3, KernelMounts
    <3>4. ~(m.name = n /\ table'[n].inst > m.inst)
      BY <3>3, <2>3
    <3> QED BY <3>1, <3>2, <3>3, <3>4
  <2> QED BY <2>2, <2>3, <1>2 DEF In
<1>5. CASE Mnt1 \/ Mnt2
  <2>1. Grows(list') /\ mounts' = mounts /\ table' = table
    BY <1>0, <1>5, Mnt1List, Mnt2List DEF Mnt1, Scan, Mnt2, kernel
  <2>2. ASSUME NEW m, In(m, mounts), NEW i \in DOMAIN list', list'[i].name = m.name
        PROVE  \E j \in DOMAIN list : list[j].name = m.name /\ list[j].gpt = list'[i].gpt
    <3>1. PICK j \in DOMAIN list : list[j].name = m.name
      BY <2>2, <1>1
    <3>2. j \in DOMAIN list' /\ list'[j].name = m.name /\ list'[j].gpt = list[j].gpt
      BY <3>1, <2>1 DEF Grows, Grown, SameDisk
    <3>3. i = j
      BY <3>2, <2>1, <2>2 DEF Grows, NamesOnce
    <3> QED BY <3>1, <3>2, <3>3
  <2> QED BY <2>1, <2>2, <1>2, <1>3 DEF In
<1>6. CASE Mnt3Done
  <2>1. Done(list') /\ mounts' = mounts /\ table' = table
    BY <1>0, <1>6, Mnt3DoneList DEF Mnt3Done, kernel
  <2>2. \A i \in DOMAIN list' : i \in DOMAIN list /\ list[i].name = list'[i].name
                                /\ list[i].gpt = list'[i].gpt
    BY <2>1 DEF Done, SameDisk
  <2> QED BY <2>1, <2>2, <1>2, <1>3 DEF In
<1>7. CASE Third
  <2>1. PICK n \in Names, p \in Nums : Pass3(n, p)
    BY <1>0, <1>7, ThirdIs
  <2>2. /\ DOMAIN list' = DOMAIN list /\ \A i \in DOMAIN list : SameDisk(list[i], list'[i])
    BY <2>1, Pass3Keeps
  <2>3. \A i \in DOMAIN list' : i \in DOMAIN list /\ list[i].name = list'[i].name
                                /\ list[i].gpt = list'[i].gpt
    BY <2>2 DEF SameDisk
  <2>4. table' = table
    BY <1>7, ThirdLeaves
  <2>5. CASE mounts' = mounts
    BY <2>3, <2>4, <2>5, <1>2, <1>3 DEF In
  <2>6. CASE mounts' # mounts
    <3>m. PICK x \in Mount : MountedAs(n, p, x)
      BY <1>0, <2>1, <2>6, Pass3Mounts, Zenon
    <3>1. /\ x.name = n /\ x.num = p
          /\ x.late <=> table[n].efi # look
          /\ \A i \in DOMAIN list : list[i].name = n /\ list[i].gpt => p \notin look
          /\ \A m : In(m, mounts)' <=> In(m, mounts) \/ m = x
      BY <3>m DEF MountedAs
    <3>2. ASSUME NEW i \in DOMAIN list', list'[i].name = n, list'[i].gpt, ~x.late
          PROVE  p \notin table[n].efi
      BY <3>1, <3>2, <2>3
    <3>3. ASSUME NEW m, In(m, mounts)'
          PROVE  \A i \in DOMAIN list' :
                   list'[i].name = m.name /\ list'[i].gpt /\ ~m.late /\ m.inst = table'[m.name].inst =>
                     m.num \notin table'[m.name].efi
      <4>1. CASE m = x
        BY <4>1, <3>1, <3>2, <2>4
      <4>2. CASE In(m, mounts)
        BY <4>2, <2>3, <2>4, <1>3
      <4> QED BY <4>1, <4>2, <3>1, <3>3
    <3> QED BY <3>3, <1>2
  <2> QED BY <2>5, <2>6
<1>8. CASE EvRemove
  <2> DEFINE n == Head(uevents)[2]
  <2>1. Gone(list', n) /\ table' = table
    BY <1>0, <1>8, RemoveDiskList DEF EvRemove, RemoveDisk
  <2>2. \A m : In(m, mounts)' => In(m, mounts)
    BY <1>0, <1>8, RemoveDiskMounts DEF EvRemove
  <2> HIDE DEF n
  <2>3. \A i \in DOMAIN list' : \E j \in DOMAIN list : list[j] = list'[i]
    BY <2>1 DEF Gone
  <2> QED BY <2>1, <2>2, <2>3, <1>2, <1>3
<1>9. CASE table' = table /\ Quiet
  <2>1. list' = list /\ mounts' = mounts
    BY <1>0, <1>9, QuietIs
  <2> QED BY <2>1, <1>1, <1>2, <1>9 DEF In
<1>10. KernelNext \/ table' = table
  BY <1>0, TableSame
<1> QED BY <1>4, <1>5, <1>6, <1>7, <1>8, <1>9, <1>10 DEF Next, Quiet, KernelNext, Third

(* The same for what is about mounts, where directories are apart.            *)
LEMMA InitMountInv == Init => MountInv
<1> SUFFICES ASSUME Init PROVE MountInv
  OBVIOUS
<1>1. mounts = <<>> /\ list = <<>>
  BY DEF Init
<1>2. DOMAIN mounts = {} /\ DOMAIN list = {}
  BY <1>1
<1>3. Mounts = {}
  BY <1>2 DEF Mounts
<1>4. ASSUME NEW n \in Names PROVE table[n].inst <= inserted
  <2>1. inserted = 1 /\ table[n] \in {Absent} \cup UNION {Content(1, p) : p \in Ports}
    BY DEF Init
  <2>2. CASE table[n] = Absent
    BY <2>1, <2>2 DEF Absent
  <2>3. ASSUME NEW p \in Ports, table[n] \in Content(1, p) PROVE table[n].inst <= inserted
    <3>1. table[n].inst = 1
      BY <2>3 DEF Content
    <3> QED BY <2>1, <3>1
  <2> QED BY <2>1, <2>2, <2>3
<1>5. InstOrder
  BY <1>2, <1>3, <1>4 DEF InstOrder
<1> QED BY <1>2, <1>3, <1>5 DEF MountInv, MountsOnce, MountsNoted, MediumMounted, EfiIgnored

(* ... and those about mounts with them, where directories are apart.         *)
THEOREM MountsInductive == DirsApart => (Spec => [](IInv /\ MountInv))
<1> SUFFICES ASSUME DirsApart PROVE Spec => [](IInv /\ MountInv)
  OBVIOUS
<1>1. Init => IInv /\ MountInv
  BY InitIInv, InitMountInv
<1>2. (IInv /\ MountInv) /\ [Next]_vars => (IInv /\ MountInv)'
  BY StepIInv, OnceStep, NotedStep, MediumStep, OrderStep, EfiStep DEF MountInv
<1> QED BY <1>1, <1>2, PTL DEF Spec

(* Where disks and partitions have directories of their own, no mount is      *)
(* forgotten: what is mounted belongs to a partition that is listed and       *)
(* marked, so that the removal of its disk unmounts it.  (On a directory that *)
(* two disks share, the removal of one takes the mount of the other away, and *)
(* leaves its own.)                                                           *)
THEOREM MountsAreListed == DirsApart => (Spec => []MountsListed)
<1>1. ASSUME IInv, MountInv PROVE MountsListed
  <2> SUFFICES ASSUME NEW m \in Mounts PROVE Marked(m.name, m.num)
    BY DEF MountsListed
  <2>1. TypeOK /\ MountsNoted
    BY <1>1 DEF IInv, MountInv
  <2>2. PICK i \in DOMAIN list : \E j \in DOMAIN list[i].parts :
          list[i].name = m.name /\ list[i].parts[j].num = m.num /\ list[i].parts[j].mounted
    BY <2>1 DEF MountsNoted
  <2>3. PICK j \in DOMAIN list[i].parts :
          list[i].name = m.name /\ list[i].parts[j].num = m.num /\ list[i].parts[j].mounted
    BY <2>2
  <2>4. ListedPart(m.name, m.num)
    BY <2>3 DEF ListedPart, PartSet
  <2>5. Entry(m.name, m.num) = list[i].parts[j]
    BY <2>1, <2>3, <2>4, EntryIs
  <2> QED BY <2>3, <2>4, <2>5 DEF Marked
<1>2. IInv /\ MountInv => MountsListed
  BY <1>1
<1> QED BY <1>2, MountsInductive, PTL

(* Nothing is mounted that the GPT gives to the firmware, of a disk that was  *)
(* listed with a GPT, unless the table changed after the look at it, before   *)
(* the mount or by another medium under it.                                   *)
THEOREM FirmwareIgnored == DirsApart => (Spec => []EfiIgnored)
<1>1. IInv /\ MountInv => EfiIgnored
  BY DEF MountInv
<1> QED BY <1>1, MountsInductive, PTL

(* Once the events are worked off, the list is that of the disks there are,   *)
(* with all their partitions; nothing is mounted from a disk that left, and   *)
(* from a medium that left only where the list has the disk from before.      *)
THEOREM Settles == DirsApart => (Spec => []ListSettles)
<1>1. ASSUME IInv, MountInv PROVE ListSettles
  <2> SUFFICES ASSUME Settled
               PROVE  /\ \A n \in Names : table[n].open <=> Listed(n)
                      /\ \A i \in DOMAIN list :
                           /\ list[i].status = "MOUNTED"
                           /\ Rows(list[i].name) \subseteq PartSet(list[i])
                      /\ \A m \in Mounts :
                           LET d == list[Place(m.name)] IN
                           /\ table[m.name].open
                           /\ d.inst = table[m.name].inst => m.inst = table[m.name].inst
    BY DEF ListSettles
  <2>1. TypeOK /\ Calm /\ MountsNoted /\ InstOrder
    BY <1>1 DEF IInv, MountInv
  <2>2. evpc = "poll" /\ DOMAIN uevents = {} /\ ~deaf
    BY DEF Settled
  <2>3. \A n \in Names : ~Pending(n) /\ ~Passing(n)
    BY <2>2 DEF Pending, EventOf, Passing, Passes
  <2>4. \A n \in Names : ListedWhole(n) /\ AllUp(n)
    BY <2>1, <2>2, <2>3 DEF Calm, CalmOf
  <2>5. \A n \in Names : table[n].open <=> Listed(n)
    BY <2>4 DEF ListedWhole
  <2>6. ASSUME NEW i \in DOMAIN list
        PROVE  list[i].status = "MOUNTED" /\ Rows(list[i].name) \subseteq PartSet(list[i])
    <3>1. list[i].name \in Names
      BY <2>1, ListTypes
    <3> QED BY <3>1, <2>4 DEF ListedWhole, AllUp
  <2>7. ASSUME NEW m \in Mounts
        PROVE  LET d == list[Place(m.name)] IN
               /\ table[m.name].open
               /\ d.inst = table[m.name].inst => m.inst = table[m.name].inst
    <3> DEFINE n == m.name  i == Place(n)
    <3>1. n \in Names /\ Listed(n) /\ m \in Mount
      BY <2>1, MountTypes DEF MountsNoted, Listed
    <3>2. table[n].open /\ i \in DOMAIN list /\ list[i].name = n
      BY <3>1, <2>1, <2>5, PlaceIs
    <3>3. table[n].inst \in 1..MaxInsert /\ m.inst \in 1..MaxInsert
      <4>1. table[n].inst \in 1..MaxInsert
        BY <3>1, <3>2, <2>1, TableTypes, DiskTypes
      <4> QED BY <4>1, <3>1 DEF Mount
    <3> HIDE DEF i
    <3>4. m.inst <= table[n].inst /\ list[i].inst <= m.inst
      BY <3>2, <3>3, <2>1 DEF InstOrder
    <3>5. list[i].inst = table[n].inst => m.inst = table[n].inst
      BY <3>3, <3>4
    <3> QED BY <3>2, <3>5 DEF i
  <2> QED BY <2>5, <2>6, <2>7
<1>2. IInv /\ MountInv => ListSettles
  BY <1>1
<1> QED BY <1>2, MountsInductive, PTL

-----------------------------------------------------------------------------
(* What the app finds under a mount point.                                    *)

LEMMA MarksStep ==
  ASSUME DirsApart, Prefix = {}, IInv, MountInv, MarksTrue, [Next]_vars
  PROVE  MarksTrue'
<1>0. TypeOK /\ OwnPaths /\ WorkListed /\ InHand /\ MountsOnce /\ MountsNoted /\ MediumMounted
  BY DEF IInv, MountInv
<1> DEFINE Has(n, p) == \E m : In(m, mounts) /\ m.name = n /\ p \in {m.num, Whole}
           Has1(n, p) == \E m : In(m, mounts)' /\ m.name = n /\ p \in {m.num, Whole}
<1>1. \A i \in DOMAIN list : \A j \in DOMAIN list[i].parts :
        list[i].parts[j].mounted => Has(list[i].name, list[i].parts[j].num)
  BY MountsIs DEF MarksTrue, MountsOf
<1>2. ASSUME \A i \in DOMAIN list' : \A j \in DOMAIN list'[i].parts :
               list'[i].parts[j].mounted => Has1(list'[i].name, list'[i].parts[j].num)
      PROVE  MarksTrue'
  BY <1>2, MountsIs DEF MarksTrue, MountsOf
<1>3. CASE Quiet
  <2>1. list' = list /\ mounts' = mounts
    BY <1>0, <1>3, QuietIs
  <2> QED BY <2>1, <1>1, <1>2 DEF In
<1>4. ASSUME mounts' = mounts, NEW n, NEW p, Has(n, p) PROVE Has1(n, p)
  BY <1>4 DEF In
<1>5. CASE Mnt1 \/ Mnt2
  <2>1. Grows(list') /\ mounts' = mounts
    BY <1>0, <1>5, Mnt1List, Mnt2List DEF Mnt1, Scan, Mnt2, kernel
  <2> HIDE DEF Has, Has1
  <2>2. ASSUME NEW i \in DOMAIN list', NEW j \in DOMAIN list'[i].parts,
               list'[i].parts[j].mounted
        PROVE  Has1(list'[i].name, list'[i].parts[j].num)
    <3>1. CASE i \in DOMAIN list
      <4>1. Grown(list[i], list'[i])
        BY <2>1, <3>1 DEF Grows
      <4>2. j \in DOMAIN list[i].parts
        BY <4>1, <2>2 DEF Grown, Clean
      <4>3. /\ list[i].parts[j].mounted /\ list[i].name = list'[i].name
            /\ list[i].parts[j].num = list'[i].parts[j].num
        BY <4>1, <4>2, <2>2 DEF Grown, SameDisk
      <4> QED BY <3>1, <4>2, <4>3, <2>1, <1>1, <1>4
    <3>2. CASE i \notin DOMAIN list
      <4>1. Clean(list'[i].parts[j])
        BY <3>2, <2>1, <2>2 DEF Grows, Added
      <4> QED BY <4>1, <2>2 DEF Clean
    <3> QED BY <3>1, <3>2
  <2> QED BY <2>2, <1>2
<1>6. CASE Mnt3Done
  <2>1. Done(list') /\ mounts' = mounts
    BY <1>0, <1>6, Mnt3DoneList DEF Mnt3Done, kernel
  <2> HIDE DEF Has, Has1
  <2>2. \A i \in DOMAIN list' : i \in DOMAIN list /\ list[i].name = list'[i].name
                                /\ list'[i].parts = list[i].parts
    BY <2>1 DEF Done, SameDisk
  <2>3. \A i \in DOMAIN list' : \A j \in DOMAIN list'[i].parts :
          list'[i].parts[j].mounted => Has1(list'[i].name, list'[i].parts[j].num)
    BY <2>1, <2>2, <1>1, <1>4
  <2> QED BY <2>3, <1>2
<1>7. CASE Third
  <2>1. PICK n \in Names, p \in Nums : Pass3(n, p)
    BY <1>0, <1>7, ThirdIs
  <2>2. ASSUME NEW k, NEW q, Has(k, q) PROVE Has1(k, q)
    <3>1. CASE mounts' = mounts
      BY <3>1, <2>2, <1>4
    <3>2. CASE mounts' # mounts
      <4>m. PICK x \in Mount : MountedAs(n, p, x)
        BY <1>0, <2>1, <3>2, Pass3Mounts, Zenon
      <4>1. \A m : In(m, mounts) => In(m, mounts)'
        BY <4>m DEF MountedAs
      <4> QED BY <4>1, <2>2
    <3> QED BY <3>1, <3>2
  <2>3. ASSUME NEW path, NEW b, Noted(list', n, p, path, b), b => Has1(n, p)
        PROVE  MarksTrue'
    <3> HIDE DEF Has, Has1
    <3>1. ASSUME NEW i \in DOMAIN list', NEW j \in DOMAIN list'[i].parts,
                 list'[i].parts[j].mounted
          PROVE  Has1(list'[i].name, list'[i].parts[j].num)
      <4>1. /\ i \in DOMAIN list /\ j \in DOMAIN list[i].parts
            /\ list'[i].name = list[i].name /\ list'[i].parts[j].num = list[i].parts[j].num
        BY <2>3, <3>1 DEF Noted, SameDisk
      <4>2. CASE list[i].name = n /\ list[i].parts[j].num = p
        <5>1. list'[i].parts[j].mounted = b
          BY <4>1, <4>2, <2>3 DEF Noted
        <5> QED BY <5>1, <4>1, <4>2, <2>3, <3>1
      <4>3. CASE ~(list[i].name = n /\ list[i].parts[j].num = p)
        <5>1. list'[i].parts[j].mounted = list[i].parts[j].mounted
          BY <4>1, <4>3, <2>3 DEF Noted
        <5> QED BY <5>1, <4>1, <3>1, <2>2, <1>1
      <4> QED BY <4>2, <4>3
    <3> QED BY <3>1, <1>2
  <2>4. CASE list' = list /\ mounts' = mounts
    BY <2>4, <1>1, <1>2, <1>4
  <2>5. CASE mounts' # mounts
    <3>m. PICK x \in Mount : MountedAs(n, p, x)
      BY <1>0, <2>1, <2>5, Pass3Mounts, Zenon
    <3>1. /\ x.name = n /\ x.num = p /\ Noted(list', n, p, x.at, TRUE)
          /\ \A m : In(m, mounts)' <=> In(m, mounts) \/ m = x
      BY <3>m DEF MountedAs
    <3>2. Has1(n, p)
      BY <3>1
    <3> QED BY <3>1, <3>2, <2>3
  <2>6. CASE \E path \in PathsOf(n, p) : Noted(list', n, p, path, FALSE)
    BY <2>6, <2>3
  <2>7. CASE mounts' = mounts /\ FindMountPoint(n, p) /\ Noted(list', n, p, MountedAt(n, p), TRUE)
    <3>1. Has(n, p)
      BY <2>7, MountsIs DEF FindMountPoint, MountsOf
    <3> QED BY <3>1, <2>2, <2>3, <2>7
  <2>8. \/ list' = list /\ mounts' = mounts
        \/ mounts' # mounts
        \/ \E path \in PathsOf(n, p) : Noted(list', n, p, path, FALSE)
        \/ mounts' = mounts /\ FindMountPoint(n, p) /\ Noted(list', n, p, MountedAt(n, p), TRUE)
    BY <1>0, <2>1, Pass3Cases, Zenon
  <2> QED BY <2>4, <2>5, <2>6, <2>7, <2>8
<1>8. CASE EvRemove
  <2> DEFINE n == Head(uevents)[2]
  <2>1. Gone(list', n) /\ \A m : In(m, mounts)' <=> In(m, mounts) /\ m.name # n
    BY <1>0, <1>8, RemoveDiskList, RemoveExact DEF EvRemove
  <2> HIDE DEF n
  <2>2. ASSUME NEW k, NEW q, Has(k, q), k # n PROVE Has1(k, q)
    BY <2>1, <2>2
  <2> HIDE DEF Has, Has1
  <2>3. ASSUME NEW i \in DOMAIN list', NEW j \in DOMAIN list'[i].parts,
               list'[i].parts[j].mounted
        PROVE  Has1(list'[i].name, list'[i].parts[j].num)
    <3>1. list'[i].name # n /\ \E k \in DOMAIN list : list'[i] = list[k]
      BY <2>1 DEF Gone
    <3> QED BY <3>1, <2>2, <2>3, <1>1
  <2> QED BY <2>3, <1>2
<1> QED BY <1>3, <1>5, <1>6, <1>7, <1>8 DEF Next, Quiet, KernelNext, Third

LEMMA AlwaysMarks == DirsApart /\ Prefix = {} => (Spec => [](IInv /\ MountInv /\ MarksTrue))
<1> SUFFICES ASSUME DirsApart, Prefix = {} PROVE Spec => [](IInv /\ MountInv /\ MarksTrue)
  OBVIOUS
<1>1. Init => MarksTrue
  <2> SUFFICES ASSUME Init PROVE MarksTrue
    OBVIOUS
  <2>1. list = <<>>
    BY DEF Init
  <2>2. DOMAIN list = {}
    BY <2>1
  <2> QED BY <2>2 DEF MarksTrue
<1>2. IInv /\ MountInv /\ MarksTrue /\ [Next]_vars => MarksTrue'
  BY MarksStep
<1>3. Spec => [](IInv /\ MountInv)
  BY MountsInductive
<1> QED BY <1>1, <1>2, <1>3, PTL DEF Spec

(* Where disks and partitions have directories of their own, and no name of a *)
(* partition begins another's: what the app finds under the mount point of a  *)
(* partition that is marked as mounted, as long as its file system is there,  *)
(* is that partition.                                                         *)
THEOREM Served == DirsApart /\ Prefix = {} => (Spec => []ServedFromOwn)
<1> SUFFICES ASSUME DirsApart, Prefix = {} PROVE Spec => []ServedFromOwn
  OBVIOUS
<1>1. ASSUME IInv, MountInv, MarksTrue PROVE ServedFromOwn
  <2>0. TypeOK /\ OwnPaths /\ MountsOnce /\ MountsNoted /\ MediumMounted
    BY <1>1 DEF IInv, MountInv
  <2> SUFFICES ASSUME NEW i \in DOMAIN list, NEW j \in DOMAIN list[i].parts,
                      list[i].parts[j].mounted,
                      list[i].parts[j].num \in table[list[i].name].good,
                      \A m \in MountsOf(list[i].name) : m.inst = table[list[i].name].inst
               PROVE  LET at == {k \in DOMAIN mounts : mounts[k].at = list[i].parts[j].mnt}
                      IN /\ at # {} /\ mounts[Max(at)].name = list[i].name
                         /\ mounts[Max(at)].num = list[i].parts[j].num
    BY DEF ServedFromOwn
  <2> DEFINE n == list[i].name  p == list[i].parts[j].num  path == list[i].parts[j].mnt
  <2>1. PICK m \in Mounts : m.name = n /\ p \in {m.num, Whole} /\ m.inst = table[n].inst
    BY <1>1 DEF MarksTrue, MountsOf
  <2>2. n \in Names /\ p \in Nums /\ p \in table[n].good
    BY <2>0, ListTypes
  <2> HIDE DEF n, p, path
  <2>3. /\ table[n].open /\ table[n].parts \subseteq PartNums
        /\ table[n].good \subseteq IF table[n].parts = {} THEN {Whole} ELSE table[n].parts
    <3>1. table[n].good # {}
      BY <2>2
    <3> QED BY <3>1, <2>0, <2>2, TableTypes, DiskTypes
  <2>4. m.num \in table[n].good
    BY <2>0, <2>1, <2>3 DEF MediumMounted
  <2>5. m.num = p
    <3>1. CASE p = Whole
      <4>1. table[n].parts = {}
        BY <3>1, <2>2, <2>3, NumsFinite
      <4> QED BY <4>1, <3>1, <2>3, <2>4
    <3> QED BY <3>1, <2>1
  <2>6. m.at = path
    <3>1. PICK k \in DOMAIN list : \E l \in DOMAIN list[k].parts :
            /\ list[k].name = m.name /\ list[k].parts[l].num = m.num
            /\ list[k].parts[l].mnt = m.at
      BY <2>0 DEF MountsNoted
    <3>2. PICK l \in DOMAIN list[k].parts :
            /\ list[k].name = m.name /\ list[k].parts[l].num = m.num
            /\ list[k].parts[l].mnt = m.at
      BY <3>1
    <3>3. k = i
      BY <3>2, <2>0, <2>1, ListTypes DEF NamesOnce, n
    <3>4. l = j
      BY <3>2, <3>3, <2>0, <2>5, ListTypes DEF NumsOnce, p
    <3> QED BY <3>2, <3>3, <3>4 DEF path
  <2> DEFINE at == {k \in DOMAIN mounts : mounts[k].at = path}
             x  == Max(at)
  <2>7. PICK k \in DOMAIN mounts : mounts[k] = m
    BY DEF Mounts
  <2>8. at # {} /\ at \subseteq 0..Len(mounts) /\ Len(mounts) \in Nat
    BY <2>0, <2>6, <2>7, MountTypes
  <2>9. x \in at
    <3> HIDE DEF at
    <3> QED BY <2>8, MaxIn
  <2>10. x \in DOMAIN mounts /\ mounts[x].at = mounts[k].at
    BY <2>6, <2>7, <2>9
  <2> HIDE DEF x
  <2>11. x = k
    BY <2>0, <2>7, <2>10, MountsApart DEF AtApart
  <2>12. at # {} /\ mounts[x].name = n /\ mounts[x].num = p
    BY <2>1, <2>5, <2>7, <2>8, <2>11
  <2> QED BY <2>12 DEF x, n, p, path
<1>2. IInv /\ MountInv /\ MarksTrue => ServedFromOwn
  BY <1>1
<1> QED BY <1>2, AlwaysMarks, PTL

(* No disk is listed both as a whole and with partitions, as one is that gets *)
(* a partition table without being unplugged.                                 *)
WholeOrParts ==
  \A i \in DOMAIN list : Whole \in PartSet(list[i]) => PartSet(list[i]) = {Whole}

(* A partition that is marked is mounted unless find_mount_point() took the   *)
(* mount of another for it: that needs a partition whose name its own begins, *)
(* or a disk that is listed both as a whole and with partitions.              *)
THEOREM MarksMeanMounted ==
  DirsApart /\ Prefix = {} => (Spec => [](WholeOrParts => MarkedMounted))
<1> SUFFICES ASSUME DirsApart, Prefix = {}
             PROVE  Spec => [](WholeOrParts => MarkedMounted)
  OBVIOUS
<1>1. ASSUME IInv, MountInv, MarksTrue, WholeOrParts PROVE MarkedMounted
  <2> SUFFICES ASSUME NEW i \in DOMAIN list, NEW j \in DOMAIN list[i].parts,
                      list[i].parts[j].mounted
               PROVE  \E m \in MountsOf(list[i].name) : m.num = list[i].parts[j].num
    BY DEF MarkedMounted
  <2>1. TypeOK /\ MountsNoted
    BY <1>1 DEF IInv, MountInv
  <2>2. PICK m \in MountsOf(list[i].name) : list[i].parts[j].num \in {m.num, Whole}
    BY <1>1 DEF MarksTrue
  <2>3. CASE list[i].parts[j].num = m.num
    BY <2>2, <2>3
  <2>4. CASE list[i].parts[j].num = Whole
    <3>1. m \in Mounts /\ m.name = list[i].name
      BY <2>2 DEF MountsOf
    <3>2. PICK k \in DOMAIN list : \E l \in DOMAIN list[k].parts :
            list[k].name = m.name /\ list[k].parts[l].num = m.num
      BY <2>1, <3>1 DEF MountsNoted
    <3>3. k = i
      BY <2>1, <3>1, <3>2, ListTypes, Zenon DEF NamesOnce
    <3>4. m.num \in PartSet(list[i]) /\ Whole \in PartSet(list[i])
      BY <2>4, <3>2, <3>3 DEF PartSet
    <3>5. m.num = Whole
      BY <1>1, <3>4 DEF WholeOrParts
    <3> QED BY <2>2, <2>4, <3>5
  <2> QED BY <2>2, <2>3, <2>4
<1>2. IInv /\ MountInv /\ MarksTrue => (WholeOrParts => MarkedMounted)
  BY <1>1
<1> QED BY <1>2, AlwaysMarks, PTL

-----------------------------------------------------------------------------
(* What the app knows.                                                        *)

(* There is room in a reply for what is mounted of any disk.                  *)
Fits == \A i \in DOMAIN list : Cardinality(MountedParts(list[i])) < MAX_PARTITIONS

(* The disks that count as mounted are some of those there are.               *)
LEMMA MountedAmong ==
  ASSUME NEW l \in Seq(Disk)
  PROVE  \A x \in DOMAIN MountedDisks(l) : \E i \in DOMAIN l : MountedDisks(l)[x] = l[i]
<1>0. Len(l) \in Nat /\ DOMAIN l = 1..Len(l) /\ \A i \in 1..Len(l) : l[i] \in Disk
  OBVIOUS
<1>1. PICK f \in [0..Len(l) -> Seq(Disk)] :
        /\ f[0] = <<>> /\ MountedDisks(l) = f[Len(l)]
        /\ \A i \in 1..Len(l) :
             f[i] = IF l[i].status = "MOUNTED" THEN Append(f[i - 1], l[i]) ELSE f[i - 1]
  BY MountedSteps
<1> DEFINE Among(s) == \A x \in DOMAIN s : \E i \in DOMAIN l : s[x] = l[i]
           S == {k \in Nat : k <= Len(l) => Among(f[k])}
<1>2. 0 \in S
  <2>1. DOMAIN f[0] = {}
    BY <1>1
  <2> QED BY <2>1
<1>3. ASSUME NEW k \in S PROVE k + 1 \in S
  <2>1. ASSUME k + 1 <= Len(l) PROVE Among(f[k + 1])
    <3>1. k \in 0..Len(l) /\ k + 1 \in 1..Len(l) /\ k + 1 - 1 = k /\ k <= Len(l)
      BY <2>1, <1>0
    <3>2. f[k] \in Seq(Disk) /\ Among(f[k])
      BY <3>1
    <3> DEFINE s == f[k]  d == l[k + 1]
    <3>3. f[k + 1] = IF d.status = "MOUNTED" THEN Append(s, d) ELSE s
      BY <3>1, <1>1
    <3>4. d \in Disk /\ \E i \in DOMAIN l : d = l[i]
      BY <3>1, <1>0
    <3>5. Among(Append(s, d))
      <4>1. /\ DOMAIN Append(s, d) = 1..Len(s) + 1 /\ Append(s, d)[Len(s) + 1] = d
            /\ \A i \in 1..Len(s) : Append(s, d)[i] = s[i]
        <5> HIDE DEF s, d
        <5>1. s \in Seq(Disk) /\ d \in Disk
          BY <3>2, <3>4 DEF s
        <5> QED BY <5>1, AppendIs
      <4>2. DOMAIN s = 1..Len(s) /\ Len(s) \in Nat
        BY <3>2
      <4>3. \A x \in 1..Len(s) + 1 : x \in 1..Len(s) \/ x = Len(s) + 1
        BY <4>2
      <4>4. Among(s)
        BY <3>2
      <4> HIDE DEF s, d
      <4> QED BY <3>4, <4>1, <4>2, <4>3, <4>4
    <3> QED BY <3>2, <3>3, <3>5
  <2> HIDE DEF Among
  <2> QED BY <2>1
<1>4. S = Nat
  <2>1. S \subseteq Nat /\ \A k \in S : k + 1 \in S
    BY <1>3
  <2> HIDE DEF S
  <2>c. Closed(S)
    BY <1>2, <2>1 DEF Closed
  <2> QED BY <2>c, Induction
<1>5. Among(f[Len(l)])
  BY <1>0, <1>4
<1> QED BY <1>1, <1>5

(* With room for them, DISK_INFO gives all the disks that are mounted.        *)
LEMMA InfoIsAll ==
  ASSUME TypeOK, Fits
  PROVE  InfoDisks(MountedDisks(list)) = MountedDisks(list)
<1> DEFINE l == MountedDisks(list)
<1>1. list \in Seq(Disk)
  BY ListTypes
<1>2. ASSUME NEW x \in DOMAIN l PROVE ~(Cardinality(MountedParts(l[x])) >= MAX_PARTITIONS)
  <2>1. PICK i \in DOMAIN list : l[x] = list[i]
    BY <1>1, MountedAmong
  <2>2. list[i].parts \in Seq(Part)
    BY ListTypes
  <2>3. IsFiniteSet(MountedParts(list[i]))
    <3>1. MountedParts(list[i]) \subseteq 1..Len(list[i].parts) /\ Len(list[i].parts) \in Nat
      BY <2>2 DEF MountedParts
    <3>2. IsFiniteSet(1..Len(list[i].parts))
      BY <3>1, FS_Interval
    <3> QED BY <3>1, <3>2, FS_Subset
  <2>4. Cardinality(MountedParts(list[i])) \in Nat /\ MAX_PARTITIONS \in Nat
    BY <2>3, FS_CardinalityType, DiskManagerAssumption
  <2>5. Cardinality(MountedParts(list[i])) < MAX_PARTITIONS
    BY DEF Fits
  <2> HIDE DEF l
  <2> QED BY <2>1, <2>4, <2>5
<1>3. {i \in DOMAIN l : Cardinality(MountedParts(l[i])) >= MAX_PARTITIONS} = {}
  BY <1>2
<1> QED BY <1>3 DEF InfoDisks

LEMMA NewsStep ==
  ASSUME Fits, IInv, NewsKept, [Next]_vars
  PROVE  NewsKept'
<1> DEFINE V(l) == ViewOf(Cut(MountedDisks(l), MaxNodes))
           W(l) == NamesOf(Cut(MountedDisks(l), MaxInfoNodes))
<1>0. /\ TypeOK /\ OwnPaths /\ WorkListed /\ InHand /\ Early
      /\ notify \/ app.told \/ app.view \in {V(list), W(list)}
  BY DEF IInv, NewsKept
<1>n. MaxNodes \in Nat /\ MaxInfoNodes \in Nat
  BY DiskManagerAssumption
<1>1. ASSUME notify' \/ app'.told \/ app'.view \in {V(list'), W(list')} PROVE NewsKept'
  BY <1>1 DEF NewsKept
<1>2. list \in Seq(Disk) /\ list' \in Seq(Disk)
  BY StepIInv DEF IInv, TypeOK
<1>3. CASE V(list') = V(list) /\ W(list') = W(list) /\ notify' = notify /\ app' = app
  BY <1>0, <1>1, <1>3
<1> HIDE DEF V, W
<1>4. CASE Quiet
  <2>1. list' = list
    BY <1>0, <1>4, QuietIs
  <2>2. (notify' = notify /\ app' = app) \/ DiskLun \/ DiskInfo \/ NotifyPlug
    <3>1. CASE KernelNext
      <4>1. PICK n \in Names, a \in {"add", "remove", "change"} : KernelStep(n, a)
        BY <1>0, <3>1, KernelIs
      <4> QED BY <4>1 DEF KernelStep, Uevent
    <3>2. CASE Mnt2NotFound \/ Bind \/ EvAdd \/ EvDrop
      BY <3>2 DEF Mnt2NotFound, Bind, EvAdd, EvDrop, DropOf
    <3> QED BY <1>4, <3>1, <3>2 DEF Quiet, vars
  <2>3. CASE DiskLun
    BY <2>1, <2>3, <1>1 DEF DiskLun, Asked, V
  <2>4. CASE DiskInfo
    <3>1. InfoDisks(MountedDisks(list)) = MountedDisks(list)
      BY <1>0, InfoIsAll
    <3> QED BY <2>1, <2>4, <3>1, <1>1 DEF DiskInfo, Asked, W
  <2>5. CASE NotifyPlug
    BY <2>5, <1>0, <1>1 DEF NotifyPlug, TypeOK
  <2> QED BY <2>1, <2>2, <2>3, <2>4, <2>5, <1>3
<1>5. CASE Mnt1 \/ Mnt2
  <2>1. Grows(list') /\ notify' = notify /\ app' = app
    BY <1>0, <1>5, Mnt1List, Mnt2List DEF Mnt1, Scan, Mnt2
  <2>2. Len(list) \in Nat /\ Len(list') \in Nat /\ DOMAIN list = 1..Len(list)
        /\ DOMAIN list' = 1..Len(list') /\ Len(list) <= Len(list')
    BY <2>1, <1>2 DEF Grows
  <2>3. \A i \in 1..Len(list) : /\ list'[i].name = list[i].name /\ list'[i].plug = list[i].plug
                                /\ list'[i].status = list[i].status
    BY <2>1, <2>2 DEF Grows, Grown, SameDisk
  <2>4. \A i \in Len(list) + 1..Len(list') : list'[i].status # "MOUNTED"
    <3> TAKE i \in Len(list) + 1..Len(list')
    <3>1. i \in DOMAIN list' \ DOMAIN list
      BY <2>2
    <3> QED BY <3>1, <2>1 DEF Grows, Added
  <2>5. V(list') = V(list) /\ W(list') = W(list)
    BY <1>2, <1>n, <2>2, <2>3, <2>4, ViewSame DEF V, W
  <2> QED BY <2>1, <2>5, <1>3
<1>6. CASE Third
  <2>1. PICK n \in Names, p \in Nums : Pass3(n, p)
    BY <1>0, <1>6, ThirdIs
  <2>2. /\ DOMAIN list' = DOMAIN list
        /\ \A i \in DOMAIN list : SameDisk(list[i], list'[i]) /\ list'[i].status = list[i].status
    BY <2>1, Pass3Keeps
  <2>3. /\ Len(list) \in Nat /\ Len(list') \in Nat /\ DOMAIN list = 1..Len(list)
        /\ DOMAIN list' = 1..Len(list')
    BY <1>2
  <2>4. Len(list') = Len(list)
    BY <1>2, <2>2, <2>3
  <2>5. \A i \in 1..Len(list) : /\ list'[i].name = list[i].name /\ list'[i].plug = list[i].plug
                                /\ list'[i].status = list[i].status
    BY <2>2, <2>3 DEF SameDisk
  <2>6. \A i \in Len(list) + 1..Len(list') : list'[i].status # "MOUNTED"
    BY <2>3, <2>4
  <2>7. V(list') = V(list) /\ W(list') = W(list)
    BY <1>2, <1>n, <2>3, <2>4, <2>5, <2>6, ViewSame DEF V, W
  <2> QED BY <2>7, <1>3, <1>6, ThirdLeaves
<1>7. CASE Mnt3Done
  <2>1. CASE bound
    BY <2>1, <1>1, <1>7 DEF Mnt3Done
  <2>2. CASE ~bound
    <3>1. app.told
      BY <2>2, <1>0, <1>7 DEF Mnt3Done, Early, Passes
    <3> QED BY <3>1, <1>1, <1>7 DEF Mnt3Done
  <2> QED BY <2>1, <2>2
<1>8. CASE EvRemove
  <2> DEFINE n == Head(uevents)[2]
  <2>1. RemoveDisk(n) /\ notify' = (notify \/ Listed(n)) /\ app' = app
    BY <1>8 DEF EvRemove, RemoveDisk
  <2> HIDE DEF n
  <2>2. CASE Listed(n)
    BY <2>1, <2>2, <1>1
  <2>3. CASE ~Listed(n)
    <3>1. list' = list
      BY <2>1, <2>3 DEF RemoveDisk
    <3>2. notify => notify'
      BY <2>1
    <3> QED BY <3>1, <3>2, <2>1, <1>0, <1>1
  <2> QED BY <2>2, <2>3
<1> QED BY <1>4, <1>5, <1>6, <1>7, <1>8 DEF Next, Quiet, KernelNext, Third

(* As long as there is room in a reply for what is mounted of a disk, the     *)
(* app's last reply, with names and numbers or with names alone, is what the  *)
(* same request would get now, or a notification is pending that will make it *)
(* ask.  (Without that room DISK_INFO leaves disks out, and takes the         *)
(* notification away all the same.)                                           *)
THEOREM NewsArrive == Spec /\ []Fits => []Notified
<1>1. Init => NewsKept
  BY DEF Init, NewsKept
<1>2. IInv /\ Fits /\ NewsKept /\ [Next]_vars => NewsKept'
  BY NewsStep
<1>3. NewsKept => Notified
  BY DEF NewsKept, Notified
<1> QED BY <1>1, <1>2, <1>3, Inductive, PTL DEF Spec

(* With that room a DISKINFO that has nodes for all disks shows them all: what *)
(* protocol.h promises fails only for a disk with as many as MAX_PARTITIONS   *)
(* partitions, which it allows.                                               *)
THEOREM InfoShowsAll == Spec /\ []Fits => InfoComplete
<1> DEFINE l == MountedDisks(list)
           Shows == DiskInfo /\ Len(l) <= MaxInfoNodes
                      /\ (\A i \in DOMAIN list :
                            Cardinality(MountedParts(list[i])) <= MAX_PARTITIONS)
                      => app'.view = NamesOf(l)
<1>1. ASSUME TypeOK, Fits, DiskInfo, Len(l) <= MaxInfoNodes PROVE app'.view = NamesOf(l)
  <2>1. app'.view = NamesOf(Cut(InfoDisks(l), MaxInfoNodes))
    BY <1>1 DEF DiskInfo, Asked
  <2>2. InfoDisks(l) = l
    BY <1>1, InfoIsAll
  <2>3. l \in Seq(Disk)
    <3>1. list \in Seq(Disk) /\ Len(list) \in 0..Len(list)
      BY <1>1, ListTypes
    <3>2. PICK f \in [0..Len(list) -> Seq(Disk)] : l = f[Len(list)]
      BY <3>1, MountedSteps
    <3> QED BY <3>1, <3>2
  <2> HIDE DEF l
  <2>4. ~(Len(l) > MaxInfoNodes)
    BY <1>1, <2>3, DiskManagerAssumption
  <2>5. Cut(l, MaxInfoNodes) = l
    BY <2>4 DEF Cut
  <2> QED BY <2>1, <2>2, <2>5
<1>2. IInv => TypeOK
  BY DEF IInv
<1>3. IInv /\ Fits => [Shows]_vars
  BY <1>1, <1>2
<1>4. [][Shows]_vars => InfoComplete
  BY DEF InfoComplete
<1> HIDE DEF Shows
<1> QED BY <1>3, <1>4, Inductive, PTL

(* There is that room where partitions have fewer than MAX_PARTITIONS numbers. *)
THEOREM RoomForAll == Cardinality(Nums) < MAX_PARTITIONS => (Spec => []Fits)
<1> SUFFICES ASSUME Cardinality(Nums) < MAX_PARTITIONS PROVE Spec => []Fits
  OBVIOUS
<1>1. ASSUME TypeOK, NEW i \in DOMAIN list
      PROVE  Cardinality(MountedParts(list[i])) < MAX_PARTITIONS
  <2> DEFINE d == list[i]  S == MountedParts(d)  g == [j \in S |-> d.parts[j].num]
  <2>1. /\ \A j \in DOMAIN d.parts : d.parts[j].num \in Nums
        /\ \A j, k \in DOMAIN d.parts : d.parts[j].num = d.parts[k].num => j = k
    BY <1>1, ListTypes DEF NumsOnce
  <2>2. g \in [S -> Nums] /\ \A j, k \in S : g[j] = g[k] => j = k
    BY <2>1 DEF MountedParts
  <2> HIDE DEF g, S
  <2>3. g \in Injection(S, Nums)
    BY <2>2 DEF Injection, IsInjective
  <2>4. IsFiniteSet(Nums)
    BY NumsFinite
  <2>5. IsFiniteSet(S) /\ Cardinality(S) <= Cardinality(Nums)
    BY <2>3, <2>4, FS_Injection
  <2>6. Cardinality(S) \in Nat /\ Cardinality(Nums) \in Nat /\ MAX_PARTITIONS \in Nat
    BY <2>4, <2>5, FS_CardinalityType, DiskManagerAssumption
  <2>7. Cardinality(S) < MAX_PARTITIONS
    BY <2>5, <2>6
  <2> QED BY <2>7 DEF S
<1>2. TypeOK => Fits
  BY <1>1 DEF Fits
<1> QED BY <1>2, TypeCorrect, PTL

(* Where the tags of different disks differ, if they have any, and no         *)
(* partition has a number of two digits, directories are apart.               *)
THEOREM TagsApart ==
  ASSUME PartNums \subseteq 1..9,
         \A m, n \in Names : m # n => TagsOf(m) \cap TagsOf(n) \subseteq {NoTag}
  PROVE  DirsApart
<1>1. ASSUME NEW p \in Nums, p # Whole PROVE VolNum(p) = p
  <2>1. p \in 1..9
    BY <1>1 DEF Nums, Whole
  <2>2. p % 10 = p /\ p < 10 /\ p + 0 = p /\ p # 0
    BY <2>1
  <2> QED BY <2>2 DEF VolNum
<1>2. ASSUME NEW port PROVE TagOf(port) = NoTag \/ \E a, b : TagOf(port) = <<a, b>>
  BY Zenon DEF TagOf
<1>3. ASSUME NEW m \in Names, NEW t \in TagsOf(m) PROVE t = NoTag \/ \E a, b : t = <<a, b>>
  BY <1>2, Zenon DEF TagsOf
<1>4. \A m, a, b : <<m>> # <<a, b>>
  OBVIOUS
<1> SUFFICES ASSUME NEW m \in Names, NEW n \in Names, NEW p \in Nums, NEW q \in Nums,
                    PathsOf(m, p) \cap PathsOf(n, q) # {}
             PROVE  m = n /\ (p = q \/ Whole \in {p, q})
  BY DEF DirsApart
<1>5. PICK t \in TagsOf(m), u \in TagsOf(n) :
        MntPoint([name |-> m, tag |-> t], p) = MntPoint([name |-> n, tag |-> u], q)
  BY Zenon DEF PathsOf
<1>6. /\ t = NoTag => MntPoint([name |-> m, tag |-> t], p) = <<<<m>>, p>>
      /\ t # NoTag => MntPoint([name |-> m, tag |-> t], p) = <<t, VolNum(p)>>
      /\ u = NoTag => MntPoint([name |-> n, tag |-> u], q) = <<<<n>>, q>>
      /\ u # NoTag => MntPoint([name |-> n, tag |-> u], q) = <<u, VolNum(q)>>
  BY DEF MntPoint
<1>7. CASE t = NoTag /\ u = NoTag
  <2>1. <<<<m>>, p>> = <<<<n>>, q>>
    BY <1>5, <1>6, <1>7
  <2> QED BY <2>1
<1>8. CASE t # NoTag /\ u # NoTag
  <2>1. <<t, VolNum(p)>> = <<u, VolNum(q)>>
    BY <1>5, <1>6, <1>8
  <2>2. t = u /\ VolNum(p) = VolNum(q)
    BY <2>1
  <2>3. m = n
    BY <2>2, <1>8
  <2> QED BY <2>2, <2>3, <1>1
<1>9. CASE t = NoTag /\ u # NoTag
  <2>1. <<<<m>>, p>> = <<u, VolNum(q)>>
    BY <1>5, <1>6, <1>9
  <2> QED BY <2>1, <1>3, <1>4, <1>9
<1>10. CASE t # NoTag /\ u = NoTag
  <2>1. <<t, VolNum(p)>> = <<<<n>>, q>>
    BY <1>5, <1>6, <1>10
  <2> QED BY <2>1, <1>3, <1>4, <1>10
<1> QED BY <1>7, <1>8, <1>9, <1>10
=============================================================================
