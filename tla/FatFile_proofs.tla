--------------------------- MODULE FatFile_proofs ----------------------------
(***************************************************************************)
(* Proofs about FatFile for every size of sectors, clusters and files.     *)
(***************************************************************************)
EXTENDS FatFile, SequenceTheorems, TLAPS

LEMMA ReadSecterHonest ==
    ASSUME CacheHonest, NEW secter, NEW ok \in BOOLEAN,
           fatReadSecter(secter, ok)
    PROVE  CacheHonest'
BY DEF CacheHonest, fatReadSecter, cache

LEMMA NextClusterHonest ==
    ASSUME CacheHonest, NEW c, NEW next, fatNextCluster(c, next)
    PROVE  CacheHonest'
BY ReadSecterHonest DEF fatNextCluster

LEMMA CacheSame == CacheHonest /\ UNCHANGED cache => CacheHonest'
BY DEF CacheHonest, cache

\* No sequence of hits, misses and broken transfers makes the cache pass one
\* sector off as another.
THEOREM CacheIsHonest == Spec => []CacheHonest
<1>1. Init => CacheHonest BY DEF Init, CacheHonest
<1>2. CacheHonest /\ [Next]_vars => CacheHonest'
  <2> SUFFICES ASSUME CacheHonest, [Next]_vars PROVE CacheHonest' OBVIOUS
  <2>1. CASE Open BY <2>1, ReadSecterHonest DEF Open
  <2>2. CASE Close BY <2>2, CacheSame DEF Close
  <2>3. CASE Seek BY <2>3, CacheSame DEF Seek
  <2>4. CASE Read BY <2>4, CacheSame DEF Read
  <2>5. CASE Move BY <2>5, NextClusterHonest DEF Move
  <2>6. CASE Moved BY <2>6, CacheSame DEF Moved
  <2>7. CASE Skip BY <2>7, CacheSame DEF Skip
  <2>8. CASE Copy BY <2>8, ReadSecterHonest DEF Copy
  <2>9. CASE CopyFails BY <2>9, ReadSecterHonest DEF CopyFails
  <2>10. CASE FailsOn BY <2>10, NextClusterHonest DEF FailsOn
  <2>11. CASE NextCluster BY <2>11, NextClusterHonest DEF NextCluster
  <2>12. CASE Finish BY <2>12, CacheSame DEF Finish
  <2>13. CASE UNCHANGED vars BY <2>13, CacheSame DEF vars
  <2> QED BY <2>1, <2>2, <2>3, <2>4, <2>5, <2>6, <2>7, <2>8, <2>9, <2>10,
             <2>11, <2>12, <2>13 DEF Next, Reads
<1> QED BY <1>1, <1>2, PTL DEF Spec

-----------------------------------------------------------------------------
LEMMA Geometry ==
    /\ BPB_BytsPerSec \in Nat /\ BPB_BytsPerSec > 0
    /\ BPB_SecPerCluster \in Nat /\ BPB_SecPerCluster > 0
    /\ BytesPerCluster \in Nat
    /\ Word \in Nat /\ Word > 0
    /\ MaxSeek \in Nat
    /\ Half \in Nat /\ Half > 0
    /\ Values \subseteq Nat
BY FatAssumption DEF BytesPerCluster, Values

LEMMA TableSecterType ==
    ASSUME NEW c \in Nat
    PROVE  TableSecter(c) \in Secters
<1>1. EntriesPerSecter \in Nat /\ EntriesPerSecter > 0 BY FatAssumption
<1>2. c \div EntriesPerSecter \in Nat BY <1>1
<1> QED BY <1>2 DEF TableSecter, Secters

\* The clusters of a file, one after the other, and none twice.
LEMMA ChainOf ==
    ASSUME NEW f \in Files
    PROVE  /\ Len(f) \in Nat /\ Len(f) > 0
           /\ \A i \in 1 .. Len(f) : f[i] \in Clusters
           /\ \A x, y \in 1 .. Len(f) : f[x] = f[y] => x = y
<1>1. f \in Seq(Clusters) /\ f # << >> BY FatAssumption
<1>2. Len(f) \in Nat /\ \A i \in 1 .. Len(f) : f[i] \in Clusters
  BY <1>1, LenProperties, ElementOfSeq
<1>3. Len(f) # 0 BY <1>1, EmptySeq
<1>4. \A x, y \in 1 .. Len(f) : f[x] = f[y] => x = y BY FatAssumption
<1> QED BY <1>2, <1>3, <1>4

\* The lower half of the number of a file's first cluster is the number itself
\* if and only if there is no upper half.
LEMMA LowerHalf ==
    ASSUME NEW f \in Files
    PROVE  /\ FirstLogicalCluster(f) \in Nat
           /\ FirstLogicalCluster(f) = f[1] <=> f[1] < Half
<1>1. f[1] \in Nat
  <2>1. f[1] \in Clusters BY ChainOf
  <2> QED BY <2>1, FatAssumption
<1> DEFINE n == f[1]
           r == n % Half
<1>2. n \in Nat BY <1>1
<1> HIDE DEF n
<1>3. r \in Nat /\ r < Half BY <1>2, Geometry
<1>4. n < Half => r = n BY <1>2, Geometry
<1>5. r = n <=> n < Half BY <1>3, <1>4
<1> QED BY <1>3, <1>5 DEF n, FirstLogicalCluster

CacheType ==
    /\ Secter_Index \in Secters \cup {NoSecter}
    /\ Secter_Data \in Secters \cup {Garbage}

LEMMA ReadSecterType ==
    ASSUME CacheType, NEW secter \in Secters, NEW ok \in BOOLEAN,
           fatReadSecter(secter, ok)
    PROVE  CacheType'
BY DEF CacheType, fatReadSecter, cache

LEMMA NextClusterType ==
    ASSUME CacheType, NEW c \in Nat, NEW next \in Values,
           fatNextCluster(c, next), lost \in BOOLEAN
    PROVE  CacheType' /\ lost' \in BOOLEAN
<1>1. TableSecter(c) \in Secters BY TableSecterType
<1>2. CacheType' BY <1>1, ReadSecterType DEF fatNextCluster
<1>3. lost' \in BOOLEAN BY DEF fatNextCluster
<1> QED BY <1>2, <1>3

LEMMA ReturnType ==
    ASSUME TypeOK, NEW ok \in BOOLEAN, Return(ok)
    PROVE  /\ pc' = "idle" /\ bSuccess' \in BOOLEAN /\ data' \in Seq(Bytes)
           /\ SeekPos' \in Nat
<1>1. nBufferSize \in Nat BY FatAssumption DEF TypeOK
<1> QED BY <1>1 DEF TypeOK, Return

\* What the two actions that go to another cluster have in common.
LEMMA EntersType ==
    ASSUME TypeOK, NEW next \in Values, fatNextCluster(Cluster, next),
           Cluster' = IF next = 0 THEN Cluster ELSE next,
           (next = 0 /\ Return(FALSE)) \/ (next # 0 /\ NoReturn)
    PROVE  /\ CacheType' /\ lost' \in BOOLEAN /\ Cluster' \in Nat
           /\ pc' \in {"idle", "move", "read", "failed"} /\ bSuccess' \in BOOLEAN
           /\ data' \in Seq(Bytes) /\ SeekPos' \in Nat
<1>1. CacheType /\ Cluster \in Nat /\ lost \in BOOLEAN
  BY DEF TypeOK, CacheType
<1>2. CacheType' /\ lost' \in BOOLEAN BY <1>1, NextClusterType
<1>3. Cluster' \in Nat BY <1>1, Geometry
<1>4. CASE Return(FALSE) BY <1>2, <1>3, <1>4, ReturnType
<1>5. CASE NoReturn BY <1>2, <1>3, <1>5 DEF NoReturn, TypeOK, returned
<1> QED BY <1>4, <1>5

\* A copy stays within the sector, and within the buffer that is asked for.
LEMMA CopyType ==
    ASSUME TypeOK, Copy
    PROVE  /\ CacheType' /\ pBuffer' \in Seq(Bytes)
           /\ Len(pBuffer') <= nBufferSize /\ s' \in 0 .. BPB_SecPerCluster
           /\ Len(pBuffer') \in Nat /\ Len(pBuffer) < Len(pBuffer')
<1>1. /\ Pos \in Nat /\ Pos < BPB_BytsPerSec /\ nBufferSize \in Nat
      /\ Len(pBuffer) \in Nat /\ Len(pBuffer) < nBufferSize
      /\ s \in 0 .. BPB_SecPerCluster - 1 /\ Cluster \in Nat
      /\ pBuffer \in Seq(Bytes)
  BY FatAssumption, Geometry, LenProperties DEF TypeOK, Copy, Reading
<1>2. DataSecter(Cluster, s) \in Secters BY <1>1 DEF DataSecter, Secters
<1>3. CacheType' BY <1>2, ReadSecterType DEF Copy, TypeOK, CacheType
<1>4. /\ CopyCount \in Nat /\ CopyCount > 0 /\ CopyCount <= BPB_BytsPerSec - Pos
      /\ CopyCount <= nBufferSize - Len(pBuffer)
  BY <1>1, Geometry DEF CopyCount
<1> DEFINE piece == [x \in 1 .. CopyCount |-> <<Secter_Data', Pos + x - 1>>]
<1>5. \A x \in 1 .. CopyCount : <<Secter_Data', Pos + x - 1>> \in Bytes
  <2> TAKE x \in 1 .. CopyCount
  <2>1. Pos + x - 1 \in 0 .. BPB_BytsPerSec - 1 BY <1>1, <1>4, Geometry
  <2> QED BY <1>3, <2>1 DEF Bytes, CacheType
<1>6. piece \in Seq(Bytes) /\ Len(piece) = CopyCount
  BY <1>4, <1>5, IsASeq
<1>7. pBuffer' = pBuffer \o piece BY DEF Copy
<1> HIDE DEF piece
<1>8. pBuffer' \in Seq(Bytes) /\ Len(pBuffer') = Len(pBuffer) + CopyCount
  BY <1>1, <1>6, <1>7, ConcatProperties
<1>9. s' \in 0 .. BPB_SecPerCluster BY <1>1, Geometry DEF Copy
<1> QED BY <1>1, <1>3, <1>4, <1>8, <1>9

\* Every variable stays within its type: positions do not leave the width of
\* their word, no copy passes the end of the sector or of the buffer, and the
\* sector counter of a read not that of its cluster, on whatever chain.
THEOREM FatTypes == Spec => []TypeOK
<1>1. Init => TypeOK
  <2> SUFFICES ASSUME Init PROVE TypeOK OBVIOUS
  <2>1. << >> \in Seq(Bytes) /\ Len(<< >>) = 0 BY EmptySeq
  <2>2. pBuffer \in Seq(Bytes) /\ Len(pBuffer) <= nBufferSize /\ data \in Seq(Bytes)
    BY <2>1 DEF Init
  <2>3. IsOpened \in BOOLEAN /\ bSuccess \in BOOLEAN /\ lost \in BOOLEAN
    BY DEF Init
  <2>4. s \in 0 .. BPB_SecPerCluster /\ Pos \in 0 .. Word - 1 /\ SeekPos \in Nat
        /\ ClusterSeq \in Nat
    BY Geometry DEF Init
  <2> QED BY <2>2, <2>3, <2>4, Geometry DEF Init, TypeOK
<1>2. TypeOK /\ [Next]_vars => TypeOK'
  <2> SUFFICES ASSUME TypeOK, [Next]_vars PROVE TypeOK' OBVIOUS
  <2>c. CacheType BY DEF TypeOK, CacheType
  <2>1. CASE Open
    <3>1. [of |-> "directory"] \in Secters BY DEF Secters
    <3>2. CacheType' BY <2>1, <2>c, <3>1, ReadSecterType DEF Open
    <3>3. SeekPos' \in Nat /\ fCluster' \in Nat /\ ClusterSeq' \in Nat
      <4>1. SeekPos \in Nat /\ fCluster \in Nat /\ ClusterSeq \in Nat
        BY DEF TypeOK
      <4>2. \/ /\ SeekPos' = 0 /\ ClusterSeq' = 0
               /\ fCluster' = FirstLogicalCluster(chain') /\ chain' \in Files
            \/ SeekPos' = SeekPos /\ fCluster' = fCluster /\ ClusterSeq' = ClusterSeq
        BY <2>1 DEF Open
      <4> QED BY <4>1, <4>2, LowerHalf
    <3>4. IsOpened' \in BOOLEAN /\ chain' \in Files BY <2>1 DEF Open, TypeOK
    <3>5. lost' \in BOOLEAN BY <2>1 DEF Open, TypeOK
    <3> QED BY <2>1, <3>2, <3>3, <3>4, <3>5 DEF Open, TypeOK, CacheType, locals, returned
  <2>2. CASE Close
    BY <2>2 DEF Close, TypeOK, locals, returned, cache
  <2>3. CASE Seek
    <3>1. SeekPos' \in Nat /\ fCluster' \in Nat /\ ClusterSeq' \in Nat
      BY <2>3, Geometry, LowerHalf DEF Seek, TypeOK
    <3> QED BY <2>3, <3>1 DEF Seek, TypeOK, locals, returned, cache
  <2>4. CASE Read
    <3>1. SeekPos - ClusterSeq * BytesPerCluster \in Int
      BY Geometry DEF TypeOK
    <3>2. Pos' \in 0 .. Word - 1
      <4> DEFINE d == SeekPos - ClusterSeq * BytesPerCluster
      <4>1. d \in Int BY <3>1
      <4>2. Pos' = d % Word BY <2>4 DEF Read
      <4> HIDE DEF d
      <4> QED BY <4>1, <4>2, Geometry
    <3>3. << >> \in Seq(Bytes) /\ Len(<< >>) = 0 BY EmptySeq
    <3>4. nBufferSize' \in ReadSizes /\ nBufferSize' \in Nat
      BY <2>4, FatAssumption DEF Read
    <3>5. pc' \in {"idle", "move", "read"} BY <2>4 DEF Read
    <3> QED BY <2>4, <3>2, <3>3, <3>4, <3>5, Geometry
            DEF Read, TypeOK, handle, cache, returned
  <2>5. CASE Move
    <3>1. PICK next \in Values :
            /\ fatNextCluster(Cluster, next)
            /\ Cluster' = IF next = 0 THEN Cluster ELSE next
            /\ (next = 0 /\ Return(FALSE)) \/ (next # 0 /\ NoReturn)
      BY <2>5 DEF Move
    <3>2. /\ CacheType' /\ lost' \in BOOLEAN /\ Cluster' \in Nat
          /\ pc' \in {"idle", "move", "read", "failed"} /\ bSuccess' \in BOOLEAN
          /\ data' \in Seq(Bytes) /\ SeekPos' \in Nat
      BY <3>1, EntersType
    <3>3. Pos' \in 0 .. Word - 1 BY <2>5, Geometry DEF Move, TypeOK
    <3> QED BY <2>5, <3>2, <3>3 DEF Move, TypeOK, CacheType
  <2>6. CASE Moved
    BY <2>6 DEF Moved, TypeOK, handle, cache, locals, returned
  <2>7. CASE Skip
    <3>1. Pos' \in 0 .. Word - 1 BY <2>7, Geometry DEF Skip, TypeOK
    <3>2. s' \in 0 .. BPB_SecPerCluster BY <2>7, Geometry DEF Skip, TypeOK
    <3> QED BY <2>7, <3>1, <3>2 DEF Skip, TypeOK, handle, cache, returned
  <2>8. CASE Copy
    <3>1. Pos' \in 0 .. Word - 1 BY <2>8, Geometry DEF Copy
    <3> QED BY <2>8, <3>1, CopyType DEF Copy, TypeOK, CacheType, handle, returned
  <2>9. CASE CopyFails
    <3>1. DataSecter(Cluster, s) \in Secters
      BY <2>9, Geometry DEF CopyFails, DataSecter, Secters, TypeOK
    <3>2. CacheType' BY <2>9, <2>c, <3>1, ReadSecterType DEF CopyFails
    <3> QED BY <2>9, <3>2
            DEF CopyFails, TypeOK, CacheType, handle, locals, returned
  <2>10. CASE NextCluster
    <3>1. PICK next \in Values :
            /\ fatNextCluster(Cluster, next)
            /\ Cluster' = IF next = 0 THEN Cluster ELSE next
            /\ (next = 0 /\ Return(FALSE)) \/ (next # 0 /\ NoReturn)
      BY <2>10 DEF NextCluster
    <3>2. /\ CacheType' /\ lost' \in BOOLEAN /\ Cluster' \in Nat
          /\ pc' \in {"idle", "move", "read", "failed"} /\ bSuccess' \in BOOLEAN
          /\ data' \in Seq(Bytes) /\ SeekPos' \in Nat
      BY <3>1, EntersType
    <3> QED BY <2>10, <3>2, Geometry DEF NextCluster, TypeOK, CacheType
  <2>11. CASE Finish
    <3>1. /\ pc' = "idle" /\ bSuccess' \in BOOLEAN /\ data' \in Seq(Bytes)
          /\ SeekPos' \in Nat
      BY <2>11, ReturnType DEF Finish
    <3> QED BY <2>11, <3>1 DEF Finish, TypeOK, cache, locals
  <2>12. CASE FailsOn
    <3>1. PICK next \in Values :
            /\ fatNextCluster(Cluster, next)
            /\ Cluster' = IF next = 0 THEN Cluster ELSE next
      BY <2>12 DEF FailsOn
    <3>2. Cluster \in Nat /\ lost \in BOOLEAN BY DEF TypeOK
    <3>3. CacheType' /\ lost' \in BOOLEAN BY <2>c, <3>1, <3>2, NextClusterType
    <3>4. /\ pc' = "idle" /\ bSuccess' \in BOOLEAN /\ data' \in Seq(Bytes)
          /\ SeekPos' \in Nat
      BY <2>12, ReturnType DEF FailsOn
    <3>5. Cluster' \in Nat BY <3>1, <3>2, Geometry
    <3> QED BY <2>12, <3>3, <3>4, <3>5 DEF FailsOn, TypeOK, CacheType
  <2>13. CASE UNCHANGED vars
    BY <2>13 DEF vars, TypeOK, handle, cache, locals, returned
  <2> QED BY <2>1, <2>2, <2>3, <2>4, <2>5, <2>6, <2>7, <2>8, <2>9, <2>10,
             <2>11, <2>12, <2>13 DEF Next, Reads
<1> QED BY <1>1, <1>2, PTL DEF Spec
-----------------------------------------------------------------------------
(* The handle stands where its count says *)

LEMMA ClusterPositive == BytesPerCluster > 0
BY FatAssumption DEF BytesPerCluster

\* A quotient and a remainder are found again.
LEMMA Quotient ==
    ASSUME NEW b \in Nat, NEW q \in Nat, NEW r \in Nat, r < b
    PROVE  (q * b + r) \div b = q /\ (q * b + r) % b = r
<1> DEFINE a == q * b + r
           d == a \div b
           m == a % b
<1>1. a \in Nat /\ b > 0 OBVIOUS
<1>2. d \in Int /\ m \in Nat /\ m < b /\ a = b * d + m BY <1>1
<1>3. q * b + r = d * b + m BY <1>2
<1> HIDE DEF d, m
<1>4. d <= q
  <2> SUFFICES ASSUME d >= q + 1 PROVE FALSE BY <1>2
  <2>1. d * b >= (q + 1) * b BY <1>1, <1>2
  <2>2. (q + 1) * b = q * b + b OBVIOUS
  <2> QED BY <1>2, <1>3, <2>1, <2>2
<1>5. q <= d
  <2> SUFFICES ASSUME q >= d + 1 PROVE FALSE BY <1>2
  <2>1. q * b >= (d + 1) * b BY <1>1, <1>2
  <2>2. (d + 1) * b = d * b + b BY <1>2
  <2> QED BY <1>2, <1>3, <2>1, <2>2
<1>6. d = q BY <1>2, <1>4, <1>5
<1>7. m = r BY <1>2, <1>3, <1>6
<1> QED BY <1>6, <1>7 DEF d, m

\* What a product with the size of a cluster says about a position.
LEMMA ClusterOf ==
    ASSUME NEW p \in Nat, NEW n \in Nat
    PROVE  /\ n <= p \div BytesPerCluster <=> n * BytesPerCluster <= p
           /\ n = p \div BytesPerCluster => p < n * BytesPerCluster + BytesPerCluster
<1> DEFINE b == BytesPerCluster
           d == p \div b
<1>1. b \in Nat /\ b > 0 BY Geometry, ClusterPositive
<1> HIDE DEF b
<1>2. d \in Nat /\ d * b <= p /\ p < d * b + b BY <1>1
<1> HIDE DEF d
<1>3. n <= d => n * b <= p
  <2> SUFFICES ASSUME n <= d PROVE n * b <= p OBVIOUS
  <2>1. n * b <= d * b BY <1>1, <1>2
  <2> QED BY <1>1, <1>2, <2>1
<1>4. n * b <= p => n <= d
  <2> SUFFICES ASSUME ~(n <= d) PROVE ~(n * b <= p) OBVIOUS
  <2>1. n >= d + 1 /\ n * b >= (d + 1) * b BY <1>1, <1>2
  <2>2. (d + 1) * b = d * b + b BY <1>1, <1>2
  <2> QED BY <1>1, <1>2, <2>1, <2>2
<1> QED BY <1>2, <1>3, <1>4 DEF d, b

\* A byte of the file is found at its place in its sector.
LEMMA Located ==
    ASSUME NEW f, NEW n \in Nat, NEW t \in 0 .. BPB_SecPerCluster - 1,
           NEW o \in 0 .. BPB_BytsPerSec - 1
    PROVE  File(f, n * BytesPerCluster + t * BPB_BytsPerSec + o)
               = <<DataSecter(f[n + 1], t), o>>
<1> DEFINE r == t * BPB_BytsPerSec + o
           p == n * BytesPerCluster + t * BPB_BytsPerSec + o
<1>1. t \in Nat /\ o \in Nat /\ o < BPB_BytsPerSec /\ t <= BPB_SecPerCluster - 1
  BY Geometry
<1>2. r \in Nat /\ r < BytesPerCluster
  <2>1. t * BPB_BytsPerSec <= (BPB_SecPerCluster - 1) * BPB_BytsPerSec
    BY <1>1, Geometry
  <2>2. (BPB_SecPerCluster - 1) * BPB_BytsPerSec = BytesPerCluster - BPB_BytsPerSec
    BY Geometry DEF BytesPerCluster
  <2>3. t * BPB_BytsPerSec \in Nat BY <1>1, Geometry
  <2> QED BY <1>1, <2>1, <2>2, <2>3, Geometry
<1>3. r \div BPB_BytsPerSec = t /\ r % BPB_BytsPerSec = o
  BY <1>1, Geometry, Quotient
<1>4. p = n * BytesPerCluster + r
  BY <1>1, Geometry
<1> HIDE DEF p, r
<1>5. p \div BytesPerCluster = n /\ p % BytesPerCluster = r
  BY <1>2, <1>4, Geometry, Quotient
<1>6. File(f, p) = <<DataSecter(f[n + 1], t), o>> BY <1>3, <1>5 DEF File
<1> QED BY <1>6 DEF p

LEMMA ChainPlaces ==
    ASSUME chain \in Files
    PROVE  /\ Len(chain) \in Nat /\ Len(chain) > 0
           /\ \A i \in 1 .. Len(chain) : chain[i] \in Clusters
           /\ \A x, y \in 1 .. Len(chain) : chain[x] = chain[y] => x = y
           /\ 0 \notin Clusters /\ Eoc \notin Clusters /\ Clusters \subseteq Nat
BY ChainOf, FatAssumption

\* The entry of a cluster of the file, when it names a cluster, names the
\* next one of the file.
LEMMA EntryIsNext ==
    ASSUME chain \in Files, NEW i \in 1 .. Len(chain), NEW next \in Clusters,
           next \in Entries(chain[i])
    PROVE  i < Len(chain) /\ next = chain[i + 1]
<1> DEFINE c == chain[i]
           x == CHOOSE k \in 1 .. Len(chain) : chain[k] = c
<1>1. \E k \in 1 .. Len(chain) : chain[k] = c OBVIOUS
<1>2. x \in 1 .. Len(chain) /\ chain[x] = c BY <1>1
<1>3. x = i BY <1>2, ChainPlaces
<1>4. next \in {IF chain[Len(chain)] = c THEN Eoc ELSE chain[1 + x]}
  BY <1>1 DEF Entries
<1> HIDE DEF x
<1>5. chain[Len(chain)] # c /\ next = chain[1 + i]
  BY <1>3, <1>4, ChainPlaces
<1>6. i # Len(chain) BY <1>5
<1> QED BY <1>5, <1>6, ChainPlaces

\* Whoever asks the table for the cluster after a cluster of the file, and
\* keeps his place, gets it.
LEMMA TableLeads ==
    ASSUME CacheHonest, chain \in Files, NEW i \in 1 .. Len(chain), NEW next,
           fatNextCluster(chain[i], next), lost \in BOOLEAN, ~lost'
    PROVE  ~lost /\ next \in Clusters /\ i < Len(chain) /\ next = chain[i + 1]
<1> DEFINE t == TableSecter(chain[i])
<1>1. t \in Secters /\ t # NoSecter
  <2>1. chain[i] \in Nat BY ChainPlaces
  <2>2. t \in Secters BY <2>1, TableSecterType
  <2>3. NoSecter \notin Secters BY FatAssumption
  <2> QED BY <2>2, <2>3
<1>2. /\ fatReadSecter(t, TRUE)
      /\ next \in IF Secter_Data' = t THEN Entries(chain[i]) ELSE Values
      /\ ~lost /\ next \in Clusters
  BY DEF fatNextCluster
<1> HIDE DEF t
<1>3. Secter_Data' = t
  BY <1>1, <1>2 DEF fatReadSecter, CacheHonest, cache
<1>4. next \in Entries(chain[i]) BY <1>2, <1>3
<1> QED BY <1>2, <1>4, EntryIsNext
-----------------------------------------------------------------------------
(* The inductive invariant of a read *)

Underway == pc # "idle" => IsOpened /\ nBufferSize > 0

\* The handle and the read under way are in the cluster the handle counts;
\* a read that has met a fault is nowhere.
AtCluster ==
    /\ chain[1] < Half
    /\ ClusterSeq < Len(chain) /\ fCluster = chain[ClusterSeq + 1]
    /\ pc # "idle" => Cluster = fCluster
    /\ pc # "failed"

Resting == pc = "idle" => ClusterSeq * BytesPerCluster <= SeekPos

\* Pos is what lies between the cluster come to and the position.
Moving ==
    pc = "move" => /\ pBuffer = << >> /\ s = 0
                   /\ ClusterSeq * BytesPerCluster + Pos = SeekPos

\* Clusters, sectors and bytes passed add up to the bytes delivered.
Counting ==
    pc = "read" =>
        /\ ClusterSeq * BytesPerCluster <= SeekPos + Len(pBuffer)
        /\ Len(pBuffer) < nBufferSize =>
               ClusterSeq * BytesPerCluster + s * BPB_BytsPerSec + Pos
                   = SeekPos + Len(pBuffer)
        /\ Len(pBuffer) = 0 => s * BPB_BytsPerSec + Pos < BytesPerCluster
        /\ Len(pBuffer) > 0 => Pos = 0

Delivered ==
    pc = "read" =>
        \A k \in 1 .. Len(pBuffer) : pBuffer[k] = File(chain, SeekPos + k - 1)

InPlace ==
    /\ Underway
    /\ ~lost => AtCluster /\ Resting /\ Moving /\ Counting /\ Delivered

Sound == TypeOK /\ CacheHonest /\ InPlace

LEMMA SoundNumbers ==
    ASSUME TypeOK
    PROVE  /\ SeekPos \in Nat /\ ClusterSeq \in Nat /\ Pos \in Nat
           /\ nBufferSize \in Nat /\ s \in Nat /\ s <= BPB_SecPerCluster
           /\ Len(pBuffer) \in Nat /\ Len(pBuffer) <= nBufferSize
           /\ lost \in BOOLEAN /\ pBuffer \in Seq(Bytes) /\ chain \in Files
           /\ ClusterSeq * BytesPerCluster \in Nat
           /\ (ClusterSeq + 1) * BytesPerCluster
                  = ClusterSeq * BytesPerCluster + BytesPerCluster
           /\ s * BPB_BytsPerSec \in Nat
           /\ (s + 1) * BPB_BytsPerSec = s * BPB_BytsPerSec + BPB_BytsPerSec
           /\ s = BPB_SecPerCluster => s * BPB_BytsPerSec = BytesPerCluster
<1>1. /\ SeekPos \in Nat /\ ClusterSeq \in Nat /\ Pos \in Nat
      /\ s \in Nat /\ s <= BPB_SecPerCluster
      /\ Len(pBuffer) <= nBufferSize
      /\ lost \in BOOLEAN /\ pBuffer \in Seq(Bytes) /\ chain \in Files
  BY Geometry DEF TypeOK
<1>2. nBufferSize \in Nat BY FatAssumption DEF TypeOK
<1>3. Len(pBuffer) \in Nat BY <1>1, LenProperties
<1>4. /\ ClusterSeq * BytesPerCluster \in Nat
      /\ (ClusterSeq + 1) * BytesPerCluster
             = ClusterSeq * BytesPerCluster + BytesPerCluster
  BY <1>1, Geometry
<1>5. /\ s * BPB_BytsPerSec \in Nat
      /\ (s + 1) * BPB_BytsPerSec = s * BPB_BytsPerSec + BPB_BytsPerSec
  BY <1>1, Geometry
<1>6. s = BPB_SecPerCluster => s * BPB_BytsPerSec = BytesPerCluster
  BY Geometry DEF BytesPerCluster
<1> QED BY <1>1, <1>2, <1>3, <1>4, <1>5, <1>6

\* The handle at the beginning of a file whose first cluster it knows.
LEMMA AtTheBeginning ==
    ASSUME chain' \in Files, SeekPos' \in Nat, ClusterSeq' = 0, pc' = "idle",
           fCluster' = FirstLogicalCluster(chain'),
           FirstLogicalCluster(chain') = chain'[1]
    PROVE  (AtCluster /\ Resting)'
<1>1. ClusterSeq' * BytesPerCluster = 0 BY Geometry
<1>2. Len(chain') > 0 /\ chain'[1] < Half BY ChainOf, LowerHalf
<1> QED BY <1>1, <1>2 DEF AtCluster, Resting

\* A step that leaves the handle and the read alone leaves them in place.
LEMMA InPlaceSame ==
    ASSUME InPlace, UNCHANGED <<handle, pc, locals, lost>>
    PROVE  InPlace'
BY DEF InPlace, Underway, AtCluster, Resting, Moving, Counting, Delivered,
       handle, locals

LEMMA OpenInPlace == Sound /\ Open => InPlace'
<1> SUFFICES ASSUME Sound, Open PROVE InPlace' OBVIOUS
<1>1. pc = "idle" /\ pc' = "idle" /\ UNCHANGED locals BY DEF Open
<1>2. CASE /\ SeekPos' = 0 /\ ClusterSeq' = 0 /\ chain' \in Files
           /\ fCluster' = FirstLogicalCluster(chain')
           /\ lost' = (FirstLogicalCluster(chain') # chain'[1])
  <2>1. ~lost' => FirstLogicalCluster(chain') = chain'[1] BY <1>2
  <2> QED BY <1>1, <1>2, <2>1, AtTheBeginning
          DEF InPlace, Underway, Moving, Counting, Delivered
<1>3. CASE UNCHANGED <<chain, SeekPos, fCluster, ClusterSeq, lost>>
  BY <1>1, <1>3 DEF Sound, InPlace, Underway, AtCluster, Resting, Moving,
                    Counting, Delivered
<1> QED BY <1>2, <1>3 DEF Open

LEMMA CloseInPlace == Sound /\ Close => InPlace'
BY DEF Sound, Close, InPlace, Underway, AtCluster, Resting, Moving, Counting,
       Delivered, locals

LEMMA SeekInPlace == Sound /\ Seek => InPlace'
<1> SUFFICES ASSUME Sound, Seek PROVE InPlace' OBVIOUS
<1>1. SeekPos' \in Nat BY Geometry DEF Seek
<1>2. pc' = "idle" /\ chain' = chain /\ chain \in Files
  BY SoundNumbers DEF Seek, Sound
<1>3. ~lost' => FirstLogicalCluster(chain') = chain'[1] BY <1>2 DEF Seek
<1> QED BY <1>1, <1>2, <1>3, AtTheBeginning
        DEF Seek, InPlace, Underway, Moving, Counting, Delivered

\* The distance a read starts from did not wrap.
LEMMA ReadInPlace == Sound /\ Read => InPlace'
<1> SUFFICES ASSUME Sound, Read PROVE InPlace' OBVIOUS
<1> USE Geometry, ClusterPositive
<1>1. nBufferSize' > 0 /\ IsOpened' = TRUE
  BY FatAssumption DEF Read, handle
<1>2. Len(pBuffer') = 0 /\ pBuffer' = << >> /\ s' = 0 BY EmptySeq DEF Read
<1>3. SUFFICES ASSUME ~lost
               PROVE  (AtCluster /\ Resting /\ Moving /\ Counting /\ Delivered)'
  BY <1>1 DEF InPlace, Underway, Read
<1>4. /\ SeekPos \in Nat /\ ClusterSeq \in Nat
      /\ ClusterSeq * BytesPerCluster \in Nat
  BY SoundNumbers DEF Sound
<1>5. ClusterSeq * BytesPerCluster <= SeekPos
  BY <1>3 DEF Sound, InPlace, Resting, Read
<1>6. Pos' = SeekPos - ClusterSeq * BytesPerCluster
  <2> DEFINE d == SeekPos - ClusterSeq * BytesPerCluster
  <2>1. d \in Nat /\ d <= SeekPos BY <1>4, <1>5
  <2>2. d < Word /\ Word \in Nat BY <1>4, <2>1, FatAssumption DEF Read
  <2>3. Pos' = d % Word BY DEF Read
  <2> HIDE DEF d
  <2>4. Pos' = d BY <2>1, <2>2, <2>3
  <2> QED BY <2>4 DEF d
<1>7. AtCluster' BY <1>3 DEF Sound, InPlace, AtCluster, Read, handle
<1>8. /\ SeekPos' = SeekPos /\ ClusterSeq' = ClusterSeq
      /\ pc' = IF SeekPos \div BytesPerCluster # ClusterSeq THEN "move" ELSE "read"
  BY DEF Read, handle
<1>9. Moving' BY <1>2, <1>4, <1>6, <1>8 DEF Moving
<1>10. Counting'
  <2> SUFFICES ASSUME pc' = "read" PROVE Counting' BY DEF Counting
  <2>1. SeekPos \div BytesPerCluster = ClusterSeq BY <1>8
  <2>2. SeekPos < ClusterSeq * BytesPerCluster + BytesPerCluster
    BY <1>4, <2>1, ClusterOf
  <2>3. s' * BPB_BytsPerSec = 0 BY <1>2
  <2> QED BY <1>2, <1>4, <1>5, <1>6, <1>8, <2>2, <2>3 DEF Counting
<1>11. Delivered' BY <1>2 DEF Delivered
<1>12. Resting' BY <1>8 DEF Resting
<1> QED BY <1>7, <1>9, <1>10, <1>11, <1>12

\* A handle that keeps its place enters the next cluster of the file.
LEMMA EntersNext ==
    ASSUME Sound, pc # "idle", NEW next \in Values, fatNextCluster(Cluster, next),
           Cluster' = IF next = 0 THEN Cluster ELSE next,
           (next = 0 /\ Return(FALSE)) \/ (next # 0 /\ NoReturn),
           fCluster' = Cluster', ClusterSeq' = ClusterSeq + 1, chain' = chain,
           ~lost'
    PROVE  ~lost /\ NoReturn /\ AtCluster'
<1>1. lost \in BOOLEAN /\ ClusterSeq \in Nat /\ CacheHonest /\ chain \in Files
  BY SoundNumbers DEF Sound
<1>2. ~lost BY <1>1 DEF fatNextCluster
<1>3. /\ chain[1] < Half /\ ClusterSeq < Len(chain) /\ pc # "failed"
      /\ Cluster = chain[ClusterSeq + 1]
  BY <1>2 DEF Sound, InPlace, AtCluster
<1>4. ClusterSeq + 1 \in 1 .. Len(chain) BY <1>1, <1>3, ChainPlaces
<1>5. next \in Clusters /\ ClusterSeq + 1 < Len(chain)
      /\ next = chain[ClusterSeq + 1 + 1]
  BY <1>1, <1>3, <1>4, TableLeads
<1>6. next # 0 /\ NoReturn BY <1>1, <1>5, ChainPlaces
<1>7. AtCluster' BY <1>3, <1>5, <1>6 DEF AtCluster, NoReturn
<1> QED BY <1>2, <1>6, <1>7

LEMMA MoveInPlace == Sound /\ Move => InPlace'
<1> SUFFICES ASSUME Sound, Move PROVE InPlace' OBVIOUS
<1>1. PICK next \in Values :
        /\ fatNextCluster(Cluster, next)
        /\ Cluster' = IF next = 0 THEN Cluster ELSE next
        /\ (next = 0 /\ Return(FALSE)) \/ (next # 0 /\ NoReturn)
  BY DEF Move
<1>2. Underway'
  <2>1. pc # "idle" /\ nBufferSize' = nBufferSize /\ IsOpened' = IsOpened
    BY DEF Move
  <2> QED BY <2>1 DEF Sound, InPlace, Underway
<1>3. SUFFICES ASSUME ~lost'
               PROVE  (AtCluster /\ Resting /\ Moving /\ Counting /\ Delivered)'
  BY <1>2 DEF InPlace
<1>4. ~lost /\ NoReturn /\ AtCluster'
  <2>1. /\ pc # "idle" /\ fCluster' = Cluster' /\ ClusterSeq' = ClusterSeq + 1
        /\ chain' = chain
    BY DEF Move
  <2> QED BY <1>1, <1>3, <2>1, EntersNext
<1>5. pc' = "move" /\ SeekPos' = SeekPos BY <1>4 DEF NoReturn, Move
<1>6. Moving'
  <2>1. pBuffer = << >> /\ s = 0 /\ ClusterSeq * BytesPerCluster + Pos = SeekPos
    BY <1>4 DEF Sound, InPlace, Moving, Move
  <2>2. pBuffer' = << >> /\ s' = 0 BY <2>1 DEF Move
  <2>3. ClusterSeq' * BytesPerCluster + Pos' = SeekPos'
    <3>1. ClusterSeq' = ClusterSeq + 1 /\ Pos' = Pos - BytesPerCluster
      BY DEF Move
    <3>2. /\ Pos \in Nat /\ ClusterSeq * BytesPerCluster \in Nat
          /\ (ClusterSeq + 1) * BytesPerCluster
                 = ClusterSeq * BytesPerCluster + BytesPerCluster
      BY SoundNumbers DEF Sound
    <3>3. ClusterSeq' * BytesPerCluster
              = ClusterSeq * BytesPerCluster + BytesPerCluster
      BY <3>1, <3>2
    <3> HIDE DEF BytesPerCluster
    <3> QED BY <1>5, <2>1, <3>1, <3>2, <3>3, Geometry
  <2> QED BY <2>2, <2>3 DEF Moving
<1> QED BY <1>4, <1>5, <1>6 DEF Resting, Counting, Delivered

LEMMA MovedInPlace == Sound /\ Moved => InPlace'
<1> SUFFICES ASSUME Sound, Moved PROVE InPlace' OBVIOUS
<1>1. /\ pc = "move" /\ pc' = "read" /\ Pos < BytesPerCluster
      /\ UNCHANGED <<handle, locals, lost>>
  BY DEF Moved
<1>2. Underway' BY <1>1 DEF Sound, InPlace, Underway, handle, locals
<1>3. SUFFICES ASSUME ~lost
               PROVE  (AtCluster /\ Resting /\ Moving /\ Counting /\ Delivered)'
  BY <1>1, <1>2 DEF InPlace
<1>4. AtCluster' BY <1>1, <1>3 DEF Sound, InPlace, AtCluster, handle, locals
<1>5. pBuffer = << >> /\ s = 0 /\ ClusterSeq * BytesPerCluster + Pos = SeekPos
  BY <1>1, <1>3 DEF Sound, InPlace, Moving
<1>6. Len(pBuffer) = 0 BY <1>5, EmptySeq
<1>7. Counting'
  <2>1. /\ SeekPos \in Nat /\ Pos \in Nat /\ ClusterSeq * BytesPerCluster \in Nat
    BY SoundNumbers DEF Sound
  <2>2. s * BPB_BytsPerSec = 0 BY <1>5, Geometry
  <2>3. Counting' = /\ ClusterSeq * BytesPerCluster <= SeekPos + Len(pBuffer)
                    /\ Len(pBuffer) < nBufferSize =>
                           ClusterSeq * BytesPerCluster + s * BPB_BytsPerSec + Pos
                               = SeekPos + Len(pBuffer)
                    /\ Len(pBuffer) = 0 =>
                           s * BPB_BytsPerSec + Pos < BytesPerCluster
                    /\ Len(pBuffer) > 0 => Pos = 0
    BY <1>1 DEF Counting, handle, locals
  <2> QED BY <1>1, <1>5, <1>6, <2>1, <2>2, <2>3, Geometry
<1>8. Delivered' BY <1>1, <1>6 DEF Delivered, locals
<1> QED BY <1>1, <1>4, <1>7, <1>8 DEF Resting, Moving
\* The equation of a read that goes on, and what it is about.
LEMMA ReadingOn ==
    ASSUME Sound, Reading, ~lost
    PROVE  /\ ClusterSeq * BytesPerCluster + s * BPB_BytsPerSec + Pos
                  = SeekPos + Len(pBuffer)
           /\ ClusterSeq * BytesPerCluster <= SeekPos + Len(pBuffer)
           /\ Len(pBuffer) = 0 => s * BPB_BytsPerSec + Pos < BytesPerCluster
           /\ Len(pBuffer) > 0 => Pos = 0
           /\ Cluster = chain[ClusterSeq + 1]
BY DEF Sound, InPlace, Reading, Counting, AtCluster

LEMMA SkipInPlace == Sound /\ Skip => InPlace'
<1> SUFFICES ASSUME Sound, Skip PROVE InPlace' OBVIOUS
<1>1. /\ Reading /\ pc = "read" /\ Pos >= BPB_BytsPerSec
      /\ Pos' = Pos - BPB_BytsPerSec /\ s' = s + 1
      /\ UNCHANGED <<handle, pc, nBufferSize, Cluster, pBuffer, lost>>
  BY DEF Skip, Reading
<1>2. Underway' BY <1>1 DEF Sound, InPlace, Underway, handle
<1>3. SUFFICES ASSUME ~lost
               PROVE  (AtCluster /\ Resting /\ Moving /\ Counting /\ Delivered)'
  BY <1>1, <1>2 DEF InPlace
<1>4. AtCluster' BY <1>1, <1>3 DEF Sound, InPlace, AtCluster, handle
<1>5. Delivered' BY <1>1, <1>3 DEF Sound, InPlace, Delivered, handle
<1>6. Counting'
  <2>1. /\ SeekPos \in Nat /\ Pos \in Nat /\ ClusterSeq * BytesPerCluster \in Nat
        /\ s * BPB_BytsPerSec \in Nat /\ Len(pBuffer) \in Nat
        /\ (s + 1) * BPB_BytsPerSec = s * BPB_BytsPerSec + BPB_BytsPerSec
    BY SoundNumbers DEF Sound
  <2>2. Len(pBuffer) = 0 BY <1>1, <1>3, <2>1, ReadingOn, Geometry
  <2>3. s' * BPB_BytsPerSec + Pos' = s * BPB_BytsPerSec + Pos
    BY <1>1, <2>1, Geometry
  <2>4. s' * BPB_BytsPerSec \in Nat /\ Pos' \in Nat
    BY <1>1, <2>1, Geometry
  <2>5. /\ ClusterSeq * BytesPerCluster + s * BPB_BytsPerSec + Pos
               = SeekPos + Len(pBuffer)
        /\ ClusterSeq * BytesPerCluster <= SeekPos + Len(pBuffer)
        /\ s * BPB_BytsPerSec + Pos < BytesPerCluster
    BY <1>1, <1>3, <2>2, ReadingOn
  <2>6. ClusterSeq * BytesPerCluster + s' * BPB_BytsPerSec + Pos'
            = SeekPos + Len(pBuffer)
    BY <2>1, <2>3, <2>4, <2>5
  <2>7. pBuffer' = pBuffer /\ SeekPos' = SeekPos /\ ClusterSeq' = ClusterSeq
    BY <1>1 DEF handle
  <2> QED BY <1>1, <2>2, <2>3, <2>5, <2>6, <2>7, Geometry DEF Counting
<1> QED BY <1>1, <1>4, <1>5, <1>6 DEF Resting, Moving

LEMMA CopyBounds ==
    ASSUME Sound, Copy
    PROVE  /\ Pos < BPB_BytsPerSec /\ s \in 0 .. BPB_SecPerCluster - 1
           /\ CopyCount \in Nat /\ CopyCount > 0
           /\ CopyCount <= BPB_BytsPerSec - Pos
           /\ CopyCount <= nBufferSize - Len(pBuffer)
           /\ CopyCount < nBufferSize - Len(pBuffer) =>
                  CopyCount = BPB_BytsPerSec - Pos
<1>1. /\ Pos \in Nat /\ nBufferSize \in Nat /\ Len(pBuffer) \in Nat
      /\ s \in Nat
  BY SoundNumbers DEF Sound
<1>2. Pos < BPB_BytsPerSec /\ s < BPB_SecPerCluster /\ Len(pBuffer) < nBufferSize
  BY DEF Copy, Reading
<1> QED BY <1>1, <1>2, Geometry DEF CopyCount

\* The copy of a read that is in place takes the bytes that come next.
LEMMA CopyDelivers ==
    ASSUME Sound, Copy, ~lost
    PROVE  /\ Len(pBuffer') = Len(pBuffer) + CopyCount
           /\ \A k \in 1 .. Len(pBuffer') : pBuffer'[k] = File(chain, SeekPos + k - 1)
<1> DEFINE piece == [x \in 1 .. CopyCount |-> <<Secter_Data', Pos + x - 1>>]
           here == DataSecter(Cluster, s)
<1>1. /\ SeekPos \in Nat /\ Pos \in Nat /\ ClusterSeq \in Nat
      /\ ClusterSeq * BytesPerCluster \in Nat
      /\ s * BPB_BytsPerSec \in Nat /\ Len(pBuffer) \in Nat
      /\ pBuffer \in Seq(Bytes)
  BY SoundNumbers DEF Sound
<1>2. /\ Pos < BPB_BytsPerSec /\ s \in 0 .. BPB_SecPerCluster - 1
      /\ CopyCount \in Nat /\ CopyCount <= BPB_BytsPerSec - Pos
  BY CopyBounds
<1>3. /\ ClusterSeq * BytesPerCluster + s * BPB_BytsPerSec + Pos
             = SeekPos + Len(pBuffer)
      /\ Cluster = chain[ClusterSeq + 1]
  BY ReadingOn DEF Copy
<1>4. Secter_Data' = here
  <2>1. here \in Secters
    <3>1. Cluster \in Nat BY DEF Sound, TypeOK
    <3> QED BY <1>2, <3>1 DEF DataSecter, Secters
  <2>2. here # NoSecter BY <2>1, FatAssumption
  <2>3. fatReadSecter(here, TRUE) /\ CacheHonest BY DEF Copy, Sound
  <2> HIDE DEF here
  <2> QED BY <2>2, <2>3 DEF fatReadSecter, CacheHonest, cache
<1>5. \A x \in 1 .. CopyCount : <<Secter_Data', Pos + x - 1>>
                                    = File(chain, SeekPos + Len(pBuffer) + x - 1)
  <2> TAKE x \in 1 .. CopyCount
  <2> DEFINE o == Pos + x - 1
  <2>1. o \in 0 .. BPB_BytsPerSec - 1 BY <1>1, <1>2, Geometry
  <2>2. SeekPos + Len(pBuffer) + x - 1
            = ClusterSeq * BytesPerCluster + s * BPB_BytsPerSec + o
    BY <1>1, <1>2, <1>3
  <2> HIDE DEF o
  <2>3. File(chain, ClusterSeq * BytesPerCluster + s * BPB_BytsPerSec + o)
            = <<DataSecter(chain[ClusterSeq + 1], s), o>>
    BY <1>1, <1>2, <2>1, Located
  <2>4. File(chain, ClusterSeq * BytesPerCluster + s * BPB_BytsPerSec + o)
            = <<Secter_Data', o>>
    BY <1>3, <1>4, <2>3
  <2> QED BY <2>2, <2>4 DEF o
<1>6. Secter_Data' \in Secters \cup {Garbage} BY CopyType DEF Sound, CacheType
<1>7. \A x \in 1 .. CopyCount : <<Secter_Data', Pos + x - 1>> \in Bytes
  <2> TAKE x \in 1 .. CopyCount
  <2>1. Pos + x - 1 \in 0 .. BPB_BytsPerSec - 1 BY <1>1, <1>2, Geometry
  <2> QED BY <1>6, <2>1 DEF Bytes
<1>8. piece \in Seq(Bytes) /\ Len(piece) = CopyCount BY <1>2, <1>7, IsASeq
<1>9. \A x \in 1 .. CopyCount : piece[x] = File(chain, SeekPos + Len(pBuffer) + x - 1)
  BY <1>5
<1>10. pBuffer' = pBuffer \o piece BY DEF Copy
<1> HIDE DEF piece
<1>11. /\ Len(pBuffer') = Len(pBuffer) + CopyCount
       /\ \A k \in 1 .. Len(pBuffer) + CopyCount :
              pBuffer'[k] = IF k <= Len(pBuffer) THEN pBuffer[k]
                            ELSE piece[k - Len(pBuffer)]
  BY <1>1, <1>8, <1>10, ConcatProperties
<1>12. \A k \in 1 .. Len(pBuffer) : pBuffer[k] = File(chain, SeekPos + k - 1)
  BY DEF Sound, InPlace, Delivered, Copy, Reading
<1>13. ASSUME NEW k \in 1 .. Len(pBuffer')
       PROVE  pBuffer'[k] = File(chain, SeekPos + k - 1)
  <2>1. k \in 1 .. Len(pBuffer) + CopyCount BY <1>11
  <2>2. CASE k <= Len(pBuffer)
    <3>1. k \in 1 .. Len(pBuffer) BY <1>1, <2>1, <2>2
    <3> QED BY <1>11, <1>12, <2>1, <2>2, <3>1
  <2>3. CASE ~(k <= Len(pBuffer))
    <3>1. k - Len(pBuffer) \in 1 .. CopyCount BY <1>1, <1>2, <2>1, <2>3
    <3>2. piece[k - Len(pBuffer)]
              = File(chain, SeekPos + Len(pBuffer) + (k - Len(pBuffer)) - 1)
      BY <1>9, <3>1
    <3>3. SeekPos + Len(pBuffer) + (k - Len(pBuffer)) - 1 = SeekPos + k - 1
      BY <1>1, <2>1
    <3> QED BY <1>11, <2>1, <2>3, <3>2, <3>3
  <2> QED BY <2>2, <2>3
<1> QED BY <1>11, <1>13

LEMMA CopyInPlace == Sound /\ Copy => InPlace'
<1> SUFFICES ASSUME Sound, Copy PROVE InPlace' OBVIOUS
<1>1. /\ Reading /\ pc = "read" /\ Pos' = 0 /\ s' = s + 1
      /\ UNCHANGED <<handle, pc, nBufferSize, Cluster, lost>>
  BY DEF Copy, Reading
<1>2. Underway' BY <1>1 DEF Sound, InPlace, Underway, handle
<1>3. SUFFICES ASSUME ~lost
               PROVE  (AtCluster /\ Resting /\ Moving /\ Counting /\ Delivered)'
  BY <1>1, <1>2 DEF InPlace
<1>4. AtCluster' BY <1>1, <1>3 DEF Sound, InPlace, AtCluster, handle
<1>5. Delivered' BY <1>1, <1>3, CopyDelivers DEF Delivered, handle
<1>6. Counting'
  <2>1. /\ SeekPos \in Nat /\ Pos \in Nat /\ ClusterSeq * BytesPerCluster \in Nat
        /\ s * BPB_BytsPerSec \in Nat /\ Len(pBuffer) \in Nat
        /\ nBufferSize \in Nat
        /\ (s + 1) * BPB_BytsPerSec = s * BPB_BytsPerSec + BPB_BytsPerSec
    BY SoundNumbers DEF Sound
  <2>2. /\ CopyCount \in Nat /\ CopyCount > 0
        /\ CopyCount < nBufferSize - Len(pBuffer) =>
               CopyCount = BPB_BytsPerSec - Pos
    BY CopyBounds
  <2>3. Len(pBuffer') = Len(pBuffer) + CopyCount BY <1>3, CopyDelivers
  <2>4. /\ ClusterSeq * BytesPerCluster + s * BPB_BytsPerSec + Pos
               = SeekPos + Len(pBuffer)
        /\ ClusterSeq * BytesPerCluster <= SeekPos + Len(pBuffer)
    BY <1>1, <1>3, ReadingOn
  <2>5. s' * BPB_BytsPerSec = s * BPB_BytsPerSec + BPB_BytsPerSec
    BY <1>1, <2>1
  <2>6. /\ nBufferSize' = nBufferSize /\ SeekPos' = SeekPos
        /\ ClusterSeq' * BytesPerCluster = ClusterSeq * BytesPerCluster
    BY <1>1 DEF handle
  <2> DEFINE c == ClusterSeq * BytesPerCluster
             t == s * BPB_BytsPerSec
             u == s' * BPB_BytsPerSec
             n == Len(pBuffer')
  <2>7. c <= SeekPos + n BY <2>1, <2>2, <2>3, <2>4
  <2>8. n < nBufferSize => c + u + Pos' = SeekPos + n
    <3> SUFFICES ASSUME n < nBufferSize
                 PROVE  c + u + Pos' = SeekPos + n
      OBVIOUS
    <3>1. CopyCount = BPB_BytsPerSec - Pos BY <2>1, <2>2, <2>3
    <3>2. c \in Nat /\ t \in Nat /\ c + t + Pos = SeekPos + Len(pBuffer)
      BY <2>1, <2>4
    <3>3. u = t + BPB_BytsPerSec /\ Pos' = 0 BY <1>1, <2>5
    <3>4. n = Len(pBuffer) + CopyCount /\ BPB_BytsPerSec \in Nat
      BY <2>3, Geometry
    <3>5. Pos \in Nat /\ SeekPos \in Nat /\ Len(pBuffer) \in Nat BY <2>1
    <3> HIDE DEF c, t, u, n
    <3> QED BY <3>1, <3>2, <3>3, <3>4, <3>5
  <2>9. n > 0 BY <2>1, <2>2, <2>3
  <2> QED BY <1>1, <2>6, <2>7, <2>8, <2>9 DEF Counting
<1> QED BY <1>1, <1>4, <1>5, <1>6 DEF Resting, Moving

LEMMA CopyFailsInPlace == Sound /\ CopyFails => InPlace'
<1> SUFFICES ASSUME Sound, CopyFails PROVE InPlace' OBVIOUS
<1>1. pc = "read" /\ lost' = TRUE /\ UNCHANGED <<handle, locals>>
  BY DEF CopyFails, Reading
<1>2. Underway' BY <1>1 DEF Sound, InPlace, Underway, handle, locals
<1> QED BY <1>1, <1>2 DEF InPlace

LEMMA FailsOnInPlace == Sound /\ FailsOn => InPlace'
<1> SUFFICES ASSUME Sound, FailsOn PROVE InPlace' OBVIOUS
<1>1. pc = "failed" /\ pc' = "idle" BY DEF FailsOn, Return
<1>2. lost BY <1>1, SoundNumbers DEF Sound, InPlace, AtCluster
<1>3. lost' = TRUE BY <1>2, SoundNumbers DEF Sound, FailsOn, fatNextCluster
<1> QED BY <1>1, <1>3 DEF InPlace, Underway

\* At the end of a cluster nothing is left of the distance.
LEMMA AtItsEnd ==
    ASSUME Sound, Reading, s = BPB_SecPerCluster, ~lost
    PROVE  /\ Pos = 0 /\ Len(pBuffer) > 0
           /\ ClusterSeq * BytesPerCluster + BytesPerCluster
                  = SeekPos + Len(pBuffer)
<1>1. /\ SeekPos \in Nat /\ Pos \in Nat /\ ClusterSeq * BytesPerCluster \in Nat
      /\ Len(pBuffer) \in Nat /\ s * BPB_BytsPerSec = BytesPerCluster
  BY SoundNumbers DEF Sound
<1>2. Len(pBuffer) # 0 BY <1>1, ReadingOn, Geometry
<1>3. Pos = 0 BY <1>1, <1>2, ReadingOn
<1> QED BY <1>1, <1>2, <1>3, ReadingOn, Geometry

LEMMA NextClusterInPlace == Sound /\ NextCluster => InPlace'
<1> SUFFICES ASSUME Sound, NextCluster PROVE InPlace' OBVIOUS
<1>1. PICK next \in Values :
        /\ fatNextCluster(Cluster, next)
        /\ Cluster' = IF next = 0 THEN Cluster ELSE next
        /\ (next = 0 /\ Return(FALSE)) \/ (next # 0 /\ NoReturn)
  BY DEF NextCluster
<1>2. /\ Reading /\ pc = "read" /\ s = BPB_SecPerCluster
      /\ fCluster' = Cluster' /\ ClusterSeq' = ClusterSeq + 1 /\ s' = 0
      /\ UNCHANGED <<chain, IsOpened, nBufferSize, Pos, pBuffer>>
  BY DEF NextCluster, Reading
<1>3. Underway' BY <1>2 DEF Sound, InPlace, Underway
<1>4. SUFFICES ASSUME ~lost'
               PROVE  (AtCluster /\ Resting /\ Moving /\ Counting /\ Delivered)'
  BY <1>3 DEF InPlace
<1>5. ~lost /\ NoReturn /\ AtCluster' BY <1>1, <1>2, <1>4, EntersNext
<1>6. pc' = "read" /\ SeekPos' = SeekPos BY <1>2, <1>5 DEF NoReturn
<1>7. Delivered' BY <1>2, <1>5, <1>6 DEF Sound, InPlace, Delivered
<1>8. Counting'
  <2>1. /\ Pos = 0 /\ Len(pBuffer) > 0
        /\ ClusterSeq * BytesPerCluster + BytesPerCluster = SeekPos + Len(pBuffer)
    BY <1>2, <1>5, AtItsEnd
  <2>2. /\ SeekPos \in Nat /\ Len(pBuffer) \in Nat
        /\ (ClusterSeq + 1) * BytesPerCluster
               = ClusterSeq * BytesPerCluster + BytesPerCluster
    BY SoundNumbers DEF Sound
  <2>3. ClusterSeq' * BytesPerCluster = SeekPos' + Len(pBuffer')
    BY <1>2, <1>6, <2>1, <2>2
  <2>4. s' * BPB_BytsPerSec = 0 /\ Pos' = 0 BY <1>2, <2>1, Geometry
  <2>5. SeekPos' + Len(pBuffer') \in Nat /\ Len(pBuffer') > 0
    BY <1>2, <1>6, <2>1, <2>2
  <2> QED BY <2>3, <2>4, <2>5 DEF Counting
<1> QED BY <1>5, <1>6, <1>7, <1>8 DEF Resting, Moving

LEMMA FinishInPlace == Sound /\ Finish => InPlace'
<1> SUFFICES ASSUME Sound, Finish PROVE InPlace' OBVIOUS
<1>1. /\ pc = "read" /\ pc' = "idle" /\ SeekPos' = SeekPos + nBufferSize
      /\ Len(pBuffer) >= nBufferSize
      /\ UNCHANGED <<chain, IsOpened, fCluster, ClusterSeq, lost>>
  BY DEF Finish, Return
<1>2. SUFFICES ASSUME ~lost PROVE (AtCluster /\ Resting)'
  BY <1>1 DEF InPlace, Underway, Moving, Counting, Delivered
<1>3. Len(pBuffer) = nBufferSize /\ nBufferSize \in Nat
  BY <1>1, SoundNumbers DEF Sound
<1>4. ClusterSeq * BytesPerCluster <= SeekPos + Len(pBuffer)
  BY <1>1, <1>2 DEF Sound, InPlace, Counting
<1>5. AtCluster' BY <1>1, <1>2 DEF Sound, InPlace, AtCluster
<1> QED BY <1>1, <1>3, <1>4, <1>5 DEF Resting

LEMMA InitInPlace == Init => InPlace
<1> SUFFICES ASSUME Init PROVE InPlace OBVIOUS
<1>1. ClusterSeq * BytesPerCluster = 0 BY Geometry DEF Init
<1> QED BY <1>1, ChainPlaces
        DEF Init, InPlace, Underway, AtCluster, Resting, Moving, Counting, Delivered

LEMMA StepInPlace == Sound /\ [Next]_vars => InPlace'
<1> SUFFICES ASSUME Sound, [Next]_vars PROVE InPlace' OBVIOUS
<1>1. CASE UNCHANGED vars
  BY <1>1, InPlaceSame DEF vars, Sound
<1> QED BY <1>1, OpenInPlace, CloseInPlace, SeekInPlace, ReadInPlace,
           MoveInPlace, MovedInPlace, SkipInPlace, CopyInPlace,
           CopyFailsInPlace, FailsOnInPlace, NextClusterInPlace, FinishInPlace
        DEF Next, Reads

LEMMA AlwaysSound == Spec => []Sound
<1>1. Spec => [](TypeOK /\ CacheHonest) BY FatTypes, CacheIsHonest, PTL
<1>2. (TypeOK /\ CacheHonest) /\ InPlace /\ [Next]_vars => InPlace'
  BY StepInPlace DEF Sound
<1>3. Init => InPlace BY InitInPlace
<1>4. TypeOK /\ CacheHonest /\ InPlace => Sound BY DEF Sound
<1> QED BY <1>1, <1>2, <1>3, <1>4, PTL DEF Spec

\* The cluster a handle remembers is the one its count names, between the
\* calls and during them, in every file whose first cluster it knows, until a
\* fault makes it lose its place.
THEOREM HandleKeepsItsPlace == Spec => []HandleInChain
<1>1. Sound => HandleInChain
  <2> SUFFICES ASSUME Sound, ~lost PROVE HandleInChain BY DEF HandleInChain
  <2>1. AtCluster /\ Resting BY DEF Sound, InPlace
  <2>2. SeekPos \in Nat /\ ClusterSeq \in Nat BY SoundNumbers DEF Sound
  <2>3. pc = "idle" => ClusterSeq <= SeekPos \div BytesPerCluster
    BY <2>1, <2>2, ClusterOf DEF Resting
  <2> QED BY <2>1, <2>3 DEF HandleInChain, AtCluster
<1> QED BY <1>1, AlwaysSound, PTL
-----------------------------------------------------------------------------
(* Every step is a step of what the file promises, or none *)

LEMMA PromiseBegins == Init => Promise!AccessInit
BY DEF Init, Promise!AccessInit

\* What a handle goes to first is promised of exactly the files whose first
\* cluster it knows.
LEMMA BeginPromised ==
    ASSUME pc = "idle", pc' = "idle", IsOpened' = TRUE, ClusterSeq' = 0,
           chain' \in Files,
           lost' = (FirstLogicalCluster(chain') # chain'[1])
    PROVE  Promise!AccessNext
<1>1. ClusterSeq' * BytesPerCluster = 0 BY Geometry
<1>2. ~lost' <=> chain' \in {f \in Files : f[1] < Half} BY LowerHalf
<1>3. Promise!OpenOrSeek BY <1>1, <1>2 DEF Promise!OpenOrSeek
<1> QED BY <1>3 DEF Promise!AccessNext

LEMMA OpenPromised == Sound /\ Open => Promise!AccessNext
<1> SUFFICES ASSUME Sound, Open PROVE Promise!AccessNext OBVIOUS
<1>1. pc = "idle" /\ pc' = "idle" BY DEF Open
<1>2. CASE /\ IsOpened' = TRUE /\ ClusterSeq' = 0 /\ chain' \in Files
           /\ lost' = (FirstLogicalCluster(chain') # chain'[1])
  BY <1>1, <1>2, BeginPromised
<1>3. CASE IsOpened' = FALSE
  BY <1>1, <1>3 DEF Promise!AccessNext, Promise!Close
<1> QED BY <1>2, <1>3 DEF Open

LEMMA ClosePromised == Sound /\ Close => Promise!AccessNext
BY DEF Close, Promise!AccessNext, Promise!Close

LEMMA SeekPromised == Sound /\ Seek => Promise!AccessNext
<1> SUFFICES ASSUME Sound, Seek PROVE Promise!AccessNext OBVIOUS
<1>1. chain' \in Files /\ chain' = chain /\ IsOpened' = TRUE
  BY SoundNumbers DEF Seek, Sound, TypeOK
<1> QED BY <1>1, BeginPromised DEF Seek

LEMMA ReadPromised == Sound /\ Read => Promise!AccessNext
<1> SUFFICES ASSUME Sound, Read PROVE Promise!AccessNext OBVIOUS
<1>1. nBufferSize' > 0 BY FatAssumption DEF Read
<1>2. pc = "idle" /\ pc' # "idle" BY DEF Read
<1>3. IsOpened /\ UNCHANGED <<handle, returned, lost>> BY DEF Read
<1>4. pc # "failed" /\ pc' # "failed" BY DEF Read
<1>5. Promise!Call BY <1>1, <1>2, <1>3, <1>4 DEF Promise!Call, handle, returned
<1> QED BY <1>5 DEF Promise!AccessNext

\* Entering a cluster while bytes are wanted from beyond the one before.
LEMMA EnterPromised ==
    ASSUME Sound, pc # "idle", pc # "failed", NEW next \in Values,
           fatNextCluster(Cluster, next),
           Cluster' = IF next = 0 THEN Cluster ELSE next,
           (next = 0 /\ Return(FALSE)) \/ (next # 0 /\ NoReturn),
           fCluster' = Cluster', ClusterSeq' = ClusterSeq + 1,
           UNCHANGED <<chain, IsOpened, nBufferSize>>,
           ~lost => ClusterSeq * BytesPerCluster + BytesPerCluster
                        < SeekPos + nBufferSize
    PROVE  Promise!AccessNext
<1>1. /\ SeekPos \in Nat /\ ClusterSeq \in Nat /\ lost \in BOOLEAN
      /\ ClusterSeq * BytesPerCluster \in Nat
      /\ (ClusterSeq + 1) * BytesPerCluster
             = ClusterSeq * BytesPerCluster + BytesPerCluster
  BY SoundNumbers DEF Sound
<1>2. SeekPos' = SeekPos BY DEF Return, NoReturn
<1>3. lost' \in BOOLEAN
  BY NextClusterType DEF Sound, TypeOK, CacheType
<1>4. CASE ~lost'
  <2>1. ~lost /\ NoReturn /\ AtCluster' BY <1>4, EntersNext
  <2>2. pc' = pc /\ UNCHANGED <<bSuccess, data>> BY <2>1 DEF NoReturn, returned
  <2>3. ClusterSeq' * BytesPerCluster < Len(chain) * BytesPerCluster
    <3>1. ClusterSeq + 1 < Len(chain) BY <2>1 DEF AtCluster
    <3> DEFINE n == ClusterSeq + 1
               b == BytesPerCluster
    <3>2. n \in Nat /\ n < Len(chain) /\ b \in Nat /\ b > 0 /\ Len(chain) \in Nat
      BY <1>1, <3>1, Geometry, ClusterPositive, ChainPlaces
    <3> HIDE DEF n, b
    <3>3. n * b < Len(chain) * b BY <3>2
    <3> QED BY <3>3 DEF n, b
  <2>4. ClusterSeq' * BytesPerCluster = ClusterSeq * BytesPerCluster + BytesPerCluster
    BY <1>1
  <2>5. Promise!BeyondCluster BY <2>1 DEF Promise!BeyondCluster
  <2>6. Promise!Enter
    BY <1>2, <1>4, <2>1, <2>2, <2>3, <2>4, <2>5 DEF Promise!Enter
  <2> QED BY <2>6 DEF Promise!AccessNext
<1>5. CASE lost' /\ ~lost
  <2>1. Promise!BeyondCluster BY <1>5 DEF Promise!BeyondCluster
  <2>2. \/ pc' = "idle" /\ bSuccess' = FALSE
        \/ pc' = pc
    BY DEF Return, NoReturn
  <2>3. nBufferSize \in Nat /\ nBufferSize > 0
    BY SoundNumbers DEF Sound, InPlace, Underway
  <2>4. Promise!Lose BY <1>2, <1>5, <2>1, <2>2, <2>3 DEF Promise!Lose
  <2> QED BY <2>4 DEF Promise!AccessNext
<1>6. CASE lost' /\ lost
  <2>1. pc' # "failed" BY DEF Return, NoReturn
  <2>2. pc # "failed" /\ UNCHANGED IsOpened OBVIOUS
  <2>3. Promise!Lost BY <1>2, <1>6, <2>1, <2>2 DEF Promise!Lost
  <2> QED BY <2>3 DEF Promise!AccessNext
<1> QED BY <1>1, <1>3, <1>4, <1>5, <1>6

LEMMA MovePromised == Sound /\ Move => Promise!AccessNext
<1> SUFFICES ASSUME Sound, Move PROVE Promise!AccessNext OBVIOUS
<1>1. PICK next \in Values :
        /\ fatNextCluster(Cluster, next)
        /\ Cluster' = IF next = 0 THEN Cluster ELSE next
        /\ (next = 0 /\ Return(FALSE)) \/ (next # 0 /\ NoReturn)
  BY DEF Move
<1>2. /\ pc = "move" /\ Pos >= BytesPerCluster
      /\ fCluster' = Cluster' /\ ClusterSeq' = ClusterSeq + 1
      /\ UNCHANGED <<chain, IsOpened, nBufferSize>>
  BY DEF Move
<1>3. ASSUME ~lost
      PROVE  ClusterSeq * BytesPerCluster + BytesPerCluster < SeekPos + nBufferSize
  <2>1. ClusterSeq * BytesPerCluster + Pos = SeekPos /\ nBufferSize > 0
    BY <1>2, <1>3 DEF Sound, InPlace, Moving, Underway
  <2>2. /\ SeekPos \in Nat /\ Pos \in Nat /\ nBufferSize \in Nat
        /\ ClusterSeq * BytesPerCluster \in Nat
    BY SoundNumbers DEF Sound
  <2> DEFINE c == ClusterSeq * BytesPerCluster
  <2>3. c \in Nat /\ c + Pos = SeekPos BY <2>1, <2>2
  <2> HIDE DEF c
  <2>4. c + BytesPerCluster < SeekPos + nBufferSize
    BY <1>2, <2>1, <2>2, <2>3, Geometry
  <2> QED BY <2>4 DEF c
<1> QED BY <1>1, <1>2, <1>3, EnterPromised

LEMMA NextClusterPromised == Sound /\ NextCluster => Promise!AccessNext
<1> SUFFICES ASSUME Sound, NextCluster PROVE Promise!AccessNext OBVIOUS
<1>1. PICK next \in Values :
        /\ fatNextCluster(Cluster, next)
        /\ Cluster' = IF next = 0 THEN Cluster ELSE next
        /\ (next = 0 /\ Return(FALSE)) \/ (next # 0 /\ NoReturn)
  BY DEF NextCluster
<1>2. /\ Reading /\ pc = "read" /\ s = BPB_SecPerCluster
      /\ fCluster' = Cluster' /\ ClusterSeq' = ClusterSeq + 1
      /\ UNCHANGED <<chain, IsOpened, nBufferSize>>
  BY DEF NextCluster, Reading
<1>3. ASSUME ~lost
      PROVE  ClusterSeq * BytesPerCluster + BytesPerCluster < SeekPos + nBufferSize
  <2>1. ClusterSeq * BytesPerCluster + BytesPerCluster = SeekPos + Len(pBuffer)
    BY <1>2, <1>3, AtItsEnd
  <2>2. SeekPos \in Nat /\ nBufferSize \in Nat /\ Len(pBuffer) \in Nat
    BY SoundNumbers DEF Sound
  <2>3. Len(pBuffer) < nBufferSize BY <1>2 DEF Reading
  <2> QED BY <2>1, <2>2, <2>3
<1> QED BY <1>1, <1>2, <1>3, EnterPromised

\* Within a cluster nothing the caller could see happens.
LEMMA WithinCluster ==
    ASSUME pc \in {"move", "read"}, pc' \in {"move", "read"},
           UNCHANGED <<handle, nBufferSize, returned, lost>>
    PROVE  UNCHANGED Promise!accessVars
BY DEF Promise!accessVars, handle, returned

LEMMA MovedPromised == Moved => UNCHANGED Promise!accessVars
<1> SUFFICES ASSUME Moved PROVE UNCHANGED Promise!accessVars OBVIOUS
<1>1. /\ pc \in {"move", "read"} /\ pc' \in {"move", "read"}
      /\ UNCHANGED <<handle, nBufferSize, returned, lost>>
  BY DEF Moved, locals
<1> QED BY <1>1, WithinCluster

LEMMA SkipPromised == Skip => UNCHANGED Promise!accessVars
<1> SUFFICES ASSUME Skip PROVE UNCHANGED Promise!accessVars OBVIOUS
<1>1. /\ pc \in {"move", "read"} /\ pc' \in {"move", "read"}
      /\ UNCHANGED <<handle, nBufferSize, returned, lost>>
  BY DEF Skip, Reading
<1> QED BY <1>1, WithinCluster

LEMMA CopyPromised == Copy => UNCHANGED Promise!accessVars
<1> SUFFICES ASSUME Copy PROVE UNCHANGED Promise!accessVars OBVIOUS
<1>1. /\ pc \in {"move", "read"} /\ pc' \in {"move", "read"}
      /\ UNCHANGED <<handle, nBufferSize, returned, lost>>
  BY DEF Copy, Reading
<1> QED BY <1>1, WithinCluster

LEMMA CopyFailsPromised == Sound /\ CopyFails => Promise!AccessNext
<1> SUFFICES ASSUME Sound, CopyFails PROVE Promise!AccessNext OBVIOUS
<1>1. /\ pc = "read" /\ pc' = "failed" /\ lost' = TRUE
      /\ UNCHANGED <<handle, locals, returned>>
  BY DEF CopyFails, Reading
<1>2. nBufferSize > 0 BY <1>1 DEF Sound, InPlace, Underway
<1>3. Promise!Fault
  BY <1>1, <1>2 DEF Promise!Fault, handle, locals, returned
<1> QED BY <1>3 DEF Promise!AccessNext

LEMMA FailsOnPromised == Sound /\ FailsOn => Promise!AccessNext
<1> SUFFICES ASSUME Sound, FailsOn PROVE Promise!AccessNext OBVIOUS
<1>1. /\ pc = "failed" /\ pc' = "idle" /\ SeekPos' = SeekPos
      /\ bSuccess' = FALSE /\ UNCHANGED <<chain, IsOpened>>
  BY DEF FailsOn, Return
<1>2. lost BY <1>1, SoundNumbers DEF Sound, InPlace, AtCluster
<1>3. lost' = TRUE BY <1>2, SoundNumbers DEF Sound, FailsOn, fatNextCluster
<1>4. Promise!Fail BY <1>1, <1>3 DEF Promise!Fail
<1> QED BY <1>4 DEF Promise!AccessNext

LEMMA FinishPromised == Sound /\ Finish => Promise!AccessNext
<1> SUFFICES ASSUME Sound, Finish PROVE Promise!AccessNext OBVIOUS
<1>1. /\ pc = "read" /\ pc' = "idle" /\ bSuccess' = TRUE /\ data' = pBuffer
      /\ SeekPos' = SeekPos + nBufferSize /\ Len(pBuffer) >= nBufferSize
      /\ UNCHANGED <<chain, IsOpened, ClusterSeq, lost>>
  BY DEF Finish, Return
<1>2. CASE lost
  BY <1>1, <1>2 DEF Promise!AccessNext, Promise!Lost
<1>3. CASE ~lost
  <2>1. /\ Len(pBuffer) = nBufferSize /\ nBufferSize \in Nat
        /\ pBuffer \in Seq(Bytes)
    BY <1>1, SoundNumbers DEF Sound
  <2>2. \A k \in 1 .. nBufferSize : pBuffer[k] = File(chain, SeekPos + k - 1)
    BY <1>1, <1>3, <2>1 DEF Sound, InPlace, Delivered
  <2>3. pBuffer = [k \in 1 .. nBufferSize |-> pBuffer[k]]
    BY <2>1, LenProperties
  <2>4. data' = [k \in 1 .. nBufferSize |-> File(chain, SeekPos + k - 1)]
    BY <1>1, <2>2, <2>3
  <2>5. nBufferSize > 0 BY <1>1 DEF Sound, InPlace, Underway
  <2>6. Promise!Return BY <1>1, <1>3, <2>4, <2>5 DEF Promise!Return
  <2> QED BY <2>6 DEF Promise!AccessNext
<1> QED BY <1>2, <1>3, SoundNumbers DEF Sound

LEMMA StillPromised == UNCHANGED vars => UNCHANGED Promise!accessVars
BY DEF vars, handle, returned, locals, Promise!accessVars

LEMMA StepPromised == Sound /\ [Next]_vars => [Promise!AccessNext]_(Promise!accessVars)
BY StillPromised, OpenPromised, ClosePromised, SeekPromised, ReadPromised,
   MovePromised, MovedPromised, SkipPromised, CopyPromised, CopyFailsPromised,
   FailsOnPromised, NextClusterPromised, FinishPromised
   DEF Next, Reads

\* Fat_FileRead implements the promise of FileAccess on every volume and
\* chain: whatever is read and sought, a read delivers the bytes at the
\* position or fails, and until the first fault after a seek or an open it
\* delivers them.
THEOREM ReadsImplementAccess == Spec => ReadsTheFile
<1>1. Spec => []Sound BY AlwaysSound
<1>2. Init => Promise!AccessInit BY PromiseBegins
<1>3. Sound /\ [Next]_vars => [Promise!AccessNext]_(Promise!accessVars)
  BY StepPromised
<1> QED BY <1>1, <1>2, <1>3, PTL DEF Spec, ReadsTheFile, Promise!Access
-----------------------------------------------------------------------------
(* A read that is under way gets nearer to its end with every step *)

\* The bytes still to come and to pass over, twice, so that the entry of a
\* next cluster and the way from moving to reading fit in between.
ToGo ==
    CASE pc = "idle" -> 0
      [] pc = "failed" -> 1
      [] OTHER -> 2 + (IF pc = "move" THEN 1 ELSE 0)
                    + (IF s = BPB_SecPerCluster THEN 1 ELSE 0)
                    + 2 * (nBufferSize - Len(pBuffer) + Pos)

Nearer == ToGo \in Nat /\ ToGo' \in Nat /\ ToGo' < ToGo

\* One step of a read whose bytes are still wanted.
LEMMA NearerWithin ==
    ASSUME TypeOK, pc \in {"move", "read"}, pc' \in {"move", "read"},
           Pos' \in Nat, nBufferSize' = nBufferSize, Len(pBuffer') \in Nat,
           Len(pBuffer') <= nBufferSize,
           \/ /\ Len(pBuffer) <= Len(pBuffer') /\ Pos' <= Pos /\ pc' = pc
              /\ Len(pBuffer) < Len(pBuffer') \/ Pos' < Pos
           \/ /\ Len(pBuffer') = Len(pBuffer) /\ Pos' = Pos
              /\ \/ pc = "move" /\ pc' = "read" /\ s' = s
                 \/ pc' = pc /\ s = BPB_SecPerCluster /\ s' = 0
    PROVE  Nearer
<1> DEFINE w == nBufferSize - Len(pBuffer) + Pos
           v == nBufferSize' - Len(pBuffer') + Pos'
           m == IF pc = "move" THEN 1 ELSE 0
           n == IF pc' = "move" THEN 1 ELSE 0
           d == IF s = BPB_SecPerCluster THEN 1 ELSE 0
           e == IF s' = BPB_SecPerCluster THEN 1 ELSE 0
<1>1. /\ Pos \in Nat /\ nBufferSize \in Nat /\ Len(pBuffer) \in Nat
      /\ Len(pBuffer) <= nBufferSize
  BY SoundNumbers
<1>2. w \in Nat /\ v \in Nat BY <1>1
<1>3. ToGo = 2 + m + d + 2 * w BY DEF ToGo
<1>4. ToGo' = 2 + n + e + 2 * v BY DEF ToGo
<1>5. m \in {0, 1} /\ n \in {0, 1} /\ d \in {0, 1} /\ e \in {0, 1} OBVIOUS
<1>6. \/ v < w /\ n = m
      \/ v = w /\ m = 1 /\ n = 0 /\ d = e
      \/ v = w /\ m = n /\ d = 1 /\ e = 0
  BY <1>1, Geometry
<1> HIDE DEF w, v, m, n, d, e
<1>7. ToGo \in Nat /\ ToGo' \in Nat BY <1>2, <1>3, <1>4, <1>5
<1>8. CASE v < w /\ n = m BY <1>2, <1>3, <1>4, <1>5, <1>7, <1>8 DEF Nearer
<1>9. CASE v = w /\ m = 1 /\ n = 0 /\ d = e
  BY <1>2, <1>3, <1>4, <1>5, <1>7, <1>9 DEF Nearer
<1>10. CASE v = w /\ m = n /\ d = 1 /\ e = 0
  BY <1>2, <1>3, <1>4, <1>5, <1>7, <1>10 DEF Nearer
<1> QED BY <1>6, <1>8, <1>9, <1>10

\* One that ends it, or sees it fail.
LEMMA NearerAtEnd ==
    ASSUME TypeOK, \/ pc \in {"move", "read"} /\ pc' \in {"idle", "failed"}
                   \/ pc = "failed" /\ pc' = "idle"
    PROVE  Nearer
<1> DEFINE w == nBufferSize - Len(pBuffer) + Pos
           m == IF pc = "move" THEN 1 ELSE 0
           d == IF s = BPB_SecPerCluster THEN 1 ELSE 0
<1>1. w \in Nat BY SoundNumbers
<1>2. m \in {0, 1} /\ d \in {0, 1} OBVIOUS
<1>3. pc \in {"move", "read"} => ToGo = 2 + m + d + 2 * w BY DEF ToGo
<1>4. pc = "failed" => ToGo = 1 BY DEF ToGo
<1>5. pc' = "idle" => ToGo' = 0 BY DEF ToGo
<1>6. pc' = "failed" => ToGo' = 1 BY DEF ToGo
<1> HIDE DEF w, m, d
<1>7. pc \in {"move", "read"} => ToGo \in Nat /\ ToGo >= 2
  BY <1>1, <1>2, <1>3
<1> QED BY <1>4, <1>5, <1>6, <1>7 DEF Nearer

LEMMA EntersNearer ==
    ASSUME TypeOK, pc \in {"move", "read"},
           Return(FALSE) \/ NoReturn, UNCHANGED <<nBufferSize, pBuffer>>,
           Pos' \in Nat,
           \/ Pos' < Pos
           \/ Pos' = Pos /\ s = BPB_SecPerCluster /\ s' = 0
    PROVE  Nearer
<1>1. Len(pBuffer) \in Nat /\ Len(pBuffer) <= nBufferSize /\ Pos \in Nat
  BY SoundNumbers
<1>2. CASE pc' = "idle" BY <1>2, NearerAtEnd
<1>3. CASE pc' = pc BY <1>1, <1>3, NearerWithin
<1> QED BY <1>2, <1>3 DEF Return, NoReturn

\* Every step of a read, on whatever chain and however far its handle has
\* gone astray, brings it nearer to its return: no entry of the table, not
\* even a cycle of entries, keeps it going (FatFileSystem.c:377-455).
THEOREM ReadsGetOn == Spec => [][pc # "idle" => Nearer]_vars
<1>1. TypeOK /\ [Next]_vars => [pc # "idle" => Nearer]_vars
  <2> SUFFICES ASSUME TypeOK, Next, pc # "idle" PROVE Nearer OBVIOUS
  <2>1. /\ Pos \in Nat /\ Len(pBuffer) \in Nat /\ Len(pBuffer) <= nBufferSize
        /\ nBufferSize \in Nat
    BY SoundNumbers
  <2>2. CASE Move
    <3>1. Pos' \in Nat /\ Pos' < Pos
      BY <2>1, <2>2, Geometry, ClusterPositive DEF Move
    <3>2. pc = "move" /\ UNCHANGED <<nBufferSize, pBuffer>> BY <2>2 DEF Move
    <3>3. Return(FALSE) \/ NoReturn BY <2>2 DEF Move
    <3> QED BY <3>1, <3>2, <3>3, EntersNearer
  <2>3. CASE Moved
    <3>1. pc = "move" /\ pc' = "read" /\ UNCHANGED locals BY <2>3 DEF Moved
    <3> QED BY <2>1, <3>1, NearerWithin DEF locals
  <2>4. CASE Skip
    <3>1. /\ pc = "read" /\ UNCHANGED <<pc, nBufferSize, pBuffer>>
          /\ Pos' = Pos - BPB_BytsPerSec /\ Pos >= BPB_BytsPerSec
      BY <2>4 DEF Skip, Reading
    <3> QED BY <2>1, <3>1, NearerWithin, Geometry
  <2>5. CASE Copy
    <3>1. pc = "read" /\ UNCHANGED <<pc, nBufferSize>> /\ Pos' = 0
      BY <2>5 DEF Copy, Reading
    <3> QED BY <2>1, <2>5, <3>1, CopyType, NearerWithin
  <2>6. CASE CopyFails BY <2>6, NearerAtEnd DEF CopyFails, Reading
  <2>7. CASE FailsOn BY <2>7, NearerAtEnd DEF FailsOn, Return
  <2>8. CASE NextCluster
    <3>1. /\ pc = "read" /\ UNCHANGED <<nBufferSize, pBuffer, Pos>>
          /\ s = BPB_SecPerCluster /\ s' = 0
      BY <2>8 DEF NextCluster, Reading
    <3>2. Return(FALSE) \/ NoReturn BY <2>8 DEF NextCluster
    <3> QED BY <2>1, <3>1, <3>2, EntersNearer
  <2>9. CASE Finish BY <2>9, NearerAtEnd DEF Finish, Return
  <2> QED BY <2>2, <2>3, <2>4, <2>5, <2>6, <2>7, <2>8, <2>9
          DEF Next, Reads, Open, Close, Seek, Read
<1> QED BY <1>1, FatTypes, PTL DEF Spec
-----------------------------------------------------------------------------
(* What the player may take for granted of a file it reads by sectors *)

\* A handle that keeps its place is at most at the end of its cluster, and a
\* read does not leave it.
Sectored ==
    /\ pc # "idle" =>
           SeekPos % BPB_BytsPerSec = 0 /\ nBufferSize <= BPB_BytsPerSec
    /\ ~lost => SeekPos <= ClusterSeq * BytesPerCluster + BytesPerCluster
    /\ ~lost /\ pc = "read" => SeekPos + Len(pBuffer)
                                   <= ClusterSeq * BytesPerCluster + BytesPerCluster

LEMMA InitSectored == Init => Sectored
<1> SUFFICES ASSUME Init PROVE Sectored OBVIOUS
<1>1. ClusterSeq * BytesPerCluster = 0 /\ SeekPos = 0 /\ pc = "idle"
  BY Geometry DEF Init
<1> QED BY <1>1, Geometry DEF Sectored

\* The read of a player comes to the end of a cluster between two reads only.
LEMMA NoSectorAcross ==
    ASSUME Sound, Sectored, NextCluster
    PROVE  lost
<1> SUFFICES ASSUME ~lost PROVE FALSE BY SoundNumbers DEF Sound
<1>1. Reading /\ pc = "read" /\ s = BPB_SecPerCluster
  BY DEF NextCluster, Reading
<1>2. /\ Len(pBuffer) > 0
      /\ ClusterSeq * BytesPerCluster + BytesPerCluster = SeekPos + Len(pBuffer)
  BY <1>1, AtItsEnd
<1>3. /\ SeekPos \in Nat /\ ClusterSeq \in Nat /\ Len(pBuffer) \in Nat
      /\ Len(pBuffer) < nBufferSize /\ nBufferSize \in Nat
  BY <1>1, SoundNumbers DEF Sound, Reading
<1>4. SeekPos % BPB_BytsPerSec = 0 /\ Len(pBuffer) < BPB_BytsPerSec
  BY <1>1, <1>3, Geometry DEF Sectored
<1> DEFINE b == BPB_BytsPerSec
           q == SeekPos \div b
           n == ClusterSeq * BPB_SecPerCluster + BPB_SecPerCluster
<1>5. b \in Nat /\ b > 0 /\ n \in Nat BY <1>3, Geometry
<1>6. ClusterSeq * BytesPerCluster + BytesPerCluster = n * b + 0
  BY <1>3, Geometry DEF BytesPerCluster
<1> HIDE DEF b, n
<1>7. q \in Nat /\ SeekPos = q * b + 0 BY <1>3, <1>4, <1>5 DEF b
<1> HIDE DEF q
<1>8. q * b + Len(pBuffer) = n * b + 0
  <2>1. q * b \in Nat BY <1>5, <1>7
  <2> QED BY <1>2, <1>3, <1>6, <1>7, <2>1
<1>9. (q * b + Len(pBuffer)) % b = Len(pBuffer)
  BY <1>3, <1>4, <1>5, <1>7, Quotient DEF b
<1>10. (n * b + 0) % b = 0 BY <1>5, Quotient
<1> QED BY <1>2, <1>8, <1>9, <1>10

LEMMA ReadSectored == Sound /\ Sectored /\ SectorRead => Sectored'
<1> SUFFICES ASSUME Sound, Sectored, SectorRead PROVE Sectored' OBVIOUS
<1>1. /\ SeekPos % BPB_BytsPerSec = 0 /\ nBufferSize' <= BPB_BytsPerSec
      /\ UNCHANGED <<SeekPos, ClusterSeq, lost>>
      /\ pc' = "read" => SeekPos \div BytesPerCluster = ClusterSeq
  BY DEF SectorRead, Read, handle
<1>2. Len(pBuffer') = 0 BY EmptySeq DEF SectorRead, Read
<1>3. SeekPos \in Nat /\ ClusterSeq \in Nat /\ ClusterSeq * BytesPerCluster \in Nat
  BY SoundNumbers DEF Sound
<1>4. pc' = "read" => SeekPos < ClusterSeq * BytesPerCluster + BytesPerCluster
  BY <1>1, <1>3, ClusterOf
<1> QED BY <1>1, <1>2, <1>3, <1>4, Geometry DEF Sectored

LEMMA EntersSectored ==
    ASSUME Sound, Sectored, pc # "idle", NEW next \in Values,
           fatNextCluster(Cluster, next),
           Cluster' = IF next = 0 THEN Cluster ELSE next,
           (next = 0 /\ Return(FALSE)) \/ (next # 0 /\ NoReturn),
           fCluster' = Cluster', ClusterSeq' = ClusterSeq + 1,
           UNCHANGED <<nBufferSize, pBuffer>>
    PROVE  Sectored'
<1>1. SeekPos' = SeekPos /\ (pc' = "idle" \/ pc' = pc) BY DEF Return, NoReturn
<1>2. /\ SeekPos \in Nat /\ ClusterSeq * BytesPerCluster \in Nat
      /\ Len(pBuffer) \in Nat /\ lost \in BOOLEAN
      /\ ClusterSeq' * BytesPerCluster
             = ClusterSeq * BytesPerCluster + BytesPerCluster
  BY SoundNumbers DEF Sound
<1>3. lost => lost' BY DEF fatNextCluster
<1> DEFINE c == ClusterSeq * BytesPerCluster
           d == ClusterSeq' * BytesPerCluster
<1>4. c \in Nat /\ d = c + BytesPerCluster /\ BytesPerCluster \in Nat
  BY <1>2, Geometry
<1>5. ~lost' => /\ SeekPos <= c + BytesPerCluster
                /\ pc = "read" => SeekPos + Len(pBuffer) <= c + BytesPerCluster
  BY <1>2, <1>3 DEF Sectored
<1>6. ~lost' => /\ SeekPos' <= d + BytesPerCluster
                /\ pc' = "read" => SeekPos' + Len(pBuffer') <= d + BytesPerCluster
  <2> HIDE DEF c, d
  <2> QED BY <1>1, <1>2, <1>4, <1>5
<1> QED BY <1>1, <1>6 DEF Sectored

LEMMA CopySectored == Sound /\ Sectored /\ Copy => Sectored'
<1> SUFFICES ASSUME Sound, Sectored, Copy PROVE Sectored' OBVIOUS
<1>1. /\ Reading /\ UNCHANGED <<handle, pc, nBufferSize, lost>>
  BY DEF Copy, Reading
<1>2. ASSUME ~lost
      PROVE  SeekPos + Len(pBuffer')
                 <= ClusterSeq * BytesPerCluster + BytesPerCluster
  <2> DEFINE c == ClusterSeq * BytesPerCluster
             t == s * BPB_BytsPerSec
  <2>1. /\ c \in Nat /\ t \in Nat /\ SeekPos \in Nat /\ Pos \in Nat
        /\ Len(pBuffer) \in Nat
    BY SoundNumbers DEF Sound
  <2>2. /\ CopyCount \in Nat /\ CopyCount <= BPB_BytsPerSec - Pos
        /\ s \in Nat /\ s + 1 <= BPB_SecPerCluster
    BY CopyBounds, Geometry
  <2>3. t + BPB_BytsPerSec <= BytesPerCluster
    <3>1. (s + 1) * BPB_BytsPerSec <= BPB_SecPerCluster * BPB_BytsPerSec
      BY <2>2, Geometry
    <3>2. (s + 1) * BPB_BytsPerSec = t + BPB_BytsPerSec BY <2>2, Geometry
    <3>3. BPB_SecPerCluster * BPB_BytsPerSec = BytesPerCluster
      BY Geometry DEF BytesPerCluster
    <3> QED BY <3>1, <3>2, <3>3
  <2>4. c + t + Pos = SeekPos + Len(pBuffer) BY <1>1, <1>2, ReadingOn
  <2>5. Len(pBuffer') = Len(pBuffer) + CopyCount BY <1>2, CopyDelivers
  <2> HIDE DEF c, t
  <2>6. SeekPos + Len(pBuffer') <= c + BytesPerCluster
    BY <2>1, <2>2, <2>3, <2>4, <2>5, Geometry
  <2> QED BY <2>6 DEF c
<1> QED BY <1>1, <1>2 DEF Sectored, handle

LEMMA FinishSectored == Sound /\ Sectored /\ Finish => Sectored'
<1> SUFFICES ASSUME Sound, Sectored, Finish PROVE Sectored' OBVIOUS
<1>1. /\ pc = "read" /\ pc' = "idle" /\ SeekPos' = SeekPos + nBufferSize
      /\ Len(pBuffer) >= nBufferSize /\ UNCHANGED <<ClusterSeq, lost>>
  BY DEF Finish, Return
<1>2. Len(pBuffer) = nBufferSize
  BY <1>1, SoundNumbers DEF Sound
<1> QED BY <1>1, <1>2 DEF Sectored

LEMMA StepSectored == Sound /\ Sectored /\ [SectorNext]_vars => Sectored'
<1> SUFFICES ASSUME Sound, Sectored, [SectorNext]_vars PROVE Sectored' OBVIOUS
<1>1. CASE Open
  <2>1. pc = "idle" /\ pc' = "idle" BY <1>1 DEF Open
  <2>2. CASE SeekPos' = 0 /\ ClusterSeq' = 0
    <3>1. ClusterSeq' * BytesPerCluster = 0 BY <2>2, Geometry
    <3> QED BY <2>1, <2>2, <3>1, Geometry DEF Sectored
  <2>3. CASE UNCHANGED <<SeekPos, ClusterSeq, lost>>
    BY <2>1, <2>3 DEF Sectored
  <2> QED BY <1>1, <2>2, <2>3 DEF Open
<1>2. CASE Close BY <1>2 DEF Close, Sectored
<1>3. CASE SectorRead BY <1>3, ReadSectored
<1>4. CASE Move
  <2>1. /\ pc # "idle" /\ fCluster' = Cluster' /\ ClusterSeq' = ClusterSeq + 1
        /\ UNCHANGED <<nBufferSize, pBuffer>>
    BY <1>4 DEF Move
  <2> QED BY <1>4, <2>1, EntersSectored DEF Move
<1>5. CASE Moved
  <2>1. /\ pc = "move" /\ pc' = "read" /\ Pos < BytesPerCluster
        /\ UNCHANGED <<handle, locals, lost>>
    BY <1>5 DEF Moved
  <2>2. ~lost => /\ pBuffer = << >>
                 /\ ClusterSeq * BytesPerCluster + Pos = SeekPos
    BY <2>1 DEF Sound, InPlace, Moving
  <2>3. ~lost => /\ Len(pBuffer) = 0
                 /\ SeekPos <= ClusterSeq * BytesPerCluster + BytesPerCluster
    BY <2>2, EmptySeq DEF Sectored
  <2>4. SeekPos \in Nat BY SoundNumbers DEF Sound
  <2> QED BY <2>1, <2>3, <2>4 DEF Sectored, handle, locals
<1>6. CASE Skip
  BY <1>6 DEF Skip, Reading, Sectored, handle
<1>7. CASE Copy BY <1>7, CopySectored
<1>8. CASE CopyFails
  BY <1>8 DEF CopyFails, Reading, Sectored, handle, locals
<1>9. CASE FailsOn
  <2>1. pc = "failed" /\ pc' = "idle" BY <1>9 DEF FailsOn, Return
  <2>2. lost BY <2>1, SoundNumbers DEF Sound, InPlace, AtCluster
  <2>3. lost' = TRUE BY <1>9, <2>2, SoundNumbers DEF Sound, FailsOn, fatNextCluster
  <2> QED BY <2>1, <2>3 DEF Sectored
<1>10. CASE NextCluster
  <2>1. /\ pc # "idle" /\ fCluster' = Cluster' /\ ClusterSeq' = ClusterSeq + 1
        /\ UNCHANGED <<nBufferSize, pBuffer>>
    BY <1>10 DEF NextCluster, Reading
  <2> QED BY <1>10, <2>1, EntersSectored DEF NextCluster
<1>11. CASE Finish BY <1>11, FinishSectored
<1>12. CASE UNCHANGED vars
  BY <1>12 DEF vars, Sectored, handle, locals
<1> QED BY <1>1, <1>2, <1>3, <1>4, <1>5, <1>6, <1>7, <1>8, <1>9, <1>10,
           <1>11, <1>12 DEF SectorNext, Reads

LEMMA SectorStep == [SectorNext]_vars => [Next]_vars
BY DEF SectorNext, SectorRead, Next

\* When the handle of a player loses its place, either the read fails, or it
\* stood at the end of a cluster.
LEMMA LosesBetweenClusters ==
    ASSUME Sound, Sectored, SectorNext, lost', ~lost, chain'[1] < Half
    PROVE  pc' = "failed" \/ (SeekPos > 0 /\ SeekPos % BytesPerCluster = 0)
<1>1. CASE Move
  <2> DEFINE c == ClusterSeq * BytesPerCluster
  <2>1. pc = "move" /\ Pos >= BytesPerCluster BY <1>1 DEF Move
  <2>2. c + Pos = SeekPos BY <2>1 DEF Sound, InPlace, Moving
  <2>3. /\ c \in Nat /\ SeekPos \in Nat /\ Pos \in Nat /\ ClusterSeq \in Nat
        /\ (ClusterSeq + 1) * BytesPerCluster = c + BytesPerCluster
    BY SoundNumbers DEF Sound
  <2>4. SeekPos <= c + BytesPerCluster BY DEF Sectored
  <2>5. SeekPos = c + BytesPerCluster
    <3> HIDE DEF c
    <3> QED BY <2>1, <2>2, <2>3, <2>4, Geometry
  <2>6. SeekPos = (ClusterSeq + 1) * BytesPerCluster + 0 BY <2>3, <2>5
  <2>7. SeekPos % BytesPerCluster = 0
    BY <2>3, <2>6, Quotient, Geometry, ClusterPositive
  <2>8. SeekPos > 0
    <3> HIDE DEF c
    <3> QED BY <2>3, <2>5, Geometry, ClusterPositive
  <2> QED BY <2>7, <2>8
<1>2. CASE CopyFails BY <1>2 DEF CopyFails
<1>3. CASE FailsOn
  BY <1>3, SoundNumbers DEF FailsOn, Sound, InPlace, AtCluster
<1>4. CASE NextCluster BY <1>4, NoSectorAcross
<1>5. CASE Open
  <2>1. chain' \in Files BY <1>5 DEF Open, Sound, TypeOK
  <2>2. FirstLogicalCluster(chain') = chain'[1] BY <2>1, LowerHalf
  <2> QED BY <1>5, <2>2 DEF Open
<1> QED BY <1>1, <1>2, <1>3, <1>4, <1>5
        DEF SectorNext, Reads, Close, SectorRead, Read, Moved, Skip, Copy,
            Finish

\* To a caller who reads a file by sectors from the beginning, as waveplay_start
\* and waveplay_execute do, a read that succeeds can have lost the place of the
\* handle only when it began at the boundary of two clusters: what
\* Fat_FileRead of WavePlayer assumes of FatFileSystem.c:346-461.  It takes a
\* file whose first cluster has a number of 16 bits, which the handle keeps
\* whole (FatFileSystem.c:326).
THEOREM SectorsLoseBetweenClusters ==
    SectorSpec =>
        [][lost' /\ ~lost /\ chain'[1] < Half =>
               \/ pc' = "failed"
               \/ SeekPos > 0 /\ SeekPos % BytesPerCluster = 0]_vars
<1>1. SectorSpec => Spec BY SectorStep, PTL DEF SectorSpec, Spec
<1>2. SectorSpec => [](Sound /\ Sectored)
  <2>1. SectorSpec => []Sound BY <1>1, AlwaysSound, PTL
  <2> QED BY <2>1, InitSectored, StepSectored, PTL DEF SectorSpec
<1>3. Sound /\ Sectored /\ [SectorNext]_vars =>
          [lost' /\ ~lost /\ chain'[1] < Half =>
               \/ pc' = "failed"
               \/ SeekPos > 0 /\ SeekPos % BytesPerCluster = 0]_vars
  BY LosesBetweenClusters
<1> QED BY <1>2, <1>3, PTL DEF SectorSpec
=============================================================================
