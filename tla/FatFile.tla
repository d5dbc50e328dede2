------------------------------- MODULE FatFile -------------------------------
(***************************************************************************)
(* Fat_FileRead and what it works on: the handle of an open file, which    *)
(* remembers a position and the cluster it lies in, the chain of clusters  *)
(* in the allocation table, and the volume's cache of one sector, which    *)
(* data and table have to share.  A step is what lies between two reads of *)
(* a sector; each of them can fail.                                        *)
(***************************************************************************)
EXTENDS Integers, Sequences

CONSTANTS
    BPB_BytsPerSec,     \* bytes per sector: 512
    BPB_SecPerCluster,  \* sectors per cluster
    Clusters,           \* the data clusters of the volume
    Files,              \* the clusters of each file, in order
    Half,               \* FirstLogicalCluster is a short: 2^16
    Eoc,                \* the table's entry of a last cluster
    EntriesPerSecter,   \* nFatEntryPerSecter: 256 or 128
    Word,               \* positions are alt_u32: 2^32
    ReadSizes,          \* nBufferSize: sizes the callers ask for
    MaxSeek,            \* model bound: reads start no later than here
    MaxSeq,             \* model bound: nor in a later cluster than this
    NoSecter,           \* Secter_Index = -1
    Garbage             \* what a broken transfer leaves in the cache

BytesPerCluster == BPB_BytsPerSec * BPB_SecPerCluster

Values == Clusters \cup {0, Eoc}
Secters ==
    [of : {"data"}, cluster : Nat, s : 0 .. BPB_SecPerCluster - 1]
        \cup [of : {"table"}, n : Nat]
        \cup {[of |-> "directory"]}

ASSUME FatAssumption ==
    /\ BPB_BytsPerSec \in Nat \ {0} /\ BPB_SecPerCluster \in Nat \ {0}
    /\ Clusters \subseteq Nat \ {0, 1}
    /\ Files \subseteq Seq(Clusters) /\ Half \in Nat \ {0}
    /\ \A f \in Files :
          /\ f # << >>
          /\ \A x, y \in 1 .. Len(f) : f[x] = f[y] => x = y
    /\ Eoc \in Nat \ (Clusters \cup {0}) /\ EntriesPerSecter \in Nat \ {0}
    /\ ReadSizes \subseteq Nat \ {0}
    /\ MaxSeek \in Nat /\ MaxSeq \in Nat
    /\ Word \in Nat /\ Word > MaxSeek /\ Word % BytesPerCluster = 0
    /\ NoSecter \notin Secters

VARIABLES
    chain,              \* the file that was opened: Directory
    IsOpened, SeekPos, fCluster, ClusterSeq,    \* the handle
    Secter_Index, Secter_Data,                  \* the cache
    pc, nBufferSize, Pos, Cluster, s, pBuffer,  \* Fat_FileRead under way
    bSuccess,                                   \* what the last one returned
    data,                                       \* and delivered
    lost            \* the handle does not lead to its position in the file

handle == <<chain, IsOpened, SeekPos, fCluster, ClusterSeq>>
cache == <<Secter_Index, Secter_Data>>
locals == <<nBufferSize, Pos, Cluster, s, pBuffer>>
returned == <<bSuccess, data>>
vars == <<handle, cache, pc, locals, returned, lost>>

Bytes == (Secters \cup {Garbage}) \X (0 .. BPB_BytsPerSec - 1)

TypeOK ==
    /\ chain \in Files
    /\ IsOpened \in BOOLEAN /\ SeekPos \in Nat
    /\ fCluster \in Nat /\ ClusterSeq \in Nat
    /\ Secter_Index \in Secters \cup {NoSecter}
    /\ Secter_Data \in Secters \cup {Garbage}
    /\ pc \in {"idle", "move", "read", "failed"}
    /\ nBufferSize \in ReadSizes \cup {0}
    /\ Pos \in 0 .. Word - 1
    /\ Cluster \in Nat /\ s \in 0 .. BPB_SecPerCluster
    /\ pBuffer \in Seq(Bytes) /\ Len(pBuffer) <= nBufferSize
    /\ bSuccess \in BOOLEAN /\ lost \in BOOLEAN
    /\ data \in Seq(Bytes)

-----------------------------------------------------------------------------
DataSecter(c, n) == [of |-> "data", cluster |-> c, s |-> n]
TableSecter(c) == [of |-> "table", n |-> c \div EntriesPerSecter]

\* Mutation: a failed transfer leaves the index of the sector before it.
ReadSecterKeepsIndex(secter, ok) ==
    \/ ok /\ Secter_Index = secter /\ UNCHANGED cache
    \/ ok /\ Secter_Index # secter
          /\ Secter_Index' = secter /\ Secter_Data' = secter
    \/ ~ok /\ Secter_Index # secter
           /\ Secter_Index' = Secter_Index
           /\ Secter_Data' \in {Secter_Data, Garbage}

\* A sector is taken from the cache or read into it.
fatReadSecter(secter, ok) ==
    \/ ok /\ Secter_Index = secter /\ UNCHANGED cache
    \/ ok /\ Secter_Index # secter
          /\ Secter_Index' = secter /\ Secter_Data' = secter
    \/ ~ok /\ Secter_Index # secter
           /\ Secter_Index' = NoSecter
           /\ Secter_Data' \in {Secter_Data, Garbage}

\* The table's entry for a cluster; nothing is known of clusters that are not
\* in the file.
Entries(c) ==
    IF \E x \in 1 .. Len(chain) : chain[x] = c
    THEN {IF chain[Len(chain)] = c THEN Eoc
          ELSE chain[1 + (CHOOSE x \in 1 .. Len(chain) : chain[x] = c)]}
    ELSE Values

\* fatNextCluster: the entry, 0 when it names no cluster; the value of an
\* uninitialised variable when the table cannot be read.
fatNextCluster(c, next) ==
    \/ /\ fatReadSecter(TableSecter(c), TRUE)
       /\ next \in IF Secter_Data' = TableSecter(c) THEN Entries(c) ELSE Values
       /\ lost' = (lost \/ next \notin Clusters)
    \/ /\ fatReadSecter(TableSecter(c), FALSE)
       /\ next \in Values
       /\ lost' = TRUE

-----------------------------------------------------------------------------
\* What a handle knows of where its file begins: the upper half of the number,
\* which FAT32 keeps apart (FirstLogicalClusterHi), is copied and never used.
FirstLogicalCluster(file) == file[1] % Half

\* Fat_FileOpen: the directory is searched for the file.
Open ==
    /\ pc = "idle"
    /\ \/ /\ chain' \in Files
          /\ IsOpened' = TRUE /\ SeekPos' = 0
          /\ fCluster' = FirstLogicalCluster(chain') /\ ClusterSeq' = 0
          /\ lost' = (FirstLogicalCluster(chain') # chain'[1])
          /\ fatReadSecter([of |-> "directory"], TRUE)
       \/ /\ IsOpened' = FALSE
          /\ \E ok \in BOOLEAN : fatReadSecter([of |-> "directory"], ok)
          /\ UNCHANGED <<chain, SeekPos, fCluster, ClusterSeq, lost>>
    /\ UNCHANGED <<pc, locals, returned>>

\* Fat_FileClose
Close ==
    /\ pc = "idle" /\ IsOpened
    /\ IsOpened' = FALSE
    /\ UNCHANGED <<chain, SeekPos, fCluster, ClusterSeq, cache, pc, locals,
                   returned, lost>>

\* Fat_FileSeek goes back to the first cluster, or to where Fat_FileOpen went.
Seek ==
    /\ pc = "idle" /\ IsOpened
    /\ SeekPos' \in 0 .. MaxSeek
    /\ fCluster' = FirstLogicalCluster(chain) /\ ClusterSeq' = 0
    /\ lost' = (FirstLogicalCluster(chain) # chain[1])
    /\ UNCHANGED <<chain, IsOpened, cache, pc, locals, returned>>

\* Fat_FileRead is called.  Pos is the distance from the beginning of the
\* cluster the handle is in.
Read ==
    /\ pc = "idle" /\ IsOpened
    /\ SeekPos <= MaxSeek /\ ClusterSeq <= MaxSeq
    /\ nBufferSize' \in ReadSizes
    /\ Pos' = (SeekPos - ClusterSeq * BytesPerCluster) % Word
    /\ Cluster' = fCluster /\ s' = 0 /\ pBuffer' = << >>
    /\ pc' = IF SeekPos \div BytesPerCluster # ClusterSeq
             THEN "move" ELSE "read"
    /\ UNCHANGED <<handle, cache, returned, lost>>

\* Fat_FileRead returns.
Return(ok) ==
    /\ pc' = "idle"
    /\ bSuccess' = ok /\ data' = pBuffer
    /\ SeekPos' = IF ok THEN SeekPos + nBufferSize ELSE SeekPos

NoReturn == UNCHANGED <<pc, returned, SeekPos>>

\* Mutation: the handle starts over when the table names no cluster.
MoveStartsOver ==
    /\ pc = "move" /\ Pos >= BytesPerCluster
    /\ \E next \in Values :
         /\ fatNextCluster(Cluster, next)
         /\ Cluster' = IF next = 0 THEN FirstLogicalCluster(chain) ELSE next
         /\ Pos' = IF next = 0 THEN SeekPos ELSE Pos - BytesPerCluster
         /\ ClusterSeq' = IF next = 0 THEN 0 ELSE ClusterSeq + 1
    /\ fCluster' = Cluster'
    /\ NoReturn /\ UNCHANGED <<chain, IsOpened, nBufferSize, s, pBuffer>>

\* The handle moves on to the cluster of its position.
Move ==
    /\ pc = "move" /\ Pos >= BytesPerCluster
    /\ \E next \in Values :
         /\ fatNextCluster(Cluster, next)
         /\ Cluster' = IF next = 0 THEN Cluster ELSE next
         /\ (next = 0 /\ Return(FALSE)) \/ (next # 0 /\ NoReturn)
    /\ Pos' = Pos - BytesPerCluster
    /\ fCluster' = Cluster' /\ ClusterSeq' = ClusterSeq + 1
    /\ UNCHANGED <<chain, IsOpened, nBufferSize, s, pBuffer>>

Moved ==
    /\ pc = "move" /\ Pos < BytesPerCluster
    /\ pc' = "read"
    /\ UNCHANGED <<handle, cache, locals, returned, lost>>

Reading == pc = "read" /\ Len(pBuffer) < nBufferSize

\* A sector before the position is passed over.
Skip ==
    /\ Reading /\ s < BPB_SecPerCluster /\ Pos >= BPB_BytsPerSec
    /\ Pos' = Pos - BPB_BytsPerSec
    /\ s' = s + 1
    /\ UNCHANGED <<handle, cache, pc, nBufferSize, Cluster, pBuffer, returned,
                   lost>>

\* nCopyCount: the rest of the sector, or what is still missing.
CopyCount ==
    IF BPB_BytsPerSec - Pos > nBufferSize - Len(pBuffer)
    THEN nBufferSize - Len(pBuffer) ELSE BPB_BytsPerSec - Pos

\* Mutation: a sector is copied from its beginning.
CopyFromStart ==
    /\ Reading /\ s < BPB_SecPerCluster /\ Pos < BPB_BytsPerSec
    /\ fatReadSecter(DataSecter(Cluster, s), TRUE)
    /\ pBuffer' = pBuffer \o [x \in 1 .. CopyCount |->
                                 <<Secter_Data', x - 1>>]
    /\ Pos' = 0 /\ s' = s + 1
    /\ UNCHANGED <<handle, pc, nBufferSize, Cluster, returned, lost>>

\* A sector is read and copied.
Copy ==
    /\ Reading /\ s < BPB_SecPerCluster /\ Pos < BPB_BytsPerSec
    /\ fatReadSecter(DataSecter(Cluster, s), TRUE)
    /\ pBuffer' = pBuffer \o [x \in 1 .. CopyCount |->
                                 <<Secter_Data', Pos + x - 1>>]
    /\ Pos' = 0 /\ s' = s + 1
    /\ UNCHANGED <<handle, pc, nBufferSize, Cluster, returned, lost>>

\* It cannot be read.
CopyFails ==
    /\ Reading /\ s < BPB_SecPerCluster /\ Pos < BPB_BytsPerSec
    /\ fatReadSecter(DataSecter(Cluster, s), FALSE)
    /\ pc' = "failed" /\ lost' = TRUE
    /\ UNCHANGED <<handle, locals, returned>>

\* Bytes are missing, so that the handle goes on to the next cluster as if this
\* one had been read: its position is now behind it.
FailsOn ==
    /\ pc = "failed"
    /\ \E next \in Values :
         /\ fatNextCluster(Cluster, next)
         /\ Cluster' = IF next = 0 THEN Cluster ELSE next
    /\ fCluster' = Cluster' /\ ClusterSeq' = ClusterSeq + 1
    /\ Return(FALSE)
    /\ UNCHANGED <<chain, IsOpened, nBufferSize, Pos, s, pBuffer>>

\* The rest is in the next cluster.
NextCluster ==
    /\ Reading /\ s = BPB_SecPerCluster
    /\ \E next \in Values :
         /\ fatNextCluster(Cluster, next)
         /\ Cluster' = IF next = 0 THEN Cluster ELSE next
         /\ (next = 0 /\ Return(FALSE)) \/ (next # 0 /\ NoReturn)
    /\ fCluster' = Cluster' /\ ClusterSeq' = ClusterSeq + 1
    /\ s' = 0
    /\ UNCHANGED <<chain, IsOpened, nBufferSize, Pos, pBuffer>>

\* All is read.
Finish ==
    /\ pc = "read" /\ Len(pBuffer) >= nBufferSize
    /\ Return(TRUE)
    /\ UNCHANGED <<chain, IsOpened, fCluster, ClusterSeq, cache, locals, lost>>

Reads ==
    Move \/ Moved \/ Skip \/ Copy \/ CopyFails \/ FailsOn \/ NextCluster
        \/ Finish

Init ==
    /\ chain \in Files
    /\ IsOpened = FALSE /\ SeekPos = 0 /\ fCluster = 0 /\ ClusterSeq = 0
    /\ Secter_Index = NoSecter /\ Secter_Data = Garbage
    /\ pc = "idle" /\ nBufferSize = 0 /\ Pos = 0 /\ Cluster = 0
    /\ s = 0 /\ pBuffer = << >> /\ bSuccess = FALSE /\ data = << >>
    /\ lost = TRUE

Next == Open \/ Close \/ Seek \/ Read \/ Reads

Spec == Init /\ [][Next]_vars

\* A call that is under way is executed to its end.
FairSpec == Spec /\ WF_vars(Reads)

\* The player reads a file from its beginning, never more than the rest of a
\* sector at a time, and does not seek.
SectorRead ==
    /\ Read
    /\ SeekPos % BPB_BytsPerSec = 0 /\ nBufferSize' <= BPB_BytsPerSec

SectorNext == Open \/ Close \/ SectorRead \/ Reads

SectorSpec == Init /\ [][SectorNext]_vars

-----------------------------------------------------------------------------
\* The sector the cache says it holds is the one it holds, also after broken
\* transfers (FatInternal.c:333-344): the table and the data of the file push
\* each other out of it all the time.
CacheHonest == Secter_Index # NoSecter => Secter_Data = Secter_Index

\* The byte at a position of a file.
File(file, p) ==
    LET inCluster == p % BytesPerCluster IN
    <<DataSecter(file[p \div BytesPerCluster + 1],
                 inCluster \div BPB_BytsPerSec),
      inCluster % BPB_BytsPerSec>>

\* Fat_FileRead, however it is cut into sectors and clusters, delivers the
\* bytes at the position or fails, unless a fault hits it on the way into
\* another cluster (FatFileSystem.c:346-461).  A read that failed cannot be
\* repeated before the next seek or open (:441).  This is promised of the
\* files whose first cluster has a number of 16 bits, and of no other, since
\* Fat_FileOpen and Fat_FileSeek go to that number (:326, :491).
Promise == INSTANCE FileAccess WITH
    file <- chain, opened <- IsOpened, pos <- SeekPos, whole <- ~lost,
    ok <- bSuccess,
    asked <- IF pc = "idle" THEN 0 ELSE nBufferSize,
    cluster <- ClusterSeq * BytesPerCluster, failing <- pc = "failed",
    ClusterSize <- BytesPerCluster,
    Promised <- {f \in Files : f[1] < Half},
    FileEnd <- LAMBDA f : Len(f) * BytesPerCluster
ReadsTheFile == Promise!Access

\* A whole handle is one of a file that begins at a cluster with a number of 16
\* bits, and the cluster it remembers is the one its count names.
HandleInChain ==
    ~lost /\ IsOpened => /\ chain[1] < Half
                         /\ ClusterSeq < Len(chain)
                         /\ fCluster = chain[ClusterSeq + 1]
                         /\ (\/ pc # "idle"
                             \/ ClusterSeq <= SeekPos \div BytesPerCluster)

\* Every read returns, also on a handle that lost its place, whose distance
\* from the position is then a wrapped negative number.
ReadReturns == pc # "idle" ~> pc = "idle"
=============================================================================
