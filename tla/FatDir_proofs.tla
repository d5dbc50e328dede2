---------------------------- MODULE FatDir_proofs -----------------------------
(***************************************************************************)
(* Proofs about FatDir: for every directory, well formed or not, and every *)
(* number of handles.                                                      *)
(***************************************************************************)
EXTENDS FatDir, FiniteSetTheorems, SequenceTheorems, WellFoundedInduction, TLAPS

LEMMA Sizes == MaxOrd \in Nat /\ MaxOrd >= 1 /\ MaxHandles \in Nat
BY DirAssumption

\* A set of natural numbers has a least one.
LEMMA LeastOf ==
    ASSUME NEW S, S \subseteq Nat, S # {}
    PROVE  \E t \in S : \A u \in S : t <= u
<1> DEFINE R == OpToRel(<, Nat)
<1>1. IsWellFoundedOn(R, Nat) BY NatLessThanWellFounded
<1>2. \E t \in S : \A u \in S : ~ (<<u, t>> \in R) BY <1>1, WFMin
<1>3. PICK t \in S : \A u \in S : ~ (<<u, t>> \in R) BY <1>2
<1>4. \A u \in S : ~ (u < t) BY <1>3 DEF OpToRel
<1> QED BY <1>4

\* The name put together from pieces is a name.
NameBuffer == szName \in [1 .. MaxOrd -> Pieces \cup {NoPiece}]

EndOfName(k) ==
    /\ \A j \in 1 .. k : szName[j] # NoPiece
    /\ k < MaxOrd => szName[k + 1] = NoPiece

LEMMA NameEnds == \E k \in 0 .. MaxOrd : EndOfName(k)
<1> DEFINE S == {k \in 0 .. MaxOrd : k < MaxOrd => szName[k + 1] = NoPiece}
<1>1. S \subseteq Nat /\ MaxOrd \in S BY Sizes
<1>2. PICK k \in S : \A u \in S : k <= u BY <1>1, LeastOf
<1>3. ASSUME NEW j \in 1 .. k, szName[j] = NoPiece PROVE FALSE
  <2>1. j - 1 \in 0 .. MaxOrd /\ j - 1 < k /\ (j - 1) + 1 = j BY <1>1, <1>2, Sizes
  <2>2. j - 1 \in S BY <1>3, <2>1
  <2> QED BY <1>2, <2>1, <2>2
<1>4. EndOfName(k) BY <1>2, <1>3 DEF EndOfName
<1> QED BY <1>2, <1>4

LEMMA LongNameType ==
    ASSUME NameBuffer
    PROVE  LongName \in Names
<1> DEFINE n == CHOOSE k \in 0 .. MaxOrd : EndOfName(k)
<1>1. n \in 0 .. MaxOrd /\ EndOfName(n) BY NameEnds
<1>2. LongName = SubSeq(szName, 1, n) BY DEF LongName, EndOfName
<1> HIDE DEF n
<1>3. \A i \in 1 .. n : szName[i] \in Pieces
  BY <1>1, Sizes DEF EndOfName, NameBuffer
<1>4. n \in Nat BY <1>1, Sizes
<1>5. /\ SubSeq(szName, 1, n) \in Seq(Pieces)
      /\ Len(SubSeq(szName, 1, n)) = n
  BY <1>3, <1>4, SubSeqProperties
<1>6. SubSeq(szName, 1, n) \in [1 .. n -> Pieces] BY <1>5, LenProperties
<1> QED BY <1>1, <1>2, <1>6 DEF Names

-----------------------------------------------------------------------------
\* The inductive invariant.
Position ==
    /\ dir \in Directories
    /\ at \in [Searches -> 0 .. Len(dir) - 1]
    /\ phase \in {"next", "open", "header", "reopen", "first", "done"}
    /\ hFile \in 0 .. Len(dir) /\ (phase = "header" => hFile # 0)

Naming ==
    /\ OrderValue \in 0 .. MaxOrd - 1
    /\ NameBuffer /\ szWaveFilename \in Names

Song == [name : Names, hFile : 0 .. Len(dir), readOk : BOOLEAN]

Listing ==
    /\ songs \in Seq(Song)
    /\ browsed \in Seq([at : 1 .. Len(dir), name : Names])
    /\ phase \in {"reopen", "first"} => songs # <<>>
    /\ phase = "reopen" => songs[Len(songs)].hFile = 0

Switches == bLongFilename \in BOOLEAN /\ bFlag \in BOOLEAN /\ faults \in BOOLEAN

Opened == {k \in 1 .. Len(songs) : songs[k].hFile # 0}
InHeader == IF phase = "header" THEN 1 ELSE 0

Counts ==
    /\ handles \in 0 .. MaxHandles /\ unread \in Nat
    /\ handles = Cardinality(Opened) + unread + InHeader

Inv == Position /\ Naming /\ Listing /\ Switches /\ Counts

\* What a directory is, at the entry a search comes to.
LEMMA DirType ==
    ASSUME Position
    PROVE  /\ dir \in Seq(Entry) /\ Len(dir) \in Nat /\ Len(dir) >= 1
           /\ Search \in Searches /\ Here \in 1 .. Len(dir)
           /\ This \in Entry
           /\ This.kind # "last" => Here \in 1 .. Len(dir) - 1
<1>1. /\ dir \in Seq(Entry) /\ dir # <<>>
      /\ \A i \in 1 .. Len(dir) : dir[i].kind = "last" <=> i = Len(dir)
  BY DirAssumption DEF Position
<1>2. Len(dir) \in Nat /\ Len(dir) >= 1 BY <1>1, EmptySeq, LenProperties
<1>3. Search \in Searches BY DEF Search, Searches
<1>4. Here \in 1 .. Len(dir) BY <1>2, <1>3 DEF Here, Position
<1>5. This \in Entry BY <1>1, <1>4, ElementOfSeq DEF This
<1>6. This.kind # "last" => Here # Len(dir) BY <1>1, <1>4 DEF This
<1>7. This.kind # "last" => Here \in 1 .. Len(dir) - 1 BY <1>2, <1>4, <1>6
<1> QED BY <1>1, <1>2, <1>3, <1>4, <1>5, <1>7

\* The entries the search recognises.
LEMMA Kinds ==
    ASSUME Position, Naming
    PROVE  /\ This.kind = "long" => This.ord \in 1 .. MaxOrd /\ This.piece \in Pieces
           /\ This.kind = "short" => This.name \in Pieces
           /\ IsFound => FoundName \in Names
<1>1. This \in Entry BY DirType
<1>2. This.kind = "long" => This.ord \in 1 .. MaxOrd /\ This.piece \in Pieces
  BY <1>1 DEF Entry, LongEntry, ShortEntry
<1>3. This.kind = "short" => This.name \in Pieces
  BY <1>1 DEF Entry, LongEntry, ShortEntry
<1>4. ASSUME This.kind = "short" PROVE <<This.name>> \in Names
  <2>1. <<This.name>> \in [1 .. 1 -> Pieces] BY <1>3, <1>4
  <2>2. 1 \in 0 .. MaxOrd BY Sizes
  <2> QED BY <2>1, <2>2 DEF Names
<1>5. IsFound => FoundName \in Names
  BY <1>4, LongNameType DEF FoundName, IsFound, Naming
<1> QED BY <1>2, <1>3, <1>5

LEMMA FreshNaming ==
    ASSUME FreshName, szWaveFilename' \in Names
    PROVE  Naming' /\ bLongFilename' \in BOOLEAN
<1>1. 0 \in 0 .. MaxOrd - 1 BY Sizes
<1>2. NameBuffer' BY DEF FreshName, NameBuffer
<1>3. OrderValue' \in 0 .. MaxOrd - 1 BY <1>1 DEF FreshName
<1>4. bLongFilename' \in BOOLEAN BY DEF FreshName
<1> QED BY <1>2, <1>3, <1>4 DEF Naming

\* The searches go on to the next entry, or one of them starts again.
LEMMA MovesOn ==
    ASSUME Position, Moves, This.kind # "last"
    PROVE  at' \in [Searches -> 0 .. Len(dir) - 1]
<1>1. Here \in 0 .. Len(dir) - 1 BY DirType
<1> QED BY <1>1 DEF Moves, Position

LEMMA BeginsAgain ==
    ASSUME Position, SearchBegins, phase = "next" => This.kind # "last"
    PROVE  at' \in [Searches -> 0 .. Len(dir) - 1]
<1>1. 0 \in 0 .. Len(dir) - 1 BY DirType
<1>2. phase = "next" => Here \in 0 .. Len(dir) - 1 BY DirType
<1> QED BY <1>1, <1>2 DEF SearchBegins, Position

\* Steps that do not touch the list.
LEMMA SameSongs ==
    ASSUME Listing, UNCHANGED <<dir, songs, browsed>>,
           phase' \in {"reopen", "first"} => phase' = phase
    PROVE  Listing'
BY DEF Listing, Song

LEMMA SameHandles ==
    ASSUME Counts, UNCHANGED <<handles, unread, songs>>,
           phase' = "header" <=> phase = "header"
    PROVE  Counts'
<1>1. Opened' = Opened BY DEF Opened
<1>2. InHeader' = InHeader BY DEF InHeader
<1> QED BY <1>1, <1>2 DEF Counts

LEMMA OpenedFinite ==
    ASSUME Listing
    PROVE  IsFiniteSet(Opened) /\ Cardinality(Opened) \in Nat
<1>1. Len(songs) \in Nat BY LenProperties DEF Listing
<1>2. IsFiniteSet(1 .. Len(songs)) BY <1>1, FS_Interval
<1>3. Opened \in SUBSET (1 .. Len(songs)) BY DEF Opened
<1>4. IsFiniteSet(Opened) BY <1>2, <1>3, FS_Subset
<1> QED BY <1>4, FS_CardinalityType

\* The song listed last.
LEMMA LastSong ==
    ASSUME Listing, phase \in {"reopen", "first"}
    PROVE  /\ Len(songs) \in Nat /\ Len(songs) \in 1 .. Len(songs)
           /\ songs[Len(songs)] \in Song
<1>1. songs \in Seq(Song) /\ songs # <<>> BY DEF Listing
<1>2. Len(songs) \in Nat \ {0} BY <1>1, EmptySeq
<1>3. Len(songs) \in 1 .. Len(songs) BY <1>2
<1> QED BY <1>1, <1>2, <1>3, ElementOfSeq

\* What is known when the song listed last gets another value.
LEMMA SongSet ==
    ASSUME Listing, phase \in {"reopen", "first"}, NEW e \in Song,
           songs' = [songs EXCEPT ![Len(songs)] = e]
    PROVE  /\ songs' \in Seq(Song) /\ Len(songs') = Len(songs)
           /\ songs' # <<>> /\ songs'[Len(songs)] = e
           /\ \A k \in 1 .. Len(songs) : k # Len(songs) => songs'[k] = songs[k]
<1>1. songs \in Seq(Song) /\ Len(songs) \in 1 .. Len(songs)
  BY LastSong DEF Listing
<1>2. /\ songs' \in Seq(Song) /\ Len(songs') = Len(songs)
      /\ \A k \in 1 .. Len(songs) :
            songs'[k] = IF k = Len(songs) THEN e ELSE songs[k]
  BY <1>1, ExceptSeq
<1>3. songs' # <<>> BY <1>1, <1>2, EmptySeq
<1> QED BY <1>1, <1>2, <1>3

LEMMA StartedSong ==
    ASSUME Listing, phase \in {"reopen", "first"}, NEW ok \in BOOLEAN,
           Started(ok)
    PROVE  songs' \in Seq(Song) /\ Opened' = Opened
<1>1. songs[Len(songs)] \in Song BY LastSong
<1> DEFINE e == [songs[Len(songs)] EXCEPT !.readOk = ok]
<1>2. e \in Song /\ e.hFile = songs[Len(songs)].hFile BY <1>1 DEF Song
<1>3. songs' = [songs EXCEPT ![Len(songs)] = e] BY DEF Started
<1> HIDE DEF e
<1>4. /\ songs' \in Seq(Song) /\ Len(songs') = Len(songs)
      /\ songs'[Len(songs)] = e
      /\ \A k \in 1 .. Len(songs) : k # Len(songs) => songs'[k] = songs[k]
  BY <1>2, <1>3, SongSet
<1>5. \A k \in 1 .. Len(songs) : songs'[k].hFile = songs[k].hFile
  BY <1>2, <1>4
<1>6. Opened' = Opened BY <1>4, <1>5 DEF Opened
<1> QED BY <1>4, <1>6

-----------------------------------------------------------------------------
LEMMA SkipStep == Inv /\ SkipEntry => Inv'
<1> SUFFICES ASSUME Inv, SkipEntry PROVE Inv' OBVIOUS
<1>0. Position /\ Naming /\ Listing /\ Switches /\ Counts BY DEF Inv
<1>1. at' \in [Searches -> 0 .. Len(dir) - 1]
  BY <1>0, MovesOn DEF SkipEntry
<1>2. UNCHANGED <<dir, phase, nameVars, fileVars, browsed, unread, faults>>
  BY DEF SkipEntry
<1>3. Position' BY <1>0, <1>1, <1>2 DEF Position, fileVars
<1>4. Naming' BY <1>0, <1>2 DEF Naming, NameBuffer, nameVars, fileVars
<1>5. Listing' BY <1>0, <1>2, SameSongs DEF fileVars
<1>6. Switches' BY <1>0, <1>2 DEF Switches, nameVars, fileVars
<1>7. Counts' BY <1>0, <1>2, SameHandles DEF fileVars
<1> QED BY <1>3, <1>4, <1>5, <1>6, <1>7 DEF Inv

LEMMA PieceStep == Inv /\ AddPiece => Inv'
<1> SUFFICES ASSUME Inv, AddPiece PROVE Inv' OBVIOUS
<1>0. Position /\ Naming /\ Listing /\ Switches /\ Counts BY DEF Inv
<1>a. This.kind = "long" BY DEF AddPiece, IsNextPiece
<1>1. at' \in [Searches -> 0 .. Len(dir) - 1]
  BY <1>0, <1>a, MovesOn DEF AddPiece
<1>b. This.ord \in 1 .. MaxOrd /\ This.piece \in Pieces BY <1>0, <1>a, Kinds
<1>2. UNCHANGED <<dir, phase, fileVars, browsed, unread, faults>>
  BY DEF AddPiece
<1>3. Position' BY <1>0, <1>1, <1>2 DEF Position, fileVars
<1>4. Naming'
  <2>1. OrderValue' \in 0 .. MaxOrd - 1 BY <1>b, Sizes DEF AddPiece
  <2>2. NameBuffer' BY <1>0, <1>b DEF AddPiece, NameBuffer, Naming
  <2> QED BY <1>0, <1>2, <2>1, <2>2 DEF Naming, fileVars
<1>5. Listing' BY <1>0, <1>2, SameSongs DEF fileVars
<1>6. Switches'
  <2>1. bLongFilename' = TRUE BY DEF AddPiece
  <2> QED BY <1>0, <1>2, <2>1 DEF Switches, fileVars
<1>7. Counts' BY <1>0, <1>2, SameHandles DEF fileVars
<1> QED BY <1>3, <1>4, <1>5, <1>6, <1>7 DEF Inv

LEMMA FindStep == Inv /\ ListFinds => Inv'
<1> SUFFICES ASSUME Inv, ListFinds PROVE Inv' OBVIOUS
<1>0. Position /\ Naming /\ Listing /\ Switches /\ Counts BY DEF Inv
<1>a. This.kind = "short" /\ IsFound /\ phase = "next" /\ phase' \in {"open", "next"}
  BY DEF ListFinds, IsFound
<1>b. FoundName \in Names BY <1>0, <1>a, Kinds
<1>c. Here \in 1 .. Len(dir) BY <1>0, DirType
<1>1. at' \in [Searches -> 0 .. Len(dir) - 1]
  BY <1>0, <1>a, BeginsAgain DEF ListFinds
<1>2. UNCHANGED <<dir, hFile, handles, songs, unread, faults>> BY DEF ListFinds
<1>3. Position' BY <1>0, <1>1, <1>2, <1>a DEF Position
<1>4. Naming' /\ bLongFilename' \in BOOLEAN
  BY <1>b, FreshNaming DEF ListFinds, SearchBegins
<1>5. Listing'
  <2>1. [at |-> Here, name |-> FoundName] \in [at : 1 .. Len(dir), name : Names]
    BY <1>b, <1>c
  <2>2. browsed' \in Seq([at : 1 .. Len(dir), name : Names])
    BY <1>0, <2>1, AppendProperties DEF Listing, ListFinds
  <2> QED BY <1>0, <1>2, <1>a, <2>2 DEF Listing, Song
<1>6. Switches'
  <2>1. bFlag' \in BOOLEAN BY DEF ListFinds
  <2> QED BY <1>0, <1>2, <1>4, <2>1 DEF Switches
<1>7. Counts' BY <1>0, <1>2, <1>a, SameHandles
<1> QED BY <1>3, <1>4, <1>5, <1>6, <1>7 DEF Inv

LEMMA EndStep == Inv /\ ListEnds => Inv'
<1> SUFFICES ASSUME Inv, ListEnds PROVE Inv' OBVIOUS
<1>0. Position /\ Naming /\ Listing /\ Switches /\ Counts BY DEF Inv
<1>2. UNCHANGED <<dir, at, nameVars, fileVars, browsed, unread>>
      /\ phase = "next" /\ phase' = "done"
  BY DEF ListEnds
<1>3. Position' BY <1>0, <1>2 DEF Position, fileVars
<1>4. Naming' BY <1>0, <1>2 DEF Naming, NameBuffer, nameVars, fileVars
<1>5. Listing' BY <1>0, <1>2, SameSongs DEF fileVars
<1>6. Switches'
  <2>1. faults' \in BOOLEAN BY DEF ListEnds, Fault
  <2> QED BY <1>0, <1>2, <2>1 DEF Switches, nameVars, fileVars
<1>7. Counts' BY <1>0, <1>2, SameHandles DEF fileVars
<1> QED BY <1>3, <1>4, <1>5, <1>6, <1>7 DEF Inv

LEMMA PassStep == Inv /\ OpenPasses => Inv'
<1> SUFFICES ASSUME Inv, OpenPasses PROVE Inv' OBVIOUS
<1>0. Position /\ Naming /\ Listing /\ Switches /\ Counts BY DEF Inv
<1>1. at' \in [Searches -> 0 .. Len(dir) - 1]
  BY <1>0, MovesOn DEF OpenPasses, IsFound
<1>2. UNCHANGED <<dir, phase, fileVars, browsed, unread, faults>>
  BY DEF OpenPasses
<1>3. Position' BY <1>0, <1>1, <1>2 DEF Position, fileVars
<1>4. Naming' /\ bLongFilename' \in BOOLEAN
  BY <1>0, <1>2, FreshNaming DEF OpenPasses, Naming, fileVars
<1>5. Listing' BY <1>0, <1>2, SameSongs DEF fileVars
<1>6. Switches' BY <1>0, <1>2, <1>4 DEF Switches, fileVars
<1>7. Counts' BY <1>0, <1>2, SameHandles DEF fileVars
<1> QED BY <1>3, <1>4, <1>5, <1>6, <1>7 DEF Inv

LEMMA OpenStep == Inv /\ OpenFinds => Inv'
<1> SUFFICES ASSUME Inv, OpenFinds PROVE Inv' OBVIOUS
<1>0. Position /\ Naming /\ Listing /\ Switches /\ Counts BY DEF Inv
<1>c. Here \in 1 .. Len(dir) BY <1>0, DirType
<1>d. handles' \in 0 .. MaxHandles /\ handles' = handles + 1
  BY <1>0, Sizes DEF OpenFinds, Counts
<1>n. Cardinality(Opened) \in Nat BY <1>0, OpenedFinite
<1>2. UNCHANGED <<dir, at, bFlag, szWaveFilename, browsed, unread, faults>>
      /\ hFile' = Here
  BY DEF OpenFinds
<1>3. Position'
  <2>1. phase' \in {"header", "first"} BY DEF OpenFinds
  <2>2. hFile' \in 0 .. Len(dir) /\ hFile' # 0
    <3>1. Len(dir) \in Nat BY <1>0, DirType
    <3> QED BY <1>2, <1>c, <3>1
  <2> QED BY <1>0, <1>2, <2>1, <2>2 DEF Position
<1>4. Naming' /\ bLongFilename' \in BOOLEAN
  BY <1>0, <1>2, FreshNaming DEF OpenFinds, Naming
<1>6. Switches' BY <1>0, <1>2, <1>4 DEF Switches
<1>8. CASE phase = "open" /\ phase' = "header" /\ UNCHANGED songs
  <2>1. Listing' BY <1>0, <1>2, <1>8, SameSongs
  <2>2. Opened' = Opened BY <1>8 DEF Opened
  <2>3. InHeader = 0 /\ InHeader' = 1 BY <1>8 DEF InHeader
  <2>4. Counts' BY <1>0, <1>2, <1>d, <1>n, <2>2, <2>3 DEF Counts
  <2> QED BY <1>3, <1>4, <1>6, <2>1, <2>4 DEF Inv
<1>9. CASE /\ phase = "reopen" /\ phase' = "first"
           /\ songs' = [songs EXCEPT ![Len(songs)].hFile = Here]
  <2>1. Len(songs) \in 1 .. Len(songs) /\ songs[Len(songs)] \in Song
    BY <1>0, <1>9, LastSong
  <2> DEFINE e == [songs[Len(songs)] EXCEPT !.hFile = Here]
  <2>2. e \in Song /\ e.hFile = Here
    <3>1. Here \in 0 .. Len(dir)
      <4>1. Len(dir) \in Nat BY <1>0, DirType
      <4> QED BY <1>c, <4>1
    <3> QED BY <2>1, <3>1 DEF Song
  <2>3. songs' = [songs EXCEPT ![Len(songs)] = e] BY <1>9
  <2> HIDE DEF e
  <2>4. /\ songs' \in Seq(Song) /\ Len(songs') = Len(songs) /\ songs' # <<>>
        /\ songs'[Len(songs)] = e
        /\ \A k \in 1 .. Len(songs) : k # Len(songs) => songs'[k] = songs[k]
    BY <1>0, <1>9, <2>2, <2>3, SongSet
  <2>5. Listing' BY <1>0, <1>2, <1>9, <2>4 DEF Listing, Song
  <2>6. Opened' = Opened \cup {Len(songs)} /\ Len(songs) \notin Opened
    <3>1. e.hFile # 0 BY <1>c, <2>2
    <3>2. songs[Len(songs)].hFile = 0 BY <1>0, <1>9 DEF Listing
    <3> QED BY <2>1, <2>4, <3>1, <3>2 DEF Opened
  <2>7. Cardinality(Opened') = Cardinality(Opened) + 1
    BY <1>0, <2>6, OpenedFinite, FS_AddElement
  <2>8. InHeader = 0 /\ InHeader' = 0 BY <1>9 DEF InHeader
  <2>9. Counts' BY <1>0, <1>2, <1>d, <1>n, <2>7, <2>8 DEF Counts
  <2> QED BY <1>3, <1>4, <1>6, <2>5, <2>9 DEF Inv
<1> QED BY <1>8, <1>9 DEF OpenFinds

LEMMA NotOpenStep == Inv /\ OpenFails => Inv'
<1> SUFFICES ASSUME Inv, OpenFails PROVE Inv' OBVIOUS
<1>0. Position /\ Naming /\ Listing /\ Switches /\ Counts BY DEF Inv
<1>2. UNCHANGED <<dir, at, bFlag, szWaveFilename, handles, browsed, unread>>
      /\ hFile' = 0 /\ phase' = "next"
  BY DEF OpenFails
<1>3. Position'
  <2>1. 0 \in 0 .. Len(dir)
    <3>1. Len(dir) \in Nat BY <1>0, DirType
    <3> QED BY <3>1
  <2> QED BY <1>0, <1>2, <2>1 DEF Position
<1>4. Naming' /\ bLongFilename' \in BOOLEAN
  BY <1>0, <1>2, FreshNaming DEF OpenFails, Naming
<1>6. Switches'
  <2>1. faults' \in BOOLEAN BY DEF OpenFails, Fault
  <2> QED BY <1>0, <1>2, <1>4, <2>1 DEF Switches
<1>7. songs' \in Seq(Song) /\ Opened' = Opened
  <2>1. CASE phase = "reopen" /\ \E ok \in BOOLEAN : Started(ok)
    BY <1>0, <2>1, StartedSong
  <2>2. CASE UNCHANGED songs BY <1>0, <2>2 DEF Listing, Opened
  <2> QED BY <2>1, <2>2 DEF OpenFails
<1>8. Listing' BY <1>0, <1>2, <1>7 DEF Listing, Song
<1>9. Counts'
  <2>1. InHeader = 0 /\ InHeader' = 0
    BY <1>2 DEF OpenFails, Opening, InHeader
  <2> QED BY <1>0, <1>2, <1>7, <2>1 DEF Counts
<1> QED BY <1>3, <1>4, <1>6, <1>8, <1>9 DEF Inv

LEMMA HeaderStep == Inv /\ ReadHeader => Inv'
<1> SUFFICES ASSUME Inv, ReadHeader PROVE Inv' OBVIOUS
<1>0. Position /\ Naming /\ Listing /\ Switches /\ Counts BY DEF Inv
<1>1. at' \in [Searches -> 0 .. Len(dir) - 1]
  BY <1>0, BeginsAgain DEF ReadHeader
<1>n. Cardinality(Opened) \in Nat BY <1>0, OpenedFinite
<1>2. UNCHANGED <<dir, bFlag, szWaveFilename, hFile, browsed, unread, faults>>
      /\ phase = "header" /\ phase' \in {"reopen", "next"} /\ handles' = handles - 1
  BY DEF ReadHeader
<1>3. Position' BY <1>0, <1>1, <1>2 DEF Position
<1>4. Naming' /\ bLongFilename' \in BOOLEAN
  BY <1>0, <1>2, FreshNaming DEF ReadHeader, SearchBegins, Naming
<1>6. Switches' BY <1>0, <1>2, <1>4 DEF Switches
<1>7. Listing' /\ Opened' = Opened
  <2>1. CASE UNCHANGED songs /\ phase' = "next"
    <3>1. Listing' BY <1>0, <1>2, <2>1, SameSongs
    <3> QED BY <2>1, <3>1 DEF Opened
  <2>2. CASE songs' = Append(songs, [name |-> szWaveFilename, hFile |-> 0,
                                    readOk |-> FALSE])
    <3> DEFINE e == [name |-> szWaveFilename, hFile |-> 0, readOk |-> FALSE]
    <3>1. e \in Song /\ e.hFile = 0
      <4>1. 0 \in 0 .. Len(dir)
        <5>1. Len(dir) \in Nat BY <1>0, DirType
        <5> QED BY <5>1
      <4> QED BY <1>0, <4>1 DEF Song, Naming
    <3>2. songs' = Append(songs, e) BY <2>2
    <3> HIDE DEF e
    <3>3. songs \in Seq(Song) /\ Len(songs) \in Nat
      BY <1>0, LenProperties DEF Listing
    <3>4. /\ songs' \in Seq(Song) /\ songs' # <<>> /\ Len(songs') = Len(songs) + 1
          /\ \A k \in 1 .. Len(songs) : songs'[k] = songs[k]
          /\ songs'[Len(songs) + 1] = e
      BY <3>1, <3>2, <3>3, AppendProperties
    <3>5. songs'[Len(songs')].hFile = 0 BY <3>1, <3>4
    <3>6. Listing' BY <1>0, <1>2, <3>4, <3>5 DEF Listing, Song
    <3>7. 1 .. Len(songs') = (1 .. Len(songs)) \cup {Len(songs) + 1} BY <3>3, <3>4
    <3>8. Opened' = Opened BY <3>1, <3>3, <3>4, <3>7 DEF Opened
    <3> QED BY <3>6, <3>8
  <2> QED BY <2>1, <2>2 DEF ReadHeader
<1>9. Counts'
  <2>1. InHeader = 1 /\ InHeader' = 0 BY <1>2 DEF InHeader
  <2> QED BY <1>0, <1>2, <1>n, <1>7, <2>1, Sizes DEF Counts
<1> QED BY <1>3, <1>4, <1>6, <1>7, <1>9 DEF Inv

LEMMA BadHeaderStep == Inv /\ HeaderFails => Inv'
<1> SUFFICES ASSUME Inv, HeaderFails PROVE Inv' OBVIOUS
<1>0. Position /\ Naming /\ Listing /\ Switches /\ Counts BY DEF Inv
<1>n. Cardinality(Opened) \in Nat BY <1>0, OpenedFinite
<1>2. UNCHANGED <<dir, at, fileVars, browsed>> /\ phase = "header"
      /\ phase' = "next" /\ unread' = unread + 1 /\ faults' = TRUE
  BY DEF HeaderFails
<1>3. Position' BY <1>0, <1>2 DEF Position, fileVars
<1>4. Naming' /\ bLongFilename' \in BOOLEAN
  BY <1>0, <1>2, FreshNaming DEF HeaderFails, Naming, fileVars
<1>5. Listing' BY <1>0, <1>2, SameSongs DEF fileVars
<1>6. Switches' BY <1>0, <1>2, <1>4 DEF Switches, fileVars
<1>7. Counts'
  <2>1. InHeader = 1 /\ InHeader' = 0 BY <1>2 DEF InHeader
  <2>2. Opened' = Opened BY <1>2 DEF Opened, fileVars
  <2> QED BY <1>0, <1>2, <1>n, <2>1, <2>2 DEF Counts, fileVars
<1> QED BY <1>3, <1>4, <1>5, <1>6, <1>7 DEF Inv

LEMMA FirstStep == Inv /\ ReadFirst => Inv'
<1> SUFFICES ASSUME Inv, ReadFirst PROVE Inv' OBVIOUS
<1>0. Position /\ Naming /\ Listing /\ Switches /\ Counts BY DEF Inv
<1>2. UNCHANGED <<dir, at, bFlag, szWaveFilename, hFile, handles, browsed, unread>>
      /\ phase = "first" /\ phase' = "next"
  BY DEF ReadFirst
<1>3. Position' BY <1>0, <1>2 DEF Position
<1>4. Naming' /\ bLongFilename' \in BOOLEAN
  BY <1>0, <1>2, FreshNaming DEF ReadFirst, Naming
<1>5. PICK ok \in BOOLEAN : Started(ok) /\ Fault(ok) BY DEF ReadFirst
<1>6. Switches'
  <2>1. faults' \in BOOLEAN BY <1>5 DEF Fault
  <2> QED BY <1>0, <1>2, <1>4, <2>1 DEF Switches
<1>7. songs' \in Seq(Song) /\ Opened' = Opened BY <1>0, <1>2, <1>5, StartedSong
<1>8. Listing' BY <1>0, <1>2, <1>7 DEF Listing, Song
<1>9. Counts'
  <2>1. InHeader = 0 /\ InHeader' = 0 BY <1>2 DEF InHeader
  <2> QED BY <1>0, <1>2, <1>7, <2>1 DEF Counts
<1> QED BY <1>3, <1>4, <1>6, <1>8, <1>9 DEF Inv

LEMMA InitInv == Init => Inv
<1> SUFFICES ASSUME Init PROVE Inv OBVIOUS
<1>1. Position
  <2>1. dir \in Directories /\ dir \in Seq(Entry) /\ dir # <<>>
    BY DirAssumption DEF Init
  <2>2. Len(dir) \in Nat \ {0} BY <2>1, EmptySeq
  <2>3. 0 \in 0 .. Len(dir) - 1 /\ 0 \in 0 .. Len(dir) BY <2>2
  <2> QED BY <2>1, <2>3 DEF Init, Position
<1>2. Naming
  <2>1. NameBuffer BY DEF Init, NameBuffer
  <2>2. szWaveFilename \in Names
    <3>1. szWaveFilename \in Seq(Pieces) /\ Len(szWaveFilename) = 0
      BY EmptySeq DEF Init
    <3>2. szWaveFilename \in [1 .. 0 -> Pieces] BY <3>1, LenProperties
    <3>3. 0 \in 0 .. MaxOrd BY Sizes
    <3> QED BY <3>2, <3>3 DEF Names
  <2>3. OrderValue \in 0 .. MaxOrd - 1 BY Sizes DEF Init
  <2> QED BY <2>1, <2>2, <2>3 DEF Naming
<1>3. Listing
  <2>1. songs \in Seq(Song) BY EmptySeq DEF Init
  <2>2. browsed \in Seq([at : 1 .. Len(dir), name : Names]) BY EmptySeq DEF Init
  <2> QED BY <2>1, <2>2 DEF Init, Listing
<1>4. Switches BY DEF Init, Switches
<1>5. Counts
  <2>1. Len(songs) = 0 BY EmptySeq DEF Init
  <2>2. Opened = {} BY <2>1 DEF Opened
  <2>3. Cardinality(Opened) = 0 BY <2>2, FS_EmptySet
  <2> QED BY <2>3, Sizes DEF Init, Counts, InHeader
<1> QED BY <1>1, <1>2, <1>3, <1>4, <1>5 DEF Inv

THEOREM DirInvariant == Spec => []Inv
<1>1. Inv /\ [Next]_vars => Inv'
  <2> SUFFICES ASSUME Inv, [Next]_vars PROVE Inv' OBVIOUS
  <2>1. CASE UNCHANGED vars
    <3>0. Position /\ Naming /\ Listing /\ Switches /\ Counts BY DEF Inv
    <3>1. UNCHANGED <<dir, phase, at, nameVars, fileVars, browsed, unread, faults>>
      BY <2>1 DEF vars
    <3>2. Position' BY <3>0, <3>1 DEF Position, fileVars
    <3>3. Naming' BY <3>0, <3>1 DEF Naming, NameBuffer, nameVars, fileVars
    <3>4. Listing' BY <3>0, <3>1, SameSongs DEF fileVars
    <3>5. Switches' BY <3>0, <3>1 DEF Switches, nameVars, fileVars
    <3>6. Counts' BY <3>0, <3>1, SameHandles DEF fileVars
    <3> QED BY <3>2, <3>3, <3>4, <3>5, <3>6 DEF Inv
  <2> QED BY <2>1, SkipStep, PieceStep, FindStep, EndStep, PassStep, OpenStep,
             NotOpenStep, HeaderStep, BadHeaderStep, FirstStep DEF Next
<1> QED BY <1>1, InitInv, PTL DEF Spec

\* The types of all variables; in particular no search passes the end of the
\* directory, whatever lies in it, and a name never outgrows its buffer.
THEOREM DirTypes == Spec => []TypeOK
<1>1. Inv => TypeOK
  <2> SUFFICES ASSUME Inv PROVE TypeOK OBVIOUS
  <2>1. dir \in Seq(Entry) BY DirType DEF Inv
  <2> QED BY <2>1 DEF Inv, TypeOK, Position, Naming, NameBuffer, Listing, Song,
                     Switches, Counts
<1> QED BY <1>1, DirInvariant, PTL

\* A handle is lost with every header that cannot be read, and with nothing
\* else: those that are open belong to songs that were started, or are lost.
THEOREM HandlesAlwaysAccounted == Spec => []HandlesAccounted
<1>1. Inv => HandlesAccounted
  BY DEF Inv, Counts, HandlesAccounted, Opened, InHeader
<1> QED BY <1>1, DirInvariant, PTL

-----------------------------------------------------------------------------
\* One search as a function of the directory: its state is what
\* Fat_FileBrowseNext keeps of the name, and an entry leads to the next state.

SearchState ==
    [ord : 0 .. MaxOrd - 1, long : BOOLEAN,
     name : [1 .. MaxOrd -> Pieces \cup {NoPiece}]]

NoName == [k \in 1 .. MaxOrd |-> NoPiece]
Fresh == [ord |-> 0, long |-> FALSE, name |-> NoName]
Now == [ord |-> OrderValue, long |-> bLongFilename, name |-> szName]

TakesPiece(s, e) ==
    /\ e.kind = "long"
    /\ IF s.ord = 0 THEN ~s.long ELSE e.ord = s.ord
FindsFile(s, e) == e.kind = "short" /\ (s.long => e.plain)

WithPiece(s, e) ==
    [ord |-> e.ord - 1, long |-> TRUE,
     name |-> [k \in 1 .. MaxOrd |-> IF k = e.ord THEN e.piece
                 ELSE IF s.ord = 0 THEN NoPiece ELSE s.name[k]]]

\* The name of the pieces s, which ends where nothing was written.
EndsIn(s, k) ==
    /\ \A j \in 1 .. k : s[j] # NoPiece
    /\ k < MaxOrd => s[k + 1] = NoPiece
NameOf(s) == SubSeq(s, 1, CHOOSE k \in 0 .. MaxOrd : EndsIn(s, k))
NameFound(s, e) == IF s.long THEN NameOf(s.name) ELSE <<e.name>>

LEMMA NowType ==
    ASSUME Inv
    PROVE  /\ Now \in SearchState /\ Now.ord = OrderValue
           /\ Now.long = bLongFilename /\ Now.name = szName
BY DEF Inv, Naming, NameBuffer, Switches, Now, SearchState

LEMMA FreshType ==
    /\ Fresh \in SearchState /\ Fresh.ord = 0 /\ Fresh.long = FALSE
    /\ Fresh.name = NoName
<1>1. 0 \in 0 .. MaxOrd - 1 BY Sizes
<1>2. NoName \in [1 .. MaxOrd -> Pieces \cup {NoPiece}] BY DEF NoName
<1> QED BY <1>1, <1>2 DEF Fresh, SearchState

\* The conditions and steps of the model in terms of the function.
LEMMA OfThis ==
    /\ IsNextPiece <=> TakesPiece(Now, This)
    /\ IsFound <=> FindsFile(Now, This)
    /\ FoundName = NameFound(Now, This)
<1>1. LongName = NameOf(szName) BY DEF LongName, NameOf, EndsIn
<1> QED BY <1>1 DEF IsNextPiece, IsFound, FoundName, TakesPiece, FindsFile,
               NameFound, Now

LEMMA NowFresh == FreshName => Now' = Fresh
BY DEF FreshName, Now, Fresh, NoName

LEMMA NowSame == UNCHANGED nameVars => Now' = Now
BY DEF nameVars, Now

LEMMA NowPiece == AddPiece => Now' = WithPiece(Now, This)
BY DEF AddPiece, Now, WithPiece

-----------------------------------------------------------------------------
\* In a directory as it should be, a search has put together the pieces that
\* lie next behind it.

Directory(d) ==
    /\ d \in Seq(Entry) /\ Len(d) \in Nat /\ Len(d) >= 1
    /\ \A i \in 1 .. Len(d) :
        /\ d[i].kind \in {"skip", "long", "short", "last"}
        /\ d[i].kind = "last" <=> i = Len(d)
        /\ d[i].kind = "long" => d[i].ord \in 1 .. MaxOrd /\ d[i].piece \in Pieces

\* WellFormed, of any directory.
GoodDir(d) ==
    \A i \in 1 .. Len(d) : d[i].kind = "long" =>
        IF d[i].ord = 1 THEN d[i + 1].kind = "short" /\ d[i + 1].plain
        ELSE d[i + 1].kind = "long" /\ d[i + 1].ord = d[i].ord - 1

\* Entry i - k is piece k of the name of the file at i.
PieceAt(d, i, k) == k < i /\ d[i - k].kind = "long" /\ d[i - k].ord = k
EndsAt(d, i, k) ==
    /\ \A j \in 1 .. k : PieceAt(d, i, j)
    /\ k < MaxOrd => ~PieceAt(d, i, k + 1)
NameIn(d, i) ==
    LET n == CHOOSE k \in 0 .. MaxOrd : EndsAt(d, i, k)
    IN  IF n = 0 THEN <<d[i].name>> ELSE [k \in 1 .. n |-> d[i - k].piece]

LEMMA DirIsDirectory ==
    ASSUME Position
    PROVE  Directory(dir)
<1>1. /\ dir \in Seq(Entry) /\ Len(dir) \in Nat /\ Len(dir) >= 1 BY DirType
<1>2. \A i \in 1 .. Len(dir) : dir[i].kind = "last" <=> i = Len(dir)
  BY DirAssumption DEF Position
<1>3. ASSUME NEW i \in 1 .. Len(dir)
      PROVE  /\ dir[i].kind \in {"skip", "long", "short", "last"}
             /\ dir[i].kind = "long" =>
                    dir[i].ord \in 1 .. MaxOrd /\ dir[i].piece \in Pieces
  <2>1. dir[i] \in Entry BY <1>1, ElementOfSeq
  <2> QED BY <2>1 DEF Entry, LongEntry, ShortEntry
<1> QED BY <1>1, <1>2, <1>3 DEF Directory

LEMMA NamesOfDir ==
    /\ WellFormed <=> GoodDir(dir)
    /\ \A i : NameAt(i) = NameIn(dir, i)
BY DEF WellFormed, GoodDir, NameAt, NameIn, EndsAt, PieceAt

\* The directory is never written.
LEMMA SameDir ==
    ASSUME UNCHANGED dir
    PROVE  /\ WellFormed' <=> WellFormed
           /\ \A i : NameAt(i)' = NameAt(i)
           /\ Files' = Files /\ Waves' = Waves
           /\ Distinct' <=> Distinct
<1>1. WellFormed' <=> GoodDir(dir') BY DEF WellFormed, GoodDir
<1>2. ASSUME NEW i PROVE NameAt(i)' = NameIn(dir', i)
  BY DEF NameAt, NameIn, EndsAt, PieceAt
<1>3. Files' = Files /\ Waves' = Waves BY DEF Files, Waves
<1>4. Distinct' <=> \A i, j \in Files' : NameIn(dir', i) = NameIn(dir', j) => i = j
  BY <1>2 DEF Distinct
<1>5. Distinct <=> \A i, j \in Files : NameIn(dir, i) = NameIn(dir, j) => i = j
  BY NamesOfDir DEF Distinct
<1> QED BY <1>1, <1>2, <1>3, <1>4, <1>5, NamesOfDir

\* A name ends in one place.
LEMMA NameFrom ==
    ASSUME NEW d, NEW i, NEW n \in 0 .. MaxOrd, EndsAt(d, i, n)
    PROVE  NameIn(d, i) = IF n = 0 THEN <<d[i].name>>
                          ELSE [k \in 1 .. n |-> d[i - k].piece]
<1> DEFINE m == CHOOSE k \in 0 .. MaxOrd : EndsAt(d, i, k)
<1>1. m \in 0 .. MaxOrd /\ EndsAt(d, i, m) OBVIOUS
<1>2. NameIn(d, i) = IF m = 0 THEN <<d[i].name>>
                     ELSE [k \in 1 .. m |-> d[i - k].piece]
  BY DEF NameIn
<1> HIDE DEF m
<1>3. ~(n < m)
  <2> SUFFICES ASSUME n < m PROVE FALSE OBVIOUS
  <2>1. n + 1 \in 1 .. m /\ n < MaxOrd BY <1>1, Sizes
  <2> QED BY <2>1, <1>1 DEF EndsAt
<1>4. ~(m < n)
  <2> SUFFICES ASSUME m < n PROVE FALSE OBVIOUS
  <2>1. m + 1 \in 1 .. n /\ m < MaxOrd BY <1>1, Sizes
  <2> QED BY <2>1, <1>1 DEF EndsAt
<1>5. m = n BY <1>1, <1>3, <1>4, Sizes
<1> QED BY <1>2, <1>5

LEMMA NameOfFrom ==
    ASSUME NEW s, NEW n \in 0 .. MaxOrd, EndsIn(s, n)
    PROVE  NameOf(s) = SubSeq(s, 1, n)
<1> DEFINE m == CHOOSE k \in 0 .. MaxOrd : EndsIn(s, k)
<1>1. m \in 0 .. MaxOrd /\ EndsIn(s, m) OBVIOUS
<1>2. NameOf(s) = SubSeq(s, 1, m) BY DEF NameOf
<1> HIDE DEF m
<1>3. ~(n < m)
  <2> SUFFICES ASSUME n < m PROVE FALSE OBVIOUS
  <2>1. n + 1 \in 1 .. m /\ n < MaxOrd BY <1>1, Sizes
  <2> QED BY <2>1, <1>1 DEF EndsIn
<1>4. ~(m < n)
  <2> SUFFICES ASSUME m < n PROVE FALSE OBVIOUS
  <2>1. m + 1 \in 1 .. n /\ m < MaxOrd BY <1>1, Sizes
  <2> QED BY <2>1, <1>1 DEF EndsIn
<1>5. m = n BY <1>1, <1>3, <1>4, Sizes
<1> QED BY <1>2, <1>5

\* No piece lies before entry a + 1.
Behind(d, a) == a = 0 \/ d[a].kind # "long"

\* The state s of a search that has come to entry a: pieces s.ord + 1 to n of
\* a name have been taken from the entries up to a, or none.
Taken(d, a, s, n) ==
    /\ s.ord < n /\ n - s.ord <= a
    /\ \A k \in s.ord + 1 .. n :
        /\ d[a + s.ord + 1 - k].kind = "long" /\ d[a + s.ord + 1 - k].ord = k
        /\ s.name[k] = d[a + s.ord + 1 - k].piece
    /\ \A k \in 1 .. MaxOrd : k <= s.ord \/ k > n => s.name[k] = NoPiece
    /\ Behind(d, a + s.ord - n)

Assembled(d, a, s) ==
    IF s.long THEN \E n \in 1 .. MaxOrd : Taken(d, a, s, n)
    ELSE s.ord = 0 /\ s.name = NoName /\ Behind(d, a)

LEMMA FreshAssembled ==
    ASSUME NEW d, NEW a, Behind(d, a)
    PROVE  Assembled(d, a, Fresh)
BY FreshType DEF Assembled

\* What follows the pieces that have been taken.
LEMMA AfterPieces ==
    ASSUME NEW d, Directory(d), GoodDir(d), NEW a \in 0 .. Len(d) - 1,
           NEW s \in SearchState, Assembled(d, a, s), s.long
    PROVE  /\ s.ord = 0 => d[a + 1].kind = "short" /\ d[a + 1].plain
           /\ s.ord # 0 => d[a + 1].kind = "long" /\ d[a + 1].ord = s.ord
<1>1. s.ord \in Nat /\ s.ord <= MaxOrd - 1 BY Sizes DEF SearchState
<1>2. PICK n \in 1 .. MaxOrd : Taken(d, a, s, n) BY DEF Assembled
<1>3. n \in Nat /\ a \in Nat /\ s.ord + 1 \in s.ord + 1 .. n
      /\ a + s.ord + 1 - (s.ord + 1) = a
  BY <1>1, <1>2, Sizes DEF Taken, Directory
<1>4. d[a].kind = "long" /\ d[a].ord = s.ord + 1
  BY <1>2, <1>3 DEF Taken
<1>5. s.ord < n /\ n - s.ord <= a /\ Len(d) \in Nat
  BY <1>2 DEF Taken, Directory
<1>6. a \in 1 .. Len(d) BY <1>1, <1>3, <1>5
<1>7. s.ord + 1 = 1 <=> s.ord = 0 BY <1>1
<1>9. IF d[a].ord = 1 THEN d[a + 1].kind = "short" /\ d[a + 1].plain
      ELSE d[a + 1].kind = "long" /\ d[a + 1].ord = d[a].ord - 1
  BY <1>4, <1>6 DEF GoodDir
<1>10. ASSUME s.ord = 0 PROVE d[a + 1].kind = "short" /\ d[a + 1].plain
  <2>1. d[a].ord = 1 BY <1>4, <1>7, <1>10
  <2> QED BY <1>9, <2>1, Zenon
<1>11. ASSUME s.ord # 0 PROVE d[a + 1].kind = "long" /\ d[a + 1].ord = s.ord
  <2>1. d[a].ord # 1 BY <1>4, <1>7, <1>11
  <2>2. d[a + 1].kind = "long" /\ d[a + 1].ord = d[a].ord - 1
    BY <1>9, <2>1, Zenon
  <2> QED BY <1>1, <1>4, <2>2
<1> QED BY <1>10, <1>11, Zenon

LEMMA SkipAssembled ==
    ASSUME NEW d, Directory(d), GoodDir(d), NEW a \in 0 .. Len(d) - 1,
           NEW s \in SearchState, Assembled(d, a, s), d[a + 1].kind = "skip"
    PROVE  Assembled(d, a + 1, s)
<1>1. ~s.long BY AfterPieces
<1>2. Behind(d, a + 1) BY DEF Behind
<1> QED BY <1>1, <1>2 DEF Assembled

LEMMA PieceAssembled ==
    ASSUME NEW d, Directory(d), NEW a \in 0 .. Len(d) - 1,
           NEW s \in SearchState, Assembled(d, a, s), TakesPiece(s, d[a + 1])
    PROVE  Assembled(d, a + 1, WithPiece(s, d[a + 1]))
<1> DEFINE e == d[a + 1]
           t == WithPiece(s, e)
<1>1. a \in Nat /\ a + 1 \in 1 .. Len(d) BY DEF Directory
<1>2. e.ord \in 1 .. MaxOrd /\ e.piece \in Pieces /\ e.kind = "long"
  BY <1>1 DEF Directory, TakesPiece
<1>3. /\ t.ord = e.ord - 1 /\ t.long
      /\ \A k \in 1 .. MaxOrd :
           t.name[k] = IF k = e.ord THEN e.piece
                       ELSE IF s.ord = 0 THEN NoPiece ELSE s.name[k]
  BY DEF WithPiece
<1>o. s.ord \in Nat /\ s.ord <= MaxOrd - 1 /\ s.long \in BOOLEAN
  BY Sizes DEF SearchState
<1>4. CASE ~s.long
  <2>1. s.ord = 0 /\ Behind(d, a) BY <1>4 DEF Assembled
  <2> HIDE DEF t
  <2> DEFINE n == e.ord
  <2>2. n \in 1 .. MaxOrd /\ n \in Nat BY <1>2
  <2>3. t.ord = n - 1 /\ t.ord < n /\ n - t.ord <= a + 1 BY <1>1, <1>3, <2>2
  <2>4. ASSUME NEW k \in t.ord + 1 .. n
        PROVE  k = n /\ (a + 1) + t.ord + 1 - k = a + 1
    BY <1>1, <2>2, <2>3
  <2>5. \A k \in t.ord + 1 .. n :
          /\ d[(a + 1) + t.ord + 1 - k].kind = "long"
          /\ d[(a + 1) + t.ord + 1 - k].ord = k
          /\ t.name[k] = d[(a + 1) + t.ord + 1 - k].piece
    BY <1>2, <1>3, <2>2, <2>4
  <2>6. ASSUME NEW k \in 1 .. MaxOrd, k <= t.ord \/ k > n
        PROVE  t.name[k] = NoPiece
    <3>1. k # n BY <2>2, <2>3, <2>6
    <3> QED BY <1>3, <2>1, <3>1
  <2>7. (a + 1) + t.ord - n = a BY <1>1, <2>2, <2>3
  <2>8. Taken(d, a + 1, t, n) BY <2>1, <2>3, <2>5, <2>6, <2>7 DEF Taken
  <2>9. Assembled(d, a + 1, t) BY <1>3, <2>2, <2>8 DEF Assembled
  <2> QED BY <2>9 DEF t
<1>5. CASE s.long
  <2>1. s.ord # 0 /\ e.ord = s.ord BY <1>5 DEF TakesPiece
  <2>2. PICK n \in 1 .. MaxOrd : Taken(d, a, s, n) BY <1>5 DEF Assembled
  <2> HIDE DEF t
  <2>3. n \in Nat /\ s.ord < n /\ n - s.ord <= a BY <2>2 DEF Taken
  <2>4. t.ord = s.ord - 1 /\ t.ord < n /\ n - t.ord <= a + 1
    BY <1>1, <1>o, <1>3, <2>1, <2>3
  <2>5. ASSUME NEW k \in t.ord + 1 .. n
        PROVE  /\ d[(a + 1) + t.ord + 1 - k].kind = "long"
               /\ d[(a + 1) + t.ord + 1 - k].ord = k
               /\ t.name[k] = d[(a + 1) + t.ord + 1 - k].piece
    <3>1. (a + 1) + t.ord + 1 - k = a + s.ord + 1 - k /\ k \in 1 .. MaxOrd
      <4>1. s.ord \in Nat /\ t.ord = s.ord - 1 /\ s.ord >= 1
        BY <1>o, <2>1, <2>4
      <4>2. k \in s.ord .. n BY <4>1, <2>3
      <4>3. n <= MaxOrd BY <2>2, Sizes
      <4>4. k \in 1 .. MaxOrd BY <4>1, <4>2, <4>3, <2>3, Sizes
      <4> QED BY <1>1, <4>1, <4>2, <4>4, <2>3
    <3>2. CASE k = s.ord
      <4>1. a + s.ord + 1 - k = a + 1 BY <1>1, <1>o, <3>2
      <4> QED BY <1>2, <1>3, <2>1, <3>1, <3>2, <4>1
    <3>3. CASE k # s.ord
      <4>1. k \in s.ord + 1 .. n BY <1>o, <2>3, <2>4, <3>3
      <4> QED BY <1>3, <2>1, <2>2, <3>1, <3>3, <4>1 DEF Taken
    <3> QED BY <3>2, <3>3
  <2>6. ASSUME NEW k \in 1 .. MaxOrd, k <= t.ord \/ k > n
        PROVE  t.name[k] = NoPiece
    <3>1. k # s.ord /\ (k <= s.ord \/ k > n) BY <1>o, <2>3, <2>4, <2>6
    <3> QED BY <1>3, <2>1, <2>2, <3>1 DEF Taken
  <2>7. (a + 1) + t.ord - n = a + s.ord - n BY <1>1, <1>o, <2>3, <2>4
  <2>8. Behind(d, (a + 1) + t.ord - n) BY <2>2, <2>7 DEF Taken
  <2>9. Taken(d, a + 1, t, n) BY <2>4, <2>5, <2>6, <2>8 DEF Taken
  <2>10. Assembled(d, a + 1, t) BY <1>3, <2>9 DEF Assembled
  <2> QED BY <2>10 DEF t
<1> QED BY <1>o, <1>4, <1>5

\* The file that is found goes by the name it has in the directory.
LEMMA FoundUnderName ==
    ASSUME NEW d, Directory(d), GoodDir(d), NEW a \in 0 .. Len(d) - 1,
           NEW s \in SearchState, Assembled(d, a, s), FindsFile(s, d[a + 1])
    PROVE  NameFound(s, d[a + 1]) = NameIn(d, a + 1)
<1>1. a \in Nat /\ d[a + 1].kind = "short" /\ s.long \in BOOLEAN
  BY DEF Directory, FindsFile, SearchState
<1>2. CASE ~s.long
  <2>1. 0 \in 0 .. MaxOrd BY Sizes
  <2>2. ~PieceAt(d, a + 1, 1)
    <3>1. Behind(d, a) BY <1>2 DEF Assembled
    <3>2. (a + 1) - 1 = a /\ (1 < a + 1 => a # 0) BY <1>1
    <3> QED BY <3>1, <3>2 DEF PieceAt, Behind
  <2>3. EndsAt(d, a + 1, 0) BY <2>2 DEF EndsAt
  <2>4. NameIn(d, a + 1) = <<d[a + 1].name>> BY <2>1, <2>3, NameFrom
  <2> QED BY <1>2, <2>4 DEF NameFound
<1>3. CASE s.long
  <2>1. s.ord = 0 BY <1>1, <1>3, AfterPieces
  <2>2. PICK n \in 1 .. MaxOrd : Taken(d, a, s, n) BY <1>3 DEF Assembled
  <2>3. n \in Nat /\ n <= a /\ n \in 0 .. MaxOrd /\ n # 0
    BY <1>1, <2>1, <2>2 DEF Taken
  <2>4. ASSUME NEW k \in 1 .. n
        PROVE  /\ PieceAt(d, a + 1, k) /\ s.name[k] = d[(a + 1) - k].piece
               /\ s.name[k] \in Pieces
    <3>1. k \in s.ord + 1 .. n /\ a + s.ord + 1 - k = (a + 1) - k /\ k < a + 1
      BY <1>1, <2>1, <2>3
    <3>2. (a + 1) - k \in 1 .. Len(d) BY <1>1, <3>1, <2>3 DEF Directory
    <3> QED BY <2>2, <3>1, <3>2 DEF Taken, PieceAt, Directory
  <2>5. n < MaxOrd => s.name[n + 1] = NoPiece
    <3> SUFFICES ASSUME n < MaxOrd PROVE s.name[n + 1] = NoPiece OBVIOUS
    <3>1. n + 1 \in 1 .. MaxOrd /\ n + 1 > n BY <2>3, Sizes
    <3> QED BY <2>2, <3>1 DEF Taken
  <2>6. ~PieceAt(d, a + 1, n + 1)
    <3>1. Behind(d, a - n) BY <1>1, <2>1, <2>2, <2>3 DEF Taken
    <3>2. (a + 1) - (n + 1) = a - n /\ (n + 1 < a + 1 => a - n # 0)
      BY <1>1, <2>3
    <3> QED BY <3>1, <3>2 DEF PieceAt, Behind
  <2>7. EndsAt(d, a + 1, n) BY <2>4, <2>6 DEF EndsAt
  <2>8. NameIn(d, a + 1) = [k \in 1 .. n |-> d[(a + 1) - k].piece]
    BY <2>3, <2>7, NameFrom
  <2>9. EndsIn(s.name, n) BY <2>4, <2>5, DirAssumption DEF EndsIn
  <2>10. NameFound(s, d[a + 1]) = SubSeq(s.name, 1, n)
    BY <1>3, <2>3, <2>9, NameOfFrom DEF NameFound
  <2>11. SubSeq(s.name, 1, n) = [k \in 1 .. n |-> d[(a + 1) - k].piece]
    <3>1. /\ SubSeq(s.name, 1, n) \in Seq(Pieces)
          /\ Len(SubSeq(s.name, 1, n)) = n
          /\ \A k \in 1 .. n : SubSeq(s.name, 1, n)[k] = s.name[1 + k - 1]
      BY <2>3, <2>4, SubSeqProperties
    <3>2. SubSeq(s.name, 1, n) \in [1 .. n -> Pieces] BY <3>1, LenProperties
    <3>3. ASSUME NEW k \in 1 .. n
          PROVE  SubSeq(s.name, 1, n)[k] = d[(a + 1) - k].piece
      <4>1. 1 + k - 1 = k OBVIOUS
      <4> QED BY <2>4, <3>1, <4>1
    <3> QED BY <3>2, <3>3
  <2> QED BY <2>8, <2>10, <2>11
<1> QED BY <1>1, <1>2, <1>3

\* Only the last entry ends a search.
LEMMA EndIsLast ==
    ASSUME NEW d, Directory(d), GoodDir(d), NEW a \in 0 .. Len(d) - 1,
           NEW s \in SearchState, Assembled(d, a, s),
           d[a + 1].kind # "skip", ~TakesPiece(s, d[a + 1]),
           ~FindsFile(s, d[a + 1])
    PROVE  a + 1 = Len(d)
<1>1. a + 1 \in 1 .. Len(d) /\ s.long \in BOOLEAN BY DEF Directory, SearchState
<1>2. d[a + 1].kind # "long"
  <2>1. CASE s.long BY <2>1, AfterPieces DEF TakesPiece
  <2>2. CASE ~s.long BY <2>2 DEF TakesPiece, Assembled
  <2> QED BY <1>1, <2>1, <2>2
<1>3. d[a + 1].kind # "short"
  <2>1. CASE s.long BY <2>1, AfterPieces DEF FindsFile
  <2>2. CASE ~s.long BY <2>2 DEF FindsFile
  <2> QED BY <1>1, <2>1, <2>2
<1> QED BY <1>1, <1>2, <1>3 DEF Directory

-----------------------------------------------------------------------------
\* What the search of build_wave_play_list delivers.

Busy == phase \in {"open", "header", "reopen", "first"}

\* The search that is under way has put together what lies behind it, and the
\* one that waits stands behind a file.
Browsing ==
    WellFormed =>
        /\ phase = "next" => Assembled(dir, at["list"], Now)
        /\ Opening => Assembled(dir, at["open"], Now)
        /\ Busy => Behind(dir, at["list"])

LEMMA SearchAt ==
    ASSUME Inv
    PROVE  /\ at[Search] \in 0 .. Len(dir) - 1 /\ at["list"] \in 0 .. Len(dir) - 1
           /\ at["open"] \in 0 .. Len(dir) - 1
           /\ Here = at[Search] + 1 /\ This = dir[at[Search] + 1]
           /\ Here \in 1 .. Len(dir)
           /\ Directory(dir) /\ Now \in SearchState
<1>1. Position BY DEF Inv
<1>2. Search \in Searches /\ Here \in 1 .. Len(dir) BY <1>1, DirType
<1>3. "list" \in Searches /\ "open" \in Searches BY DEF Searches
<1>4. Directory(dir) /\ Now \in SearchState BY <1>1, DirIsDirectory, NowType
<1> QED BY <1>1, <1>2, <1>3, <1>4 DEF Position, Here, This

LEMMA ListSearch ==
    /\ phase = "next" => Search = "list" /\ ~Opening /\ ~Busy
    /\ Opening => Search = "open" /\ Busy /\ phase # "next"
BY DEF Search, Opening, Busy

\* Both searches are assembled.
LEMMA SearchAssembled ==
    ASSUME Browsing, WellFormed, Searching
    PROVE  Assembled(dir, at[Search], Now)
BY DEF Browsing, Searching, Search, Opening

LEMMA EntryPassed ==
    ASSUME Inv, Browsing, WellFormed, SkipEntry \/ AddPiece
    PROVE  Assembled(dir, Here, Now')
<1>1. Searching BY DEF SkipEntry, AddPiece
<1>2. Assembled(dir, at[Search], Now) /\ GoodDir(dir)
  BY <1>1, SearchAssembled, NamesOfDir
<1>3. CASE SkipEntry
  <2>1. Now' = Now /\ This.kind = "skip" BY <1>3, NowSame DEF SkipEntry
  <2> QED BY <1>2, <2>1, SearchAt, SkipAssembled
<1>4. CASE AddPiece
  <2>1. Now' = WithPiece(Now, This) BY <1>4, NowPiece
  <2>2. TakesPiece(Now, This) BY <1>4, OfThis DEF AddPiece
  <2> QED BY <1>2, <2>1, <2>2, SearchAt, PieceAssembled
<1> QED BY <1>3, <1>4

\* A search that begins anew, behind a file or before the first entry.
LEMMA FreshBrowsing ==
    ASSUME UNCHANGED dir, FreshName, WellFormed => Behind(dir, at'["list"]),
           Opening' => (WellFormed => Behind(dir, at'["open"]))
    PROVE  Browsing'
<1>1. Now' = Fresh BY NowFresh
<1>2. WellFormed' <=> WellFormed BY SameDir
<1> QED BY <1>1, <1>2, FreshAssembled DEF Browsing

LEMMA Moved ==
    ASSUME Inv, Moves
    PROVE  /\ at'[Search] = Here
           /\ \A s \in Searches : s # Search => at'[s] = at[s]
<1>1. Position BY DEF Inv
<1>2. Search \in Searches BY <1>1, DirType
<1> QED BY <1>1, <1>2 DEF Moves, Position

LEMMA Begun ==
    ASSUME SearchBegins
    PROVE  at'["open"] = 0
           /\ at'["list"] = IF phase = "next" THEN Here ELSE at["list"]
BY DEF SearchBegins, Searches

\* No piece lies before the entry after a file.
LEMMA BehindFile ==
    ASSUME IsFound
    PROVE  Behind(dir, Here)
BY DEF IsFound, This, Behind

LEMMA BrowsingStep ==
    ASSUME Inv, Browsing, Next
    PROVE  Browsing'
<1>0. "list" \in Searches /\ "open" \in Searches BY DEF Searches
<1>b. WellFormed /\ Busy => Behind(dir, at["list"]) BY DEF Browsing
<1>z. \A d : Behind(d, 0) BY DEF Behind
<1>1. CASE SkipEntry \/ AddPiece
  <2>1. UNCHANGED <<dir, phase>> /\ Moves /\ Searching
    BY <1>1 DEF SkipEntry, AddPiece
  <2>2. WellFormed' <=> WellFormed BY <2>1, SameDir
  <2>3. WellFormed => Assembled(dir, at'[Search], Now')
    BY <1>1, <2>1, EntryPassed, Moved
  <2>4. CASE phase = "next"
    <3>1. Search = "list" /\ phase' = "next" /\ ~Opening' /\ ~Busy'
      BY <2>1, <2>4 DEF Search, Opening, Busy
    <3> QED BY <2>1, <2>2, <2>3, <3>1 DEF Browsing
  <2>5. CASE phase # "next"
    <3>1. Search = "open" /\ phase' # "next" BY <2>1, <2>5 DEF Search
    <3>2. at'["list"] = at["list"] BY <1>0, <2>1, <3>1, Moved
    <3>3. Busy /\ Busy' BY <2>1, <2>5 DEF Busy, Searching
    <3> QED BY <1>b, <2>1, <2>2, <2>3, <3>1, <3>2, <3>3 DEF Browsing
  <2> QED BY <2>4, <2>5
<1>2. CASE ListFinds
  <2>1. UNCHANGED dir /\ SearchBegins /\ FreshName /\ phase = "next" /\ IsFound
    BY <1>2 DEF ListFinds, SearchBegins
  <2>2. at'["list"] = Here /\ at'["open"] = 0 BY <2>1, Begun
  <2> QED BY <1>z, <2>1, <2>2, BehindFile, FreshBrowsing
<1>3. CASE ListEnds
  <2>1. phase' = "done" BY <1>3 DEF ListEnds
  <2> QED BY <2>1 DEF Browsing, Opening, Busy
<1>4. CASE OpenPasses
  <2>1. UNCHANGED <<dir, phase>> /\ Moves /\ FreshName /\ Opening /\ IsFound
    BY <1>4 DEF OpenPasses
  <2>2. at'["open"] = Here /\ at'["list"] = at["list"]
    BY <1>0, <2>1, ListSearch, Moved
  <2>3. WellFormed => Behind(dir, at'["list"])
    BY <1>b, <2>1, <2>2, ListSearch
  <2> QED BY <2>1, <2>2, <2>3, BehindFile, FreshBrowsing
<1>5. CASE OpenFinds \/ OpenFails \/ HeaderFails \/ ReadFirst
  <2>1. UNCHANGED <<dir, at>> /\ FreshName /\ Busy /\ ~Opening'
    BY <1>5 DEF OpenFinds, OpenFails, HeaderFails, ReadFirst, Opening, Busy
  <2> QED BY <1>b, <2>1, FreshBrowsing
<1>6. CASE ReadHeader
  <2>1. UNCHANGED dir /\ SearchBegins /\ FreshName /\ phase = "header" /\ Busy
    BY <1>6 DEF ReadHeader, SearchBegins, Busy
  <2>2. at'["list"] = at["list"] /\ at'["open"] = 0 BY <2>1, Begun
  <2> QED BY <1>b, <1>z, <2>1, <2>2, FreshBrowsing
<1> QED BY <1>1, <1>2, <1>3, <1>4, <1>5, <1>6 DEF Next

\* What has been delivered when the search has come to entry a.
Delivered(d, b, a) ==
    /\ {b[k].at : k \in 1 .. Len(b)}
           = {i \in {j \in 1 .. Len(d) : d[j].kind = "short"} : i <= a}
    /\ \A k \in 1 .. Len(b) :
        /\ b[k].name = NameIn(d, b[k].at)
        /\ k > 1 => b[k - 1].at < b[k].at

LEMMA BrowsesDelivered ==
    BrowsesAll <=> (WellFormed => Delivered(dir, browsed, at["list"]))
BY NamesOfDir DEF BrowsesAll, Delivered, Files

LEMMA BrowsesNext ==
    ASSUME UNCHANGED dir,
           WellFormed => Delivered(dir, browsed', at'["list"])
    PROVE  BrowsesAll'
<1>1. WellFormed' <=> WellFormed BY SameDir
<1>2. \A i : NameAt(i)' = NameIn(dir, i) BY SameDir, NamesOfDir
<1>3. Files' = {j \in 1 .. Len(dir) : dir[j].kind = "short"} BY DEF Files
<1> QED BY <1>1, <1>2, <1>3 DEF BrowsesAll, Delivered

\* One file more.
LEMMA OneMore ==
    ASSUME NEW d, Directory(d), NEW b \in Seq([at : 1 .. Len(d), name : Names]),
           NEW a \in 0 .. Len(d) - 1, Delivered(d, b, a),
           d[a + 1].kind = "short",
           NEW e \in [at : 1 .. Len(d), name : Names],
           e.at = a + 1, e.name = NameIn(d, a + 1)
    PROVE  Delivered(d, Append(b, e), a + 1)
<1> DEFINE c == Append(b, e)
<1>1. /\ Len(b) \in Nat /\ Len(c) = Len(b) + 1 /\ c[Len(b) + 1] = e
      /\ \A k \in 1 .. Len(b) : c[k] = b[k]
  BY AppendProperties, LenProperties
<1>2. a \in Nat /\ Len(d) \in Nat /\ a + 1 \in 1 .. Len(d) BY DEF Directory
<1> HIDE DEF c
<1>3. 1 .. Len(c) = (1 .. Len(b)) \cup {Len(b) + 1} BY <1>1
<1>4. \A k \in 1 .. Len(b) : b[k].at \in 1 .. Len(d) /\ b[k].at <= a
  <2>1. \A k \in 1 .. Len(b) : b[k] \in [at : 1 .. Len(d), name : Names]
    BY ElementOfSeq
  <2>2. \A k \in 1 .. Len(b) : b[k].at \in {b[j].at : j \in 1 .. Len(b)}
    OBVIOUS
  <2> QED BY <2>1, <2>2 DEF Delivered
<1>5. {c[k].at : k \in 1 .. Len(c)} = {b[k].at : k \in 1 .. Len(b)} \cup {a + 1}
  <2>1. {c[k].at : k \in 1 .. Len(c)}
          = {c[k].at : k \in 1 .. Len(b)} \cup {c[Len(b) + 1].at}
    BY <1>3
  <2>2. {c[k].at : k \in 1 .. Len(b)} = {b[k].at : k \in 1 .. Len(b)}
    BY <1>1
  <2> QED BY <1>1, <2>1, <2>2
<1>6. {i \in {j \in 1 .. Len(d) : d[j].kind = "short"} : i <= a + 1}
        = {i \in {j \in 1 .. Len(d) : d[j].kind = "short"} : i <= a} \cup {a + 1}
  <2>1. \A i \in 1 .. Len(d) : i <= a + 1 <=> i <= a \/ i = a + 1 BY <1>2
  <2> QED BY <1>2, <2>1
<1>7. ASSUME NEW k \in 1 .. Len(c)
      PROVE  /\ c[k].name = NameIn(d, c[k].at)
             /\ k > 1 => c[k - 1].at < c[k].at
  <2>1. CASE k \in 1 .. Len(b)
    <3>1. k > 1 => k - 1 \in 1 .. Len(b) BY <1>1, <2>1
    <3> QED BY <1>1, <2>1, <3>1 DEF Delivered
  <2>2. CASE k = Len(b) + 1
    <3>1. c[k].at = a + 1 /\ c[k].name = NameIn(d, a + 1) BY <1>1, <2>2
    <3>2. k > 1 => c[k - 1].at < a + 1
      <4> SUFFICES ASSUME k > 1 PROVE c[k - 1].at < a + 1 OBVIOUS
      <4>1. k - 1 \in 1 .. Len(b) BY <1>1, <2>2
      <4>2. c[k - 1].at = b[k - 1].at /\ b[k - 1].at \in 1 .. Len(d)
            /\ b[k - 1].at <= a
        BY <1>1, <1>4, <4>1
      <4> QED BY <1>2, <4>2
    <3> QED BY <3>1, <3>2
  <2> QED BY <1>3, <2>1, <2>2
<1>8. Delivered(d, c, a + 1)
  BY <1>5, <1>6, <1>7 DEF Delivered
<1> QED BY <1>8 DEF c

LEMMA BrowsesStep ==
    ASSUME Inv, Browsing, BrowsesAll, Next
    PROVE  BrowsesAll'
<1>0. "list" \in Searches /\ "open" \in Searches BY DEF Searches
<1>d. WellFormed => Delivered(dir, browsed, at["list"]) BY BrowsesDelivered
<1>1. CASE /\ UNCHANGED <<dir, browsed>> /\ at'["list"] = at["list"]
  BY <1>1, <1>d, BrowsesNext
<1>2. CASE (SkipEntry \/ AddPiece) /\ phase = "next"
  <2>1. UNCHANGED <<dir, browsed>> /\ at'["list"] = Here /\ Search = "list"
    BY <1>2, Moved, ListSearch DEF SkipEntry, AddPiece
  <2>2. This.kind # "short" BY <1>2 DEF SkipEntry, AddPiece, IsNextPiece
  <2>3. /\ at["list"] \in 0 .. Len(dir) - 1 /\ Len(dir) \in Nat
        /\ Here = at["list"] + 1 /\ dir[Here].kind # "short"
    BY <2>1, <2>2, SearchAt DEF Directory, This
  <2>4. \A i \in 1 .. Len(dir) : dir[i].kind = "short" =>
          (i <= at["list"] <=> i <= Here)
    <3>1. \A i \in 1 .. Len(dir) : i # at["list"] + 1 =>
            (i <= at["list"] <=> i <= at["list"] + 1)
      BY <2>3
    <3> QED BY <2>3, <3>1
  <2>5. {i \in {j \in 1 .. Len(dir) : dir[j].kind = "short"} : i <= at["list"]}
          = {i \in {j \in 1 .. Len(dir) : dir[j].kind = "short"} : i <= Here}
    BY <2>4
  <2>6. WellFormed => Delivered(dir, browsed, Here)
    BY <1>d, <2>5 DEF Delivered
  <2> QED BY <2>1, <2>6, BrowsesNext
<1>3. CASE (SkipEntry \/ AddPiece \/ OpenPasses) /\ phase # "next"
  <2>1. Search = "open" BY <1>3 DEF Search
  <2>2. UNCHANGED <<dir, browsed>> /\ Moves
    BY <1>3 DEF SkipEntry, AddPiece, OpenPasses
  <2> QED BY <1>0, <1>1, <2>1, <2>2, Moved
<1>4. CASE ListFinds
  <2>1. /\ UNCHANGED dir /\ phase = "next" /\ IsFound /\ SearchBegins
        /\ browsed' = Append(browsed, [at |-> Here, name |-> FoundName])
    BY <1>4 DEF ListFinds
  <2>2. at'["list"] = Here /\ Search = "list" BY <2>1, Begun, ListSearch
  <2>3. dir[Here].kind = "short" /\ Here = at["list"] + 1
    BY <2>1, <2>2, SearchAt DEF IsFound, This
  <2>4. ASSUME WellFormed PROVE Delivered(dir, browsed', Here)
    <3>1. Assembled(dir, at["list"], Now) /\ GoodDir(dir)
      BY <2>1, <2>4, NamesOfDir DEF Browsing
    <3>2. FindsFile(Now, This) BY <2>1, OfThis
    <3>3. NameFound(Now, This) = NameIn(dir, Here)
      BY <2>2, <3>1, <3>2, SearchAt, FoundUnderName
    <3>4. FoundName = NameIn(dir, Here) BY <3>3, OfThis
    <3> DEFINE e == [at |-> Here, name |-> FoundName]
    <3>5. e \in [at : 1 .. Len(dir), name : Names]
      BY <2>1, SearchAt, Kinds DEF Inv
    <3>6. e.at = at["list"] + 1 /\ e.name = NameIn(dir, at["list"] + 1)
      BY <2>3, <3>4
    <3>7. browsed \in Seq([at : 1 .. Len(dir), name : Names])
      BY DEF Inv, Listing
    <3> HIDE DEF e
    <3>8. Delivered(dir, Append(browsed, e), at["list"] + 1)
      BY <1>d, <2>3, <2>4, <3>5, <3>6, <3>7, SearchAt, OneMore
    <3> QED BY <2>1, <2>3, <3>8 DEF e
  <2> QED BY <2>1, <2>2, <2>4, BrowsesNext
<1>5. CASE ListEnds \/ OpenFinds \/ OpenFails \/ HeaderFails \/ ReadFirst
  BY <1>1, <1>5 DEF ListEnds, OpenFinds, OpenFails, HeaderFails, ReadFirst
<1>6. CASE ReadHeader
  <2>1. /\ UNCHANGED <<dir, browsed>> /\ SearchBegins /\ phase = "header"
    BY <1>6 DEF ReadHeader
  <2> QED BY <1>1, <2>1, Begun
<1>7. OpenPasses => phase # "next" BY DEF OpenPasses, Opening
<1> QED BY <1>2, <1>3, <1>4, <1>5, <1>6, <1>7 DEF Next

LEMMA BrowsingInit == Init => Browsing /\ BrowsesAll
<1> SUFFICES ASSUME Init PROVE Browsing /\ BrowsesAll OBVIOUS
<1>1. at["list"] = 0 /\ phase = "next" /\ browsed = <<>>
  BY DEF Init, Searches
<1>2. Now = Fresh BY DEF Init, Now, Fresh, NoName
<1>3. Behind(dir, 0) BY DEF Behind
<1>4. Browsing
  BY <1>1, <1>2, <1>3, FreshAssembled DEF Browsing, Opening, Busy
<1>5. Len(browsed) = 0 BY <1>1, EmptySeq
<1>6. Len(dir) \in Nat BY InitInv, DirType DEF Inv
<1>7. Delivered(dir, browsed, at["list"]) BY <1>1, <1>5, <1>6 DEF Delivered
<1> QED BY <1>4, <1>7, BrowsesDelivered

\* Whatever other searches go through the directory between its steps, and
\* whatever cannot be read, Fat_FileBrowseNext delivers every file of the part
\* it has passed exactly once, in order and under the name of its own pieces.
THEOREM BrowsesEveryFile == Spec => []BrowsesAll
<1>1. Inv /\ Browsing /\ BrowsesAll /\ [Next]_vars => Browsing' /\ BrowsesAll'
  <2> SUFFICES ASSUME Inv, Browsing, BrowsesAll, [Next]_vars
               PROVE  Browsing' /\ BrowsesAll'
    OBVIOUS
  <2>1. CASE UNCHANGED vars
    <3>1. UNCHANGED <<dir, phase, at, browsed>> /\ Now' = Now
      BY <2>1, NowSame DEF vars
    <3>2. WellFormed' <=> WellFormed BY <3>1, SameDir
    <3>3. Browsing' BY <3>1, <3>2 DEF Browsing, Opening, Busy
    <3>4. BrowsesAll' BY <3>1, BrowsesDelivered, BrowsesNext
    <3> QED BY <3>3, <3>4
  <2> QED BY <2>1, BrowsingStep, BrowsesStep
<1> QED BY <1>1, BrowsingInit, DirInvariant, PTL DEF Spec

-----------------------------------------------------------------------------
\* What Fat_FileOpen finds under a name it finds again: its search is a
\* function of the directory and the name.

\* A search for name w goes on after entry e in state s, and to which state.
Passes(s, e, w) ==
    \/ e.kind = "skip" \/ TakesPiece(s, e)
    \/ FindsFile(s, e) /\ NameFound(s, e) # w
After(s, e) == IF e.kind = "skip" THEN s
               ELSE IF e.kind = "long" THEN WithPiece(s, e) ELSE Fresh

\* T are the states of such a search up to entry n.
Run(T, d, n, w) ==
    /\ T[0] = Fresh
    /\ \A i \in 0 .. n - 1 :
        Passes(T[i], d[i + 1], w) /\ T[i + 1] = After(T[i], d[i + 1])
Meets(s, e, w) == FindsFile(s, e) /\ NameFound(s, e) = w

\* It comes to entry n in state s; it ends at file h; it has come to entry n in
\* state s and will end at file h.
Comes(d, n, w, s) == \E T : Run(T, d, n, w) /\ T[n] = s
Leads(d, h, w) ==
    h >= 1 /\ \E T : Run(T, d, h - 1, w) /\ Meets(T[h - 1], d[h], w)
Follows(d, h, w, n, s) ==
    /\ n <= h - 1
    /\ \E T : Run(T, d, h - 1, w) /\ Meets(T[h - 1], d[h], w) /\ T[n] = s

LEMMA PassesNotMeets ==
    ASSUME NEW s, NEW e, NEW w, Passes(s, e, w)
    PROVE  ~Meets(s, e, w)
BY DEF Passes, Meets, TakesPiece, FindsFile

LEMMA ComesFresh ==
    ASSUME NEW d, NEW w
    PROVE  Comes(d, 0, w, Fresh)
<1> DEFINE T == [i \in {0} |-> Fresh]
<1>1. T[0] = Fresh OBVIOUS
<1> HIDE DEF T
<1>2. Run(T, d, 0, w) BY <1>1 DEF Run
<1> QED BY <1>1, <1>2 DEF Comes

LEMMA ComesOn ==
    ASSUME NEW d, NEW n \in Nat, NEW w, NEW s, Comes(d, n, w, s),
           Passes(s, d[n + 1], w)
    PROVE  Comes(d, n + 1, w, After(s, d[n + 1]))
<1>1. PICK T : Run(T, d, n, w) /\ T[n] = s BY DEF Comes
<1> DEFINE U == [i \in 0 .. n + 1 |-> IF i = n + 1 THEN After(s, d[n + 1])
                                     ELSE T[i]]
<1>2. \A i \in 0 .. n : U[i] = T[i]
  <2>1. \A i \in 0 .. n : i \in 0 .. n + 1 /\ i # n + 1 OBVIOUS
  <2> QED BY <2>1
<1>3. U[n + 1] = After(s, d[n + 1])
  <2>1. n + 1 \in 0 .. n + 1 OBVIOUS
  <2> QED BY <2>1
<1> HIDE DEF U
<1>4. U[0] = Fresh BY <1>1, <1>2 DEF Run
<1>5. ASSUME NEW i \in 0 .. (n + 1) - 1
      PROVE  Passes(U[i], d[i + 1], w) /\ U[i + 1] = After(U[i], d[i + 1])
  <2>1. CASE i = n BY <1>1, <1>2, <1>3, <2>1
  <2>2. CASE i # n
    <3>1. i \in 0 .. n - 1 /\ i \in 0 .. n /\ i + 1 \in 0 .. n BY <2>2
    <3> QED BY <1>1, <1>2, <3>1 DEF Run
  <2> QED BY <2>1, <2>2
<1>6. Run(U, d, n + 1, w) BY <1>4, <1>5 DEF Run
<1> QED BY <1>3, <1>6 DEF Comes

LEMMA LeadsThere ==
    ASSUME NEW d, NEW n \in Nat, NEW w, NEW s, Comes(d, n, w, s),
           Meets(s, d[n + 1], w)
    PROVE  Leads(d, n + 1, w)
<1>1. PICK T : Run(T, d, n, w) /\ T[n] = s BY DEF Comes
<1>2. (n + 1) - 1 = n /\ n + 1 >= 1 OBVIOUS
<1> QED BY <1>1, <1>2 DEF Leads

LEMMA FollowsFresh ==
    ASSUME NEW d, NEW h \in Nat, NEW w, Leads(d, h, w)
    PROVE  Follows(d, h, w, 0, Fresh)
<1>1. PICK T : Run(T, d, h - 1, w) /\ Meets(T[h - 1], d[h], w) BY DEF Leads
<1>2. T[0] = Fresh BY <1>1 DEF Run
<1>3. 0 <= h - 1 BY DEF Leads
<1> QED BY <1>1, <1>2, <1>3 DEF Follows

LEMMA FollowsOn ==
    ASSUME NEW d, NEW h \in Nat, NEW n \in Nat, NEW w, NEW s,
           Follows(d, h, w, n, s), Passes(s, d[n + 1], w)
    PROVE  Follows(d, h, w, n + 1, After(s, d[n + 1]))
<1>1. PICK T : Run(T, d, h - 1, w) /\ Meets(T[h - 1], d[h], w) /\ T[n] = s
  BY DEF Follows
<1>2. n <= h - 1 BY DEF Follows
<1>3. n # h - 1
  <2> SUFFICES ASSUME n = h - 1 PROVE FALSE OBVIOUS
  <2>1. h = n + 1 OBVIOUS
  <2>2. Meets(s, d[n + 1], w) BY <1>1, <2>1
  <2> QED BY <2>2, PassesNotMeets
<1>4. n \in 0 .. (h - 1) - 1 /\ n + 1 <= h - 1 BY <1>2, <1>3
<1>5. T[n + 1] = After(s, d[n + 1]) BY <1>1, <1>4 DEF Run
<1> QED BY <1>1, <1>4, <1>5 DEF Follows

LEMMA FollowsEnds ==
    ASSUME NEW d, NEW h \in Nat, NEW n \in Nat, NEW w, NEW s,
           Follows(d, h, w, n, s), Meets(s, d[n + 1], w)
    PROVE  n + 1 = h
<1>1. PICK T : Run(T, d, h - 1, w) /\ Meets(T[h - 1], d[h], w) /\ T[n] = s
  BY DEF Follows
<1>2. n <= h - 1 BY DEF Follows
<1>3. ~(n < h - 1)
  <2> SUFFICES ASSUME n < h - 1 PROVE FALSE OBVIOUS
  <2>1. n \in 0 .. (h - 1) - 1 OBVIOUS
  <2>2. Passes(s, d[n + 1], w) BY <1>1, <2>1 DEF Run
  <2> QED BY <2>2, PassesNotMeets
<1> QED BY <1>2, <1>3

\* The search that opens a file is one of these; what it found first it is
\* about to find again, and a song that was opened is such a file.
Sought ==
    /\ phase = "open" => Comes(dir, at["open"], szWaveFilename, Now)
    /\ phase = "header" => Leads(dir, hFile, szWaveFilename)
    /\ phase = "reopen" =>
         /\ dir[hFile].wave
         /\ Follows(dir, hFile, szWaveFilename, at["open"], Now)
    /\ \A k \in 1 .. Len(songs) : songs[k].hFile # 0 => dir[songs[k].hFile].wave

\* In a directory as it should be, its name is the one on the list.
Named ==
    WellFormed =>
        /\ phase = "header" => hFile \in Files /\ NameAt(hFile) = szWaveFilename
        /\ \A k \in 1 .. Len(songs) :
             \E i \in Files : dir[i].wave /\ NameAt(i) = songs[k].name

\* What a step does to the search for a name.
LEMMA SearchGoesOn ==
    ASSUME Inv, Opening, SkipEntry \/ AddPiece \/ OpenPasses
    PROVE  /\ Passes(Now, This, szWaveFilename) /\ Now' = After(Now, This)
           /\ UNCHANGED <<dir, phase, szWaveFilename, hFile, songs>>
           /\ at'["open"] = at["open"] + 1 /\ at["open"] \in Nat
           /\ This = dir[at["open"] + 1]
<1>1. Search = "open" /\ "open" \in Searches BY ListSearch DEF Searches
<1>2. at["open"] \in 0 .. Len(dir) - 1 /\ Len(dir) \in Nat /\ Here = at["open"] + 1
      /\ This = dir[at["open"] + 1]
  BY <1>1, SearchAt DEF Directory
<1>3. at["open"] \in Nat BY <1>2
<1>4. Moves /\ UNCHANGED <<dir, phase, szWaveFilename, hFile, songs>>
  BY DEF SkipEntry, AddPiece, OpenPasses, fileVars
<1>5. at'["open"] = at["open"] + 1 BY <1>1, <1>2, <1>4, Moved
<1>6. Passes(Now, This, szWaveFilename) /\ Now' = After(Now, This)
  <2>1. CASE SkipEntry
    <3>1. This.kind = "skip" /\ Now' = Now BY <2>1, NowSame DEF SkipEntry
    <3> QED BY <3>1 DEF Passes, After
  <2>2. CASE AddPiece
    <3>1. TakesPiece(Now, This) /\ Now' = WithPiece(Now, This)
      BY <2>2, OfThis, NowPiece DEF AddPiece
    <3>2. This.kind = "long" BY <3>1 DEF TakesPiece
    <3> QED BY <3>1, <3>2 DEF Passes, After
  <2>3. CASE OpenPasses
    <3>1. FindsFile(Now, This) /\ NameFound(Now, This) # szWaveFilename
      BY <2>3, OfThis DEF OpenPasses
    <3>2. Now' = Fresh BY <2>3, NowFresh DEF OpenPasses
    <3> QED BY <3>1, <3>2 DEF Passes, After, FindsFile
  <2> QED BY <2>1, <2>2, <2>3
<1> QED BY <1>2, <1>3, <1>4, <1>5, <1>6

LEMMA SearchMeets ==
    ASSUME Inv, OpenFinds
    PROVE  /\ Meets(Now, dir[at["open"] + 1], szWaveFilename)
           /\ hFile' = at["open"] + 1 /\ at["open"] \in Nat
           /\ hFile' \in 1 .. Len(dir) /\ dir[hFile'].kind = "short"
<1>1. Opening /\ IsFound /\ FoundName = szWaveFilename /\ hFile' = Here
  BY DEF OpenFinds
<1>2. Search = "open" BY <1>1, ListSearch
<1>3. at["open"] \in 0 .. Len(dir) - 1 /\ Len(dir) \in Nat /\ Here = at["open"] + 1
      /\ This = dir[at["open"] + 1] /\ Here \in 1 .. Len(dir)
  BY <1>2, SearchAt DEF Directory
<1>4. at["open"] \in Nat BY <1>3
<1> QED BY <1>1, <1>3, <1>4, OfThis DEF Meets, FindsFile

\* What becomes of the song listed last.
LEMMA SongOpened ==
    ASSUME Inv, OpenFinds, phase = "reopen"
    PROVE  /\ phase' = "first" /\ Len(songs') = Len(songs)
           /\ Len(songs) \in 1 .. Len(songs)
           /\ songs'[Len(songs)].name = songs[Len(songs)].name
           /\ songs'[Len(songs)].hFile = hFile'
           /\ \A k \in 1 .. Len(songs) : k # Len(songs) => songs'[k] = songs[k]
<1>1. Listing /\ hFile' = Here /\ phase' = "first"
      /\ songs' = [songs EXCEPT ![Len(songs)].hFile = Here]
  BY DEF Inv, OpenFinds
<1>2. Len(songs) \in 1 .. Len(songs) /\ songs[Len(songs)] \in Song
  BY <1>1, LastSong
<1> DEFINE e == [songs[Len(songs)] EXCEPT !.hFile = Here]
<1>3. e \in Song /\ e.hFile = Here /\ e.name = songs[Len(songs)].name
  <2>1. Here \in 0 .. Len(dir) BY SearchAt DEF Directory
  <2> QED BY <1>2, <2>1 DEF Song
<1>4. songs' = [songs EXCEPT ![Len(songs)] = e] BY <1>1
<1> HIDE DEF e
<1>5. /\ Len(songs') = Len(songs) /\ songs'[Len(songs)] = e
      /\ \A k \in 1 .. Len(songs) : k # Len(songs) => songs'[k] = songs[k]
  BY <1>1, <1>3, <1>4, SongSet
<1> QED BY <1>1, <1>2, <1>3, <1>5

LEMMA SongStarted ==
    ASSUME Inv, phase \in {"reopen", "first"}, NEW ok \in BOOLEAN, Started(ok)
    PROVE  /\ Len(songs') = Len(songs) /\ Len(songs) \in 1 .. Len(songs)
           /\ songs'[Len(songs)].name = songs[Len(songs)].name
           /\ songs'[Len(songs)].hFile = songs[Len(songs)].hFile
           /\ songs'[Len(songs)].readOk = ok
           /\ \A k \in 1 .. Len(songs) : k # Len(songs) => songs'[k] = songs[k]
<1>1. Listing BY DEF Inv
<1>2. Len(songs) \in 1 .. Len(songs) /\ songs[Len(songs)] \in Song
  BY <1>1, LastSong
<1> DEFINE e == [songs[Len(songs)] EXCEPT !.readOk = ok]
<1>3. e \in Song /\ e.hFile = songs[Len(songs)].hFile
      /\ e.name = songs[Len(songs)].name /\ e.readOk = ok
  BY <1>2 DEF Song
<1>4. songs' = [songs EXCEPT ![Len(songs)] = e] BY DEF Started
<1> HIDE DEF e
<1>5. /\ Len(songs') = Len(songs) /\ songs'[Len(songs)] = e
      /\ \A k \in 1 .. Len(songs) : k # Len(songs) => songs'[k] = songs[k]
  BY <1>1, <1>3, <1>4, SongSet
<1> QED BY <1>2, <1>3, <1>5

LEMMA SongListed ==
    ASSUME Inv, ReadHeader, dir[hFile].wave
    PROVE  /\ phase' = "reopen" /\ Len(songs) \in Nat
           /\ Len(songs') = Len(songs) + 1
           /\ songs'[Len(songs) + 1].name = szWaveFilename
           /\ songs'[Len(songs) + 1].hFile = 0
           /\ \A k \in 1 .. Len(songs) : songs'[k] = songs[k]
<1> DEFINE e == [name |-> szWaveFilename, hFile |-> 0, readOk |-> FALSE]
<1>1. songs' = Append(songs, e) /\ phase' = "reopen" BY DEF ReadHeader
<1>2. songs \in Seq(Song) BY DEF Inv, Listing
<1>3. e \in Song /\ e.name = szWaveFilename /\ e.hFile = 0
  <2>1. 0 \in 0 .. Len(dir) BY SearchAt DEF Directory
  <2> QED BY <2>1 DEF Song, Inv, Naming
<1> HIDE DEF e
<1>4. Len(songs) \in Nat BY <1>2, LenProperties
<1>5. /\ Len(songs') = Len(songs) + 1 /\ songs'[Len(songs) + 1] = e
      /\ \A k \in 1 .. Len(songs) : songs'[k] = songs[k]
  BY <1>1, <1>2, <1>3, AppendProperties
<1> QED BY <1>1, <1>3, <1>4, <1>5

LEMMA SoughtStep ==
    ASSUME Inv, Sought, Next
    PROVE  Sought'
<1>d. UNCHANGED dir
  BY DEF Next, SkipEntry, AddPiece, ListFinds, ListEnds, OpenPasses, OpenFinds,
         OpenFails, ReadHeader, HeaderFails, ReadFirst
<1>w. \A k \in 1 .. Len(songs) : songs[k].hFile # 0 => dir[songs[k].hFile].wave
  BY DEF Sought
<1>1. CASE (SkipEntry \/ AddPiece \/ OpenPasses) /\ Opening
  <2>1. /\ Passes(Now, This, szWaveFilename) /\ Now' = After(Now, This)
        /\ UNCHANGED <<dir, phase, szWaveFilename, hFile, songs>>
        /\ at'["open"] = at["open"] + 1 /\ at["open"] \in Nat
        /\ This = dir[at["open"] + 1]
    BY <1>1, SearchGoesOn
  <2>2. CASE phase = "open"
    <3>1. Comes(dir, at["open"], szWaveFilename, Now) BY <2>2 DEF Sought
    <3>2. Comes(dir, at["open"] + 1, szWaveFilename, After(Now, This))
      BY <2>1, <3>1, ComesOn
    <3> QED BY <1>w, <2>1, <2>2, <3>2 DEF Sought
  <2>3. CASE phase = "reopen"
    <3>1. /\ dir[hFile].wave
          /\ Follows(dir, hFile, szWaveFilename, at["open"], Now)
      BY <2>3 DEF Sought
    <3>2. hFile \in Nat BY SearchAt DEF Inv, Position, Directory
    <3>3. Follows(dir, hFile, szWaveFilename, at["open"] + 1, After(Now, This))
      BY <2>1, <3>1, <3>2, FollowsOn
    <3> QED BY <1>w, <2>1, <2>3, <3>1, <3>3 DEF Sought
  <2> QED BY <1>1, <2>2, <2>3 DEF Opening
<1>2. CASE (SkipEntry \/ AddPiece) /\ ~Opening
  <2>1. phase \notin {"open", "reopen", "header"} /\ UNCHANGED <<phase, songs>>
    BY <1>2 DEF SkipEntry, AddPiece, Opening, Searching, fileVars
  <2> QED BY <1>d, <1>w, <2>1 DEF Sought
<1>3. CASE ListFinds
  <2>1. phase' \in {"open", "next"} /\ UNCHANGED songs /\ SearchBegins
    BY <1>3 DEF ListFinds
  <2>2. at'["open"] = 0 /\ Now' = Fresh
    BY <2>1, Begun, NowFresh DEF SearchBegins
  <2> QED BY <1>d, <1>w, <2>1, <2>2, ComesFresh DEF Sought
<1>4. CASE ListEnds \/ HeaderFails
  <2>1. phase' \in {"next", "done"} /\ UNCHANGED songs
    BY <1>4 DEF ListEnds, HeaderFails, fileVars
  <2> QED BY <1>d, <1>w, <2>1 DEF Sought
<1>5. CASE OpenFinds
  <2>1. /\ Meets(Now, dir[at["open"] + 1], szWaveFilename)
        /\ hFile' = at["open"] + 1 /\ at["open"] \in Nat
    BY <1>5, SearchMeets
  <2>2. CASE phase = "open"
    <3>1. phase' = "header" /\ UNCHANGED <<songs, szWaveFilename>>
      BY <1>5, <2>2 DEF OpenFinds
    <3>2. Leads(dir, hFile', szWaveFilename)
      BY <2>1, <2>2, LeadsThere DEF Sought
    <3> QED BY <1>d, <1>w, <3>1, <3>2 DEF Sought
  <2>3. CASE phase = "reopen"
    <3>1. hFile \in Nat BY SearchAt DEF Inv, Position, Directory
    <3>2. hFile' = hFile BY <2>1, <2>3, <3>1, FollowsEnds DEF Sought
    <3>3. dir[hFile'].wave BY <2>3, <3>2 DEF Sought
    <3>4. /\ phase' = "first" /\ Len(songs') = Len(songs)
          /\ songs'[Len(songs)].hFile = hFile'
          /\ \A k \in 1 .. Len(songs) : k # Len(songs) => songs'[k] = songs[k]
      BY <1>5, <2>3, SongOpened
    <3>5. ASSUME NEW k \in 1 .. Len(songs'), songs'[k].hFile # 0
          PROVE  dir[songs'[k].hFile].wave
      <4>1. CASE k = Len(songs) BY <3>3, <3>4, <4>1
      <4>2. CASE k # Len(songs) BY <1>w, <3>4, <3>5, <4>2
      <4> QED BY <4>1, <4>2
    <3> QED BY <1>d, <3>4, <3>5 DEF Sought
  <2> QED BY <1>5, <2>2, <2>3 DEF OpenFinds, Opening
<1>6. CASE OpenFails \/ ReadFirst
  <2>1. phase' = "next" BY <1>6 DEF OpenFails, ReadFirst
  <2>2. CASE UNCHANGED songs BY <1>d, <1>w, <2>1, <2>2 DEF Sought
  <2>3. ASSUME phase \in {"reopen", "first"}, NEW ok \in BOOLEAN, Started(ok)
        PROVE  Sought'
    <3>1. /\ Len(songs') = Len(songs)
          /\ songs'[Len(songs)].hFile = songs[Len(songs)].hFile
          /\ \A k \in 1 .. Len(songs) : k # Len(songs) => songs'[k] = songs[k]
      BY <2>3, SongStarted
    <3>2. \A k \in 1 .. Len(songs) : songs'[k].hFile = songs[k].hFile
      BY <3>1
    <3> QED BY <1>d, <1>w, <2>1, <3>1, <3>2 DEF Sought
  <2> QED BY <1>6, <2>2, <2>3 DEF OpenFails, ReadFirst
<1>7. CASE ReadHeader
  <2>1. UNCHANGED <<szWaveFilename, hFile>> /\ SearchBegins /\ phase = "header"
    BY <1>7 DEF ReadHeader
  <2>2. at'["open"] = 0 /\ Now' = Fresh
    BY <2>1, Begun, NowFresh DEF SearchBegins
  <2>3. CASE dir[hFile].wave
    <3>1. hFile \in Nat BY SearchAt DEF Inv, Position, Directory
    <3>2. Follows(dir, hFile, szWaveFilename, 0, Fresh)
      BY <2>1, <3>1, FollowsFresh DEF Sought
    <3>3. /\ phase' = "reopen" /\ Len(songs) \in Nat
          /\ Len(songs') = Len(songs) + 1
          /\ songs'[Len(songs) + 1].hFile = 0
          /\ \A k \in 1 .. Len(songs) : songs'[k] = songs[k]
      BY <1>7, <2>3, SongListed
    <3>4. ASSUME NEW k \in 1 .. Len(songs'), songs'[k].hFile # 0
          PROVE  dir[songs'[k].hFile].wave
      <4>1. k # Len(songs) + 1 BY <3>3, <3>4
      <4>2. k \in 1 .. Len(songs) BY <3>3, <4>1
      <4> QED BY <1>w, <3>3, <3>4, <4>2
    <3> QED BY <1>d, <2>1, <2>2, <2>3, <3>2, <3>3, <3>4 DEF Sought
  <2>4. CASE ~dir[hFile].wave
    <3>1. phase' = "next" /\ UNCHANGED songs BY <1>7, <2>4 DEF ReadHeader
    <3> QED BY <1>d, <1>w, <3>1 DEF Sought
  <2> QED BY <2>3, <2>4
<1> QED BY <1>1, <1>2, <1>3, <1>4, <1>5, <1>6, <1>7 DEF Next, OpenPasses

\* The file a search meets has the name that was looked for.
LEMMA MeetsNamed ==
    ASSUME Inv, Browsing, WellFormed, OpenFinds
    PROVE  hFile' \in Files /\ NameAt(hFile') = szWaveFilename
<1>1. Opening /\ IsFound /\ FoundName = szWaveFilename /\ hFile' = Here
  BY DEF OpenFinds
<1>2. Search = "open" /\ Assembled(dir, at["open"], Now) /\ GoodDir(dir)
  BY <1>1, ListSearch, NamesOfDir DEF Browsing
<1>3. FindsFile(Now, This) BY <1>1, OfThis
<1>4. NameFound(Now, This) = NameIn(dir, Here)
  BY <1>2, <1>3, SearchAt, FoundUnderName
<1>5. This.kind = "short" BY <1>3 DEF FindsFile
<1> QED BY <1>1, <1>4, <1>5, SearchAt, OfThis, NamesOfDir DEF Files, This

LEMMA NamedStep ==
    ASSUME Inv, Browsing, Named, Next
    PROVE  Named'
<1> SUFFICES ASSUME WellFormed PROVE Named'
  <2>1. UNCHANGED dir
    BY DEF Next, SkipEntry, AddPiece, ListFinds, ListEnds, OpenPasses,
           OpenFinds, OpenFails, ReadHeader, HeaderFails, ReadFirst
  <2> QED BY <2>1, SameDir DEF Named
<1> DEFINE OnCard(w) == \E i \in Files : dir[i].wave /\ NameAt(i) = w
<1>d. /\ UNCHANGED dir /\ Files' = Files
      /\ \A i : NameAt(i)' = NameAt(i)
  <2>1. UNCHANGED dir
    BY DEF Next, SkipEntry, AddPiece, ListFinds, ListEnds, OpenPasses,
           OpenFinds, OpenFails, ReadHeader, HeaderFails, ReadFirst
  <2> QED BY <2>1, SameDir
<1>n. \A k \in 1 .. Len(songs) : OnCard(songs[k].name) BY DEF Named
<1>q. ASSUME \A k \in 1 .. Len(songs') : OnCard(songs'[k].name),
             phase' = "header" =>
                 hFile' \in Files /\ NameAt(hFile') = szWaveFilename'
      PROVE  Named'
  <2>1. ASSUME phase' = "header"
        PROVE  hFile' \in Files' /\ NameAt(hFile)' = szWaveFilename'
    <3>1. NameAt(hFile)' = NameIn(dir', hFile')
      BY DEF NameAt, NameIn, EndsAt, PieceAt
    <3> QED BY <1>d, <1>q, <2>1, <3>1, NamesOfDir
  <2>2. \A k \in 1 .. Len(songs') :
          \E i \in Files' : dir'[i].wave /\ NameAt(i)' = songs'[k].name
    BY <1>d, <1>q
  <2> QED BY <2>1, <2>2 DEF Named
<1> HIDE DEF OnCard
<1>1. CASE SkipEntry \/ AddPiece \/ ListFinds \/ ListEnds \/ OpenPasses
           \/ HeaderFails
  <2>1. UNCHANGED songs /\ phase' # "header"
    BY <1>1 DEF SkipEntry, AddPiece, ListFinds, ListEnds, OpenPasses,
                HeaderFails, fileVars, Searching, Opening
  <2> QED BY <1>n, <1>q, <2>1
<1>2. CASE OpenFinds
  <2>1. hFile' \in Files /\ NameAt(hFile') = szWaveFilename
        /\ szWaveFilename' = szWaveFilename
    BY <1>2, MeetsNamed DEF OpenFinds
  <2>2. CASE phase = "open"
    <3>1. UNCHANGED songs BY <1>2, <2>2 DEF OpenFinds
    <3> QED BY <1>n, <1>q, <2>1, <3>1
  <2>3. CASE phase = "reopen"
    <3>1. /\ Len(songs') = Len(songs)
          /\ songs'[Len(songs)].name = songs[Len(songs)].name
          /\ \A k \in 1 .. Len(songs) : k # Len(songs) => songs'[k] = songs[k]
      BY <1>2, <2>3, SongOpened
    <3>2. \A k \in 1 .. Len(songs) : songs'[k].name = songs[k].name BY <3>1
    <3> QED BY <1>n, <1>q, <2>1, <3>1, <3>2
  <2> QED BY <1>2, <2>2, <2>3 DEF OpenFinds, Opening
<1>3. CASE OpenFails \/ ReadFirst
  <2>1. phase' # "header" BY <1>3 DEF OpenFails, ReadFirst
  <2>2. CASE UNCHANGED songs BY <1>n, <1>q, <2>1, <2>2
  <2>3. ASSUME phase \in {"reopen", "first"}, NEW ok \in BOOLEAN, Started(ok)
        PROVE  Named'
    <3>1. /\ Len(songs') = Len(songs)
          /\ songs'[Len(songs)].name = songs[Len(songs)].name
          /\ \A k \in 1 .. Len(songs) : k # Len(songs) => songs'[k] = songs[k]
      BY <2>3, SongStarted
    <3>2. \A k \in 1 .. Len(songs) : songs'[k].name = songs[k].name BY <3>1
    <3> QED BY <1>n, <1>q, <2>1, <3>1, <3>2
  <2> QED BY <1>3, <2>2, <2>3 DEF OpenFails, ReadFirst
<1>4. CASE ReadHeader
  <2>1. phase = "header" /\ phase' # "header" BY <1>4 DEF ReadHeader
  <2>2. CASE dir[hFile].wave
    <3>1. /\ Len(songs) \in Nat /\ Len(songs') = Len(songs) + 1
          /\ songs'[Len(songs) + 1].name = szWaveFilename
          /\ \A k \in 1 .. Len(songs) : songs'[k] = songs[k]
      BY <1>4, <2>2, SongListed
    <3>2. OnCard(szWaveFilename) BY <2>1, <2>2 DEF Named, OnCard
    <3>3. ASSUME NEW k \in 1 .. Len(songs') PROVE OnCard(songs'[k].name)
      <4>1. CASE k = Len(songs) + 1 BY <3>1, <3>2, <4>1
      <4>2. CASE k # Len(songs) + 1
        <5>1. k \in 1 .. Len(songs) BY <3>1, <4>2
        <5> QED BY <1>n, <3>1, <5>1
      <4> QED BY <4>1, <4>2
    <3> QED BY <1>q, <2>1, <3>3
  <2>3. CASE ~dir[hFile].wave
    <3>1. UNCHANGED songs BY <1>4, <2>3 DEF ReadHeader
    <3> QED BY <1>n, <1>q, <2>1, <3>1
  <2> QED BY <2>2, <2>3
<1> QED BY <1>1, <1>2, <1>3, <1>4 DEF Next

\* Every song on the list is a wave file the player supports: even in a
\* directory of any contents the search of waveplay_start ends at the file
\* whose header build_wave_play_list read, and in one that is as it should be
\* the name on the list is that of a wave file.
THEOREM ListedSongsAreWaves == Spec => []SongsAreWaves
<1>1. Inv /\ Browsing /\ Sought /\ Named /\ [Next]_vars
        => Browsing' /\ Sought' /\ Named'
  <2> SUFFICES ASSUME Inv, Browsing, Sought, Named, [Next]_vars
               PROVE  Browsing' /\ Sought' /\ Named'
    OBVIOUS
  <2>1. CASE UNCHANGED vars
    <3>1. UNCHANGED <<dir, phase, at, szWaveFilename, hFile, songs>> /\ Now' = Now
      BY <2>1, NowSame DEF vars, fileVars
    <3>2. /\ WellFormed' <=> WellFormed
          /\ \A i : NameAt(i)' = NameAt(i)
          /\ Files' = Files
      BY <3>1, SameDir
    <3>3. Browsing' BY <3>1, <3>2 DEF Browsing, Opening, Busy
    <3>4. Sought' BY <3>1 DEF Sought
    <3>5. NameAt(hFile)' = NameAt(hFile)
      <4>1. NameAt(hFile)' = NameIn(dir', hFile')
        BY DEF NameAt, NameIn, EndsAt, PieceAt
      <4> QED BY <3>1, <4>1, NamesOfDir
    <3>6. Named' BY <3>1, <3>2, <3>5 DEF Named
    <3> QED BY <3>3, <3>4, <3>6
  <2> QED BY <2>1, BrowsingStep, SoughtStep, NamedStep DEF Next
<1>2. Init => Sought /\ Named
  <2> SUFFICES ASSUME Init PROVE Sought /\ Named OBVIOUS
  <2>1. phase = "next" /\ songs = <<>> BY DEF Init
  <2>2. Len(songs) = 0 BY <2>1, EmptySeq
  <2> QED BY <2>1, <2>2 DEF Sought, Named
<1>3. Sought /\ Named => SongsAreWaves
  BY DEF Sought, Named, SongsAreWaves
<1> QED BY <1>1, <1>2, <1>3, BrowsingInit, DirInvariant, PTL DEF Spec

-----------------------------------------------------------------------------
\* When every read succeeds, all names differ and there is one handle more
\* than songs, no song is missed.

\* Of any directory d and list s: the wave files, whether the one at entry i
\* is ready to be played, whether all up to entry a are.
WavesIn(d) == {i \in 1 .. Len(d) : d[i].kind = "short" /\ d[i].wave}
Playable(d, s, i) ==
    \E k \in 1 .. Len(s) :
        s[k] = [name |-> NameIn(d, i), hFile |-> i, readOk |-> TRUE]
AllListed(d, s, a) ==
    \A i \in WavesIn(d) : i <= a /\ IsWaveName(NameIn(d, i)) => Playable(d, s, i)
OneEach(s) ==
    \A j, k \in 1 .. Len(s) : s[j].hFile # 0 /\ s[j].hFile = s[k].hFile => j = k

Orderly == WellFormed /\ Distinct /\ Cardinality(Waves) < MaxHandles

\* The files up to this entry have been dealt with.
Settled == IF Busy THEN at["list"] - 1 ELSE at["list"]

\* The file in hand is the one the list search has come to, under its name;
\* Fat_FileOpen is before it, or has opened it.
InHand ==
    /\ Busy => /\ dir[at["list"]].kind = "short" /\ at["list"] >= 1
               /\ szWaveFilename = NameIn(dir, at["list"])
    /\ Opening => at["open"] < at["list"]
    /\ phase \in {"header", "reopen", "first"} => hFile = at["list"]
    /\ phase \in {"reopen", "first"} =>
         /\ dir[at["list"]].wave
         /\ songs[Len(songs)].name = szWaveFilename
    /\ phase = "first" => songs[Len(songs)].hFile = at["list"]

\* Every song has a file of its own, already dealt with or in hand.
OwnFiles ==
    /\ \A k \in 1 .. Len(songs) : songs[k].hFile # 0 =>
         /\ songs[k].hFile \in WavesIn(dir)
         /\ songs[k].hFile <= Settled \/ (phase = "first" /\ k = Len(songs))
    /\ OneEach(songs)

NoneMissed ==
    /\ unread = 0 /\ InHand /\ OwnFiles
    /\ AllListed(dir, songs, Settled)
    /\ phase = "done" => at["list"] = Len(dir) - 1

Undisturbed == Orderly /\ ~faults => NoneMissed

LEMMA OrderlySame ==
    ASSUME UNCHANGED dir
    PROVE  Orderly' <=> Orderly
<1>1. Cardinality(Waves)' = Cardinality(Waves') OBVIOUS
<1> QED BY <1>1, SameDir DEF Orderly

LEMMA WavesAre == Waves = WavesIn(dir)
BY DEF Waves, Files, WavesIn

\* There is a handle left.
LEMMA HandleLeft ==
    ASSUME Inv, Orderly, unread = 0, OwnFiles, phase # "header"
    PROVE  handles < MaxHandles
<1>1. handles = Cardinality(Opened) + 0 + 0 /\ handles \in Nat
  BY Sizes DEF Inv, Counts, InHeader
<1>2. Len(dir) \in Nat BY SearchAt DEF Directory
<1>3. IsFiniteSet(Waves) /\ Cardinality(Waves) \in Nat
  <2>1. IsFiniteSet(1 .. Len(dir)) BY <1>2, FS_Interval
  <2>2. Waves \in SUBSET (1 .. Len(dir)) BY WavesAre DEF WavesIn
  <2> QED BY <2>1, <2>2, FS_Subset, FS_CardinalityType
<1>4. Cardinality(Opened) <= Cardinality(Waves)
  <2> DEFINE f == [k \in Opened |-> songs[k].hFile]
  <2>1. f \in [Opened -> Waves] BY WavesAre DEF OwnFiles, Opened
  <2>2. \A j, k \in Opened : f[j] = f[k] => j = k
    BY DEF OwnFiles, OneEach, Opened
  <2>3. f \in Injection(Opened, Waves) BY <2>1, <2>2 DEF Injection, IsInjective
  <2> QED BY <1>3, <2>3, FS_Injection
<1>5. Cardinality(Opened) \in Nat BY OpenedFinite DEF Inv
<1> QED BY <1>1, <1>3, <1>4, <1>5, Sizes DEF Orderly

\* The list, when one more entry that is not a song has been dealt with.
LEMMA OneMoreSettled ==
    ASSUME NEW d, NEW s, NEW a \in Nat, AllListed(d, s, a),
           a + 1 \in WavesIn(d) => ~IsWaveName(NameIn(d, a + 1)),
           Len(d) \in Nat
    PROVE  AllListed(d, s, a + 1)
<1>1. \A i \in 1 .. Len(d) : i <= a + 1 => i <= a \/ i = a + 1 OBVIOUS
<1> QED BY <1>1 DEF AllListed, WavesIn

\* The file that is found has the name of its place in the directory.
LEMMA FoundHere ==
    ASSUME Inv, Browsing, WellFormed, Searching, IsFound
    PROVE  FoundName = NameIn(dir, Here) /\ dir[Here].kind = "short"
           /\ Here \in Files
<1>1. Assembled(dir, at[Search], Now) /\ GoodDir(dir)
  BY SearchAssembled, NamesOfDir
<1>2. FindsFile(Now, This) BY OfThis
<1>3. NameFound(Now, This) = NameIn(dir, Here)
  BY <1>1, <1>2, SearchAt, FoundUnderName
<1>4. dir[Here].kind = "short" /\ Here \in 1 .. Len(dir)
  BY <1>2, SearchAt DEF FindsFile
<1> QED BY <1>3, <1>4, OfThis DEF Files

LEMMA PositionTypes ==
    ASSUME Inv
    PROVE  /\ Len(dir) \in Nat /\ at["list"] \in Nat /\ at["open"] \in Nat
           /\ at["list"] <= Len(dir) - 1 /\ at["open"] <= Len(dir) - 1
           /\ Settled \in Int /\ (~Busy => Settled \in Nat)
<1>1. Len(dir) \in Nat BY SearchAt DEF Directory
<1>2. at["list"] \in 0 .. Len(dir) - 1 /\ at["open"] \in 0 .. Len(dir) - 1
  BY SearchAt
<1>3. at["list"] \in Nat /\ at["open"] \in Nat BY <1>1, <1>2
<1> QED BY <1>1, <1>2, <1>3 DEF Settled

LEMMA ListGoesOnFine ==
    ASSUME Inv, NoneMissed, SkipEntry \/ AddPiece, phase = "next"
    PROVE  NoneMissed'
<1>1. /\ UNCHANGED <<dir, phase, songs, unread>> /\ at'["list"] = at["list"] + 1
      /\ dir[at["list"] + 1].kind # "short"
  <2>1. Search = "list" /\ Moves BY ListSearch DEF SkipEntry, AddPiece
  <2>2. at'["list"] = at["list"] + 1 /\ This = dir[at["list"] + 1]
    BY <2>1, Moved, SearchAt
  <2>3. This.kind # "short" BY DEF SkipEntry, AddPiece, IsNextPiece
  <2> QED BY <2>2, <2>3 DEF SkipEntry, AddPiece, fileVars
<1>2. Settled = at["list"] /\ Settled' = at["list"] + 1 /\ ~Busy /\ ~Busy'
  BY <1>1 DEF Settled, Busy
<1>3. InHand' BY <1>1, <1>2 DEF InHand, Busy, Opening
<1>4. OwnFiles'
  <2>1. \A i \in WavesIn(dir) : i <= Settled => i <= Settled'
    BY <1>2, PositionTypes DEF WavesIn
  <2> QED BY <1>1, <2>1 DEF NoneMissed, OwnFiles, WavesIn
<1>5. AllListed(dir, songs, at["list"] + 1)
  BY <1>1, <1>2, PositionTypes, OneMoreSettled DEF NoneMissed, WavesIn
<1>6. AllListed(dir', songs', Settled') BY <1>1, <1>2, <1>5
<1> QED BY <1>1, <1>3, <1>4, <1>6 DEF NoneMissed

LEMMA ListFindsFine ==
    ASSUME Inv, Browsing, Orderly, NoneMissed, ListFinds
    PROVE  NoneMissed'
<1>1. /\ UNCHANGED <<dir, songs, unread>> /\ phase = "next"
      /\ at'["list"] = Here /\ at'["open"] = 0
      /\ szWaveFilename' = FoundName /\ bFlag' = (bFlag \/ IsWaveName(FoundName))
      /\ phase' = (IF bFlag' THEN "open" ELSE "next")
  BY Begun DEF ListFinds
<1>2. Search = "list" /\ Here = at["list"] + 1 BY <1>1, ListSearch, SearchAt
<1>3. FoundName = NameIn(dir, Here) /\ dir[Here].kind = "short"
  BY FoundHere DEF ListFinds, Searching, Orderly
<1>4. Settled = at["list"] BY <1>1 DEF Settled, Busy
<1>5. CASE phase' = "open"
  <2>1. Busy' /\ Opening' BY <1>5 DEF Busy, Opening
  <2>2. Settled' = Settled BY <1>1, <1>2, <1>4, <2>1, PositionTypes DEF Settled
  <2>3. Here >= 1 /\ 0 < Here BY <1>2, PositionTypes
  <2>4. InHand' BY <1>1, <1>3, <1>5, <2>3 DEF InHand
  <2>5. OwnFiles' BY <1>1, <1>5, <2>2 DEF NoneMissed, OwnFiles
  <2>6. AllListed(dir', songs', Settled') BY <1>1, <2>2 DEF NoneMissed
  <2> QED BY <1>1, <1>5, <2>4, <2>5, <2>6 DEF NoneMissed
<1>6. CASE phase' = "next"
  <2>1. ~Busy' /\ ~Opening' BY <1>6 DEF Busy, Opening
  <2>2. ~IsWaveName(FoundName) BY <1>1, <1>6
  <2>3. Settled' = at["list"] + 1 BY <1>1, <1>2, <2>1 DEF Settled
  <2>4. InHand' BY <1>6, <2>1 DEF InHand
  <2>5. OwnFiles'
    <3>1. \A i \in WavesIn(dir) : i <= Settled => i <= Settled'
      BY <1>4, <2>3, PositionTypes DEF WavesIn
    <3> QED BY <1>1, <1>6, <3>1 DEF NoneMissed, OwnFiles
  <2>6. AllListed(dir, songs, at["list"] + 1)
    BY <1>2, <1>3, <1>4, <2>2, PositionTypes, OneMoreSettled DEF NoneMissed
  <2>7. AllListed(dir', songs', Settled') BY <1>1, <2>3, <2>6
  <2> QED BY <1>1, <1>6, <2>4, <2>5, <2>7 DEF NoneMissed
<1> QED BY <1>1, <1>5, <1>6

LEMMA ListEndsFine ==
    ASSUME Inv, Browsing, Orderly, NoneMissed, ~faults', ListEnds
    PROVE  NoneMissed'
<1>1. UNCHANGED <<dir, at, songs, unread>> /\ phase = "next" /\ phase' = "done"
  BY DEF ListEnds, fileVars
<1>2. IsEnd BY DEF ListEnds, Fault
<1>3. Search = "list" /\ Assembled(dir, at["list"], Now) /\ GoodDir(dir)
  BY <1>1, ListSearch, NamesOfDir DEF Browsing, Orderly
<1>4. /\ This.kind # "skip" /\ ~TakesPiece(Now, This) /\ ~FindsFile(Now, This)
  BY <1>2, OfThis DEF IsEnd
<1>5. at["list"] + 1 = Len(dir) BY <1>3, <1>4, SearchAt, EndIsLast
<1>6. at["list"] = Len(dir) - 1 BY <1>5, PositionTypes
<1>7. Settled' = Settled /\ ~Busy' /\ ~Opening'
  BY <1>1 DEF Settled, Busy, Opening
<1>8. InHand' BY <1>1, <1>7 DEF InHand
<1>9. OwnFiles' BY <1>1, <1>7 DEF NoneMissed, OwnFiles
<1> QED BY <1>1, <1>6, <1>7, <1>8, <1>9 DEF NoneMissed

LEMMA SearchGoesOnFine ==
    ASSUME Inv, Browsing, Orderly, NoneMissed, Opening,
           SkipEntry \/ AddPiece \/ OpenPasses
    PROVE  NoneMissed'
<1>1. /\ UNCHANGED <<dir, phase, szWaveFilename, hFile, songs>>
      /\ at'["open"] = at["open"] + 1
  BY SearchGoesOn
<1>2. UNCHANGED unread /\ Moves BY DEF SkipEntry, AddPiece, OpenPasses
<1>3. Search = "open" /\ Busy /\ phase # "next" BY ListSearch
<1>4. at'["list"] = at["list"] BY <1>2, <1>3, Moved DEF Searches
<1>5. Settled' = Settled BY <1>1, <1>4 DEF Settled, Busy
<1>6. Here = at["open"] + 1 /\ This = dir[Here] BY <1>3, SearchAt DEF This
<1>7. Here # at["list"]
  <2>1. CASE SkipEntry \/ AddPiece
    <3>1. This.kind # "short" BY <2>1 DEF SkipEntry, AddPiece, IsNextPiece
    <3> QED BY <1>3, <1>6, <3>1 DEF NoneMissed, InHand
  <2>2. CASE OpenPasses
    <3>1. IsFound /\ FoundName # szWaveFilename /\ Searching
      BY <2>2 DEF OpenPasses, Opening, Searching
    <3>2. FoundName = NameIn(dir, Here) BY <3>1, FoundHere DEF Orderly
    <3> QED BY <1>3, <3>1, <3>2 DEF NoneMissed, InHand
  <2> QED BY <2>1, <2>2
<1>8. at'["open"] < at'["list"]
  BY <1>1, <1>4, <1>6, <1>7, PositionTypes DEF NoneMissed, InHand
<1>9. InHand' BY <1>1, <1>4, <1>8 DEF NoneMissed, InHand, Busy, Opening
<1>10. OwnFiles' BY <1>1, <1>5 DEF NoneMissed, OwnFiles
<1> QED BY <1>1, <1>2, <1>3, <1>5, <1>9, <1>10 DEF NoneMissed, Opening

LEMMA OpenFindsFine ==
    ASSUME Inv, Browsing, Orderly, NoneMissed, OpenFinds
    PROVE  NoneMissed'
<1>1. /\ UNCHANGED <<dir, at, szWaveFilename, unread>> /\ Opening
      /\ phase' \in {"header", "first"}
  BY DEF OpenFinds
<1>2. Busy /\ Busy' /\ ~Opening' BY <1>1 DEF Busy, Opening
<1>3. Settled' = Settled /\ Settled = at["list"] - 1 BY <1>1, <1>2 DEF Settled
<1>4. at["list"] \in Files /\ NameIn(dir, at["list"]) = szWaveFilename
  <2>1. at["list"] \in 1 .. Len(dir)
    BY <1>2, PositionTypes DEF NoneMissed, InHand
  <2> QED BY <1>2, <2>1 DEF NoneMissed, InHand, Files
<1>5. hFile' = at["list"]
  <2>1. hFile' \in Files /\ NameAt(hFile') = szWaveFilename
    BY MeetsNamed DEF Orderly
  <2> QED BY <1>4, <2>1, NamesOfDir DEF Orderly, Distinct
<1>6. CASE phase = "open"
  <2>1. phase' = "header" /\ UNCHANGED songs BY <1>6 DEF OpenFinds
  <2>2. InHand' BY <1>1, <1>2, <1>5, <2>1 DEF NoneMissed, InHand
  <2>3. OwnFiles' BY <1>1, <1>3, <1>6, <2>1 DEF NoneMissed, OwnFiles
  <2> QED BY <1>1, <1>3, <2>1, <2>2, <2>3 DEF NoneMissed
<1>7. CASE phase = "reopen"
  <2>1. /\ phase' = "first" /\ Len(songs') = Len(songs)
        /\ Len(songs) \in 1 .. Len(songs)
        /\ songs'[Len(songs)].name = songs[Len(songs)].name
        /\ songs'[Len(songs)].hFile = hFile'
        /\ \A k \in 1 .. Len(songs) : k # Len(songs) => songs'[k] = songs[k]
    BY <1>7, SongOpened
  <2>2. InHand' BY <1>1, <1>2, <1>5, <1>7, <2>1 DEF NoneMissed, InHand
  <2>3. at["list"] \in WavesIn(dir)
    BY <1>4, <1>7 DEF NoneMissed, InHand, WavesIn, Files
  <2>4. \A k \in 1 .. Len(songs) : songs[k].hFile # 0 =>
            songs[k].hFile \in WavesIn(dir) /\ songs[k].hFile <= Settled
    BY <1>7 DEF NoneMissed, OwnFiles
  <2>5. \A k \in 1 .. Len(songs) : songs[k].hFile # at["list"]
    <3> SUFFICES ASSUME NEW k \in 1 .. Len(songs), songs[k].hFile = at["list"]
                 PROVE  FALSE
      OBVIOUS
    <3>1. at["list"] # 0 BY <1>2, PositionTypes DEF NoneMissed, InHand
    <3>2. at["list"] <= at["list"] - 1 BY <1>3, <2>4, <3>1
    <3> QED BY <3>2, PositionTypes
  <2>6. OwnFiles'
    <3>1. ASSUME NEW k \in 1 .. Len(songs'), songs'[k].hFile # 0
          PROVE  /\ songs'[k].hFile \in WavesIn(dir)
                 /\ songs'[k].hFile <= Settled' \/ k = Len(songs')
      <4>1. CASE k = Len(songs) BY <1>5, <2>1, <2>3, <4>1
      <4>2. CASE k # Len(songs) BY <1>3, <2>1, <2>4, <3>1, <4>2
      <4> QED BY <4>1, <4>2
    <3>2. ASSUME NEW j \in 1 .. Len(songs'), NEW k \in 1 .. Len(songs'),
                 songs'[j].hFile # 0, songs'[j].hFile = songs'[k].hFile
          PROVE  j = k
      <4>1. CASE j # Len(songs) /\ k # Len(songs)
        BY <2>1, <3>2, <4>1 DEF NoneMissed, OwnFiles, OneEach
      <4>2. CASE j = Len(songs) /\ k # Len(songs)
        BY <1>5, <2>1, <2>5, <3>2, <4>2
      <4>3. CASE j # Len(songs) /\ k = Len(songs)
        BY <1>5, <2>1, <2>5, <3>2, <4>3
      <4> QED BY <4>1, <4>2, <4>3
    <3> QED BY <1>1, <2>1, <3>1, <3>2 DEF OwnFiles, OneEach
  <2>7. AllListed(dir', songs', Settled')
    <3>1. songs[Len(songs)].hFile = 0 BY <1>7 DEF Inv, Listing
    <3>2. ASSUME NEW i \in WavesIn(dir), Playable(dir, songs, i)
          PROVE  Playable(dir, songs', i)
      <4>1. PICK k \in 1 .. Len(songs) :
              songs[k] = [name |-> NameIn(dir, i), hFile |-> i, readOk |-> TRUE]
        BY <3>2 DEF Playable
      <4>2. songs[k].hFile # 0 BY <4>1 DEF WavesIn
      <4>3. k # Len(songs) BY <3>1, <4>2
      <4> QED BY <2>1, <4>1, <4>3 DEF Playable
    <3> QED BY <1>1, <1>3, <3>2 DEF NoneMissed, AllListed
  <2> QED BY <1>1, <2>1, <2>2, <2>6, <2>7 DEF NoneMissed
<1> QED BY <1>1, <1>6, <1>7 DEF Opening

\* Fat_FileOpen does not fail.
LEMMA OpenFailsNot ==
    ASSUME Inv, Browsing, Orderly, NoneMissed, ~faults', OpenFails
    PROVE  FALSE
<1>1. Opening BY DEF OpenFails
<1>2. IsEnd \/ handles = MaxHandles BY DEF OpenFails, Fault
<1>3. handles < MaxHandles
  <2>1. phase # "header" BY <1>1 DEF Opening
  <2> QED BY <2>1, HandleLeft DEF NoneMissed
<1>4. handles # MaxHandles BY <1>3, Sizes DEF Inv, Counts
<1>5. IsEnd BY <1>2, <1>4
<1>6. Search = "open" /\ Assembled(dir, at["open"], Now) /\ GoodDir(dir)
  BY <1>1, ListSearch, NamesOfDir DEF Browsing, Orderly
<1>7. /\ This.kind # "skip" /\ ~TakesPiece(Now, This) /\ ~FindsFile(Now, This)
  BY <1>5, OfThis DEF IsEnd
<1>8. at["open"] + 1 = Len(dir) BY <1>6, <1>7, SearchAt, EndIsLast
<1> QED BY <1>1, <1>8, PositionTypes DEF NoneMissed, InHand

LEMMA ReadHeaderFine ==
    ASSUME Inv, Orderly, NoneMissed, ReadHeader
    PROVE  NoneMissed'
<1>1. /\ UNCHANGED <<dir, szWaveFilename, hFile, unread>> /\ phase = "header"
      /\ SearchBegins
  BY DEF ReadHeader
<1>2. at'["open"] = 0 /\ at'["list"] = at["list"] BY <1>1, Begun
<1>3. Busy /\ Settled = at["list"] - 1 /\ hFile = at["list"] /\ at["list"] >= 1
  BY <1>1 DEF Busy, Settled, NoneMissed, InHand
<1>4. CASE dir[hFile].wave
  <2>1. /\ phase' = "reopen" /\ Len(songs) \in Nat
        /\ Len(songs') = Len(songs) + 1
        /\ songs'[Len(songs) + 1].name = szWaveFilename
        /\ songs'[Len(songs) + 1].hFile = 0
        /\ \A k \in 1 .. Len(songs) : songs'[k] = songs[k]
    BY <1>4, SongListed
  <2>2. Busy' /\ Settled' = Settled BY <1>2, <1>3, <2>1 DEF Busy, Settled
  <2>3. 0 < at["list"] BY <1>3, PositionTypes
  <2>4. InHand'
    BY <1>1, <1>2, <1>3, <1>4, <2>1, <2>3 DEF NoneMissed, InHand
  <2>5. \A k \in 1 .. Len(songs') : k # Len(songs) + 1 => k \in 1 .. Len(songs)
    BY <2>1
  <2>6. OwnFiles'
    <3>1. ASSUME NEW k \in 1 .. Len(songs'), songs'[k].hFile # 0
          PROVE  /\ songs'[k].hFile \in WavesIn(dir)
                 /\ songs'[k].hFile <= Settled' \/ k = Len(songs')
      <4>1. k \in 1 .. Len(songs) BY <2>1, <2>5, <3>1
      <4> QED BY <1>1, <2>1, <2>2, <3>1, <4>1 DEF NoneMissed, OwnFiles
    <3>2. ASSUME NEW k \in 1 .. Len(songs'), songs'[k].hFile # 0
          PROVE  songs'[k].hFile <= Settled'
      <4>1. k \in 1 .. Len(songs) BY <2>1, <2>5, <3>2
      <4> QED BY <1>1, <2>1, <2>2, <3>2, <4>1 DEF NoneMissed, OwnFiles
    <3>3. ASSUME NEW j \in 1 .. Len(songs'), NEW k \in 1 .. Len(songs'),
                 songs'[j].hFile # 0, songs'[j].hFile = songs'[k].hFile
          PROVE  j = k
      <4>1. j \in 1 .. Len(songs) /\ k \in 1 .. Len(songs)
        BY <2>1, <2>5, <3>3
      <4> QED BY <2>1, <3>3, <4>1 DEF NoneMissed, OwnFiles, OneEach
    <3> QED BY <1>1, <3>1, <3>2, <3>3 DEF OwnFiles, OneEach
  <2>7. AllListed(dir', songs', Settled')
    <3>1. 1 .. Len(songs) \subseteq 1 .. Len(songs') BY <2>1
    <3>2. \A i : Playable(dir, songs, i) => Playable(dir, songs', i)
      BY <2>1, <3>1 DEF Playable
    <3> QED BY <1>1, <2>2, <3>2 DEF NoneMissed, AllListed
  <2> QED BY <1>1, <2>1, <2>4, <2>6, <2>7 DEF NoneMissed
<1>5. CASE ~dir[hFile].wave
  <2>1. phase' = "next" /\ UNCHANGED songs BY <1>5 DEF ReadHeader
  <2>2. ~Busy' /\ ~Opening' /\ Settled' = at["list"]
    BY <1>2, <2>1 DEF Busy, Opening, Settled
  <2>3. InHand' BY <2>1, <2>2 DEF InHand
  <2>4. OwnFiles'
    <3>1. \A i \in WavesIn(dir) : i <= Settled => i <= Settled'
      BY <1>3, <2>2, PositionTypes DEF WavesIn
    <3> QED BY <1>1, <2>1, <3>1 DEF NoneMissed, OwnFiles
  <2>5. AllListed(dir, songs, at["list"])
    <3>1. at["list"] - 1 \in Nat /\ (at["list"] - 1) + 1 = at["list"]
      BY <1>3, PositionTypes
    <3>2. at["list"] \notin WavesIn(dir) BY <1>3, <1>5 DEF WavesIn
    <3>3. AllListed(dir, songs, at["list"] - 1) BY <1>3 DEF NoneMissed
    <3> QED BY <3>1, <3>2, <3>3, PositionTypes, OneMoreSettled
  <2>6. AllListed(dir', songs', Settled') BY <1>1, <2>1, <2>2, <2>5
  <2> QED BY <1>1, <2>1, <2>3, <2>4, <2>6 DEF NoneMissed
<1> QED BY <1>4, <1>5

LEMMA ReadFirstFine ==
    ASSUME Inv, Orderly, NoneMissed, ~faults', ReadFirst
    PROVE  NoneMissed'
<1>1. /\ UNCHANGED <<dir, at, szWaveFilename, hFile, unread>> /\ phase = "first"
      /\ phase' = "next" /\ Started(TRUE)
  BY DEF ReadFirst, Fault
<1>2. Busy /\ Settled = at["list"] - 1 /\ ~Busy' /\ ~Opening'
      /\ Settled' = at["list"]
  BY <1>1 DEF Busy, Opening, Settled
<1>3. /\ Len(songs') = Len(songs) /\ Len(songs) \in 1 .. Len(songs)
      /\ songs'[Len(songs)].name = songs[Len(songs)].name
      /\ songs'[Len(songs)].hFile = songs[Len(songs)].hFile
      /\ songs'[Len(songs)].readOk = TRUE
      /\ \A k \in 1 .. Len(songs) : k # Len(songs) => songs'[k] = songs[k]
  BY <1>1, SongStarted
<1>4. /\ songs[Len(songs)].hFile = at["list"] /\ at["list"] >= 1
      /\ songs[Len(songs)].name = NameIn(dir, at["list"])
  BY <1>1, <1>2 DEF NoneMissed, InHand
<1>5. InHand' BY <1>1, <1>2 DEF InHand
<1>6. \A k \in 1 .. Len(songs) : songs'[k].hFile = songs[k].hFile BY <1>3
<1>7. OwnFiles'
  <2>1. ASSUME NEW k \in 1 .. Len(songs), songs[k].hFile # 0
        PROVE  songs[k].hFile \in WavesIn(dir) /\ songs[k].hFile <= Settled'
    <3>1. songs[k].hFile \in WavesIn(dir) BY <2>1 DEF NoneMissed, OwnFiles
    <3>2. CASE songs[k].hFile <= Settled
      <4>1. songs[k].hFile \in Int BY <3>1 DEF WavesIn
      <4> QED BY <1>2, <3>1, <3>2, <4>1, PositionTypes
    <3>3. CASE k = Len(songs) BY <1>2, <1>4, <3>1, <3>3, PositionTypes
    <3> QED BY <2>1, <3>2, <3>3 DEF NoneMissed, OwnFiles
  <2> QED BY <1>1, <1>3, <1>6, <2>1 DEF NoneMissed, OwnFiles, OneEach
<1>8. AllListed(dir, songs', at["list"])
  <2>1. Playable(dir, songs', at["list"])
    <3>1. songs' \in Seq(Song)
      <4>1. Listing BY DEF Inv
      <4> QED BY <1>1, <4>1, StartedSong
    <3>2. songs'[Len(songs)] \in Song BY <1>3, <3>1, ElementOfSeq
    <3>3. songs'[Len(songs)] = [name |-> NameIn(dir, at["list"]),
                                hFile |-> at["list"], readOk |-> TRUE]
      BY <1>3, <1>4, <3>2 DEF Song
    <3> QED BY <1>3, <3>3 DEF Playable
  <2>2. ASSUME NEW i \in WavesIn(dir), Playable(dir, songs, i), i # at["list"]
        PROVE  Playable(dir, songs', i)
    <3>1. PICK k \in 1 .. Len(songs) :
            songs[k] = [name |-> NameIn(dir, i), hFile |-> i, readOk |-> TRUE]
      BY <2>2 DEF Playable
    <3>2. k # Len(songs) BY <1>4, <2>2, <3>1
    <3> QED BY <1>3, <3>1, <3>2 DEF Playable
  <2>3. \A i \in WavesIn(dir) :
          i <= at["list"] => i <= at["list"] - 1 \/ i = at["list"]
    BY PositionTypes DEF WavesIn
  <2>4. AllListed(dir, songs, at["list"] - 1) BY <1>2 DEF NoneMissed
  <2> QED BY <2>1, <2>2, <2>3, <2>4 DEF AllListed
<1>9. AllListed(dir', songs', Settled') BY <1>1, <1>2, <1>8
<1> QED BY <1>1, <1>5, <1>7, <1>9 DEF NoneMissed

LEMMA UndisturbedStep ==
    ASSUME Inv, Browsing, Undisturbed, Next
    PROVE  Undisturbed'
<1> SUFFICES ASSUME Orderly, ~faults' PROVE NoneMissed'
  <2>1. UNCHANGED dir
    BY DEF Next, SkipEntry, AddPiece, ListFinds, ListEnds, OpenPasses,
           OpenFinds, OpenFails, ReadHeader, HeaderFails, ReadFirst
  <2> QED BY <2>1, OrderlySame DEF Undisturbed
<1>1. ~faults
  BY DEF Next, SkipEntry, AddPiece, ListFinds, ListEnds, OpenPasses, OpenFinds,
         OpenFails, ReadHeader, HeaderFails, ReadFirst, Fault
<1>2. NoneMissed BY <1>1 DEF Undisturbed
<1>3. ~HeaderFails BY DEF HeaderFails
<1>4. ~OpenFails BY <1>2, OpenFailsNot
<1>5. SkipEntry \/ AddPiece => phase = "next" \/ Opening
  BY DEF SkipEntry, AddPiece, Searching, Opening
<1>6. OpenPasses => Opening BY DEF OpenPasses
<1> QED BY <1>2, <1>3, <1>4, <1>5, <1>6, ListGoesOnFine, ListFindsFine,
           ListEndsFine, SearchGoesOnFine, OpenFindsFine, ReadHeaderFine,
           ReadFirstFine DEF Next

\* Without a failed read, every wave file of a name of its own that ends in
\* .wav is on the list when build_wave_play_list returns, and waveplay_start
\* has opened this very file and read its first sector, as long as one handle
\* is left beside those the songs keep.
THEOREM NoSongIsMissed == Spec => []NoSongMissed
<1>1. Inv /\ Browsing /\ Undisturbed /\ [Next]_vars => Browsing' /\ Undisturbed'
  <2> SUFFICES ASSUME Inv, Browsing, Undisturbed, [Next]_vars
               PROVE  Browsing' /\ Undisturbed'
    OBVIOUS
  <2>1. CASE UNCHANGED vars
    <3>1. UNCHANGED <<dir, phase, at, szWaveFilename, hFile, songs, unread,
                      faults>> /\ Now' = Now
      BY <2>1, NowSame DEF vars, fileVars
    <3>2. (WellFormed' <=> WellFormed) /\ (Orderly' <=> Orderly)
      BY <3>1, SameDir, OrderlySame
    <3>3. Browsing' BY <3>1, <3>2 DEF Browsing, Opening, Busy
    <3>4. NoneMissed => NoneMissed'
      BY <3>1 DEF NoneMissed, InHand, OwnFiles, Settled, Busy, Opening
    <3> QED BY <3>1, <3>2, <3>3, <3>4 DEF Undisturbed
  <2> QED BY <2>1, BrowsingStep, UndisturbedStep DEF Next
<1>2. Init => Undisturbed
  <2> SUFFICES ASSUME Init PROVE NoneMissed BY DEF Undisturbed
  <2>1. phase = "next" /\ songs = <<>> /\ unread = 0 /\ at["list"] = 0
    BY DEF Init, Searches
  <2>2. Len(songs) = 0 BY <2>1, EmptySeq
  <2>3. Settled = 0 BY <2>1 DEF Settled, Busy
  <2>4. InHand BY <2>1 DEF InHand, Busy, Opening
  <2>5. OwnFiles BY <2>2 DEF OwnFiles, OneEach
  <2>6. AllListed(dir, songs, 0) BY DEF AllListed, WavesIn
  <2> QED BY <2>1, <2>3, <2>4, <2>5, <2>6 DEF NoneMissed
<1>3. Inv /\ Undisturbed => NoSongMissed
  <2> SUFFICES ASSUME Inv, Undisturbed, phase = "done", ~faults, Orderly,
                      NEW i \in Waves, IsWaveName(NameAt(i))
               PROVE  \E k \in 1 .. Len(songs) :
                        songs[k] = [name |-> NameAt(i), hFile |-> i,
                                    readOk |-> TRUE]
    BY DEF NoSongMissed, Orderly
  <2>1. NoneMissed /\ Settled = Len(dir) - 1
    BY DEF Undisturbed, NoneMissed, Settled, Busy
  <2>2. i \in WavesIn(dir) /\ NameAt(i) = NameIn(dir, i)
    BY WavesAre, NamesOfDir
  <2>3. i <= Len(dir) - 1
    <3>1. i \in 1 .. Len(dir) /\ dir[i].kind = "short" BY <2>2 DEF WavesIn
    <3>2. i # Len(dir) BY <3>1, SearchAt DEF Directory
    <3> QED BY <3>1, <3>2, PositionTypes
  <2>4. Playable(dir, songs, i) BY <2>1, <2>2, <2>3 DEF NoneMissed, AllListed
  <2> QED BY <2>2, <2>4 DEF Playable
<1> QED BY <1>1, <1>2, <1>3, BrowsingInit, DirInvariant, PTL DEF Spec
-----------------------------------------------------------------------------
\* The listing comes to an end.

\* What a search for one name and the start of a song may still take, in the
\* phase p with o entries passed by Fat_FileOpen of a directory of n.
InPhase(n, p, o) ==
    CASE p = "next" -> 1
      [] p = "first" -> 2
      [] p = "reopen" -> 2 + (n - o)
      [] p = "header" -> n + 3
      [] OTHER -> n + 3 + (n - o)

\* Each entry that is left to the listing may lead to two such searches.
StepsLeft ==
    IF phase = "done" THEN 0
    ELSE (2 * Len(dir) + 3) * (Len(dir) - at["list"])
             + InPhase(Len(dir), phase, at["open"])

Sooner == StepsLeft \in Nat /\ StepsLeft' \in Nat /\ StepsLeft' < StepsLeft

LEMMA PhaseBounds ==
    ASSUME NEW n \in Nat, n >= 1, NEW o \in 0 .. n - 1,
           NEW p \in {"next", "open", "header", "reopen", "first"}
    PROVE  InPhase(n, p, o) \in Nat /\ InPhase(n, p, o) \in 1 .. 2 * n + 3
BY DEF InPhase

\* What a step does to the two searches and the phase.
LEMMA SoonerIf ==
    ASSUME Position, Position', dir' = dir, phase # "done",
           \/ /\ phase = "next" /\ phase' \in {"next", "open"}
              /\ at'["list"] = at["list"] + 1
           \/ /\ at'["list"] = at["list"]
              /\ \/ phase' = "done"
                 \/ /\ phase' = phase /\ phase \in {"open", "reopen"}
                    /\ at'["open"] = at["open"] + 1
                 \/ phase # "next" /\ phase' = "next"
                 \/ phase = "open" /\ phase' = "header"
                 \/ phase = "header" /\ phase' = "reopen" /\ at'["open"] = 0
                 \/ phase = "reopen" /\ phase' = "first"
    PROVE  Sooner
<1> DEFINE n == Len(dir)
           l == at["list"]
           m == at'["list"]
           o == at["open"]
           q == at'["open"]
           w == 2 * n + 3
           a == InPhase(n, phase, o)
           b == InPhase(n, phase', q)
<1>1. n \in Nat /\ n >= 1 BY DirType
<1>2. l \in 0 .. n - 1 /\ o \in 0 .. n - 1 /\ m \in 0 .. n - 1 /\ q \in 0 .. n - 1
  BY DEF Position, Searches
<1>3. /\ phase \in {"next", "open", "header", "reopen", "first"}
      /\ phase' \in {"next", "open", "header", "reopen", "first", "done"}
  BY DEF Position
<1>4. StepsLeft = w * (n - l) + a BY DEF StepsLeft
<1>5. StepsLeft' = IF phase' = "done" THEN 0 ELSE w * (n - m) + b
  BY DEF StepsLeft
<1>6. a \in Nat /\ a \in 1 .. w BY <1>1, <1>2, <1>3, PhaseBounds
<1>7. phase' # "done" => b \in Nat /\ b \in 1 .. w
  BY <1>1, <1>2, <1>3, PhaseBounds
<1>8. phase = "next" => a = 1 BY DEF InPhase
<1>9. CASE phase' = "done"
  <2> HIDE DEF a
  <2>1. n - l \in Nat /\ w \in Nat BY <1>1, <1>2
  <2> HIDE DEF n, l, w
  <2>2. w * (n - l) \in Nat BY <2>1
  <2>3. StepsLeft' = 0 BY <1>5, <1>9
  <2> QED BY <1>4, <1>6, <2>2, <2>3 DEF Sooner
<1>10. CASE phase' \in {"next", "open"} /\ phase = "next" /\ m = l + 1
  <2>1. phase' # "done" /\ a = 1 BY <1>8, <1>10
  <2>2. n - l \in Nat /\ n - m \in Nat /\ n - l = (n - m) + 1 /\ w \in Nat
    BY <1>1, <1>2, <1>10
  <2>3. StepsLeft' = w * (n - m) + b BY <1>5, <2>1
  <2>4. b \in Nat /\ b <= w BY <1>7, <2>1, <2>2
  <2> HIDE DEF a, b, n, l, m, w
  <2>5. w * (n - l) = w * (n - m) + w /\ w * (n - m) \in Nat BY <2>2
  <2> QED BY <1>4, <2>1, <2>2, <2>3, <2>4, <2>5 DEF Sooner
<1>11. CASE phase' # "done" /\ m = l /\ phase # "next"
  <2>1. b < a
    <3>1. CASE phase' = phase /\ phase \in {"open", "reopen"} /\ q = o + 1
      BY <1>1, <1>2, <3>1 DEF InPhase
    <3>2. CASE phase' = "next"
      BY <1>1, <1>2, <1>3, <1>11, <3>2 DEF InPhase
    <3>3. CASE phase = "open" /\ phase' = "header"
      BY <1>1, <1>2, <3>3 DEF InPhase
    <3>4. CASE phase = "header" /\ phase' = "reopen" /\ q = 0
      BY <1>1, <1>2, <3>4 DEF InPhase
    <3>5. CASE phase = "reopen" /\ phase' = "first"
      BY <1>1, <1>2, <3>5 DEF InPhase
    <3> QED BY <1>11, <3>1, <3>2, <3>3, <3>4, <3>5
  <2>2. n - l \in Nat /\ w \in Nat /\ b \in Nat
    BY <1>1, <1>2, <1>7, <1>11
  <2>3. StepsLeft' = w * (n - l) + b BY <1>5, <1>11
  <2> HIDE DEF a, b, n, l, m, w
  <2>4. w * (n - l) \in Nat BY <2>2
  <2> QED BY <1>4, <1>6, <2>1, <2>2, <2>3, <2>4 DEF Sooner
<1>12. \/ phase' = "done"
       \/ phase' \in {"next", "open"} /\ phase = "next" /\ m = l + 1
       \/ phase' # "done" /\ m = l /\ phase # "next"
  BY <1>3
<1> QED BY <1>9, <1>10, <1>11, <1>12

\* Where a search that begins leaves both.
LEMMA BeginsAt ==
    ASSUME Position, SearchBegins
    PROVE  /\ at'["open"] = 0
           /\ at'["list"] = IF phase = "next" THEN at["list"] + 1 ELSE at["list"]
BY DEF SearchBegins, Here, Search, Searches

LEMMA MovesAt ==
    ASSUME Position, Moves, Searching
    PROVE  IF phase = "next"
           THEN at'["list"] = at["list"] + 1
           ELSE at'["list"] = at["list"] /\ at'["open"] = at["open"] + 1
BY DEF Moves, Here, Search, Searches, Searching, Position

\* On every directory that has its mark, with whatever entries, names and
\* failures, build_wave_play_list gets nearer to its end with every step, so
\* that it returns: TaskReadSD, the most urgent task, which calls it, does not
\* keep the processor for good (audio_f.c:48-144, FatFileSystem.c:120-209).
THEOREM ListingEnds == Spec => [][Sooner]_vars
<1>1. Position /\ Position' /\ [Next]_vars => [Sooner]_vars
  <2> SUFFICES ASSUME Position, Position', Next PROVE Sooner OBVIOUS
  <2>1. CASE SkipEntry
    <3>1. Moves /\ Searching /\ UNCHANGED <<dir, phase>> BY <2>1 DEF SkipEntry
    <3> QED BY <3>1, MovesAt, SoonerIf DEF Searching
  <2>2. CASE AddPiece
    <3>1. Moves /\ Searching /\ UNCHANGED <<dir, phase>> BY <2>2 DEF AddPiece
    <3> QED BY <3>1, MovesAt, SoonerIf DEF Searching
  <2>3. CASE ListFinds
    <3>1. /\ phase = "next" /\ SearchBegins /\ dir' = dir
          /\ phase' \in {"next", "open"}
      BY <2>3 DEF ListFinds
    <3> QED BY <3>1, BeginsAt, SoonerIf
  <2>4. CASE ListEnds
    <3>1. phase = "next" /\ phase' = "done" /\ UNCHANGED <<dir, at>>
      BY <2>4 DEF ListEnds
    <3> QED BY <3>1, SoonerIf
  <2>5. CASE OpenPasses
    <3>1. Moves /\ Opening /\ UNCHANGED <<dir, phase>> BY <2>5 DEF OpenPasses
    <3>2. Searching /\ phase \in {"open", "reopen"}
      BY <3>1 DEF Opening, Searching
    <3> QED BY <3>1, <3>2, MovesAt, SoonerIf
  <2>6. CASE OpenFinds
    <3>1. /\ \/ phase = "open" /\ phase' = "header"
             \/ phase = "reopen" /\ phase' = "first"
          /\ UNCHANGED <<dir, at>>
      BY <2>6 DEF OpenFinds
    <3> QED BY <3>1, SoonerIf
  <2>7. CASE OpenFails
    <3>1. phase \in {"open", "reopen"} /\ phase' = "next" /\ UNCHANGED <<dir, at>>
      BY <2>7 DEF OpenFails, Opening
    <3> QED BY <3>1, SoonerIf
  <2>8. CASE ReadHeader
    <3>1. /\ phase = "header" /\ SearchBegins /\ dir' = dir
          /\ phase' \in {"next", "reopen"}
      BY <2>8 DEF ReadHeader
    <3> QED BY <3>1, BeginsAt, SoonerIf
  <2>9. CASE HeaderFails
    <3>1. phase = "header" /\ phase' = "next" /\ UNCHANGED <<dir, at>>
      BY <2>9 DEF HeaderFails
    <3> QED BY <3>1, SoonerIf
  <2>10. CASE ReadFirst
    <3>1. phase = "first" /\ phase' = "next" /\ UNCHANGED <<dir, at>>
      BY <2>10 DEF ReadFirst
    <3> QED BY <3>1, SoonerIf
  <2> QED BY <2>1, <2>2, <2>3, <2>4, <2>5, <2>6, <2>7, <2>8, <2>9, <2>10
          DEF Next
<1>2. Inv => Position BY DEF Inv
<1> QED BY <1>1, <1>2, DirInvariant, PTL DEF Spec
=============================================================================
