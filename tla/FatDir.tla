-------------------------------- MODULE FatDir -------------------------------
(***************************************************************************)
(* How the songs of a card are found: build_wave_play_list (audio_f.c)     *)
(* browses the root directory, opens what it finds by name, which is a     *)
(* second search of the same directory, looks at the first bytes, and      *)
(* starts every song once, which opens it again.  The entries are those of *)
(* FAT: a long name comes in pieces, last one first, in entries before the *)
(* short one.  Names are what is left of them without blanks.              *)
(*                                                                         *)
(* One step looks at one entry, which may have to be read from the card,   *)
(* or reads the beginning of a file; each can fail.                        *)
(***************************************************************************)
EXTENDS Integers, Sequences, FiniteSets

CONSTANTS
    Pieces,         \* pieces of names
    WavePieces,     \* those that end a name in .wav
    MaxOrd,         \* pieces of the longest name
    Directories,    \* contents the root directory may have
    MaxHandles      \* file handles that malloc can give

\* An entry: passed over (deleted, or a name that cannot be), a piece of a
\* long name, a file, or the mark that no entry follows.  A file has a short
\* name, is plain (archive or directory), and is or is not a wave file that
\* the player supports.
LongEntry == [kind : {"long"}, ord : 1 .. MaxOrd, piece : Pieces]
ShortEntry == [kind : {"short"}, name : Pieces, plain : BOOLEAN, wave : BOOLEAN]
Entry == LongEntry \cup ShortEntry \cup [kind : {"skip", "last"}]

\* What memset leaves where no piece of a name was written.
NoPiece == "none"

ASSUME DirAssumption ==
    /\ WavePieces \subseteq Pieces /\ NoPiece \notin Pieces
    /\ MaxOrd \in Nat \ {0} /\ MaxHandles \in Nat
    /\ \A d \in Directories :
        /\ d \in Seq(Entry) /\ d # <<>>
        /\ \A i \in 1 .. Len(d) : d[i].kind = "last" <=> i = Len(d)

VARIABLES
    dir,            \* the directory
    phase,          \* what build_wave_play_list is doing
    at,             \* DirectoryIndex of its search, and of Fat_FileOpen's
    OrderValue, bLongFilename, szName,  \* Fat_FileBrowseNext's locals
    bFlag,          \* a name in .wav has been seen
    szWaveFilename, \* the name found last
    hFile,          \* the entry that was opened
    handles,        \* handles that are open
    songs,          \* gWavePlay: name, handle, whether it could be started
    browsed,        \* observed: the entries and names the search has delivered
    unread,         \* observed: how many headers could not be read
    faults          \* observed: something could not be read

nameVars == <<OrderValue, bLongFilename, szName>>
fileVars == <<bFlag, szWaveFilename, hFile, handles, songs>>
vars == <<dir, phase, at, nameVars, fileVars, browsed, unread, faults>>

Searches == {"list", "open"}
Names == UNION {[1 .. n -> Pieces] : n \in 0 .. MaxOrd}
TypeOK ==
    /\ dir \in Seq(Entry)
    /\ phase \in {"next", "open", "header", "reopen", "first", "done"}
    /\ at \in [Searches -> 0 .. Len(dir) - 1]
    /\ OrderValue \in 0 .. MaxOrd - 1 /\ bLongFilename \in BOOLEAN
    /\ szName \in [1 .. MaxOrd -> Pieces \cup {NoPiece}]
    /\ bFlag \in BOOLEAN /\ szWaveFilename \in Names
    /\ hFile \in 0 .. Len(dir)
    /\ handles \in 0 .. MaxHandles
    /\ songs \in Seq([name : Names, hFile : 0 .. Len(dir), readOk : BOOLEAN])
    /\ browsed \in Seq([at : 1 .. Len(dir), name : Names])
    /\ unread \in Nat
    /\ faults \in BOOLEAN

-----------------------------------------------------------------------------
\* Fat_FileBrowseNext

\* Mutation: both searches move one handle.
OneSearch == "list"

\* The search that is under way, and the entry it comes to.
Search == IF phase = "next" THEN "list" ELSE "open"
Searching == phase \in {"next", "open", "reopen"}
Here == at[Search] + 1
This == dir[Here]

\* Fat_FileBrowseNext is entered.
FreshName ==
    /\ OrderValue' = 0 /\ bLongFilename' = FALSE
    /\ szName' = [k \in 1 .. MaxOrd |-> NoPiece]

\* The name in szName: it ends where nothing was written.
LongName ==
    LET n == CHOOSE k \in 0 .. MaxOrd :
                 /\ \A j \in 1 .. k : szName[j] # NoPiece
                 /\ k < MaxOrd => szName[k + 1] = NoPiece
    IN  SubSeq(szName, 1, n)

FoundName == IF bLongFilename THEN LongName ELSE <<This.name>>

\* A piece of a name is the next one, or the first one of the call.
IsNextPiece ==
    /\ This.kind = "long"
    /\ IF OrderValue = 0 THEN ~bLongFilename ELSE This.ord = OrderValue

IsFound == This.kind = "short" /\ (bLongFilename => This.plain)

\* Mutation: a deleted entry ends the search.
IsEndOrDeleted == ~IsNextPiece /\ ~IsFound

IsEnd == This.kind # "skip" /\ ~IsNextPiece /\ ~IsFound

Moves == at' = [at EXCEPT ![Search] = Here]

SkipEntry ==
    /\ Searching /\ This.kind = "skip"
    /\ Moves
    /\ UNCHANGED <<dir, phase, nameVars, fileVars, browsed, unread, faults>>

AddPiece ==
    /\ Searching /\ IsNextPiece
    /\ Moves
    /\ OrderValue' = This.ord - 1
    /\ bLongFilename' = TRUE
    /\ szName' = [k \in 1 .. MaxOrd |->
                     IF k = This.ord THEN This.piece
                     ELSE IF OrderValue = 0 THEN NoPiece ELSE szName[k]]
    /\ UNCHANGED <<dir, phase, fileVars, browsed, unread, faults>>

-----------------------------------------------------------------------------
\* build_wave_play_list

Fault(ok) == faults' = (faults \/ ~ok)

\* Fat_FileOpen begins its own search.
SearchBegins ==
    /\ FreshName
    /\ at' = [s \in Searches |-> IF s = "open" THEN 0
                                ELSE IF phase = "next" THEN Here ELSE at[s]]

IsWaveName(name) == name # <<>> /\ name[Len(name)] \in WavePieces

\* The next file: it is opened if its name, or one before it, is in .wav.
ListFinds ==
    /\ phase = "next" /\ IsFound
    /\ szWaveFilename' = FoundName
    /\ bFlag' = (bFlag \/ IsWaveName(FoundName))
    /\ browsed' = Append(browsed, [at |-> Here, name |-> FoundName])
    /\ phase' = IF bFlag' THEN "open" ELSE "next"
    /\ SearchBegins
    /\ UNCHANGED <<dir, hFile, handles, songs, unread, faults>>

\* The end of the directory, an entry that does not fit, or a failed read.
ListEnds ==
    /\ phase = "next"
    /\ \E ok \in BOOLEAN : (ok => IsEnd) /\ Fault(ok)
    /\ phase' = "done"
    /\ UNCHANGED <<dir, at, nameVars, fileVars, browsed, unread>>

Opening == phase \in {"open", "reopen"}

\* Fat_FileOpen passes over a file of another name.
OpenPasses ==
    /\ Opening /\ IsFound /\ FoundName # szWaveFilename
    /\ FreshName /\ Moves
    /\ UNCHANGED <<dir, phase, fileVars, browsed, unread, faults>>

\* Mutation: only the ends of the names are compared.
OpenFindsSuffix ==
    /\ Opening /\ IsFound
    /\ IsWaveName(FoundName) /\ IsWaveName(szWaveFilename)
    /\ handles < MaxHandles
    /\ handles' = handles + 1 /\ hFile' = Here
    /\ \/ phase = "open" /\ phase' = "header" /\ UNCHANGED songs
       \/ /\ phase = "reopen" /\ phase' = "first"
          /\ songs' = [songs EXCEPT ![Len(songs)].hFile = Here]
    /\ FreshName
    /\ UNCHANGED <<dir, at, bFlag, szWaveFilename, browsed, unread, faults>>

OpenFinds ==
    /\ Opening /\ IsFound /\ FoundName = szWaveFilename
    /\ handles < MaxHandles
    /\ handles' = handles + 1 /\ hFile' = Here
    /\ \/ phase = "open" /\ phase' = "header" /\ UNCHANGED songs
       \/ /\ phase = "reopen" /\ phase' = "first"
          /\ songs' = [songs EXCEPT ![Len(songs)].hFile = Here]
    /\ FreshName
    /\ UNCHANGED <<dir, at, bFlag, szWaveFilename, browsed, unread, faults>>

\* The song that was listed last has been started, or not.
Started(ok) == songs' = [songs EXCEPT ![Len(songs)].readOk = ok]

\* The file is not found, or there is no handle.  waveplay_start then returns
\* a variable without a value.
OpenFails ==
    /\ Opening
    /\ \E ok \in BOOLEAN :
        /\ ok => \/ IsEnd
                 \/ IsFound /\ FoundName = szWaveFilename /\ handles = MaxHandles
        /\ Fault(ok)
    /\ hFile' = 0
    /\ phase' = "next" /\ FreshName
    /\ \/ phase = "reopen" /\ \E ok \in BOOLEAN : Started(ok)
       \/ phase = "open" /\ UNCHANGED songs
    /\ UNCHANGED <<dir, at, bFlag, szWaveFilename, handles, browsed, unread>>

\* Mutation: the file is not closed.
ReadHeaderLeaks ==
    /\ phase = "header"
    /\ IF dir[hFile].wave
       THEN /\ songs' = Append(songs, [name |-> szWaveFilename, hFile |-> 0,
                                    readOk |-> FALSE])
            /\ phase' = "reopen"
       ELSE UNCHANGED songs /\ phase' = "next"
    /\ SearchBegins
    /\ UNCHANGED <<dir, bFlag, szWaveFilename, hFile, handles, browsed, unread, faults>>

\* The header is read and the file closed; a song is listed and started.
ReadHeader ==
    /\ phase = "header"
    /\ handles' = handles - 1
    /\ IF dir[hFile].wave
       THEN /\ songs' = Append(songs, [name |-> szWaveFilename, hFile |-> 0,
                                    readOk |-> FALSE])
            /\ phase' = "reopen"
       ELSE UNCHANGED songs /\ phase' = "next"
    /\ SearchBegins
    /\ UNCHANGED <<dir, bFlag, szWaveFilename, hFile, browsed, unread, faults>>

\* It cannot be read, and the file stays open.
HeaderFails ==
    /\ phase = "header"
    /\ phase' = "next" /\ FreshName
    /\ unread' = unread + 1 /\ faults' = TRUE
    /\ UNCHANGED <<dir, at, fileVars, browsed>>

\* waveplay_start reads the first sector; its handle stays open for the song.
ReadFirst ==
    /\ phase = "first"
    /\ \E ok \in BOOLEAN : Started(ok) /\ Fault(ok)
    /\ phase' = "next" /\ FreshName
    /\ UNCHANGED <<dir, at, bFlag, szWaveFilename, hFile, handles, browsed, unread>>

Init ==
    /\ dir \in Directories
    /\ phase = "next" /\ at = [s \in Searches |-> 0]
    /\ OrderValue = 0 /\ bLongFilename = FALSE
    /\ szName = [k \in 1 .. MaxOrd |-> NoPiece]
    /\ bFlag = FALSE /\ szWaveFilename = <<>> /\ hFile = 0 /\ handles = 0
    /\ songs = <<>> /\ browsed = <<>> /\ unread = 0 /\ faults = FALSE

Next ==
    \/ SkipEntry \/ AddPiece
    \/ ListFinds \/ ListEnds
    \/ OpenPasses \/ OpenFinds \/ OpenFails
    \/ ReadHeader \/ HeaderFails \/ ReadFirst

Spec == Init /\ [][Next]_vars

-----------------------------------------------------------------------------
\* A directory as it should be: the pieces of a long name count down to the
\* file they belong to.
WellFormed ==
    \A i \in 1 .. Len(dir) : dir[i].kind = "long" =>
        IF dir[i].ord = 1 THEN dir[i + 1].kind = "short" /\ dir[i + 1].plain
        ELSE dir[i + 1].kind = "long" /\ dir[i + 1].ord = dir[i].ord - 1

Files == {i \in 1 .. Len(dir) : dir[i].kind = "short"}

\* The name of a file: its pieces lie before it, the first one next to it.
NameAt(i) ==
    LET IsPiece(k) == k < i /\ dir[i - k].kind = "long" /\ dir[i - k].ord = k
        n == CHOOSE k \in 0 .. MaxOrd :
                 /\ \A j \in 1 .. k : IsPiece(j)
                 /\ k < MaxOrd => ~IsPiece(k + 1)
    IN  IF n = 0 THEN <<dir[i].name>> ELSE [k \in 1 .. n |-> dir[i - k].piece]

\* The search delivers every file of the part it has passed, once, in order
\* and under its name, although other searches go through the directory
\* between its steps (FatFileSystem.c:133-205).
BrowsesAll ==
    WellFormed =>
        /\ {browsed[k].at : k \in 1 .. Len(browsed)}
               = {i \in Files : i <= at["list"]}
        /\ \A k \in 1 .. Len(browsed) :
            /\ browsed[k].name = NameAt(browsed[k].at)
            /\ k > 1 => browsed[k - 1].at < browsed[k].at

\* What is on the list is a wave file that the player supports: the entry a
\* name leads to, when a song is started, is the one whose header was looked
\* at, whatever the name looks like and whatever failed (audio_f.c:107-140).
SongsAreWaves ==
    \A k \in 1 .. Len(songs) :
        /\ songs[k].hFile # 0 => dir[songs[k].hFile].wave
        /\ WellFormed => \E i \in Files : dir[i].wave /\ NameAt(i) = songs[k].name

\* Without a failed read, every wave file of its own name in .wav is on the
\* list, ready to be played, as long as there is one handle more than songs.
Distinct == \A i, j \in Files : NameAt(i) = NameAt(j) => i = j
Waves == {i \in Files : dir[i].wave}

NoSongMissed ==
    phase = "done" /\ ~faults /\ WellFormed /\ Distinct
        /\ Cardinality(Waves) < MaxHandles =>
            \A i \in Waves : IsWaveName(NameAt(i)) =>
                \E k \in 1 .. Len(songs) :
                    songs[k] = [name |-> NameAt(i), hFile |-> i, readOk |-> TRUE]

\* What becomes of the handles: one stays with every song that was started,
\* and one is lost with every header that could not be read
\* (audio_f.c:114-119, 159).
HandlesAccounted ==
    handles = Cardinality({k \in 1 .. Len(songs) : songs[k].hFile # 0})
                  + unread + IF phase = "header" THEN 1 ELSE 0
=============================================================================
