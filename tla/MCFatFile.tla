------------------------------ MODULE MCFatFile ------------------------------
EXTENDS FatFile
\* A file of three clusters that do not follow one another, and one that begins
\* at a cluster whose number has an upper half; the lower half is the number of
\* the first one's cluster.
MCFiles == {<<2, 4, 3>>, <<5>>}
=============================================================================
