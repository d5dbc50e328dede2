----------------------------- MODULE FileAccess ------------------------------
(***************************************************************************)
(* What an open file promises to the caller of Fat_FileRead: a read        *)
(* returns the next bytes of the file, or fails and leaves the position    *)
(* where it was.  A failure ends the promise: the read is not to be tried  *)
(* again, since it may deliver other bytes then.  A read that has to go on *)
(* into another cluster may also meet a fault on the way and not tell.     *)
(* Seeking or opening renews the promise.  There are files of which        *)
(* nothing is promised.                                                    *)
(***************************************************************************)
EXTENDS Integers, Sequences

CONSTANTS
    Promised,       \* the files the promise is made of
    File(_, _),     \* the byte of a file at a position
    ClusterSize,    \* bytes of a cluster
    FileEnd(_)      \* bytes of all clusters of a file

VARIABLES
    opened,         \* there is a handle
    file,           \* the file it was opened for
    pos,            \* its position in the file
    cluster,        \* where the cluster it has come to begins in the file
    asked,          \* bytes the read that is under way was asked for, or 0
    failing,        \* this read has met a fault that it will report
    data, ok,       \* what the last finished read delivered and returned
    whole           \* the promise holds

accessVars == <<opened, file, pos, cluster, asked, failing, data, ok, whole>>

AccessInit == ~opened /\ asked = 0 /\ ~failing

OpenOrSeek ==
    /\ opened' /\ cluster' = 0
    /\ whole' <=> file' \in Promised
    /\ asked = 0 /\ asked' = 0 /\ ~failing'

Close == ~opened' /\ asked = 0 /\ asked' = 0 /\ ~failing'

Call ==
    /\ opened /\ asked = 0 /\ asked' > 0
    /\ UNCHANGED <<opened, file, pos, cluster, failing, data, ok, whole>>

\* Some of the bytes asked for are not in the cluster the handle has come to.
BeyondCluster == cluster + ClusterSize < pos + asked

Enter ==
    /\ whole /\ BeyondCluster /\ cluster + ClusterSize < FileEnd(file)
    /\ cluster' = cluster + ClusterSize
    /\ UNCHANGED <<opened, file, pos, asked, failing, data, ok, whole>>

Return ==
    /\ whole /\ asked > 0 /\ asked' = 0
    /\ ok' = TRUE /\ pos' = pos + asked
    /\ data' = [k \in 1 .. asked |-> File(file, pos + k - 1)]
    /\ UNCHANGED <<opened, file, cluster, failing, whole>>

Fault ==
    /\ asked > 0 /\ failing' /\ ~whole'
    /\ UNCHANGED <<opened, file, pos, cluster, asked, data, ok>>

Fail ==
    /\ failing /\ ~failing' /\ ~whole'
    /\ asked' = 0 /\ ok' = FALSE
    /\ UNCHANGED <<opened, file, pos>>

Lose ==
    /\ BeyondCluster /\ ~whole'
    /\ asked' \in {0, asked} /\ (asked' = 0 => ok' = FALSE)
    /\ UNCHANGED <<opened, file, pos, failing>>

\* Nothing is promised any more, but that a read that fails does not count.
Lost ==
    /\ ~whole /\ ~whole' /\ ~failing /\ ~failing'
    /\ pos' = pos \/ ok'
    /\ UNCHANGED <<opened, file>>

AccessNext == OpenOrSeek \/ Close \/ Call \/ Enter \/ Return \/ Fault
                  \/ Fail \/ Lose \/ Lost

Access == AccessInit /\ [][AccessNext]_accessVars
=============================================================================
