--------------------------- MODULE JtagUart_proofs ---------------------------
(***************************************************************************)
(* Proofs about JtagUart for any tasks, sizes and bounds: both rings keep  *)
(* their promise although one end of each is the interrupt handler, which  *)
(* takes no lock, and no byte is left in a ring with interrupts off.       *)
(***************************************************************************)
EXTENDS JtagUart, SequenceTheorems, TLAPS

LEMMA Sizes ==
    /\ Writers \cap Readers = {}
    /\ BufLen \in Nat /\ BufLen >= 2
    /\ TxFifo \in Nat \ {0} /\ RxFifo \in Nat \ {0} /\ Threshold \in 0 .. TxFifo - 1
    /\ Timeout \in Nat \ {0} /\ MaxCount \in Nat \ {0}
BY JtagAssumption

-----------------------------------------------------------------------------
\* A ring of BufLen places of which one stays free

\* An index that has been moved on by at most the length of the ring.
LEMMA Wrap ==
    ASSUME NEW b \in Nat \ {0}, NEW k \in 0 .. b
    PROVE  k % b = IF k = b THEN 0 ELSE k
<1> DEFINE q == k \div b
           m == k % b
<1>1. q \in Int /\ m \in 0 .. b - 1 /\ k = b * q + m OBVIOUS
<1> HIDE DEF q, m
<1>2. \A d \in Nat : d * b >= 0 OBVIOUS
<1>3. CASE q >= 2
  <2>1. (q - 2) * b >= 0 BY <1>1, <1>2, <1>3
  <2>2. b * q = (q - 2) * b + 2 * b BY <1>1
  <2> QED BY <1>1, <2>1, <2>2
<1>4. CASE q <= -1
  <2>1. (-1 - q) * b >= 0 BY <1>1, <1>2, <1>4
  <2>2. b * q = -((-1 - q) * b) - b BY <1>1
  <2> QED BY <1>1, <2>1, <2>2
<1>5. CASE q = 0 BY <1>1, <1>5 DEF m
<1>6. CASE q = 1 BY <1>1, <1>6 DEF m
<1> QED BY <1>1, <1>3, <1>4, <1>5, <1>6

\* How many bytes lie between the two ends, and where the i-th of them lies.
Used(in, out) == IF in >= out THEN in - out ELSE in + BufLen - out
Place(out, i) == IF out + i <= BufLen THEN out + i - 1 ELSE out + i - 1 - BufLen

\* What was taken out is the beginning of what was put in; the rest of it is
\* in the ring, in order.
Ring(buf, in, out, put, got) ==
    /\ Len(put) = Len(got) + Used(in, out)
    /\ \A i \in 1 .. Len(got) : got[i] = put[i]
    /\ \A i \in 1 .. Used(in, out) : buf[Place(out, i)] = put[Len(got) + i]

\* The ring after the bytes s were stored from `in` on.
Stored(buf2, buf, in, s) ==
    \A k \in Index : buf2[k] = IF k \in in .. in + Len(s) - 1
                               THEN s[k - in + 1] ELSE buf[k]

LEMMA RingPut ==
    ASSUME NEW B, NEW put \in Seq(B), NEW got \in Seq(B), NEW s \in Seq(B),
           NEW buf, NEW buf2, NEW in \in Index, NEW out \in Index,
           Ring(buf, in, out, put, got), Len(s) >= 1,
           in + Len(s) <= BufLen, Used(in, out) + Len(s) <= BufLen - 1,
           Stored(buf2, buf, in, s)
    PROVE  /\ (in + Len(s)) % BufLen \in Index
           /\ Ring(buf2, (in + Len(s)) % BufLen, out, put \o s, got)
           /\ Used((in + Len(s)) % BufLen, out) <= BufLen - 1
<1> USE Sizes DEF Index
<1> DEFINE m == Len(s)
           in2 == (in + m) % BufLen
<1>1. m \in Nat /\ Len(put) \in Nat /\ Len(got) \in Nat BY LenProperties
<1>2. in2 = IF in + m = BufLen THEN 0 ELSE in + m
  <2>1. in + m \in 0 .. BufLen /\ BufLen \in Nat \ {0} BY <1>1
  <2> QED BY <2>1, Wrap
<1>3. /\ Len(put \o s) = Len(put) + m
      /\ \A i \in 1 .. Len(put) : (put \o s)[i] = put[i]
      /\ \A i \in 1 .. m : (put \o s)[Len(put) + i] = s[i]
  BY ConcatProperties, <1>1
<1>0. /\ m >= 1 /\ in + m <= BufLen /\ Used(in, out) + m <= BufLen - 1
      /\ in \in Index /\ out \in Index
  OBVIOUS
<1> HIDE DEF m, in2
<1>4. in2 \in Index /\ Used(in2, out) = Used(in, out) + m
  <2>1. CASE in + m = BufLen BY <1>0, <1>1, <1>2, <2>1 DEF Used
  <2>2. CASE in + m # BufLen BY <1>0, <1>1, <1>2, <2>2 DEF Used
  <2> QED BY <2>1, <2>2
<1>5. \A i \in 1 .. Len(got) : got[i] = (put \o s)[i]
  BY <1>1, <1>3 DEF Ring, Used
<1>6. ASSUME NEW i \in 1 .. Used(in2, out)
      PROVE  buf2[Place(out, i)] = (put \o s)[Len(got) + i]
  <2>0. Used(in, out) \in Nat BY DEF Used
  <2>1. CASE i <= Used(in, out)
    <3>1. Place(out, i) \in Index /\ Place(out, i) \notin in .. in + m - 1
      BY <1>1, <1>4, <2>0, <2>1 DEF Place, Used, m
    <3>2. buf2[Place(out, i)] = buf[Place(out, i)] BY <3>1 DEF m, Stored
    <3>3. buf[Place(out, i)] = put[Len(got) + i] BY <1>6, <2>0, <2>1 DEF Ring
    <3>4. Len(got) + i \in 1 .. Len(put) BY <1>1, <2>0, <2>1 DEF Ring
    <3> QED BY <1>3, <3>2, <3>3, <3>4
  <2>2. CASE ~(i <= Used(in, out))
    <3> DEFINE j == i - Used(in, out)
    <3>1. j \in 1 .. m BY <1>1, <1>4, <2>0, <2>2
    <3>2. Place(out, i) = in + j - 1
      BY <1>1, <1>4, <2>0, <2>2, <3>1 DEF Place, Used, m
    <3> HIDE DEF j
    <3>3. in + j - 1 \in in .. in + m - 1 /\ in + j - 1 \in Index
      BY <1>1, <3>1 DEF m
    <3>4. buf2[in + j - 1] = s[(in + j - 1) - in + 1] BY <3>3 DEF m, Stored
    <3>5. (in + j - 1) - in + 1 = j BY <3>1
    <3>6. Len(got) + i = Len(put) + j BY <1>1, <2>0 DEF Ring, j
    <3>7. buf2[in + j - 1] = s[j] BY <3>4, <3>5
    <3>8. (put \o s)[Len(put) + j] = s[j] BY <1>3, <3>1
    <3> QED BY <3>2, <3>6, <3>7, <3>8
  <2> QED BY <2>1, <2>2
<1>7. Len(put \o s) = Len(got) + Used(in2, out)
  <2>1. Used(in, out) \in Nat BY DEF Used
  <2> QED BY <1>1, <1>3, <1>4, <2>1 DEF Ring
<1>8. Used(in2, out) <= BufLen - 1 BY <1>0, <1>4
<1>9. Ring(buf2, in2, out, put \o s, got) BY <1>5, <1>6, <1>7 DEF Ring
<1> QED BY <1>4, <1>8, <1>9 DEF in2, m

\* The bytes s are those in the ring from `out` on.
Fetched(s, buf, out) == \A i \in 1 .. Len(s) : s[i] = buf[out + i - 1]

LEMMA RingGet ==
    ASSUME NEW B, NEW put \in Seq(B), NEW got \in Seq(B), NEW s \in Seq(B),
           NEW buf, NEW in \in Index, NEW out \in Index,
           Ring(buf, in, out, put, got), Len(s) >= 1,
           out + Len(s) <= BufLen, Len(s) <= Used(in, out),
           Fetched(s, buf, out)
    PROVE  /\ (out + Len(s)) % BufLen \in Index
           /\ Ring(buf, in, (out + Len(s)) % BufLen, put, got \o s)
           /\ Used(in, (out + Len(s)) % BufLen) = Used(in, out) - Len(s)
<1> USE Sizes DEF Index
<1> DEFINE m == Len(s)
           out2 == (out + m) % BufLen
<1>1. m \in Nat /\ Len(put) \in Nat /\ Len(got) \in Nat BY LenProperties
<1>2. out2 = IF out + m = BufLen THEN 0 ELSE out + m
  <2>1. out + m \in 0 .. BufLen /\ BufLen \in Nat \ {0} BY <1>1
  <2> QED BY <2>1, Wrap
<1>3. /\ Len(got \o s) = Len(got) + m
      /\ \A i \in 1 .. Len(got) : (got \o s)[i] = got[i]
      /\ \A i \in 1 .. m : (got \o s)[Len(got) + i] = s[i]
  BY ConcatProperties, <1>1
<1>8. /\ m >= 1 /\ out + m <= BufLen /\ m <= Used(in, out)
      /\ in \in Index /\ out \in Index
  OBVIOUS
<1> HIDE DEF m, out2
<1>4. out2 \in Index /\ Used(in, out2) = Used(in, out) - m
  <2>1. CASE out + m = BufLen BY <1>8, <1>1, <1>2, <2>1 DEF Used
  <2>2. CASE out + m # BufLen BY <1>8, <1>1, <1>2, <2>2 DEF Used
  <2> QED BY <2>1, <2>2
<1>0. Used(in, out) \in Nat BY DEF Used
<1>5. ASSUME NEW i \in 1 .. Len(got \o s) PROVE (got \o s)[i] = put[i]
  <2>1. CASE i <= Len(got) BY <1>1, <1>3, <2>1 DEF Ring
  <2>2. CASE i > Len(got)
    <3> DEFINE j == i - Len(got)
    <3>1. j \in 1 .. m /\ i = Len(got) + j BY <1>1, <1>3, <2>2
    <3>2. j \in 1 .. Used(in, out) /\ out + j - 1 = Place(out, j)
      BY <1>0, <1>1, <3>1 DEF Place, m
    <3> HIDE DEF j
    <3>3. s[j] = buf[out + j - 1] BY <3>1 DEF m, Fetched
    <3>4. buf[Place(out, j)] = put[Len(got) + j] BY <3>2 DEF Ring
    <3> QED BY <1>3, <3>1, <3>2, <3>3, <3>4
  <2> QED BY <1>1, <1>3, <2>1, <2>2
<1>6. ASSUME NEW i \in 1 .. Used(in, out2)
      PROVE  buf[Place(out2, i)] = put[Len(got \o s) + i]
  <2>1. m + i \in 1 .. Used(in, out) /\ Place(out2, i) = Place(out, m + i)
    BY <1>0, <1>1, <1>2, <1>4 DEF Place, Used, m
  <2>2. buf[Place(out, m + i)] = put[Len(got) + (m + i)] BY <2>1 DEF Ring
  <2>3. Len(got) + (m + i) = Len(got \o s) + i BY <1>1, <1>3
  <2> QED BY <2>1, <2>2, <2>3
<1>7. Len(put) = Len(got \o s) + Used(in, out2)
  BY <1>0, <1>1, <1>3, <1>4 DEF Ring
<1>9. Ring(buf, in, out2, put, got \o s) BY <1>5, <1>6, <1>7 DEF Ring
<1> QED BY <1>4, <1>9 DEF out2, m

-----------------------------------------------------------------------------
\* The calls under way

Held == {"look", "copy", "kick", "flagPend", "blocked", "woken", "semPost"}

\* The bytes a call still has to move and those it has moved.
CallOk(t) ==
    /\ count[t] + moved[t] <= MaxCount
    /\ pc[t] = "copy" => n[t] \in 1 .. count[t]
    /\ pc[t] = "idle" => moved[t] = 0
    /\ pc[t] \in {"semPend", "look", "flagPend", "blocked", "woken"} => count[t] >= 1

CallInv == \A t \in Tasks : CallOk(t)

\* A task between WriteLock and WriteUnlock, or ReadLock and ReadUnlock, has
\* the lock, and is the only one.
LockInv ==
    /\ \A t \in Writers : pc[t] \in Held =>
           write_lock = 0 /\ \A u \in Writers : pc[u] \in Held => u = t
    /\ \A t \in Readers : pc[t] \in Held =>
           read_lock = 0 /\ \A u \in Readers : pc[u] \in Held => u = t

\* What the next copy moves is still there, whatever the handler has done
\* since the task looked.
CopyInv ==
    /\ \A t \in Writers : pc[t] = "copy" =>
           /\ from[t] = tx_in /\ tx_in + n[t] <= BufLen
           /\ Used(tx_in, tx_out) + n[t] <= BufLen - 1
    /\ \A t \in Readers : pc[t] = "copy" =>
           /\ from[t] = rx_out /\ rx_out + n[t] <= BufLen
           /\ n[t] <= Used(rx_in, rx_out)

\* The handler counts the room in the FIFO, which only grows meanwhile.
IsrInv == txLevel + isr.space <= TxFifo

Rings == /\ Ring(tx_buf, tx_in, tx_out, written, sent)
         /\ Ring(rx_buf, rx_in, rx_out, taken, delivered)
         /\ Used(tx_in, tx_out) <= BufLen - 1 /\ Used(rx_in, rx_out) <= BufLen - 1

Inv == TypeOK /\ CallInv /\ LockInv /\ CopyInv /\ IsrInv /\ Rings

\* The steps, one name each.
LEMMA NextCases ==
    ASSUME Next
    PROVE  \/ \E t \in Tasks : Call(t) \/ FlagPend(t) \/ FlagWoken(t)
           \/ \E t \in Writers : WriteLock(t)
           \/ \E t \in Writers : WriteLook(t)
           \/ \E t \in Writers : WriteCopy(t)
           \/ \E t \in Writers : WriteKick(t)
           \/ \E t \in Writers : WriteUnlock(t)
           \/ \E t \in Readers : ReadLock(t)
           \/ \E t \in Readers : ReadLook(t)
           \/ \E t \in Readers : ReadCopy(t)
           \/ \E t \in Readers : ReadUnlock(t)
           \/ \E t \in Readers : ReadEnable(t)
           \/ IrqControl \/ IrqReceive \/ IrqReceiveEnd \/ IrqSend \/ IrqSendEnd
           \/ AlarmTimeout \/ HostPoll \/ HostType
BY Zenon DEF Next, Step, Write, Read, Irq, Tasks

-----------------------------------------------------------------------------
\* Types

LEMMA FlagPostTypes ==
    ASSUME TypeOK, NEW flag \in Flags, OSFlagPost(flag)
    PROVE  /\ events' \in SUBSET Flags /\ pc' \in [Tasks -> Steps]
           /\ flagsRdy' \in [Tasks -> SUBSET Flags]
<1>1. \A t \in Tasks : WaitsFor(t) \in SUBSET Flags BY DEF WaitsFor, Flags
<1>2. "woken" \in Steps BY DEF Steps
<1> QED BY <1>1, <1>2 DEF OSFlagPost, TypeOK

LEMMA LeastType ==
    ASSUME NEW a \in Nat, NEW b \in Nat
    PROVE  Least(a, b) \in Nat /\ Least(a, b) <= a /\ Least(a, b) <= b
           /\ Least(a, b) \in {a, b}
BY DEF Least

\* The room a writer sees, and the bytes a reader sees.
LEMMA Looks ==
    ASSUME TypeOK, Used(tx_in, tx_out) <= BufLen - 1
    PROVE  /\ TxRoom \in 0 .. BufLen /\ tx_in + TxRoom <= BufLen
           /\ Used(tx_in, tx_out) + TxRoom <= BufLen - 1
           /\ RxReady \in 0 .. BufLen /\ rx_out + RxReady <= BufLen
           /\ RxReady <= Used(rx_in, rx_out)
BY Sizes DEF TypeOK, TxRoom, RxReady, Used, Index

\* A call over, or a copy done, keeps its counts in bounds.
LEMMA CopyTypes ==
    ASSUME TypeOK, CallInv, NEW t \in Tasks, pc[t] = "copy",
           NEW next \in {"kick", "semPost"}, CopyDone(t, next)
    PROVE  /\ count' \in [Tasks -> 0 .. MaxCount] /\ moved' \in [Tasks -> 0 .. MaxCount]
           /\ from' \in [Tasks -> Index] /\ n' \in [Tasks -> 0 .. BufLen]
           /\ pc' \in [Tasks -> Steps]
           /\ CallInv'
           /\ moved'[t] > 0
           /\ pc' = [pc EXCEPT ![t] = pc'[t]] /\ pc'[t] \in {"look", next}
<1>1. /\ n[t] \in 1 .. count[t] /\ count[t] \in 0 .. MaxCount
      /\ moved[t] \in 0 .. MaxCount /\ count[t] + moved[t] <= MaxCount
      /\ MaxCount \in Nat
  BY Sizes DEF TypeOK, CallInv, CallOk
<1>2. count[t] - n[t] \in 0 .. MaxCount /\ moved[t] + n[t] \in 0 .. MaxCount
      /\ (count[t] - n[t]) + (moved[t] + n[t]) <= MaxCount
  BY <1>1
<1>3. "look" \in Steps /\ next \in Steps /\ 0 \in Index /\ 0 \in 0 .. BufLen BY Sizes DEF Steps, Index
<1>4. /\ count' \in [Tasks -> 0 .. MaxCount] /\ moved' \in [Tasks -> 0 .. MaxCount]
      /\ from' \in [Tasks -> Index] /\ n' \in [Tasks -> 0 .. BufLen]
      /\ pc' \in [Tasks -> Steps]
  BY <1>2, <1>3 DEF TypeOK, CopyDone, Goto
<1>5. pc' = [pc EXCEPT ![t] = pc'[t]] /\ pc'[t] \in {"look", next}
  BY DEF TypeOK, CopyDone, Goto
<1>6. count'[t] = count[t] - n[t] /\ moved'[t] = moved[t] + n[t]
  BY DEF TypeOK, CopyDone
<1>7. pc'[t] \in {"look", "kick", "semPost"} /\ (pc'[t] = "look" => count[t] > n[t])
  BY DEF TypeOK, CopyDone, Goto
<1>8. ASSUME NEW u \in Tasks, u # t
      PROVE  /\ count'[u] = count[u] /\ moved'[u] = moved[u] /\ n'[u] = n[u]
             /\ pc'[u] = pc[u]
  BY <1>8 DEF TypeOK, CopyDone, Goto
<1>9. CallInv'
  <2>1. CallOk(t)' BY <1>1, <1>2, <1>6, <1>7 DEF CallOk
  <2>2. \A u \in Tasks : u # t => CallOk(u)' BY <1>8 DEF CallInv, CallOk
  <2> QED BY <2>1, <2>2 DEF CallInv
<1>10. moved'[t] > 0 BY <1>1, <1>6
<1> QED BY <1>4, <1>5, <1>9, <1>10

LEMMA TypesStep ==
    ASSUME Inv, Next
    PROVE  TypeOK'
<1>0. /\ TypeOK /\ CallInv /\ LockInv /\ CopyInv /\ IsrInv /\ Rings BY DEF Inv
<1>b. budget' = budget BY DEF Next
<1>s. "idle" \in Steps /\ "semPend" \in Steps /\ "look" \in Steps /\ "copy" \in Steps
      /\ "kick" \in Steps /\ "flagPend" \in Steps /\ "blocked" \in Steps
      /\ "semPost" \in Steps /\ "enable" \in Steps
  BY DEF Steps
<1>i. "off" \in IsrSteps /\ "control" \in IsrSteps /\ "receive" \in IsrSteps
      /\ "send" \in IsrSteps
  BY DEF IsrSteps
<1>z. 0 \in Index /\ 0 \in 0 .. BufLen /\ 0 \in 0 .. MaxCount BY Sizes DEF Index
<1>f. "READ_RDY" \in Flags /\ "WRITE_RDY" \in Flags /\ "TIMEOUT" \in Flags
  BY DEF Flags
<1>t. Writers \subseteq Tasks /\ Readers \subseteq Tasks BY DEF Tasks
<1>1. ASSUME NEW t \in Tasks, Call(t) PROVE TypeOK'
  <2>1. count' \in [Tasks -> 0 .. MaxCount] BY <1>0, <1>1, Sizes DEF Call, TypeOK
  <2>2. pc' \in [Tasks -> Steps] BY <1>0, <1>s, <1>1 DEF Call, Goto, TypeOK
  <2> QED BY <1>0, <1>b, <1>1, <2>1, <2>2
          DEF Call, TypeOK, txVars, rxVars, hwVars
<1>2. ASSUME NEW t \in Tasks, FlagPend(t) \/ FlagWoken(t) PROVE TypeOK'
  <2>1. pc' \in [Tasks -> Steps]
    BY <1>0, <1>s, <1>2 DEF FlagPend, FlagWoken, PendOver, Goto, TypeOK
  <2>2. seen' \in [Tasks -> Index]
    BY <1>0, <1>z, <1>2 DEF FlagPend, FlagWoken, PendOver, TypeOK
  <2>3. events' \in SUBSET Flags /\ flagsRdy' \in [Tasks -> SUBSET Flags]
    BY <1>0, <1>2 DEF FlagPend, FlagWoken, TypeOK
  <2>4. FlagFrame BY <1>2 DEF FlagPend, FlagWoken
  <2> QED BY <1>0, <1>b, <2>1, <2>2, <2>3, <2>4
          DEF FlagFrame, TypeOK, txVars, rxVars, hwVars
<1>3. ASSUME NEW t \in Writers, WriteLock(t) \/ WriteKick(t) PROVE TypeOK'
  <2>1. pc' \in [Tasks -> Steps]
    BY <1>0, <1>s, <1>t, <1>3 DEF WriteLock, WriteKick, Goto, TypeOK
  <2>2. write_lock' \in {0, 1}
    BY <1>0, <1>3 DEF WriteLock, WriteKick, TypeOK
  <2> QED BY <1>0, <1>b, <1>3, <2>1, <2>2
          DEF WriteLock, WriteKick, CallFrame, TypeOK, txVars, rxVars, hwVars
<1>4. ASSUME NEW t \in Writers, WriteLook(t) PROVE TypeOK'
  <2>1. pc' \in [Tasks -> Steps]
    BY <1>0, <1>s, <1>t, <1>4 DEF WriteLook, Goto, TypeOK
  <2>2. TxRoom \in 0 .. BufLen /\ count[t] \in 0 .. MaxCount
    BY <1>0, <1>t, Looks DEF Rings, TypeOK
  <2>3. Least(TxRoom, count[t]) \in 0 .. BufLen
    BY <2>2, Sizes, LeastType
  <2>4. n' \in [Tasks -> 0 .. BufLen] /\ from' \in [Tasks -> Index]
    BY <1>0, <1>t, <1>4, <2>3 DEF WriteLook, TypeOK
  <2> QED BY <1>0, <1>b, <1>4, <2>1, <2>4
          DEF WriteLook, CallFrame, TypeOK, txVars, rxVars, hwVars
<1>5. ASSUME NEW t \in Writers, WriteCopy(t) PROVE TypeOK'
  <2>1. /\ pc[t] = "copy" /\ CopyDone(t, "kick") BY <1>5 DEF WriteCopy, At
  <2>2. /\ count' \in [Tasks -> 0 .. MaxCount] /\ moved' \in [Tasks -> 0 .. MaxCount]
        /\ from' \in [Tasks -> Index] /\ n' \in [Tasks -> 0 .. BufLen]
        /\ pc' \in [Tasks -> Steps]
    BY <1>0, <1>t, <2>1, CopyTypes
  <2>3. tx_buf' \in [Index -> Writers \cup {"none"}]
    BY <1>0, <1>5 DEF WriteCopy, TypeOK
  <2>4. tx_in' \in Index
    <3>0. from[t] \in Index /\ n[t] \in 0 .. BufLen BY <1>0, <1>t DEF TypeOK
    <3>4. from[t] + n[t] <= BufLen BY <1>0, <2>1 DEF CopyInv
    <3>1. from[t] + n[t] \in 0 .. BufLen BY <3>0, <3>4, Sizes DEF Index
    <3>2. tx_in' = IF from[t] + n[t] = BufLen THEN 0 ELSE from[t] + n[t]
      BY <1>5, <3>1, Wrap, Sizes DEF WriteCopy
    <3> QED BY <3>1, <3>2, Sizes DEF Index
  <2>5. written' \in Seq(Writers)
    <3>1. n[t] \in Nat BY <1>0, <1>t, Sizes DEF TypeOK
    <3>2. [k \in 1 .. n[t] |-> t] \in Seq(Writers) BY <3>1, IsASeq
    <3> QED BY <1>0, <1>5, <3>2, ConcatProperties DEF WriteCopy, TypeOK
  <2> QED BY <1>0, <1>b, <1>5, <2>2, <2>3, <2>4, <2>5
          DEF WriteCopy, CallFrame, TypeOK, rxVars, hwVars
<1>6. ASSUME NEW t \in Tasks, Return(t)
      PROVE  /\ count' \in [Tasks -> 0 .. MaxCount] /\ moved' \in [Tasks -> 0 .. MaxCount]
             /\ pc' \in [Tasks -> Steps]
  BY <1>0, <1>s, <1>z, <1>6 DEF Return, Goto, TypeOK
<1>7. ASSUME NEW t \in Writers, WriteUnlock(t) PROVE TypeOK'
  <2>1. pc[t] \in Held BY <1>7 DEF WriteUnlock, At, Held
  <2>2. write_lock' \in {0, 1} BY <1>0, <1>7, <2>1 DEF WriteUnlock, LockInv
  <2> QED BY <1>0, <1>b, <1>t, <1>6, <1>7, <2>2
          DEF WriteUnlock, CallFrame, TypeOK, txVars, rxVars, hwVars
<1>8. ASSUME NEW t \in Readers, ReadLock(t) PROVE TypeOK'
  <2>1. pc' \in [Tasks -> Steps] BY <1>0, <1>s, <1>t, <1>8 DEF ReadLock, Goto, TypeOK
  <2> QED BY <1>0, <1>b, <1>8, <2>1
          DEF ReadLock, ReadFrame, TypeOK, txVars, rxVars, hwVars
<1>9. ASSUME NEW t \in Readers, ReadLook(t) PROVE TypeOK'
  <2>1. pc' \in [Tasks -> Steps]
    BY <1>0, <1>s, <1>t, <1>9 DEF ReadLook, Goto, TypeOK
  <2>2. RxReady \in 0 .. BufLen /\ count[t] \in 0 .. MaxCount
    BY <1>0, <1>t, Looks DEF Rings, TypeOK
  <2>3. Least(RxReady, count[t]) \in 0 .. BufLen
    BY <2>2, Sizes, LeastType
  <2>4. n' \in [Tasks -> 0 .. BufLen] /\ from' \in [Tasks -> Index]
    BY <1>0, <1>t, <1>9, <2>3 DEF ReadLook, TypeOK
  <2>5. seen' \in [Tasks -> Index] BY <1>0, <1>z, <1>t, <1>9 DEF ReadLook, TypeOK
  <2> QED BY <1>0, <1>b, <1>9, <2>1, <2>4, <2>5
          DEF ReadLook, ReadFrame, TypeOK, txVars, rxVars, hwVars
<1>10. ASSUME NEW t \in Readers, ReadCopy(t) PROVE TypeOK'
  <2>1. /\ pc[t] = "copy" /\ CopyDone(t, "semPost") BY <1>10 DEF ReadCopy, At
  <2>2. /\ count' \in [Tasks -> 0 .. MaxCount] /\ moved' \in [Tasks -> 0 .. MaxCount]
        /\ from' \in [Tasks -> Index] /\ n' \in [Tasks -> 0 .. BufLen]
        /\ pc' \in [Tasks -> Steps]
    BY <1>0, <1>t, <2>1, CopyTypes
  <2>3. /\ from[t] \in Index /\ n[t] \in Nat /\ from[t] + n[t] \in 0 .. BufLen
    <3>0. from[t] \in Index /\ n[t] \in 0 .. BufLen BY <1>0, <1>t DEF TypeOK
    <3>4. from[t] + n[t] <= BufLen BY <1>0, <2>1 DEF CopyInv
    <3> QED BY <3>0, <3>4, Sizes DEF Index
  <2>4. rx_out' \in Index
    <3>1. rx_out' = IF from[t] + n[t] = BufLen THEN 0 ELSE from[t] + n[t]
      BY <1>10, <2>3, Wrap, Sizes DEF ReadCopy
    <3> QED BY <2>3, <3>1, Sizes DEF Index
  <2>5. delivered' \in Seq(Nat)
    <3>1. \A k \in 1 .. n[t] : from[t] + k - 1 \in Index
      BY <2>3, Sizes DEF Index
    <3>2. \A k \in 1 .. n[t] : rx_buf[from[t] + k - 1] \in Nat
      BY <1>0, <3>1 DEF TypeOK
    <3>3. [k \in 1 .. n[t] |-> rx_buf[from[t] + k - 1]] \in Seq(Nat)
      BY <2>3, <3>2, IsASeq
    <3> QED BY <1>0, <1>10, <3>3, ConcatProperties DEF ReadCopy, TypeOK
  <2> QED BY <1>0, <1>b, <1>10, <2>2, <2>4, <2>5
          DEF ReadCopy, ReadFrame, TypeOK, txVars, hwVars
<1>11. ASSUME NEW t \in Readers, ReadUnlock(t) PROVE TypeOK'
  <2>1. /\ count' \in [Tasks -> 0 .. MaxCount] /\ moved' \in [Tasks -> 0 .. MaxCount]
        /\ pc' \in [Tasks -> Steps]
    <3>1. CASE Return(t) BY <1>t, <1>6, <3>1
    <3>2. CASE Goto(t, "enable") /\ UNCHANGED <<count, moved>>
      BY <1>0, <1>s, <3>2 DEF Goto, TypeOK
    <3> QED BY <1>11, <3>1, <3>2 DEF ReadUnlock
  <2>2. pc[t] \in Held BY <1>11 DEF ReadUnlock, At, Held
  <2>3. read_lock' \in {0, 1} BY <1>0, <1>11, <2>2 DEF ReadUnlock, LockInv
  <2> QED BY <1>0, <1>b, <1>11, <2>1, <2>3
          DEF ReadUnlock, ReadFrame, TypeOK, txVars, rxVars, hwVars
<1>12. ASSUME NEW t \in Readers, ReadEnable(t) PROVE TypeOK'
  BY <1>0, <1>b, <1>t, <1>6, <1>12
  DEF ReadEnable, ReadFrame, TypeOK, txVars, rxVars, hwVars
<1>13. CASE IrqControl
  <2>1. isr' \in [at : IsrSteps, wi : BOOLEAN, space : 0 .. TxFifo, avail : BOOLEAN]
    <3>1. (IF WI THEN TxFifo - txLevel ELSE 0) \in 0 .. TxFifo
      BY <1>0, Sizes DEF TypeOK
    <3>2. WI \in BOOLEAN /\ RI \in BOOLEAN BY DEF WI, RI
    <3> QED BY <1>13, <1>i, <3>1, <3>2 DEF IrqControl
  <2> QED BY <1>0, <1>b, <1>13, <2>1
          DEF IrqControl, IsrFrame, FlagsKept, TypeOK, txVars, rxVars
<1>14. CASE IrqReceive
  <2>1. /\ events' \in SUBSET Flags /\ pc' \in [Tasks -> Steps]
        /\ flagsRdy' \in [Tasks -> SUBSET Flags]
    BY <1>0, <1>f, <1>14, FlagPostTypes DEF IrqReceive
  <2>2. Len(taken) + 1 \in Nat BY <1>0, LenProperties DEF TypeOK
  <2>3. rx_buf' \in [Index -> Nat] BY <1>0, <1>14, <2>2 DEF IrqReceive, TypeOK
  <2>4. taken' \in Seq(Nat)
    BY <1>0, <1>14, <2>2, AppendProperties DEF IrqReceive, TypeOK
  <2>5. rx_in' \in Index
    <3>1. rx_in + 1 \in 0 .. BufLen BY <1>0, Sizes DEF TypeOK, Index
    <3>2. rx_in' = IF rx_in + 1 = BufLen THEN 0 ELSE rx_in + 1
      BY <1>14, <3>1, Wrap, Sizes DEF IrqReceive
    <3> QED BY <3>1, <3>2, Sizes DEF Index
  <2>6. rxLevel' \in 0 .. RxFifo
    <3>1. rxLevel \in 0 .. RxFifo BY <1>0 DEF TypeOK
    <3>2. rxLevel > 0 /\ rxLevel' = rxLevel - 1 BY <1>14 DEF IrqReceive
    <3> QED BY <3>1, <3>2, Sizes
  <2>7. isr' \in [at : IsrSteps, wi : BOOLEAN, space : 0 .. TxFifo, avail : BOOLEAN]
    <3>1. isr' = [isr EXCEPT !.avail = rxLevel > 1] BY <1>14 DEF IrqReceive
    <3>2. (rxLevel > 1) \in BOOLEAN OBVIOUS
    <3> QED BY <1>0, <3>1, <3>2 DEF TypeOK
  <2> QED BY <1>0, <1>b, <1>14, <2>1, <2>3, <2>4, <2>5, <2>6, <2>7
          DEF IrqReceive, IsrFrame, TypeOK, txVars
<1>15. CASE IrqReceiveEnd
  <2>1. isr' \in [at : IsrSteps, wi : BOOLEAN, space : 0 .. TxFifo, avail : BOOLEAN]
    BY <1>0, <1>i, <1>15 DEF IrqReceiveEnd, TypeOK
  <2>2. re' \in BOOLEAN BY <1>15 DEF IrqReceiveEnd
  <2> QED BY <1>0, <1>b, <1>15, <2>1, <2>2
          DEF IrqReceiveEnd, IsrFrame, FlagsKept, TypeOK, txVars, rxVars
<1>16. CASE IrqSend
  <2>1. /\ events' \in SUBSET Flags /\ pc' \in [Tasks -> Steps]
        /\ flagsRdy' \in [Tasks -> SUBSET Flags]
    BY <1>0, <1>f, <1>16, FlagPostTypes DEF IrqSend
  <2>2. tx_buf[tx_out] \in Writers
    <3>1. Used(tx_in, tx_out) >= 1 /\ Place(tx_out, 1) = tx_out
      <4>1. tx_in \in Index /\ tx_out \in Index BY <1>0 DEF TypeOK
      <4>2. tx_in # tx_out BY <1>16 DEF IrqSend
      <4> QED BY <4>1, <4>2, Sizes DEF Used, Place, Index
    <3>2. Used(tx_in, tx_out) \in Nat
      BY <1>0, Sizes DEF TypeOK, Used, Index
    <3>3. /\ tx_buf[tx_out] = written[Len(sent) + 1]
          /\ Len(written) = Len(sent) + Used(tx_in, tx_out)
      BY <1>0, <3>1, <3>2 DEF Rings, Ring
    <3>4. Len(sent) + 1 \in 1 .. Len(written)
      BY <1>0, <3>1, <3>2, <3>3, LenProperties DEF TypeOK
    <3> QED BY <1>0, <3>3, <3>4, ElementOfSeq DEF TypeOK
  <2>3. sent' \in Seq(Writers)
    BY <1>0, <1>16, <2>2, AppendProperties DEF IrqSend, TypeOK
  <2>4. tx_out' \in Index
    <3>1. tx_out + 1 \in 0 .. BufLen BY <1>0, Sizes DEF TypeOK, Index
    <3>2. tx_out' = IF tx_out + 1 = BufLen THEN 0 ELSE tx_out + 1
      BY <1>16, <3>1, Wrap, Sizes DEF IrqSend
    <3> QED BY <3>1, <3>2, Sizes DEF Index
  <2>5. isr.space \in 0 .. TxFifo BY <1>0 DEF TypeOK
  <2>6. txLevel' \in 0 .. TxFifo /\ isr.space - 1 \in 0 .. TxFifo
    <3>1. txLevel \in 0 .. TxFifo /\ txLevel + isr.space <= TxFifo
      BY <1>0 DEF IsrInv, TypeOK
    <3>2. txLevel' = txLevel + 1 /\ isr.space > 0 BY <1>16 DEF IrqSend
    <3> QED BY <2>5, <3>1, <3>2, Sizes
  <2>7. isr' \in [at : IsrSteps, wi : BOOLEAN, space : 0 .. TxFifo, avail : BOOLEAN]
    BY <1>0, <1>16, <2>6 DEF IrqSend, TypeOK
  <2> QED BY <1>0, <1>b, <1>16, <2>1, <2>3, <2>4, <2>6, <2>7
          DEF IrqSend, IsrFrame, TypeOK, rxVars
<1>17. CASE IrqSendEnd
  <2>1. isr' \in [at : IsrSteps, wi : BOOLEAN, space : 0 .. TxFifo, avail : BOOLEAN]
    <3>1. 0 \in 0 .. TxFifo BY Sizes
    <3> QED BY <1>0, <1>i, <1>17, <3>1 DEF IrqSendEnd, TypeOK
  <2>2. we' \in BOOLEAN BY <1>17 DEF IrqSendEnd
  <2> QED BY <1>0, <1>b, <1>17, <2>1, <2>2
          DEF IrqSendEnd, IsrFrame, FlagsKept, TypeOK, txVars, rxVars
<1>18. CASE AlarmTimeout
  <2>1. /\ events' \in SUBSET Flags /\ pc' \in [Tasks -> Steps]
        /\ flagsRdy' \in [Tasks -> SUBSET Flags]
    <3>1. CASE FlagsKept BY <1>0, <3>1 DEF FlagsKept, TypeOK
    <3>2. CASE OSFlagPost("TIMEOUT") BY <1>0, <1>f, <3>2, FlagPostTypes
    <3> QED BY <1>18, <3>1, <3>2 DEF AlarmTimeout
  <2>2. host_inactive' \in 0 .. Timeout
    <3>1. host_inactive + 1 \in Nat /\ Timeout \in Nat /\ 0 \in 0 .. Timeout
      BY <1>0, Sizes DEF TypeOK
    <3>2. Least(host_inactive + 1, Timeout) \in 0 .. Timeout BY <3>1, LeastType
    <3> QED BY <1>18, <3>1, <3>2 DEF AlarmTimeout
  <2>3. ac' \in BOOLEAN BY <1>0, <1>18 DEF AlarmTimeout, TypeOK
  <2> QED BY <1>0, <1>b, <1>18, <2>1, <2>2, <2>3
          DEF AlarmTimeout, TypeOK, txVars, rxVars
<1>19. CASE HostPoll
  <2>1. txLevel' \in 0 .. TxFifo BY <1>0, <1>19, Sizes DEF HostPoll, TypeOK
  <2> QED BY <1>0, <1>b, <1>19, <2>1
          DEF HostPoll, HostFrame, TypeOK, txVars, rxVars, callVars
<1>20. CASE HostType
  <2>1. rxLevel' \in 0 .. RxFifo BY <1>0, <1>20, Sizes DEF HostType, TypeOK
  <2> QED BY <1>0, <1>b, <1>20, <2>1
          DEF HostType, HostFrame, TypeOK, txVars, rxVars, callVars
<1> QED BY NextCases, <1>1, <1>2, <1>3, <1>4, <1>5, <1>7, <1>8, <1>9, <1>10,
           <1>11, <1>12, <1>13, <1>14, <1>15, <1>16, <1>17, <1>18, <1>19, <1>20

-----------------------------------------------------------------------------
\* Calls and locks

\* What the handler, the alarm and the host do to the tasks.
Wakes == \A u \in Tasks :
             pc'[u] = pc[u] \/ (pc[u] = "blocked" /\ pc'[u] = "woken")

\* All tasks but t stay where they are in their calls.
OnlyOf(t) == \A u \in Tasks : u # t =>
                 /\ count'[u] = count[u] /\ moved'[u] = moved[u]
                 /\ from'[u] = from[u] /\ n'[u] = n[u] /\ pc'[u] = pc[u]

LEMMA PostWakes ==
    ASSUME NEW flag, OSFlagPost(flag)
    PROVE  Wakes
BY DEF OSFlagPost, Wakes

LEMMA DeviceWakes ==
    ASSUME IrqControl \/ IrqReceive \/ IrqReceiveEnd \/ IrqSend \/ IrqSendEnd
           \/ AlarmTimeout \/ HostPoll \/ HostType
    PROVE  /\ Wakes
           /\ UNCHANGED <<count, moved, from, n, write_lock, read_lock>>
<1>1. CASE IrqControl BY <1>1 DEF IrqControl, IsrFrame, FlagsKept, Wakes
<1>2. CASE IrqReceive BY <1>2, PostWakes DEF IrqReceive, IsrFrame
<1>3. CASE IrqReceiveEnd BY <1>3 DEF IrqReceiveEnd, IsrFrame, FlagsKept, Wakes
<1>4. CASE IrqSend BY <1>4, PostWakes DEF IrqSend, IsrFrame
<1>5. CASE IrqSendEnd BY <1>5 DEF IrqSendEnd, IsrFrame, FlagsKept, Wakes
<1>6. CASE AlarmTimeout
  <2>1. FlagsKept \/ OSFlagPost("TIMEOUT") BY <1>6 DEF AlarmTimeout
  <2>2. Wakes BY <2>1, PostWakes DEF FlagsKept, Wakes
  <2> QED BY <1>6, <2>2 DEF AlarmTimeout
<1>7. CASE HostPoll \/ HostType
  BY <1>7 DEF HostPoll, HostType, HostFrame, callVars, Wakes
<1> QED BY <1>1, <1>2, <1>3, <1>4, <1>5, <1>6, <1>7

LEMMA CallStep ==
    ASSUME CallInv, NEW t \in Tasks, OnlyOf(t), CallOk(t)'
    PROVE  CallInv'
BY DEF CallInv, CallOk, OnlyOf

LEMMA CallsKept ==
    ASSUME CallInv, Wakes, UNCHANGED <<count, moved, n>>
    PROVE  CallInv'
<1> SUFFICES ASSUME NEW u \in Tasks PROVE CallOk(u)' BY DEF CallInv
<1>1. CallOk(u) BY DEF CallInv
<1>2. CASE pc'[u] = pc[u] BY <1>1, <1>2 DEF CallOk
<1>3. CASE pc[u] = "blocked" /\ pc'[u] = "woken" BY <1>1, <1>3 DEF CallOk
<1> QED BY <1>2, <1>3 DEF Wakes

\* Who has the lock goes on with it; nobody else comes to have it.
LEMMA LocksKept ==
    ASSUME LockInv, UNCHANGED <<write_lock, read_lock>>,
           \A u \in Tasks : pc'[u] \in Held => pc[u] \in Held
    PROVE  LockInv'
BY DEF LockInv, Tasks

\* What each step of a task does to where it is in its call.
LEMMA WriterSteps ==
    ASSUME Inv, NEW t \in Writers,
           WriteLock(t) \/ WriteLook(t) \/ WriteCopy(t) \/ WriteKick(t)
           \/ WriteUnlock(t)
    PROVE  OnlyOf(t) /\ CallInv' /\ LockInv'
<1>0. /\ TypeOK /\ CallInv /\ LockInv /\ Rings /\ t \in Tasks /\ CallOk(t)
      /\ t \notin Readers
  BY Sizes DEF Inv, Tasks, CallInv
<1>1. CASE WriteLock(t)
  <2>1. OnlyOf(t) BY <1>0, <1>1 DEF WriteLock, Goto, OnlyOf, TypeOK
  <2>2. /\ pc[t] = "semPend" /\ pc'[t] = "look" /\ count'[t] = count[t]
        /\ moved'[t] = moved[t]
    BY <1>0, <1>1 DEF WriteLock, At, Goto, TypeOK
  <2>3. CallOk(t)' BY <1>0, <2>2 DEF CallOk
  <2>4. \A u \in Writers : pc'[u] \in Held => u = t
    BY <1>0, <1>1, <2>1 DEF WriteLock, LockInv, OnlyOf, Tasks
  <2>5. \A u \in Readers : pc'[u] = pc[u] BY <1>0, <2>1 DEF OnlyOf, Tasks
  <2>6. write_lock = 1 /\ write_lock' = 0 /\ read_lock' = read_lock
    BY <1>0, <1>1 DEF WriteLock, TypeOK
  <2>7. LockInv' BY <1>0, <2>4, <2>5, <2>6 DEF LockInv
  <2> QED BY <1>0, <2>1, <2>3, <2>7, CallStep
<1>2. CASE WriteLook(t)
  <2>1. OnlyOf(t) BY <1>0, <1>2 DEF WriteLook, Goto, OnlyOf, TypeOK
  <2>2. /\ pc[t] = "look" /\ pc'[t] = IF TxRoom = 0 THEN "kick" ELSE "copy"
        /\ count'[t] = count[t] /\ moved'[t] = moved[t]
        /\ n'[t] = Least(TxRoom, count[t])
        /\ UNCHANGED <<write_lock, read_lock>>
    BY <1>0, <1>2 DEF WriteLook, At, Goto, TypeOK
  <2>3. TxRoom \in 0 .. BufLen /\ count[t] \in 0 .. MaxCount
    BY <1>0, Looks DEF Rings, TypeOK
  <2>6. TxRoom \in Nat /\ count[t] \in Nat BY <2>3, Sizes
  <2>7. n'[t] \in {TxRoom, count[t]} /\ n'[t] <= TxRoom /\ n'[t] <= count[t]
    BY <2>2, <2>6, LeastType
  <2>8. count[t] >= 1 BY <1>0, <2>2 DEF CallOk
  <2>4. CallOk(t)' BY <1>0, <2>2, <2>6, <2>7, <2>8 DEF CallOk
  <2>5. LockInv'
    <3>1. \A u \in Tasks : pc'[u] \in Held => pc[u] \in Held
      BY <2>1, <2>2 DEF OnlyOf, Held
    <3> QED BY <1>0, <2>2, <3>1, LocksKept
  <2> QED BY <1>0, <2>1, <2>4, <2>5, CallStep
<1>3. CASE WriteCopy(t)
  <2>1. pc[t] = "copy" /\ CopyDone(t, "kick") BY <1>3 DEF WriteCopy, At
  <2>2. OnlyOf(t) BY <1>0, <2>1 DEF CopyDone, Goto, OnlyOf, TypeOK
  <2>3. CallInv' /\ pc'[t] \in {"look", "kick"} BY <1>0, <2>1, CopyTypes
  <2>4. \A u \in Tasks : pc'[u] \in Held => pc[u] \in Held
    BY <2>1, <2>2, <2>3 DEF OnlyOf, Held
  <2>5. LockInv' BY <1>0, <1>3, <2>4, LocksKept DEF WriteCopy
  <2> QED BY <2>2, <2>3, <2>5
<1>4. CASE WriteKick(t)
  <2>1. OnlyOf(t) BY <1>0, <1>4 DEF WriteKick, Goto, OnlyOf, TypeOK
  <2>2. /\ pc[t] = "kick" /\ count'[t] = count[t] /\ moved'[t] = moved[t]
        /\ count[t] \in Nat
        /\ pc'[t] = IF count[t] > 0 /\ t \notin NonBlocking THEN "flagPend"
                    ELSE "semPost"
    BY <1>0, <1>4, Sizes DEF WriteKick, At, Goto, TypeOK
  <2>3. CallOk(t)' BY <1>0, <2>2 DEF CallOk
  <2>4. \A u \in Tasks : pc'[u] \in Held => pc[u] \in Held
    BY <2>1, <2>2 DEF OnlyOf, Held
  <2>5. LockInv' BY <1>0, <1>4, <2>4, LocksKept DEF WriteKick
  <2> QED BY <1>0, <2>1, <2>3, <2>5, CallStep
<1>5. CASE WriteUnlock(t)
  <2>1. OnlyOf(t) BY <1>0, <1>5 DEF WriteUnlock, Return, Goto, OnlyOf, TypeOK
  <2>2. pc[t] = "semPost" /\ pc'[t] = "idle" /\ count'[t] = 0 /\ moved'[t] = 0
    BY <1>0, <1>5 DEF WriteUnlock, Return, At, Goto, TypeOK
  <2>3. CallOk(t)' BY <2>2, Sizes DEF CallOk
  <2>4. pc[t] \in Held /\ pc'[t] \notin Held BY <2>2 DEF Held
  <2>5. \A u \in Writers : pc'[u] \notin Held
    BY <1>0, <2>1, <2>4 DEF LockInv, OnlyOf, Tasks
  <2>6. \A u \in Readers : pc'[u] = pc[u] BY <1>0, <2>1 DEF OnlyOf, Tasks
  <2>7. LockInv' BY <1>0, <1>5, <2>5, <2>6 DEF WriteUnlock, LockInv
  <2> QED BY <1>0, <2>1, <2>3, <2>7, CallStep
<1> QED BY <1>1, <1>2, <1>3, <1>4, <1>5

LEMMA ReaderSteps ==
    ASSUME Inv, NEW t \in Readers,
           ReadLock(t) \/ ReadLook(t) \/ ReadCopy(t) \/ ReadUnlock(t)
           \/ ReadEnable(t)
    PROVE  OnlyOf(t) /\ CallInv' /\ LockInv'
<1>0. /\ TypeOK /\ CallInv /\ LockInv /\ Rings /\ t \in Tasks /\ CallOk(t)
      /\ t \notin Writers
  BY Sizes DEF Inv, Tasks, CallInv
<1>1. CASE ReadLock(t)
  <2>1. OnlyOf(t) BY <1>0, <1>1 DEF ReadLock, Goto, OnlyOf, TypeOK
  <2>2. /\ pc[t] = "semPend" /\ pc'[t] = "look" /\ count'[t] = count[t]
        /\ moved'[t] = moved[t]
    BY <1>0, <1>1 DEF ReadLock, At, Goto, TypeOK
  <2>3. CallOk(t)' BY <1>0, <2>2 DEF CallOk
  <2>4. \A u \in Readers : pc'[u] \in Held => u = t
    BY <1>0, <1>1, <2>1 DEF ReadLock, LockInv, OnlyOf, Tasks
  <2>5. \A u \in Writers : pc'[u] = pc[u] BY <1>0, <2>1 DEF OnlyOf, Tasks
  <2>6. read_lock = 1 /\ read_lock' = 0 /\ write_lock' = write_lock
    BY <1>0, <1>1 DEF ReadLock, ReadFrame, TypeOK
  <2>7. LockInv' BY <1>0, <2>4, <2>5, <2>6 DEF LockInv
  <2> QED BY <1>0, <2>1, <2>3, <2>7, CallStep
<1>2. CASE ReadLook(t)
  <2>1. OnlyOf(t) BY <1>0, <1>2 DEF ReadLook, Goto, OnlyOf, TypeOK
  <2>2. /\ pc[t] = "look" /\ pc'[t] \in {"copy", "semPost", "flagPend"}
        /\ pc'[t] = "copy" => RxReady > 0
        /\ count'[t] = count[t] /\ moved'[t] = moved[t]
        /\ n'[t] = Least(RxReady, count[t])
        /\ UNCHANGED <<write_lock, read_lock>>
    BY <1>0, <1>2 DEF ReadLook, ReadFrame, At, Goto, TypeOK
  <2>3. RxReady \in 0 .. BufLen /\ count[t] \in 0 .. MaxCount
    BY <1>0, Looks DEF Rings, TypeOK
  <2>6. RxReady \in Nat /\ count[t] \in Nat BY <2>3, Sizes
  <2>7. n'[t] \in {RxReady, count[t]} /\ n'[t] <= RxReady /\ n'[t] <= count[t]
    BY <2>2, <2>6, LeastType
  <2>8. count[t] >= 1 BY <1>0, <2>2 DEF CallOk
  <2>4. CallOk(t)' BY <1>0, <2>2, <2>6, <2>7, <2>8 DEF CallOk
  <2>5. LockInv'
    <3>1. \A u \in Tasks : pc'[u] \in Held => pc[u] \in Held
      BY <2>1, <2>2 DEF OnlyOf, Held
    <3> QED BY <1>0, <2>2, <3>1, LocksKept
  <2> QED BY <1>0, <2>1, <2>4, <2>5, CallStep
<1>3. CASE ReadCopy(t)
  <2>1. pc[t] = "copy" /\ CopyDone(t, "semPost") BY <1>3 DEF ReadCopy, At
  <2>2. OnlyOf(t) BY <1>0, <2>1 DEF CopyDone, Goto, OnlyOf, TypeOK
  <2>3. CallInv' /\ pc'[t] \in {"look", "semPost"} BY <1>0, <2>1, CopyTypes
  <2>4. \A u \in Tasks : pc'[u] \in Held => pc[u] \in Held
    BY <2>1, <2>2, <2>3 DEF OnlyOf, Held
  <2>5. LockInv' BY <1>0, <1>3, <2>4, LocksKept DEF ReadCopy, ReadFrame
  <2> QED BY <2>2, <2>3, <2>5
<1>4. CASE ReadUnlock(t)
  <2>1. OnlyOf(t) BY <1>0, <1>4 DEF ReadUnlock, Return, Goto, OnlyOf, TypeOK
  <2>2. /\ pc[t] = "semPost"
        /\ \/ pc'[t] = "idle" /\ count'[t] = 0 /\ moved'[t] = 0
           \/ pc'[t] = "enable" /\ count'[t] = count[t] /\ moved'[t] = moved[t]
    BY <1>0, <1>4 DEF ReadUnlock, Return, At, Goto, TypeOK
  <2>3. CallOk(t)' BY <1>0, <2>2, Sizes DEF CallOk
  <2>4. pc[t] \in Held /\ pc'[t] \notin Held BY <2>2 DEF Held
  <2>5. \A u \in Readers : pc'[u] \notin Held
    BY <1>0, <2>1, <2>4 DEF LockInv, OnlyOf, Tasks
  <2>6. \A u \in Writers : pc'[u] = pc[u] BY <1>0, <2>1 DEF OnlyOf, Tasks
  <2>7. LockInv' BY <1>0, <1>4, <2>5, <2>6 DEF ReadUnlock, ReadFrame, LockInv
  <2> QED BY <1>0, <2>1, <2>3, <2>7, CallStep
<1>5. CASE ReadEnable(t)
  <2>1. OnlyOf(t) BY <1>0, <1>5 DEF ReadEnable, Return, Goto, OnlyOf, TypeOK
  <2>2. pc'[t] = "idle" /\ count'[t] = 0 /\ moved'[t] = 0
    BY <1>0, <1>5 DEF ReadEnable, Return, Goto, TypeOK
  <2>3. CallOk(t)' BY <2>2, Sizes DEF CallOk
  <2>4. \A u \in Tasks : pc'[u] \in Held => pc[u] \in Held
    BY <2>1, <2>2 DEF OnlyOf, Held
  <2>5. LockInv' BY <1>0, <1>5, <2>4, LocksKept DEF ReadEnable, ReadFrame
  <2> QED BY <1>0, <2>1, <2>3, <2>5, CallStep
<1> QED BY <1>1, <1>2, <1>3, <1>4, <1>5

LEMMA CommonSteps ==
    ASSUME Inv, NEW t \in Tasks, Call(t) \/ FlagPend(t) \/ FlagWoken(t)
    PROVE  OnlyOf(t) /\ CallInv' /\ LockInv'
<1>0. TypeOK /\ CallInv /\ LockInv /\ CallOk(t) BY DEF Inv, CallInv
<1>1. CASE Call(t)
  <2>1. PICK c \in 1 .. MaxCount : count' = [count EXCEPT ![t] = c]
    BY <1>1 DEF Call
  <2>2. OnlyOf(t) BY <1>0, <1>1, <2>1 DEF Call, Goto, OnlyOf, TypeOK
  <2>3. pc[t] = "idle" /\ pc'[t] = "semPend" /\ count'[t] = c /\ moved'[t] = moved[t]
    BY <1>0, <1>1, <2>1 DEF Call, At, Goto, TypeOK
  <2>4. CallOk(t)' BY <1>0, <2>3, Sizes DEF CallOk
  <2>5. \A u \in Tasks : pc'[u] \in Held => pc[u] \in Held
    BY <2>2, <2>3 DEF OnlyOf, Held
  <2>6. LockInv' BY <1>0, <1>1, <2>5, LocksKept DEF Call
  <2> QED BY <1>0, <2>2, <2>4, <2>6, CallStep
<1>2. CASE FlagPend(t) \/ FlagWoken(t)
  <2>1. OnlyOf(t) /\ UNCHANGED <<count, moved, write_lock, read_lock>>
    BY <1>0, <1>2
       DEF FlagPend, FlagWoken, PendOver, FlagFrame, Goto, OnlyOf, TypeOK
  <2>2. pc[t] \in {"flagPend", "woken"} /\ pc'[t] \in {"semPost", "look", "blocked"}
    BY <1>0, <1>2 DEF FlagPend, FlagWoken, PendOver, At, Goto, TypeOK
  <2>3. CallOk(t)' BY <1>0, <2>1, <2>2 DEF CallOk
  <2>4. \A u \in Tasks : pc'[u] \in Held => pc[u] \in Held
    BY <2>1, <2>2 DEF OnlyOf, Held
  <2>5. LockInv' BY <1>0, <2>1, <2>4, LocksKept
  <2> QED BY <1>0, <2>1, <2>3, <2>5, CallStep
<1> QED BY <1>1, <1>2

-----------------------------------------------------------------------------
\* The rings

\* One byte more at the end.
LEMMA AppendOne ==
    ASSUME NEW B, NEW put \in Seq(B), NEW x \in B
    PROVE  Append(put, x) = put \o <<x>> /\ <<x>> \in Seq(B) /\ Len(<<x>>) = 1
           /\ <<x>>[1] = x
<1>1. <<x>> \in Seq(B) /\ Len(<<x>>) = 1 /\ <<x>>[1] = x OBVIOUS
<1> QED BY <1>1, AppendIsConcat

LEMMA RingsKept ==
    ASSUME Rings, CopyInv, UNCHANGED <<txVars, rxVars>>,
           \A u \in Tasks : pc'[u] = "copy" =>
               pc[u] = "copy" /\ from'[u] = from[u] /\ n'[u] = n[u]
    PROVE  Rings' /\ CopyInv'
<1>1. Rings' BY DEF Rings, Ring, Used, Place, txVars, rxVars
<1>2. CopyInv' BY DEF CopyInv, Tasks, Used, txVars, rxVars
<1> QED BY <1>1, <1>2

LEMMA LookStep ==
    ASSUME Inv, NEW t \in Tasks,
           (t \in Writers /\ WriteLook(t)) \/ (t \in Readers /\ ReadLook(t))
    PROVE  Rings' /\ CopyInv'
<1>0. TypeOK /\ CopyInv /\ LockInv /\ Rings BY DEF Inv
<1>1. Rings'
  <2>1. UNCHANGED <<txVars, rxVars>> BY DEF WriteLook, ReadLook, CallFrame, ReadFrame
  <2> QED BY <1>0, <2>1 DEF Rings, Ring, Used, Place, txVars, rxVars
<1>2. CASE t \in Writers /\ WriteLook(t)
  <2>0. OnlyOf(t) /\ t \notin Readers BY <1>2, WriterSteps, Sizes
  <2>1. /\ UNCHANGED <<tx_in, tx_out, rx_in, rx_out>>
        /\ from'[t] = tx_in /\ n'[t] = Least(TxRoom, count[t])
    BY <1>0, <1>2 DEF WriteLook, CallFrame, txVars, rxVars, TypeOK
  <2>2. TxRoom \in 0 .. BufLen /\ count[t] \in 0 .. MaxCount
    BY <1>0, Looks DEF Rings, TypeOK
  <2>3. n'[t] <= TxRoom /\ n'[t] \in Nat
    <3>1. TxRoom \in Nat /\ count[t] \in Nat BY <2>2, Sizes
    <3> QED BY <2>1, <3>1, LeastType
  <2>4. tx_in + TxRoom <= BufLen /\ Used(tx_in, tx_out) + TxRoom <= BufLen - 1
    BY <1>0, Looks DEF Rings
  <2>5. tx_in \in Int /\ Used(tx_in, tx_out) \in Int /\ BufLen \in Int /\ TxRoom \in Int
    BY <1>0, <2>2, Sizes DEF TypeOK, Used, Index
  <2>6. tx_in + n'[t] <= BufLen /\ Used(tx_in, tx_out) + n'[t] <= BufLen - 1
    BY <2>3, <2>4, <2>5
  <2>8. ASSUME NEW u \in Writers, pc'[u] = "copy"
        PROVE  /\ from'[u] = tx_in' /\ tx_in' + n'[u] <= BufLen
               /\ Used(tx_in', tx_out') + n'[u] <= BufLen - 1
    <3>1. CASE u = t BY <2>1, <2>6, <3>1
    <3>2. CASE u # t BY <1>0, <2>0, <2>1, <2>8, <3>2 DEF CopyInv, OnlyOf, Tasks
    <3> QED BY <3>1, <3>2
  <2>9. ASSUME NEW u \in Readers, pc'[u] = "copy"
        PROVE  /\ from'[u] = rx_out' /\ rx_out' + n'[u] <= BufLen
               /\ n'[u] <= Used(rx_in', rx_out')
    BY <1>0, <2>0, <2>1, <2>9 DEF CopyInv, OnlyOf, Tasks
  <2> QED BY <1>1, <2>8, <2>9 DEF CopyInv, Used
<1>3. CASE t \in Readers /\ ReadLook(t)
  <2>0. OnlyOf(t) /\ t \notin Writers BY <1>3, ReaderSteps, Sizes
  <2>1. /\ UNCHANGED <<tx_in, tx_out, rx_in, rx_out>>
        /\ from'[t] = rx_out /\ n'[t] = Least(RxReady, count[t])
    BY <1>0, <1>3 DEF ReadLook, ReadFrame, txVars, rxVars, TypeOK
  <2>2. RxReady \in 0 .. BufLen /\ count[t] \in 0 .. MaxCount
    BY <1>0, Looks DEF Rings, TypeOK
  <2>3. n'[t] <= RxReady /\ n'[t] \in Nat
    <3>1. RxReady \in Nat /\ count[t] \in Nat BY <2>2, Sizes
    <3> QED BY <2>1, <3>1, LeastType
  <2>4. rx_out + RxReady <= BufLen /\ RxReady <= Used(rx_in, rx_out)
    BY <1>0, Looks DEF Rings
  <2>5. rx_out \in Int /\ Used(rx_in, rx_out) \in Int /\ BufLen \in Int /\ RxReady \in Int
    BY <1>0, <2>2, Sizes DEF TypeOK, Used, Index
  <2>6. rx_out + n'[t] <= BufLen /\ n'[t] <= Used(rx_in, rx_out)
    BY <2>3, <2>4, <2>5
  <2>8. ASSUME NEW u \in Readers, pc'[u] = "copy"
        PROVE  /\ from'[u] = rx_out' /\ rx_out' + n'[u] <= BufLen
               /\ n'[u] <= Used(rx_in', rx_out')
    <3>1. CASE u = t BY <2>1, <2>6, <3>1
    <3>2. CASE u # t BY <1>0, <2>0, <2>1, <2>8, <3>2 DEF CopyInv, OnlyOf, Tasks
    <3> QED BY <3>1, <3>2
  <2>9. ASSUME NEW u \in Writers, pc'[u] = "copy"
        PROVE  /\ from'[u] = tx_in' /\ tx_in' + n'[u] <= BufLen
               /\ Used(tx_in', tx_out') + n'[u] <= BufLen - 1
    BY <1>0, <2>0, <2>1, <2>9 DEF CopyInv, OnlyOf, Tasks
  <2> QED BY <1>1, <2>8, <2>9 DEF CopyInv, Used
<1> QED BY <1>2, <1>3

\* A writer appends its bytes to what was written.
LEMMA WriteCopyRings ==
    ASSUME Inv, NEW t \in Writers, WriteCopy(t)
    PROVE  /\ Rings' /\ CopyInv'
           /\ \E s \in Seq(Writers) : Len(s) >= 1 /\ written' = written \o s
           /\ UNCHANGED sent
<1>0. /\ TypeOK /\ CallInv /\ CopyInv /\ LockInv /\ Rings /\ t \in Tasks
      /\ t \notin Readers
  BY Sizes DEF Inv, Tasks
<1>1. /\ pc[t] = "copy" /\ CopyDone(t, "kick") /\ OnlyOf(t)
      /\ pc'[t] \in {"look", "kick"}
  <2>1. pc[t] = "copy" /\ CopyDone(t, "kick") BY DEF WriteCopy, At
  <2> QED BY <1>0, <2>1, CopyTypes, WriterSteps
<1> DEFINE m == n[t]
           s == [k \in 1 .. m |-> t]
<1>2. m >= 1 /\ m \in Nat BY <1>0, <1>1, Sizes DEF CallInv, CallOk, TypeOK
<1>3. s \in Seq(Writers) /\ Len(s) = m /\ \A k \in 1 .. m : s[k] = t
  BY <1>2, IsASeq
<1>4. /\ from[t] = tx_in /\ tx_in + m <= BufLen
      /\ Used(tx_in, tx_out) + m <= BufLen - 1
  BY <1>0, <1>1 DEF CopyInv
<1>5. /\ tx_in' = (tx_in + m) % BufLen /\ written' = written \o s
      /\ UNCHANGED <<tx_out, sent, rxVars>>
  BY <1>4 DEF WriteCopy, CallFrame
<1>6. \A k \in Index : tx_buf'[k] = IF k \in tx_in .. tx_in + m - 1 THEN t ELSE tx_buf[k]
  BY <1>4 DEF WriteCopy
<1> HIDE DEF m, s
<1>7. \A k \in Index : tx_buf'[k] = IF k \in tx_in .. tx_in + Len(s) - 1
                                    THEN s[k - tx_in + 1] ELSE tx_buf[k]
  <2> SUFFICES ASSUME NEW k \in Index
               PROVE  tx_buf'[k] = IF k \in tx_in .. tx_in + Len(s) - 1
                                   THEN s[k - tx_in + 1] ELSE tx_buf[k]
    OBVIOUS
  <2>1. CASE k \in tx_in .. tx_in + m - 1
    <3>1. k - tx_in + 1 \in 1 .. m
      <4>1. tx_in \in Int /\ k \in Int BY <1>0, Sizes DEF TypeOK, Index
      <4> QED BY <1>2, <2>1, <4>1
    <3>2. s[k - tx_in + 1] = t BY <1>3, <3>1
    <3> QED BY <1>3, <1>6, <2>1, <3>2
  <2>2. CASE k \notin tx_in .. tx_in + m - 1 BY <1>3, <1>6, <2>2
  <2> QED BY <2>1, <2>2
<1>8. /\ Ring(tx_buf', tx_in', tx_out, written \o s, sent)
      /\ Used(tx_in', tx_out) <= BufLen - 1
  <2>1. Ring(tx_buf, tx_in, tx_out, written, sent) BY <1>0 DEF Rings
  <2>2. tx_in + Len(s) <= BufLen /\ Used(tx_in, tx_out) + Len(s) <= BufLen - 1
        /\ Len(s) >= 1 /\ (tx_in + Len(s)) % BufLen = tx_in'
    BY <1>2, <1>3, <1>4, <1>5
  <2>3. written \in Seq(Writers) /\ sent \in Seq(Writers)
        /\ tx_in \in Index /\ tx_out \in Index
    BY <1>0 DEF TypeOK
  <2>4. Stored(tx_buf', tx_buf, tx_in, s) BY <1>7 DEF Stored
  <2> QED BY <1>3, <2>1, <2>2, <2>3, <2>4, RingPut
<1>9. Rings'
  <2>1. Ring(rx_buf, rx_in, rx_out, taken, delivered)'
        /\ (Used(rx_in, rx_out) <= BufLen - 1)'
    BY <1>0, <1>5 DEF Rings, Ring, Used, Place, rxVars
  <2>2. Ring(tx_buf', tx_in', tx_out', written', sent')
        /\ Used(tx_in', tx_out') <= BufLen - 1
    BY <1>5, <1>8
  <2> QED BY <2>1, <2>2 DEF Rings, Ring, Used, Place
<1>10. CopyInv'
  <2>1. \A u \in Writers : pc'[u] # "copy"
    BY <1>0, <1>1 DEF OnlyOf, LockInv, Held, Tasks
  <2>2. Used(rx_in, rx_out)' = Used(rx_in, rx_out) /\ UNCHANGED rx_out
    BY <1>5 DEF Used, rxVars
  <2>3. \A u \in Readers : pc'[u] = pc[u] /\ from'[u] = from[u] /\ n'[u] = n[u]
    BY <1>0, <1>1 DEF OnlyOf, Tasks
  <2> QED BY <1>0, <2>1, <2>2, <2>3 DEF CopyInv
<1> QED BY <1>2, <1>3, <1>5, <1>9, <1>10

\* A reader takes out what has waited longest.
LEMMA ReadCopyRings ==
    ASSUME Inv, NEW t \in Readers, ReadCopy(t)
    PROVE  /\ Rings' /\ CopyInv'
           /\ \E s \in Seq(Nat) : Len(s) >= 1 /\ delivered' = delivered \o s
           /\ UNCHANGED taken
<1>0. /\ TypeOK /\ CallInv /\ CopyInv /\ LockInv /\ Rings /\ t \in Tasks
      /\ t \notin Writers
  BY Sizes DEF Inv, Tasks
<1>1. /\ pc[t] = "copy" /\ CopyDone(t, "semPost") /\ OnlyOf(t)
      /\ pc'[t] \in {"look", "semPost"}
  <2>1. pc[t] = "copy" /\ CopyDone(t, "semPost") BY DEF ReadCopy, At
  <2> QED BY <1>0, <2>1, CopyTypes, ReaderSteps
<1> DEFINE m == n[t]
           s == [k \in 1 .. m |-> rx_buf[rx_out + k - 1]]
<1>2. m >= 1 /\ m \in Nat BY <1>0, <1>1, Sizes DEF CallInv, CallOk, TypeOK
<1>4. from[t] = rx_out /\ rx_out + m <= BufLen /\ m <= Used(rx_in, rx_out)
  BY <1>0, <1>1 DEF CopyInv
<1>3. s \in Seq(Nat) /\ Len(s) = m /\ \A k \in 1 .. m : s[k] = rx_buf[rx_out + k - 1]
  <2>1. \A k \in 1 .. m : rx_out + k - 1 \in Index
    <3>1. rx_out \in 0 .. BufLen - 1 BY <1>0 DEF TypeOK, Index
    <3> QED BY <1>2, <1>4, <3>1, Sizes DEF Index
  <2>2. \A k \in 1 .. m : rx_buf[rx_out + k - 1] \in Nat BY <1>0, <2>1 DEF TypeOK
  <2>3. s \in Seq(Nat) BY <1>2, <2>2, IsASeq
  <2> QED BY <1>2, <2>3
<1>5. /\ rx_out' = (rx_out + m) % BufLen /\ delivered' = delivered \o s
      /\ UNCHANGED <<rx_buf, rx_in, taken, txVars>>
  BY <1>4 DEF ReadCopy, ReadFrame
<1> HIDE DEF m, s
<1>8. /\ Ring(rx_buf, rx_in, rx_out', taken, delivered \o s)
      /\ Used(rx_in, rx_out') = Used(rx_in, rx_out) - Len(s)
  <2>1. Ring(rx_buf, rx_in, rx_out, taken, delivered) BY <1>0 DEF Rings
  <2>2. rx_out + Len(s) <= BufLen /\ Len(s) <= Used(rx_in, rx_out)
        /\ Len(s) >= 1 /\ (rx_out + Len(s)) % BufLen = rx_out'
    BY <1>2, <1>3, <1>4, <1>5
  <2>3. taken \in Seq(Nat) /\ delivered \in Seq(Nat)
        /\ rx_in \in Index /\ rx_out \in Index
    BY <1>0 DEF TypeOK
  <2>4. Fetched(s, rx_buf, rx_out) BY <1>3 DEF Fetched
  <2> QED BY <1>3, <2>1, <2>2, <2>3, <2>4, RingGet
<1>9. Rings'
  <2>1. Ring(tx_buf, tx_in, tx_out, written, sent)' /\ (Used(tx_in, tx_out) <= BufLen - 1)'
    BY <1>0, <1>5 DEF Rings, Ring, Used, Place, txVars
  <2>2. Ring(rx_buf', rx_in', rx_out', taken', delivered') BY <1>5, <1>8
  <2>3. Used(rx_in', rx_out') <= BufLen - 1
    <3>1. Used(rx_in, rx_out) \in Int BY <1>0, Sizes DEF Used, TypeOK, Index
    <3>4. Used(rx_in, rx_out) <= BufLen - 1 BY <1>0 DEF Rings
    <3>2. Used(rx_in', rx_out') = Used(rx_in, rx_out) - m BY <1>3, <1>5, <1>8
    <3> QED BY <1>2, <3>1, <3>2, <3>4, Sizes
  <2> QED BY <2>1, <2>2, <2>3 DEF Rings, Ring, Used, Place
<1>10. CopyInv'
  <2>1. \A u \in Readers : pc'[u] # "copy"
    BY <1>0, <1>1 DEF OnlyOf, LockInv, Held, Tasks
  <2>2. Used(tx_in, tx_out)' = Used(tx_in, tx_out) /\ UNCHANGED tx_in
    BY <1>5 DEF Used, txVars
  <2>3. \A u \in Writers : pc'[u] = pc[u] /\ from'[u] = from[u] /\ n'[u] = n[u]
    BY <1>0, <1>1 DEF OnlyOf, Tasks
  <2> QED BY <1>0, <2>1, <2>2, <2>3 DEF CopyInv
<1> QED BY <1>2, <1>3, <1>5, <1>9, <1>10

\* The handler puts one byte received into the ring.
LEMMA IrqReceiveRings ==
    ASSUME Inv, IrqReceive
    PROVE  /\ Rings' /\ CopyInv'
           /\ \E s \in Seq(Nat) : Len(s) >= 1 /\ taken' = taken \o s
           /\ UNCHANGED delivered
<1>0. TypeOK /\ CopyInv /\ Rings BY DEF Inv
<1> DEFINE x == Len(taken) + 1
           s == <<x>>
<1>1. /\ taken \in Seq(Nat) /\ delivered \in Seq(Nat) /\ x \in Nat
      /\ rx_in \in Index /\ rx_out \in Index /\ rx_buf \in [Index -> Nat]
  BY <1>0, LenProperties DEF TypeOK
<1>2. /\ taken' = Append(taken, x) /\ rx_in' = (rx_in + 1) % BufLen
      /\ rx_buf' = [rx_buf EXCEPT ![rx_in] = x] /\ ~RxFull
      /\ UNCHANGED <<rx_out, delivered, txVars, from, n>>
  BY DEF IrqReceive, IsrFrame
<1> HIDE DEF x
<1>3. s \in Seq(Nat) /\ Len(s) = 1 /\ s[1] = x /\ taken' = taken \o s
  BY <1>1, <1>2, AppendOne
<1> HIDE DEF s
<1>4. rx_in + 1 <= BufLen /\ Used(rx_in, rx_out) + 1 <= BufLen - 1
      /\ Used(rx_in, rx_out) \in Int
  <2>1. rx_in + 1 \in 0 .. BufLen /\ BufLen \in Nat \ {0} BY <1>1, Sizes DEF Index
  <2>2. (IF rx_in + 1 = BufLen THEN 0 ELSE rx_in + 1) # rx_out
    BY <1>2, <2>1, Wrap DEF RxFull
  <2>3. CASE rx_in + 1 = BufLen BY <1>1, <2>2, <2>3, Sizes DEF Used, Index
  <2>4. CASE rx_in + 1 # BufLen BY <1>1, <2>2, <2>4, Sizes DEF Used, Index
  <2> QED BY <2>3, <2>4
<1>5. \A k \in Index : rx_buf'[k] = IF k \in rx_in .. rx_in + Len(s) - 1
                                    THEN s[k - rx_in + 1] ELSE rx_buf[k]
  <2> SUFFICES ASSUME NEW k \in Index
               PROVE  rx_buf'[k] = IF k \in rx_in .. rx_in + Len(s) - 1
                                   THEN s[k - rx_in + 1] ELSE rx_buf[k]
    OBVIOUS
  <2>0. rx_in \in Int /\ k \in Int BY <1>1, Sizes DEF Index
  <2>1. k \in rx_in .. rx_in + Len(s) - 1 <=> k = rx_in BY <1>3, <2>0
  <2>2. CASE k = rx_in
    <3>1. k - rx_in + 1 = 1 BY <2>0, <2>2
    <3> QED BY <1>1, <1>2, <1>3, <2>1, <2>2, <3>1
  <2>3. CASE k # rx_in BY <1>1, <1>2, <2>1, <2>3
  <2> QED BY <2>2, <2>3
<1>8. /\ Ring(rx_buf', rx_in', rx_out, taken \o s, delivered)
      /\ Used(rx_in', rx_out) <= BufLen - 1
  <2>1. Ring(rx_buf, rx_in, rx_out, taken, delivered) BY <1>0 DEF Rings
  <2>2. rx_in + Len(s) <= BufLen /\ Used(rx_in, rx_out) + Len(s) <= BufLen - 1
        /\ Len(s) >= 1 /\ (rx_in + Len(s)) % BufLen = rx_in'
    BY <1>2, <1>3, <1>4
  <2>4. Stored(rx_buf', rx_buf, rx_in, s) BY <1>5 DEF Stored
  <2> QED BY <1>1, <1>3, <2>1, <2>2, <2>4, RingPut
<1>9. Rings'
  <2>1. Ring(tx_buf, tx_in, tx_out, written, sent)' /\ (Used(tx_in, tx_out) <= BufLen - 1)'
    BY <1>0, <1>2 DEF Rings, Ring, Used, Place, txVars
  <2>2. Ring(rx_buf', rx_in', rx_out', taken', delivered')
        /\ Used(rx_in', rx_out') <= BufLen - 1
    BY <1>2, <1>3, <1>8
  <2> QED BY <2>1, <2>2 DEF Rings, Ring, Used, Place
<1>10. CopyInv'
  <2>1. \A u \in Tasks : pc'[u] = "copy" => pc[u] = "copy"
    BY DeviceWakes DEF Wakes
  <2>2. Used(tx_in, tx_out)' = Used(tx_in, tx_out) /\ UNCHANGED <<tx_in, rx_out>>
    BY <1>2 DEF Used, txVars
  <2>3. Used(rx_in, rx_out)' = Used(rx_in, rx_out) + 1
    <3>1. Len(taken \o s) = Len(taken) + 1
      <4>1. Len(Append(taken, x)) = Len(taken) + 1 BY <1>1, AppendProperties
      <4> QED BY <1>2, <1>3, <4>1
    <3>2. /\ Len(taken) = Len(delivered) + Used(rx_in, rx_out)
          /\ Len(taken \o s) = Len(delivered) + Used(rx_in', rx_out)
      BY <1>0, <1>8 DEF Rings, Ring
    <3>3. Used(rx_in', rx_out) \in Int
      <4>1. rx_in' \in Index BY <1>2, <1>4, <1>1, Wrap, Sizes DEF Index
      <4> QED BY <1>1, <4>1, Sizes DEF Used, Index
    <3>4. Len(taken) \in Nat /\ Len(delivered) \in Nat BY <1>1, LenProperties
    <3> QED BY <1>2, <1>4, <3>1, <3>2, <3>3, <3>4
  <2>4. ASSUME NEW u \in Readers, pc'[u] = "copy"
        PROVE  /\ from'[u] = rx_out' /\ rx_out' + n'[u] <= BufLen
               /\ n'[u] <= Used(rx_in, rx_out)'
    <3>1. pc[u] = "copy" /\ u \in Tasks BY <2>1, <2>4 DEF Tasks
    <3>2. /\ from[u] = rx_out /\ rx_out + n[u] <= BufLen
          /\ n[u] <= Used(rx_in, rx_out)
      BY <1>0, <3>1 DEF CopyInv
    <3>3. n[u] \in Int BY <1>0, <3>1, Sizes DEF TypeOK
    <3>4. n[u] <= Used(rx_in, rx_out)' BY <1>4, <2>3, <3>2, <3>3
    <3> QED BY <1>2, <3>2, <3>4
  <2>5. ASSUME NEW u \in Writers, pc'[u] = "copy"
        PROVE  /\ from'[u] = tx_in' /\ tx_in' + n'[u] <= BufLen
               /\ Used(tx_in, tx_out)' + n'[u] <= BufLen - 1
    <3>1. pc[u] = "copy" BY <2>1, <2>5 DEF Tasks
    <3> QED BY <1>0, <1>2, <2>2, <3>1 DEF CopyInv
  <2> QED BY <2>4, <2>5 DEF CopyInv
<1>11. \E w \in Seq(Nat) : Len(w) >= 1 /\ taken' = taken \o w
  <2>1. Len(s) >= 1 BY <1>3
  <2> QED BY <1>3, <2>1
<1>12. UNCHANGED delivered BY <1>2
<1> QED BY <1>9, <1>10, <1>11, <1>12

\* The handler moves one byte from the ring to the FIFO.
LEMMA IrqSendRings ==
    ASSUME Inv, IrqSend
    PROVE  /\ Rings' /\ CopyInv'
           /\ \E s \in Seq(Writers) : Len(s) >= 1 /\ sent' = sent \o s
           /\ UNCHANGED written
<1>0. TypeOK /\ CopyInv /\ Rings BY DEF Inv
<1> DEFINE x == tx_buf[tx_out]
           s == <<x>>
<1>1. /\ written \in Seq(Writers) /\ sent \in Seq(Writers)
      /\ tx_in \in Index /\ tx_out \in Index
  BY <1>0 DEF TypeOK
<1>2. /\ sent' = Append(sent, x) /\ tx_out' = (tx_out + 1) % BufLen
      /\ tx_in # tx_out
      /\ UNCHANGED <<tx_buf, tx_in, written, rxVars, from, n>>
  BY DEF IrqSend, IsrFrame
<1>u. Used(tx_in, tx_out) \in Nat /\ Used(tx_in, tx_out) >= 1
      /\ tx_out + 1 <= BufLen
  BY <1>1, <1>2, Sizes DEF Used, Index
<1>x. x \in Writers
  <2>1. Place(tx_out, 1) = tx_out BY <1>1, Sizes DEF Place, Index
  <2>2. x = written[Len(sent) + 1] /\ Len(written) = Len(sent) + Used(tx_in, tx_out)
    BY <1>0, <1>u, <2>1 DEF Rings, Ring
  <2>3. Len(sent) + 1 \in 1 .. Len(written) BY <1>1, <1>u, <2>2, LenProperties
  <2> HIDE DEF x
  <2> QED BY <1>1, <2>2, <2>3, ElementOfSeq
<1>3. s \in Seq(Writers) /\ Len(s) = 1 /\ s[1] = x /\ sent' = sent \o s
  BY <1>1, <1>2, <1>x, AppendOne
<1>8. /\ Ring(tx_buf, tx_in, tx_out', written, sent \o s)
      /\ Used(tx_in, tx_out') = Used(tx_in, tx_out) - 1
  <2>1. Ring(tx_buf, tx_in, tx_out, written, sent) BY <1>0 DEF Rings
  <2>3. Fetched(s, tx_buf, tx_out)
    <3>1. tx_out + 1 - 1 = tx_out BY <1>1 DEF Index
    <3> QED BY <1>3, <3>1 DEF Fetched
  <2> HIDE DEF s
  <2>2. tx_out + Len(s) <= BufLen /\ Len(s) <= Used(tx_in, tx_out)
        /\ Len(s) >= 1 /\ (tx_out + Len(s)) % BufLen = tx_out'
    BY <1>2, <1>3, <1>u
  <2> HIDE DEF x
  <2>5. s \in Seq(Writers) BY <1>3
  <2>4. /\ Ring(tx_buf, tx_in, (tx_out + Len(s)) % BufLen, written, sent \o s)
        /\ Used(tx_in, (tx_out + Len(s)) % BufLen) = Used(tx_in, tx_out) - Len(s)
    BY <1>1, <2>1, <2>2, <2>3, <2>5, RingGet
  <2> QED BY <1>3, <2>2, <2>4
<1> HIDE DEF s
<1>9. Rings'
  <2>1. Ring(rx_buf, rx_in, rx_out, taken, delivered)'
        /\ (Used(rx_in, rx_out) <= BufLen - 1)'
    BY <1>0, <1>2 DEF Rings, Ring, Used, Place, rxVars
  <2>2. Ring(tx_buf', tx_in', tx_out', written', sent') BY <1>2, <1>3, <1>8
  <2>3. Used(tx_in', tx_out') <= BufLen - 1
    <3>1. Used(tx_in, tx_out) <= BufLen - 1 BY <1>0 DEF Rings
    <3> QED BY <1>2, <1>8, <1>u, <3>1, Sizes
  <2> QED BY <2>1, <2>2, <2>3 DEF Rings, Ring, Used, Place
<1>10. CopyInv'
  <2>1. \A u \in Tasks : pc'[u] = "copy" => pc[u] = "copy"
    BY DeviceWakes DEF Wakes
  <2>2. Used(rx_in, rx_out)' = Used(rx_in, rx_out) /\ UNCHANGED rx_out
    BY <1>2 DEF Used, rxVars
  <2>4. ASSUME NEW u \in Writers, pc'[u] = "copy"
        PROVE  /\ from'[u] = tx_in' /\ tx_in' + n'[u] <= BufLen
               /\ Used(tx_in', tx_out') + n'[u] <= BufLen - 1
    <3>1. pc[u] = "copy" /\ u \in Tasks BY <2>1, <2>4 DEF Tasks
    <3>2. /\ from[u] = tx_in /\ tx_in + n[u] <= BufLen
          /\ Used(tx_in, tx_out) + n[u] <= BufLen - 1
      BY <1>0, <3>1 DEF CopyInv
    <3>3. n[u] \in Int BY <1>0, <3>1, Sizes DEF TypeOK
    <3>4. Used(tx_in', tx_out') + n[u] <= BufLen - 1
      BY <1>2, <1>8, <1>u, <3>2, <3>3, Sizes
    <3> QED BY <1>2, <3>2, <3>4
  <2>5. ASSUME NEW u \in Readers, pc'[u] = "copy"
        PROVE  /\ from'[u] = rx_out' /\ rx_out' + n'[u] <= BufLen
               /\ n'[u] <= Used(rx_in, rx_out)'
    <3>1. pc[u] = "copy" BY <2>1, <2>5 DEF Tasks
    <3> QED BY <1>0, <1>2, <2>2, <3>1 DEF CopyInv
  <2> QED BY <2>4, <2>5 DEF CopyInv, Used
<1>11. \E w \in Seq(Writers) : Len(w) >= 1 /\ sent' = sent \o w
  <2>1. Len(s) >= 1 BY <1>3
  <2> QED BY <1>3, <2>1
<1>12. UNCHANGED written BY <1>2
<1> QED BY <1>9, <1>10, <1>11, <1>12

-----------------------------------------------------------------------------
\* The inductive invariant

\* The steps that touch neither ring.
QuietTask(t) ==
    \/ Call(t) \/ FlagPend(t) \/ FlagWoken(t)
    \/ t \in Writers /\ (WriteLock(t) \/ WriteKick(t) \/ WriteUnlock(t))
    \/ t \in Readers /\ (ReadLock(t) \/ ReadUnlock(t) \/ ReadEnable(t))

QuietDevice == \/ IrqControl \/ IrqReceiveEnd \/ IrqSendEnd
               \/ AlarmTimeout \/ HostPoll \/ HostType

LEMMA QuietRings ==
    ASSUME Inv, QuietDevice \/ \E t \in Tasks : QuietTask(t)
    PROVE  /\ Rings' /\ CopyInv' /\ UNCHANGED <<txVars, rxVars>>
<1>0. TypeOK /\ CopyInv /\ Rings BY DEF Inv
<1>1. CASE QuietDevice
  <2>1. UNCHANGED <<txVars, rxVars>>
    BY <1>1 DEF QuietDevice, IrqControl, IrqReceiveEnd, IrqSendEnd, AlarmTimeout,
                HostPoll, HostType, HostFrame
  <2>2. Wakes /\ UNCHANGED <<from, n>> BY <1>1, DeviceWakes DEF QuietDevice
  <2> QED BY <1>0, <2>1, <2>2, RingsKept DEF Wakes
<1>2. ASSUME NEW t \in Tasks, QuietTask(t)
      PROVE  Rings' /\ CopyInv' /\ UNCHANGED <<txVars, rxVars>>
  <2>1. UNCHANGED <<txVars, rxVars>>
    BY <1>2 DEF QuietTask, Call, FlagPend, FlagWoken, FlagFrame, WriteLock,
                WriteKick, WriteUnlock, CallFrame, ReadLock, ReadUnlock,
                ReadEnable, ReadFrame
  <2>2. UNCHANGED <<from, n>>
    BY <1>2 DEF QuietTask, Call, FlagPend, FlagWoken, FlagFrame, WriteLock,
                WriteKick, WriteUnlock, CallFrame, ReadLock, ReadUnlock,
                ReadEnable, ReadFrame
  <2>3. OnlyOf(t)
    BY <1>2, CommonSteps, WriterSteps, ReaderSteps DEF QuietTask
  <2>4. pc'[t] # "copy"
    BY <1>0, <1>2 DEF QuietTask, Call, FlagPend, FlagWoken, PendOver, WriteLock,
                WriteKick, WriteUnlock, ReadLock, ReadUnlock, ReadEnable, Return,
                Goto, TypeOK
  <2>5. \A u \in Tasks : pc'[u] = "copy" =>
               pc[u] = "copy" /\ from'[u] = from[u] /\ n'[u] = n[u]
    BY <2>2, <2>3, <2>4 DEF OnlyOf
  <2> QED BY <1>0, <2>1, <2>5, RingsKept
<1> QED BY <1>1, <1>2

LEMMA IsrStep ==
    ASSUME Inv, Next
    PROVE  IsrInv'
<1>0. /\ txLevel + isr.space <= TxFifo /\ TxFifo \in Nat
      /\ txLevel \in Int /\ isr.space \in 0 .. TxFifo
      /\ isr \in [at : IsrSteps, wi : BOOLEAN, space : 0 .. TxFifo, avail : BOOLEAN]
      /\ txLevel \in 0 .. TxFifo
  BY Sizes DEF Inv, IsrInv, TypeOK
<1>1. ASSUME UNCHANGED <<isr, hwVars>> PROVE IsrInv'
  BY <1>0, <1>1 DEF IsrInv, hwVars
<1>2. ASSUME NEW t \in Tasks, Call(t) \/ FlagPend(t) \/ FlagWoken(t) PROVE IsrInv'
  BY <1>1, <1>2 DEF Call, FlagPend, FlagWoken, FlagFrame
<1>3. ASSUME NEW t \in Writers,
             WriteLock(t) \/ WriteLook(t) \/ WriteCopy(t) \/ WriteKick(t)
             \/ WriteUnlock(t)
      PROVE  IsrInv'
  BY <1>1, <1>3 DEF WriteLock, WriteLook, WriteCopy, WriteKick, WriteUnlock, CallFrame
<1>4. ASSUME NEW t \in Readers,
             ReadLock(t) \/ ReadLook(t) \/ ReadCopy(t) \/ ReadUnlock(t)
             \/ ReadEnable(t)
      PROVE  IsrInv'
  BY <1>1, <1>4 DEF ReadLock, ReadLook, ReadCopy, ReadUnlock, ReadEnable, ReadFrame
<1>5. CASE IrqControl
  <2>1. isr'.space = IF WI THEN TxFifo - txLevel ELSE 0 BY <1>5 DEF IrqControl
  <2>2. txLevel' = txLevel BY <1>5 DEF IrqControl
  <2> QED BY <1>0, <2>1, <2>2 DEF IsrInv
<1>6. CASE IrqReceive \/ IrqReceiveEnd
  <2>1. isr'.space = isr.space BY <1>0, <1>6 DEF IrqReceive, IrqReceiveEnd
  <2>2. txLevel' = txLevel BY <1>6 DEF IrqReceive, IrqReceiveEnd
  <2> QED BY <1>0, <2>1, <2>2 DEF IsrInv
<1>7. CASE IrqSend
  <2>1. isr'.space = isr.space - 1 BY <1>0, <1>7 DEF IrqSend
  <2>2. txLevel' = txLevel + 1 BY <1>7 DEF IrqSend
  <2> QED BY <1>0, <2>1, <2>2 DEF IsrInv
<1>8. CASE IrqSendEnd
  <2>1. isr'.space = 0 BY <1>0, <1>8 DEF IrqSendEnd
  <2>2. txLevel' = txLevel BY <1>8 DEF IrqSendEnd
  <2> QED BY <1>0, <2>1, <2>2 DEF IsrInv
<1>9. CASE AlarmTimeout
  BY <1>0, <1>9 DEF AlarmTimeout, IsrInv
<1>10. CASE HostPoll \/ HostType
  <2>1. isr' = isr BY <1>10 DEF HostPoll, HostType, HostFrame
  <2>2. txLevel' \in 0 .. txLevel BY <1>0, <1>10 DEF HostPoll, HostType
  <2> QED BY <1>0, <2>1, <2>2 DEF IsrInv
<1> QED BY NextCases, <1>2, <1>3, <1>4, <1>5, <1>6, <1>7, <1>8, <1>9, <1>10

\* What Next does, as far as the rings are concerned: nothing, or one of the
\* four steps that move bytes, or a look at how many there are to move.
LEMMA RingCases ==
    ASSUME Next
    PROVE  \/ QuietDevice \/ \E t \in Tasks : QuietTask(t)
           \/ \E t \in Tasks : (t \in Writers /\ WriteLook(t))
                               \/ (t \in Readers /\ ReadLook(t))
           \/ \E t \in Writers : WriteCopy(t)
           \/ \E t \in Readers : ReadCopy(t)
           \/ IrqReceive \/ IrqSend
BY NextCases DEF QuietDevice, QuietTask, Tasks

LEMMA InvStep ==
    ASSUME Inv, Next
    PROVE  Inv'
<1>1. TypeOK' /\ IsrInv' BY TypesStep, IsrStep
<1>2. CallInv' /\ LockInv'
  <2>0. CallInv /\ LockInv BY DEF Inv
  <2>1. CASE IrqControl \/ IrqReceive \/ IrqReceiveEnd \/ IrqSend \/ IrqSendEnd
             \/ AlarmTimeout \/ HostPoll \/ HostType
    <3>1. Wakes /\ UNCHANGED <<count, moved, n, write_lock, read_lock>>
      BY <2>1, DeviceWakes
    <3>2. \A u \in Tasks : pc'[u] \in Held => pc[u] \in Held
      BY <3>1 DEF Wakes, Held
    <3> QED BY <2>0, <3>1, <3>2, CallsKept, LocksKept
  <2> QED BY NextCases, <2>1, CommonSteps, WriterSteps, ReaderSteps
<1>3. Rings' /\ CopyInv'
  BY RingCases, QuietRings, LookStep, WriteCopyRings, ReadCopyRings,
     IrqReceiveRings, IrqSendRings
<1> QED BY <1>1, <1>2, <1>3 DEF Inv

LEMMA InitInv ==
    ASSUME Init
    PROVE  Inv
<1>0. /\ 0 \in Index /\ 0 \in 0 .. MaxCount /\ 0 \in 0 .. BufLen
      /\ 0 \in 0 .. TxFifo /\ 0 \in 0 .. RxFifo /\ 0 \in 0 .. Timeout
  BY Sizes DEF Index
<1>1. TypeOK
  <2>1. /\ tx_buf \in [Index -> Writers \cup {"none"}] /\ rx_buf \in [Index -> Nat]
        /\ tx_in \in Index /\ tx_out \in Index /\ rx_in \in Index /\ rx_out \in Index
    BY <1>0 DEF Init
  <2>2. /\ pc \in [Tasks -> Steps] /\ count \in [Tasks -> 0 .. MaxCount]
        /\ moved \in [Tasks -> 0 .. MaxCount] /\ from \in [Tasks -> Index]
        /\ n \in [Tasks -> 0 .. BufLen] /\ seen \in [Tasks -> Index]
        /\ flagsRdy \in [Tasks -> SUBSET Flags]
    BY <1>0 DEF Init, Steps
  <2>3. isr \in [at : IsrSteps, wi : BOOLEAN, space : 0 .. TxFifo, avail : BOOLEAN]
    BY <1>0 DEF Init, IsrSteps
  <2>4. /\ written \in Seq(Writers) /\ sent \in Seq(Writers)
        /\ taken \in Seq(Nat) /\ delivered \in Seq(Nat)
    BY EmptySeq DEF Init
  <2> QED BY <1>0, <2>1, <2>2, <2>3, <2>4 DEF Init, TypeOK
<1>2. CallInv BY Sizes DEF Init, CallInv, CallOk
<1>3. LockInv /\ CopyInv BY DEF Init, LockInv, CopyInv, Held, Tasks
<1>4. IsrInv
  <2>1. txLevel = 0 /\ isr.space = 0 BY DEF Init
  <2> QED BY <2>1, Sizes DEF IsrInv
<1>5. Rings
  <2>1. Used(0, 0) = 0 BY DEF Used
  <2>2. /\ tx_in = 0 /\ tx_out = 0 /\ rx_in = 0 /\ rx_out = 0
        /\ Len(written) = 0 /\ Len(sent) = 0 /\ Len(taken) = 0 /\ Len(delivered) = 0
    BY EmptySeq DEF Init
  <2> QED BY <2>1, <2>2, Sizes DEF Rings, Ring
<1> QED BY <1>1, <1>2, <1>3, <1>4, <1>5 DEF Inv

LEMMA InvStutter ==
    ASSUME Inv, UNCHANGED vars
    PROVE  Inv'
<1>1. UNCHANGED <<tx_buf, tx_in, tx_out, written, sent, rx_buf, rx_in, rx_out,
                  taken, delivered, we, re, host_inactive, events, write_lock,
                  read_lock, pc, count, moved, from, n, seen, flagsRdy, isr,
                  txLevel, rxLevel, ac, budget>>
  BY DEF vars, uartVars, txVars, rxVars, callVars, hwVars
<1>2. TypeOK' BY <1>1 DEF Inv, TypeOK
<1>3. CallInv' /\ LockInv' BY <1>1 DEF Inv, CallInv, CallOk, LockInv
<1>4. Rings' BY <1>1 DEF Inv, Rings, Ring, Used, Place
<1>5. CopyInv' /\ IsrInv' BY <1>1 DEF Inv, CopyInv, Used, IsrInv
<1> QED BY <1>2, <1>3, <1>4, <1>5 DEF Inv

LEMMA InvAlways == Spec => []Inv
<1>1. Inv /\ [Next]_vars => Inv' BY InvStep, InvStutter
<1> QED BY <1>1, InitInv, PTL DEF Spec

\* All variables have their types: no index leaves its ring, and the handler
\* never writes to a FIFO that is full.
THEOREM UartTypes == Spec => []TypeOK
<1>1. Inv => TypeOK BY DEF Inv
<1> QED BY <1>1, InvAlways, PTL

-----------------------------------------------------------------------------
\* Interrupts that are off are switched on again

\* Bytes in the ring have somebody who sends them.
THEOREM TransmitNeverStuck == Spec => []TxKicked
<1>1. Init => TxKicked BY DEF Init, TxKicked
<1>2. ASSUME Inv, TxKicked, Next PROVE TxKicked'
  <2> DEFINE Busy(t) == pc[t] \in {"look", "copy", "kick"}
  <2>0. TypeOK BY <1>2 DEF Inv
  <2>1. ASSUME UNCHANGED <<tx_in, tx_out, we>>,
               \A t \in Writers : Busy(t) => pc'[t] \in {"look", "copy", "kick"}
        PROVE  TxKicked'
    BY <1>2, <2>1 DEF TxKicked
  <2>2. ASSUME NEW t \in Tasks, Call(t) \/ FlagPend(t) \/ FlagWoken(t) PROVE TxKicked'
    <3>1. UNCHANGED <<tx_in, tx_out, we>>
      BY <2>2 DEF Call, FlagPend, FlagWoken, FlagFrame, txVars
    <3>2. OnlyOf(t) BY <1>2, <2>2, CommonSteps
    <3>3. ~Busy(t) BY <2>2 DEF Call, FlagPend, FlagWoken, At
    <3> QED BY <2>1, <3>1, <3>2, <3>3 DEF OnlyOf, Tasks
  <2>3. ASSUME NEW t \in Readers,
               ReadLock(t) \/ ReadLook(t) \/ ReadCopy(t) \/ ReadUnlock(t)
               \/ ReadEnable(t)
        PROVE  TxKicked'
    <3>1. UNCHANGED <<tx_in, tx_out, we>>
      BY <2>3 DEF ReadLock, ReadLook, ReadCopy, ReadUnlock, ReadEnable, ReadFrame,
                  txVars
    <3>2. OnlyOf(t) BY <1>2, <2>3, ReaderSteps
    <3>3. \A u \in Writers : u # t /\ u \in Tasks BY <2>3, Sizes DEF Tasks
    <3> QED BY <2>1, <3>1, <3>2, <3>3 DEF OnlyOf
  <2>4. ASSUME NEW t \in Writers, WriteLock(t) \/ WriteLook(t) PROVE TxKicked'
    <3>1. UNCHANGED <<tx_in, tx_out, we>>
      BY <2>4 DEF WriteLock, WriteLook, txVars
    <3>2. OnlyOf(t) /\ t \in Tasks BY <1>2, <2>4, WriterSteps DEF Tasks
    <3>3. pc'[t] \in {"look", "copy", "kick"}
      BY <2>0, <2>4, <3>2 DEF WriteLock, WriteLook, Goto, TypeOK
    <3> QED BY <2>1, <3>1, <3>2, <3>3 DEF OnlyOf, Tasks
  <2>5. ASSUME NEW t \in Writers, WriteCopy(t) PROVE TxKicked'
    <3>1. pc'[t] \in {"look", "kick"}
      BY <2>0, <2>5 DEF WriteCopy, CopyDone, Goto, TypeOK, Tasks
    <3> QED BY <3>1 DEF TxKicked
  <2>6. ASSUME NEW t \in Writers, WriteKick(t) PROVE TxKicked'
    BY <2>6 DEF WriteKick, TxKicked
  <2>7. ASSUME NEW t \in Writers, WriteUnlock(t) PROVE TxKicked'
    <3>1. UNCHANGED <<tx_in, tx_out, we>> BY <2>7 DEF WriteUnlock, txVars
    <3>2. OnlyOf(t) BY <1>2, <2>7, WriterSteps
    <3>3. ~Busy(t) BY <2>7 DEF WriteUnlock, At
    <3> QED BY <2>1, <3>1, <3>2, <3>3 DEF OnlyOf, Tasks
  <2>8. ASSUME Wakes
        PROVE  \A t \in Writers : Busy(t) => pc'[t] \in {"look", "copy", "kick"}
    BY <2>8 DEF Wakes, Tasks
  <2>9. CASE IrqControl \/ IrqReceive \/ IrqReceiveEnd \/ AlarmTimeout
             \/ HostPoll \/ HostType
    <3>1. UNCHANGED <<tx_in, tx_out, we>>
      BY <2>9 DEF IrqControl, IrqReceive, IrqReceiveEnd, AlarmTimeout, HostPoll,
                  HostType, HostFrame, txVars
    <3>2. Wakes BY <2>9, DeviceWakes
    <3> QED BY <2>1, <2>8, <3>1, <3>2
  <2>10. CASE IrqSend
    <3>1. we' = we /\ tx_in # tx_out BY <2>10 DEF IrqSend
    <3>2. Wakes BY <2>10, DeviceWakes
    <3> QED BY <1>2, <2>8, <3>1, <3>2 DEF TxKicked
  <2>11. CASE IrqSendEnd
    <3>1. UNCHANGED <<tx_in, tx_out>> BY <2>11 DEF IrqSendEnd, txVars
    <3>2. we => we' \/ tx_in = tx_out BY <2>11 DEF IrqSendEnd
    <3>3. Wakes BY <2>11, DeviceWakes
    <3> QED BY <1>2, <2>8, <3>1, <3>2, <3>3 DEF TxKicked
  <2> QED BY <1>2, NextCases, <2>2, <2>3, <2>4, <2>5, <2>6, <2>7, <2>9, <2>10, <2>11
<1>3. TxKicked /\ UNCHANGED vars => TxKicked'
  BY DEF TxKicked, vars, uartVars, txVars, callVars
<1> QED BY <1>1, <1>2, <1>3, InvAlways, PTL DEF Spec

\* Receiving is off only while the ring is full, or a reader that has made
\* room has still to switch it on.
THEOREM ReceiveNeverStuck == Spec => []RxRevived
<1>1. Init => RxRevived BY DEF Init, RxRevived
<1>2. ASSUME Inv, RxRevived, Next PROVE RxRevived'
  <2> DEFINE Due(t) == moved[t] > 0 /\ pc[t] \in {"look", "copy", "semPost", "enable"}
  <2>0. TypeOK BY <1>2 DEF Inv
  <2>1. ASSUME UNCHANGED <<rx_in, rx_out, re>>,
               \A t \in Readers : Due(t) => Due(t)'
        PROVE  RxRevived'
    <3>1. RxFull' = RxFull BY <2>1 DEF RxFull
    <3> QED BY <1>2, <2>1, <3>1 DEF RxRevived
  <2>2. ASSUME NEW t \in Tasks, Call(t) \/ FlagPend(t) \/ FlagWoken(t) PROVE RxRevived'
    <3>1. UNCHANGED <<rx_in, rx_out, re>>
      BY <2>2 DEF Call, FlagPend, FlagWoken, FlagFrame, rxVars
    <3>2. OnlyOf(t) BY <1>2, <2>2, CommonSteps
    <3>3. ~Due(t) BY <2>2 DEF Call, FlagPend, FlagWoken, At
    <3> QED BY <2>1, <3>1, <3>2, <3>3 DEF OnlyOf, Tasks
  <2>3. ASSUME NEW t \in Writers,
               WriteLock(t) \/ WriteLook(t) \/ WriteCopy(t) \/ WriteKick(t)
               \/ WriteUnlock(t)
        PROVE  RxRevived'
    <3>1. UNCHANGED <<rx_in, rx_out, re>>
      BY <2>3 DEF WriteLock, WriteLook, WriteCopy, WriteKick, WriteUnlock,
                  CallFrame, rxVars
    <3>2. OnlyOf(t) BY <1>2, <2>3, WriterSteps
    <3>3. \A u \in Readers : u # t /\ u \in Tasks BY <2>3, Sizes DEF Tasks
    <3> QED BY <2>1, <3>1, <3>2, <3>3 DEF OnlyOf
  <2>4. ASSUME NEW t \in Readers, ReadLock(t) PROVE RxRevived'
    <3>1. UNCHANGED <<rx_in, rx_out, re>> BY <2>4 DEF ReadLock, rxVars
    <3>2. OnlyOf(t) BY <1>2, <2>4, ReaderSteps
    <3>3. ~Due(t) BY <2>4 DEF ReadLock, At
    <3> QED BY <2>1, <3>1, <3>2, <3>3 DEF OnlyOf, Tasks
  <2>5. ASSUME NEW t \in Readers, ReadLook(t) PROVE RxRevived'
    <3>1. UNCHANGED <<rx_in, rx_out, re>> BY <2>5 DEF ReadLook, rxVars
    <3>2. OnlyOf(t) /\ t \in Tasks BY <1>2, <2>5, ReaderSteps DEF Tasks
    <3>3. Due(t) => Due(t)'
      BY <2>0, <2>5, <3>2 DEF ReadLook, Goto, TypeOK
    <3>4. \A u \in Readers : u # t => (Due(u) => Due(u)') BY <3>2 DEF OnlyOf, Tasks
    <3>5. \A u \in Readers : Due(u) => Due(u)' BY <3>3, <3>4
    <3> HIDE DEF Due
    <3> QED BY <2>1, <3>1, <3>5
  <2>6. ASSUME NEW t \in Readers, ReadCopy(t) PROVE RxRevived'
    <3>1. t \in Tasks /\ pc[t] = "copy" /\ CopyDone(t, "semPost") /\ CallInv
      BY <1>2, <2>6 DEF ReadCopy, At, Tasks, Inv
    <3>2. moved'[t] > 0 /\ pc'[t] \in {"look", "semPost"}
      BY <2>0, <3>1, CopyTypes
    <3> QED BY <3>2 DEF RxRevived
  <2>7. ASSUME NEW t \in Readers, ReadUnlock(t) PROVE RxRevived'
    <3>1. UNCHANGED <<rx_in, rx_out, re>> BY <2>7 DEF ReadUnlock, rxVars
    <3>2. OnlyOf(t) /\ t \in Tasks BY <1>2, <2>7, ReaderSteps DEF Tasks
    <3>3. Due(t) => Due(t)'
      <4>1. ASSUME Due(t) PROVE moved' = moved /\ pc'[t] = "enable"
        <5>1. moved[t] # 0 BY <4>1
        <5> QED BY <2>0, <2>7, <3>2, <5>1 DEF ReadUnlock, Goto, TypeOK
      <4> QED BY <4>1
    <3>4. \A u \in Readers : u # t => (Due(u) => Due(u)') BY <3>2 DEF OnlyOf, Tasks
    <3>5. \A u \in Readers : Due(u) => Due(u)' BY <3>3, <3>4
    <3> HIDE DEF Due
    <3> QED BY <2>1, <3>1, <3>5
  <2>8. ASSUME NEW t \in Readers, ReadEnable(t) PROVE RxRevived'
    BY <2>8 DEF ReadEnable, RxRevived
  <2>9. ASSUME Wakes, moved' = moved PROVE \A t \in Readers : Due(t) => Due(t)'
    BY <2>9 DEF Wakes, Tasks
  <2>10. CASE IrqControl \/ IrqSend \/ IrqSendEnd \/ AlarmTimeout
              \/ HostPoll \/ HostType
    <3>1. UNCHANGED <<rx_in, rx_out, re>>
      BY <2>10 DEF IrqControl, IrqSend, IrqSendEnd, AlarmTimeout, HostPoll,
                  HostType, HostFrame, rxVars
    <3>2. Wakes /\ moved' = moved BY <2>10, DeviceWakes
    <3>3. \A t \in Readers : Due(t) => Due(t)' BY <2>9, <3>2
    <3> HIDE DEF Due
    <3> QED BY <2>1, <3>1, <3>3
  <2>11. CASE IrqReceive
    <3>1. re' = re /\ ~RxFull BY <2>11 DEF IrqReceive
    <3>2. Wakes /\ moved' = moved BY <2>11, DeviceWakes
    <3>3. \A t \in Readers : Due(t) => Due(t)' BY <2>9, <3>2
    <3> QED BY <1>2, <3>1, <3>3 DEF RxRevived
  <2>12. CASE IrqReceiveEnd
    <3>1. UNCHANGED <<rx_in, rx_out>> BY <2>12 DEF IrqReceiveEnd, rxVars
    <3>2. re => re' \/ RxFull BY <2>12 DEF IrqReceiveEnd
    <3>3. Wakes /\ moved' = moved BY <2>12, DeviceWakes
    <3>4. \A t \in Readers : Due(t) => Due(t)' BY <2>9, <3>3
    <3>5. RxFull' = RxFull BY <3>1 DEF RxFull
    <3> QED BY <1>2, <3>2, <3>4, <3>5 DEF RxRevived
  <2> QED BY <1>2, NextCases, <2>2, <2>3, <2>4, <2>5, <2>6, <2>7, <2>8, <2>10,
             <2>11, <2>12
<1>3. RxRevived /\ UNCHANGED vars => RxRevived'
  BY DEF RxRevived, RxFull, vars, uartVars, rxVars, callVars
<1> QED BY <1>1, <1>2, <1>3, InvAlways, PTL DEF Spec

-----------------------------------------------------------------------------
\* The rings implement the channel

\* What was appended leaves what was there as the beginning.
LEMMA Longer ==
    ASSUME NEW B, NEW put \in Seq(B), NEW s \in Seq(B), Len(s) >= 1
    PROVE  /\ put \o s \in Seq(B) /\ put \o s # put
           /\ Len(put) <= Len(put \o s)
           /\ SubSeq(put, 1, Len(put)) = SubSeq(put \o s, 1, Len(put))
<1>1. /\ put \o s \in Seq(B) /\ Len(put \o s) = Len(put) + Len(s)
      /\ Len(put) \in Nat /\ Len(s) \in Nat
  BY ConcatProperties, LenProperties
<1>2. put \o s # put BY <1>1
<1>3. CASE Len(put) = 0
  <2>1. SubSeq(put, 1, Len(put)) = <<>> /\ SubSeq(put \o s, 1, Len(put)) = <<>>
    BY <1>3, SubSeqEmpty
  <2> QED BY <1>1, <1>2, <2>1
<1>4. CASE Len(put) # 0
  <2>1. 1 \in 1 .. Len(put) /\ Len(put) \in 1 .. Len(put) BY <1>1, <1>4
  <2>2. SubSeq(put \o s, 1, Len(put)) = SubSeq(put, 1, Len(put))
    BY <2>1, SubSeqOfConcat1
  <2> QED BY <1>1, <1>2, <2>2
<1> QED BY <1>3, <1>4

\* What was taken out of a ring is the beginning of what was put in.
LEMMA TakenIsPrefix ==
    ASSUME NEW B, NEW put \in Seq(B), NEW got \in Seq(B), NEW buf,
           NEW in \in Index, NEW out \in Index, Ring(buf, in, out, put, got)
    PROVE  /\ Len(got) <= Len(put)
           /\ SubSeq(got, 1, Len(got)) = SubSeq(put, 1, Len(got))
<1>1. Len(put) \in Nat /\ Len(got) \in Nat BY LenProperties
<1>2. Used(in, out) \in Nat BY Sizes DEF Used, Index
<1>3. Len(got) <= Len(put) BY <1>1, <1>2 DEF Ring
<1>4. \A i \in 1 .. Len(got) : got[i] \in B /\ put[i] \in B /\ got[i] = put[i]
  <2>1. \A i \in 1 .. Len(got) : i \in 1 .. Len(put) BY <1>1, <1>3
  <2> QED BY <2>1, ElementOfSeq DEF Ring
<1> DEFINE g == SubSeq(got, 1, Len(got))
           p == SubSeq(put, 1, Len(got))
<1>5. /\ g \in Seq(B) /\ Len(g) = Len(got)
      /\ \A i \in 1 .. Len(got) : g[i] = got[i]
  <2>1. \A i \in 1 .. Len(got) - 1 + 1 : g[i] = got[1 + i - 1]
    BY <1>1, <1>4, SubSeqProperties
  <2>2. g \in Seq(B) /\ Len(g) = IF 1 <= Len(got) THEN Len(got) - 1 + 1 ELSE 0
    BY <1>1, <1>4, SubSeqProperties
  <2> QED BY <1>1, <2>1, <2>2
<1>6. /\ p \in Seq(B) /\ Len(p) = Len(got)
      /\ \A i \in 1 .. Len(got) : p[i] = put[i]
  <2>1. \A i \in 1 .. Len(got) - 1 + 1 : p[i] = put[1 + i - 1]
    BY <1>1, <1>4, SubSeqProperties
  <2>2. p \in Seq(B) /\ Len(p) = IF 1 <= Len(got) THEN Len(got) - 1 + 1 ELSE 0
    BY <1>1, <1>4, SubSeqProperties
  <2> QED BY <1>1, <2>1, <2>2
<1> HIDE DEF g, p
<1>7. g = p BY <1>4, <1>5, <1>6, SeqEqual
<1> QED BY <1>3, <1>7 DEF g, p

LEMMA UsedNat ==
    ASSUME NEW in \in 0 .. BufLen - 1, NEW out \in 0 .. BufLen - 1
    PROVE  Used(in, out) \in Nat
BY Sizes DEF Used

\* How many bytes are under way.
LEMMA UnderWay ==
    ASSUME Inv'
    PROVE  /\ Len(written') - Len(sent') <= BufLen - 1
           /\ Len(taken') - Len(delivered') <= BufLen - 1
<1>1. /\ Len(written') \in Nat /\ Len(sent') \in Nat
      /\ Len(taken') \in Nat /\ Len(delivered') \in Nat
  BY LenProperties DEF Inv, TypeOK
<1>2. /\ Used(tx_in', tx_out') \in Nat /\ Used(rx_in', rx_out') \in Nat
  <2>1. /\ tx_in' \in 0 .. BufLen - 1 /\ tx_out' \in 0 .. BufLen - 1
        /\ rx_in' \in 0 .. BufLen - 1 /\ rx_out' \in 0 .. BufLen - 1
    BY DEF Inv, TypeOK, Index
  <2> QED BY <2>1, UsedNat
<1>3. /\ Len(written') = Len(sent') + Used(tx_in', tx_out')
      /\ Len(taken') = Len(delivered') + Used(rx_in', rx_out')
      /\ Used(tx_in', tx_out') <= BufLen - 1 /\ Used(rx_in', rx_out') <= BufLen - 1
  BY DEF Inv, Rings, Ring, Used
<1> QED BY <1>1, <1>2, <1>3, Sizes

LEMMA TxStep ==
    ASSUME Inv, Inv', Next
    PROVE  [Tx!Next]_Tx!chanVars
<1>0. /\ written \in Seq(Writers) /\ sent \in Seq(Writers)
      /\ written' \in Seq(Writers) /\ sent' \in Seq(Writers)
      /\ tx_in' \in Index /\ tx_out' \in Index
  BY DEF Inv, TypeOK
<1>1. ASSUME NEW t \in Writers, WriteCopy(t) PROVE Tx!Put
  <2>1. UNCHANGED sent BY <1>1, WriteCopyRings
  <2>2. PICK s \in Seq(Writers) : Len(s) >= 1 /\ written' = written \o s
    BY <1>1, WriteCopyRings
  <2>3. Tx!IsStrictPrefix(written, written')
    BY <1>0, <2>2, Longer DEF Tx!IsStrictPrefix, Tx!IsPrefix
  <2>4. Len(written') - Len(sent) <= BufLen - 1 BY <2>1, UnderWay
  <2> QED BY <1>0, <2>1, <2>3, <2>4 DEF Tx!Put
<1>2. CASE IrqSend
  <2>1. UNCHANGED written BY <1>2, IrqSendRings
  <2>2. PICK s \in Seq(Writers) : Len(s) >= 1 /\ sent' = sent \o s
    BY <1>2, IrqSendRings
  <2>3. Tx!IsStrictPrefix(sent, sent')
    BY <1>0, <2>2, Longer DEF Tx!IsStrictPrefix, Tx!IsPrefix
  <2>4. Tx!IsPrefix(sent', written)
    <3>1. Ring(tx_buf', tx_in', tx_out', written', sent')
      BY DEF Inv, Rings, Ring, Used, Place
    <3> QED BY <1>0, <2>1, <3>1, TakenIsPrefix DEF Tx!IsPrefix
  <2> QED BY <1>0, <2>1, <2>3, <2>4 DEF Tx!Get, Tx!Next
<1>3. CASE UNCHANGED <<written, sent>> BY <1>3 DEF Tx!chanVars
<1>4. \/ UNCHANGED <<written, sent>> \/ IrqSend \/ \E t \in Writers : WriteCopy(t)
  <2>1. CASE QuietDevice \/ \E t \in Tasks : QuietTask(t)
    BY <2>1, QuietRings DEF txVars
  <2>2. ASSUME NEW t \in Tasks, (t \in Writers /\ WriteLook(t))
                                \/ (t \in Readers /\ ReadLook(t))
        PROVE  UNCHANGED <<written, sent>>
    BY <2>2 DEF WriteLook, ReadLook, ReadFrame, txVars
  <2>3. ASSUME NEW t \in Readers, ReadCopy(t) PROVE UNCHANGED <<written, sent>>
    BY <2>3 DEF ReadCopy, ReadFrame, txVars
  <2>4. CASE IrqReceive BY <2>4 DEF IrqReceive, txVars
  <2> QED BY RingCases, <2>1, <2>2, <2>3, <2>4
<1> QED BY <1>1, <1>2, <1>3, <1>4 DEF Tx!Next

LEMMA RxStep ==
    ASSUME Inv, Inv', Next
    PROVE  [Rx!Next]_Rx!chanVars
<1>0. /\ taken \in Seq(Nat) /\ delivered \in Seq(Nat)
      /\ taken' \in Seq(Nat) /\ delivered' \in Seq(Nat)
      /\ rx_in' \in Index /\ rx_out' \in Index
  BY DEF Inv, TypeOK
<1>1. CASE IrqReceive
  <2>1. UNCHANGED delivered BY <1>1, IrqReceiveRings
  <2>2. PICK s \in Seq(Nat) : Len(s) >= 1 /\ taken' = taken \o s
    BY <1>1, IrqReceiveRings
  <2>3. Rx!IsStrictPrefix(taken, taken')
    BY <1>0, <2>2, Longer DEF Rx!IsStrictPrefix, Rx!IsPrefix
  <2>4. Len(taken') - Len(delivered) <= BufLen - 1 BY <2>1, UnderWay
  <2> QED BY <1>0, <2>1, <2>3, <2>4 DEF Rx!Put, Rx!Next
<1>2. ASSUME NEW t \in Readers, ReadCopy(t) PROVE Rx!Get
  <2>1. UNCHANGED taken BY <1>2, ReadCopyRings
  <2>2. PICK s \in Seq(Nat) : Len(s) >= 1 /\ delivered' = delivered \o s
    BY <1>2, ReadCopyRings
  <2>3. Rx!IsStrictPrefix(delivered, delivered')
    BY <1>0, <2>2, Longer DEF Rx!IsStrictPrefix, Rx!IsPrefix
  <2>4. Rx!IsPrefix(delivered', taken)
    <3>1. Ring(rx_buf', rx_in', rx_out', taken', delivered')
      BY DEF Inv, Rings, Ring, Used, Place
    <3> QED BY <1>0, <2>1, <3>1, TakenIsPrefix DEF Rx!IsPrefix
  <2> QED BY <1>0, <2>1, <2>3, <2>4 DEF Rx!Get
<1>3. CASE UNCHANGED <<taken, delivered>> BY <1>3 DEF Rx!chanVars
<1>4. \/ UNCHANGED <<taken, delivered>> \/ IrqReceive \/ \E t \in Readers : ReadCopy(t)
  <2>1. CASE QuietDevice \/ \E t \in Tasks : QuietTask(t)
    BY <2>1, QuietRings DEF rxVars
  <2>2. ASSUME NEW t \in Tasks, (t \in Writers /\ WriteLook(t))
                                \/ (t \in Readers /\ ReadLook(t))
        PROVE  UNCHANGED <<taken, delivered>>
    BY <2>2 DEF WriteLook, CallFrame, ReadLook, rxVars
  <2>3. ASSUME NEW t \in Writers, WriteCopy(t) PROVE UNCHANGED <<taken, delivered>>
    BY <2>3 DEF WriteCopy, CallFrame, rxVars
  <2>4. CASE IrqSend BY <2>4 DEF IrqSend, rxVars
  <2> QED BY RingCases, <2>1, <2>2, <2>3, <2>4
<1> QED BY <1>1, <1>2, <1>3, <1>4 DEF Rx!Next

\* What the host receives is what was written, in order, without gap or
\* repetition, and never more than the ring holds is under way: the copy of a
\* writer and the loop of the handler need no lock between them.
THEOREM TransmitIsAChannel == Spec => ImplementsTx
<1>1. Init => Tx!Init BY DEF Init, Tx!Init
<1>2. Inv /\ Inv' /\ [Next]_vars => [Tx!Next]_Tx!chanVars
  <2>1. UNCHANGED vars => UNCHANGED Tx!chanVars
    BY DEF vars, uartVars, txVars, Tx!chanVars
  <2> QED BY <2>1, TxStep
<1> QED BY <1>1, <1>2, InvAlways, PTL DEF Spec, ImplementsTx, Tx!Spec

\* And the same of what is typed and read.
THEOREM ReceiveIsAChannel == Spec => ImplementsRx
<1>1. Init => Rx!Init BY DEF Init, Rx!Init
<1>2. Inv /\ Inv' /\ [Next]_vars => [Rx!Next]_Rx!chanVars
  <2>1. UNCHANGED vars => UNCHANGED Rx!chanVars
    BY DEF vars, uartVars, rxVars, Rx!chanVars
  <2> QED BY <2>1, RxStep
<1> QED BY <1>1, <1>2, InvAlways, PTL DEF Spec, ImplementsRx, Rx!Spec
=============================================================================
