---------------------------- MODULE SerialProofs ----------------------------
(***************************************************************************)
(* The serial driver loses, doubles and reorders no byte, whatever the     *)
(* sizes of the buffers, the strings sent and the bytes received: the      *)
(* write path always, the read path as long as the line brings no NUL.     *)
(***************************************************************************)
EXTENDS Serial, SequenceTheorems, WellFoundedInduction, TLAPS

\* Seconds for a step, on a slow machine.
USE SMTT(30)

\* The calls in progress, in kernel code and in the handler.
Calls ==
    /\ kernel \in {Idle} \cup {[at |-> "kick"]}
                  \cup [at : {"lock"}, n : Nat, shouldTriggerTHRE : BOOLEAN]
    /\ handler \in [at : {"no", "serve", "push", "kick"}, todo : Seq(Nat)]
    /\ handler.at = "push" => handler.todo # <<>>

\* The bytes from base + 1 on.
From(s, base) == \A i \in 1 .. Len(s) : s[i] = base + i

\* The device reports an empty FIFO only while it is one, which is what makes
\* processTHRE safe.
Flags ==
    /\ ierTHRE \in BOOLEAN /\ threPending \in BOOLEAN /\ dataReady \in BOOLEAN
    /\ threPending => thr = <<>>

\* The write path piece by piece: the transmitter, its FIFO and the buffer hold
\* successive bytes.
Write ==
    /\ writeBuff \in Seq(Nat) /\ Len(writeBuff) <= BuffSize
    /\ thr \in Seq(Nat) /\ Len(thr) <= FifoSize
    /\ shift \in Seq(Nat) /\ Len(shift) <= 1
    /\ sent \in Nat /\ accepted \in Nat
    /\ From(shift, sent)
    /\ From(thr, sent + Len(shift))
    /\ From(writeBuff, sent + Len(shift) + Len(thr))
    /\ accepted = sent + Len(shift) + Len(thr) + Len(writeBuff)

Read ==
    /\ readBuff \in Seq(RxValues) /\ Len(readBuff) <= BuffSize
    /\ rx \in Seq(RxValues)
    /\ rxTaken \in Seq(RxValues) /\ delivered \in Seq(RxValues)
    /\ counter \in Nat

IInv == Calls /\ Flags /\ Write /\ Read

-----------------------------------------------------------------------------
\* The sizes are positive, and what processTHRE writes fits into an empty FIFO.
LEMMA Sizes ==
    /\ BuffSize \in Nat /\ InternalBufferSize \in Nat /\ FifoSize \in Nat
    /\ BuffSize > 0 /\ InternalBufferSize > 0 /\ FifoSize > 0
    /\ InternalBufferSize <= FifoSize
<1>1. /\ BuffSize \in Nat \ {0} /\ InternalBufferSize \in Nat \ {0}
      /\ FifoSize \in Nat \ {0}
  BY SerialAssumption, ZenonT(30)
<1>2. InternalBufferSize <= FifoSize
  BY SerialAssumption, ZenonT(30)
<1> QED BY <1>1, <1>2

\* Least is the minimum of two numbers.
LEMMA LeastType ==
    ASSUME NEW m \in Int, NEW n \in Int
    PROVE  /\ Least(m, n) \in Int /\ Least(m, n) <= m /\ Least(m, n) <= n
           /\ Least(m, n) \in {m, n}
BY DEF Least

\* What a prefix and the rest of a sequence are (the loops that move bytes).
LEMMA Split ==
    ASSUME NEW S, NEW s \in Seq(S), NEW n \in 0 .. Len(s)
    PROVE  /\ SubSeq(s, 1, n) \in Seq(S) /\ Len(SubSeq(s, 1, n)) = n
           /\ \A i \in 1 .. n : SubSeq(s, 1, n)[i] = s[i]
           /\ SubSeq(s, n + 1, Len(s)) \in Seq(S)
           /\ Len(SubSeq(s, n + 1, Len(s))) = Len(s) - n
           /\ \A i \in 1 .. Len(s) - n : SubSeq(s, n + 1, Len(s))[i] = s[n + i]
<1>1. Len(s) \in Nat /\ n \in Nat /\ \A i \in 1 .. Len(s) : s[i] \in S
  BY LenProperties, ElementOfSeq
<1>2. \A i \in 1 .. n : s[i] \in S
  BY <1>1
<1>3. \A i \in n + 1 .. Len(s) : s[i] \in S
  BY <1>1
<1>4. /\ SubSeq(s, 1, n) \in Seq(S)
      /\ Len(SubSeq(s, 1, n)) = IF 1 <= n THEN n - 1 + 1 ELSE 0
      /\ \A i \in 1 .. n - 1 + 1 : SubSeq(s, 1, n)[i] = s[1 + i - 1]
  BY <1>1, <1>2, SubSeqProperties
<1>5. /\ SubSeq(s, n + 1, Len(s)) \in Seq(S)
      /\ Len(SubSeq(s, n + 1, Len(s))) = IF n + 1 <= Len(s) THEN Len(s) - (n + 1) + 1 ELSE 0
      /\ \A i \in 1 .. Len(s) - (n + 1) + 1 : SubSeq(s, n + 1, Len(s))[i] = s[n + 1 + i - 1]
  BY <1>1, <1>3, SubSeqProperties
<1> QED BY <1>1, <1>4, <1>5

\* The initial state.
LEMMA InitIInv == Init => IInv
<1> SUFFICES ASSUME Init PROVE IInv
  OBVIOUS
<1>1. \A S : <<>> \in Seq(S) /\ Len(<<>>) = 0
  BY EmptySeq
<1>2. Calls
  BY <1>1 DEF Init, Calls, Idle, NotRunning
<1>3. From(<<>>, 0)
  BY <1>1 DEF From
<1>4. /\ writeBuff = <<>> /\ thr = <<>> /\ shift = <<>> /\ rx = <<>> /\ readBuff = <<>>
      /\ rxTaken = <<>> /\ delivered = <<>> /\ sent = 0 /\ accepted = 0 /\ counter = 0
  BY DEF Init
<1>5. Write
  BY <1>1, <1>3, <1>4, Sizes DEF Write, From
<1>6. Read
  BY <1>1, <1>4, Sizes DEF Read
<1>7. Flags
  BY Zenon DEF Init, Flags
<1> QED BY <1>2, <1>5, <1>6, <1>7 DEF IInv

-----------------------------------------------------------------------------
\* processTHRE keeps the bytes in order, provided that the FIFO is empty.
LEMMA ProcessTHREWrite ==
    ASSUME Write, thr = <<>>, NEW reported, processTHRE(reported), accepted' = accepted
    PROVE  /\ Write' /\ ierTHRE' = (ierTHRE /\ writeBuff' # <<>>)
           /\ threPending' = (reported /\ thr' = <<>>)
           /\ UNCHANGED <<rx, dataReady>>
<1> DEFINE n == Least(Len(writeBuff), InternalBufferSize)
           moved == SubSeq(writeBuff, 1, n)
           left == SubSeq(writeBuff, n + 1, Len(writeBuff))
<1>1. writeBuff \in Seq(Nat) /\ Len(writeBuff) \in Nat
  BY LenProperties DEF Write
<1>2. n \in 0 .. Len(writeBuff) /\ n <= FifoSize
  BY <1>1, Sizes DEF Least
<1>3. /\ moved \in Seq(Nat) /\ Len(moved) = n
      /\ \A i \in 1 .. n : moved[i] = writeBuff[i]
      /\ left \in Seq(Nat) /\ Len(left) = Len(writeBuff) - n
      /\ \A i \in 1 .. Len(writeBuff) - n : left[i] = writeBuff[n + i]
  <2> HIDE DEF n
  <2> QED BY <1>1, <1>2, Split
<1>4. thr \o moved = moved
  BY <1>3, ConcatEmptySeq
<1>5. Least(Len(thr \o moved), FifoSize) = Len(moved)
  <2> HIDE DEF n, moved
  <2> QED BY <1>2, <1>3, <1>4, Sizes DEF Least
<1>6. SubSeq(moved, 1, Len(moved)) = moved
  BY <1>3, SubSeqFull
<1>7. thr' = moved
  BY <1>4, <1>5, <1>6, ZenonT(30) DEF processTHRE
<1>8. writeBuff' = left /\ shift' = shift /\ sent' = sent /\ UNCHANGED <<rx, dataReady>>
  BY DEF processTHRE
<1>9. ierTHRE' = (ierTHRE /\ left # <<>>) /\ threPending' = (reported /\ n = 0)
  BY Zenon DEF processTHRE
<1> HIDE DEF n, moved, left
<1>10. n = 0 <=> thr' = <<>>
  BY <1>3, <1>7, EmptySeq
<1>11. Len(thr) = 0 /\ Len(shift) \in Nat
  BY EmptySeq, LenProperties DEF Write
<1>12. /\ sent \in Nat /\ shift \in Seq(Nat) /\ Len(shift) <= 1 /\ From(shift, sent)
       /\ accepted = sent + Len(shift) + Len(writeBuff) /\ Len(writeBuff) <= BuffSize
       /\ accepted \in Nat
       /\ \A i \in 1 .. Len(writeBuff) : writeBuff[i] = sent + Len(shift) + i
  BY <1>1, <1>11 DEF Write, From
<1>13. From(moved, sent + Len(shift))
  BY <1>1, <1>2, <1>3, <1>12 DEF From
<1>14. From(left, sent + Len(shift) + n)
  <2> SUFFICES ASSUME NEW i \in 1 .. Len(left)
               PROVE  left[i] = sent + Len(shift) + n + i
    BY DEF From
  <2>1. n + i \in 1 .. Len(writeBuff) /\ left[i] = writeBuff[n + i]
    BY <1>1, <1>2, <1>3
  <2>2. writeBuff[n + i] = sent + Len(shift) + (n + i)
    BY <1>12, <2>1
  <2> QED BY <1>1, <1>2, <1>3, <1>11, <1>12, <2>1, <2>2
<1>15. accepted = sent + Len(shift) + Len(moved) + Len(left) /\ Len(left) <= BuffSize
  BY <1>1, <1>2, <1>3, <1>11, <1>12, Sizes
<1>16. Write'
  BY <1>2, <1>3, <1>7, <1>8, <1>12, <1>13, <1>14, <1>15, Zenon DEF Write
<1>17. ierTHRE' = (ierTHRE /\ writeBuff' # <<>>) /\ threPending' = (reported /\ thr' = <<>>)
  BY <1>8, <1>9, <1>10, Zenon
<1> QED BY <1>8, <1>16, <1>17, ZenonT(30)

\* pushBackWriteBuffer puts the bytes it accepts behind those in the buffer.
LEMMA PushBytesWrite ==
    ASSUME Write, NEW n \in Nat, NEW trigger, PushBytes(n, trigger)
    PROVE  Write'
<1> DEFINE k == Fitting(n)
           new == [i \in 1 .. k |-> accepted + i]
<1>1. /\ writeBuff \in Seq(Nat) /\ Len(writeBuff) \in Nat /\ Len(writeBuff) <= BuffSize
      /\ Len(thr) \in Nat /\ Len(shift) \in Nat /\ accepted \in Nat /\ sent \in Nat
      /\ accepted = sent + Len(shift) + Len(thr) + Len(writeBuff)
      /\ \A i \in 1 .. Len(writeBuff) : writeBuff[i] = sent + Len(shift) + Len(thr) + i
  BY LenProperties DEF Write, From
<1>2. k \in Nat /\ Len(writeBuff) + k <= BuffSize
  BY <1>1, Sizes DEF Fitting, Least
<1>3. /\ writeBuff' = writeBuff \o new /\ accepted' = accepted + k
      /\ thr' = thr /\ shift' = shift /\ sent' = sent
  BY DEF PushBytes
<1> HIDE DEF k
<1>4. new \in [1 .. k -> Nat]
  BY <1>1, <1>2
<1>5. new \in Seq(Nat) /\ Len(new) = k
  BY <1>2, <1>4, SeqDef, LenProperties
<1>6. \A i \in 1 .. k : new[i] = accepted + i
  OBVIOUS
<1> HIDE DEF new
<1>7. /\ writeBuff \o new \in Seq(Nat)
      /\ Len(writeBuff \o new) = Len(writeBuff) + k
      /\ \A i \in 1 .. Len(writeBuff) + k : (writeBuff \o new)[i] =
            IF i <= Len(writeBuff) THEN writeBuff[i] ELSE new[i - Len(writeBuff)]
  BY <1>1, <1>5, ConcatProperties, Zenon
<1>8. From(writeBuff \o new, sent + Len(shift) + Len(thr))
  <2> SUFFICES ASSUME NEW i \in 1 .. Len(writeBuff) + k
               PROVE  (writeBuff \o new)[i] = sent + Len(shift) + Len(thr) + i
    BY <1>7 DEF From
  <2>1. CASE i <= Len(writeBuff)
    BY <1>1, <1>2, <1>7, <2>1
  <2>2. CASE i > Len(writeBuff)
    <3>1. i - Len(writeBuff) \in 1 .. k
      BY <1>1, <1>2, <2>2
    <3>2. new[i - Len(writeBuff)] = accepted + (i - Len(writeBuff))
      BY <1>6, <3>1
    <3>3. (writeBuff \o new)[i] = new[i - Len(writeBuff)]
      BY <1>1, <1>2, <1>7, <2>2
    <3> QED BY <1>1, <1>2, <3>2, <3>3
  <2>3. i <= Len(writeBuff) \/ i > Len(writeBuff)
    BY <1>1, <1>2
  <2> QED BY <2>1, <2>2, <2>3, Zenon
<1> QED BY <1>1, <1>2, <1>3, <1>7, <1>8 DEF Write

\* The transmitter takes a byte from the FIFO.
LEMMA StartByteWrite ==
    ASSUME Write, StartByte
    PROVE  Write'
<1>1. /\ thr \in Seq(Nat) /\ thr # <<>> /\ Len(thr) \in Nat /\ Len(thr) <= FifoSize
      /\ shift = <<>> /\ Len(shift) = 0 /\ Len(writeBuff) \in Nat
      /\ sent \in Nat /\ accepted \in Nat
      /\ accepted = sent + Len(thr) + Len(writeBuff)
      /\ \A i \in 1 .. Len(thr) : thr[i] = sent + i
      /\ \A i \in 1 .. Len(writeBuff) : writeBuff[i] = sent + Len(thr) + i
  BY LenProperties, EmptySeq DEF Write, From, StartByte
<1>2. /\ shift' = <<Head(thr)>> /\ thr' = Tail(thr)
      /\ UNCHANGED <<writeBuff, sent, accepted>>
  BY DEF StartByte
<1>3. /\ Head(thr) \in Nat /\ Tail(thr) \in Seq(Nat) /\ Len(Tail(thr)) = Len(thr) - 1
      /\ \A i \in 1 .. Len(Tail(thr)) : Tail(thr)[i] = thr[i + 1]
  BY <1>1, HeadTailProperties
<1>4. Len(thr) > 0 /\ Head(thr) = thr[1]
  BY <1>1, EmptySeq
<1>5. <<Head(thr)>> \in Seq(Nat) /\ Len(<<Head(thr)>>) = 1 /\ <<Head(thr)>>[1] = Head(thr)
  BY <1>3
<1>6. From(shift', sent')
  BY <1>1, <1>2, <1>4, <1>5 DEF From
<1>7. From(thr', sent' + Len(shift'))
  BY <1>1, <1>2, <1>3, <1>4, <1>5 DEF From
<1>8. From(writeBuff', sent' + Len(shift') + Len(thr'))
  BY <1>1, <1>2, <1>3, <1>4, <1>5 DEF From
<1>9. accepted' = sent' + Len(shift') + Len(thr') + Len(writeBuff')
  BY <1>1, <1>2, <1>3, <1>4, <1>5
<1>10. Len(thr') <= FifoSize /\ Len(shift') <= 1 /\ thr' \in Seq(Nat) /\ shift' \in Seq(Nat)
  BY <1>1, <1>2, <1>3, <1>5, Sizes
<1>11. /\ writeBuff' \in Seq(Nat) /\ Len(writeBuff') <= BuffSize
       /\ sent' \in Nat /\ accepted' \in Nat
  BY <1>2 DEF Write
<1> QED BY <1>6, <1>7, <1>8, <1>9, <1>10, <1>11 DEF Write

\* A byte leaves on the wire.
LEMMA FinishByteWrite ==
    ASSUME Write, FinishByte
    PROVE  Write'
<1>1. /\ shift \in Seq(Nat) /\ shift # <<>> /\ Len(shift) \in Nat /\ Len(shift) <= 1
      /\ Len(thr) \in Nat /\ Len(writeBuff) \in Nat /\ sent \in Nat /\ accepted \in Nat
  BY LenProperties DEF Write, FinishByte
<1>2. Len(shift) = 1
  <2>1. Len(shift) \in Nat \ {0}
    BY <1>1, EmptySeq
  <2>2. \A l \in Nat \ {0} : l <= 1 => l = 1
    OBVIOUS
  <2> QED BY <1>1, <2>1, <2>2, ZenonT(30)
<1>3. /\ shift' = <<>> /\ sent' = sent + 1 /\ UNCHANGED <<writeBuff, thr, accepted>>
  BY DEF FinishByte
<1>4. <<>> \in Seq(Nat) /\ Len(<<>>) = 0
  BY EmptySeq
<1>5. From(shift', sent')
  BY <1>3, <1>4 DEF From
<1>6. sent' + Len(shift') = sent + Len(shift)
  BY <1>1, <1>2, <1>3, <1>4
<1>7. sent' \in Nat /\ shift' \in Seq(Nat) /\ Len(shift') <= 1
  BY <1>1, <1>3, <1>4
<1> QED BY <1>3, <1>5, <1>6, <1>7 DEF Write

\* What strlen finds is a prefix of what was read.
LEMMA UpToNulType ==
    ASSUME NEW bytes \in Seq(RxValues)
    PROVE  UpToNul(bytes) \in Seq(RxValues)
<1>1. CASE \E i \in DOMAIN bytes : bytes[i] = NUL
  <2> DEFINE I == {i \in 1 .. Len(bytes) : bytes[i] = NUL}
  <2>1. Len(bytes) \in Nat /\ DOMAIN bytes = 1 .. Len(bytes)
    BY LenProperties
  <2>2. I # {} /\ I \subseteq Nat
    BY <1>1, <2>1
  <2>3. \E x \in I : \A y \in I : ~(<<y, x>> \in OpToRel(<, Nat))
    <3> HIDE DEF I
    <3> QED BY <2>2, NatLessThanWellFounded, WFMin, ZenonT(30)
  <2>4. \E x \in I : \A y \in I : x <= y
    <3>1. PICK x \in I : \A y \in I : ~(<<y, x>> \in OpToRel(<, Nat))
      BY <2>3, ZenonT(30)
    <3>2. ASSUME NEW y \in I PROVE x <= y
      <4>1. x \in Nat /\ y \in Nat /\ ~(<<y, x>> \in OpToRel(<, Nat))
        BY <2>2, <3>1, ZenonT(30)
      <4>2. ~(y < x)
        BY <4>1 DEF OpToRel
      <4>3. \A a, b \in Nat : ~(b < a) => a <= b
        OBVIOUS
      <4> QED BY <4>1, <4>2, <4>3, ZenonT(30)
    <3> QED BY <3>2
  <2>5. Min(I) \in I
    <3> HIDE DEF I
    <3> QED BY <2>4, ZenonT(30) DEF Min
  <2>6. SelectInSeq(bytes, LAMBDA b : b = NUL) = Min(I)
    BY <2>2 DEF SelectInSeq
  <2>7. Min(I) - 1 \in 0 .. Len(bytes)
    <3>1. Min(I) \in 1 .. Len(bytes)
      BY <2>5
    <3> QED BY <2>1, <3>1
  <2>8. UpToNul(bytes) = SubSeq(bytes, 1, Min(I) - 1)
    BY <1>1, <2>6, ZenonT(30) DEF UpToNul
  <2> HIDE DEF I
  <2> QED BY <2>7, <2>8, Split
<1>2. CASE ~(\E i \in DOMAIN bytes : bytes[i] = NUL)
  BY <1>2 DEF UpToNul
<1> QED BY <1>1, <1>2

\* Without NUL it is all of it.
LEMMA UpToNulAll ==
    ASSUME NEW bytes \in Seq(RxValues), NUL \notin RxValues
    PROVE  UpToNul(bytes) = bytes
<1>1. ~(\E i \in DOMAIN bytes : bytes[i] = NUL)
  BY LenProperties, ElementOfSeq
<1> QED BY <1>1 DEF UpToNul

\* processAvailableData reads a part of what came in, stores a prefix of it that
\* fits, all of it if there is room and no NUL, and goes on to send some strings.
LEMMA AvailableData ==
    ASSUME Read, NEW l \in Nat, processAvailableData(l)
    PROVE  /\ Read'
           /\ \E todo \in Seq(Nat) : handler' = Serving(todo)
           /\ counter' = 0 /\ NUL \notin RxValues =>
                /\ counter = 0
                /\ \E temp \in Seq(RxValues) :
                     rxTaken' = rxTaken \o temp /\ readBuff' = readBuff \o temp
<1> DEFINE n == Least(Len(rx), InternalBufferSize)
           bytes == SubSeq(rx, 1, n)
           temp == UpToNul(bytes)
           k == Least(Len(temp), BuffSize - Len(readBuff))
           full == k < Len(temp)
           message == IF full /\ (counter + 1) % DiscardPeriod = 0 THEN <<l>> ELSE <<>>
           echo == IF temp = <<>> THEN <<>> ELSE <<Len(temp)>>
<1>1. /\ rx' = SubSeq(rx, n + 1, Len(rx)) /\ rxTaken' = rxTaken \o bytes
      /\ readBuff' = readBuff \o SubSeq(temp, 1, k) /\ delivered' = delivered
      /\ counter' = IF full THEN counter + 1 ELSE counter
      /\ handler' = Serving(message \o echo)
  BY DEF processAvailableData
<1>2. /\ rx \in Seq(RxValues) /\ Len(rx) \in Nat /\ counter \in Nat
      /\ readBuff \in Seq(RxValues) /\ Len(readBuff) \in Nat /\ Len(readBuff) <= BuffSize
      /\ rxTaken \in Seq(RxValues) /\ delivered \in Seq(RxValues)
  BY LenProperties DEF Read
<1>3. n \in 0 .. Len(rx)
  BY <1>2, Sizes DEF Least
<1> HIDE DEF n
<1>4. bytes \in Seq(RxValues) /\ SubSeq(rx, n + 1, Len(rx)) \in Seq(RxValues)
  BY <1>2, <1>3, Split
<1> HIDE DEF bytes
<1>5. temp \in Seq(RxValues) /\ Len(temp) \in Nat
  BY <1>4, UpToNulType, LenProperties
<1>6. NUL \notin RxValues => temp = bytes
  BY <1>4, UpToNulAll
<1> HIDE DEF temp
<1>7. k \in 0 .. Len(temp) /\ Len(readBuff) + k <= BuffSize
  BY <1>2, <1>5, Sizes DEF Least
<1>8. ~full => k = Len(temp)
  BY <1>5, <1>7
<1> HIDE DEF k
<1>9. SubSeq(temp, 1, k) \in Seq(RxValues) /\ Len(SubSeq(temp, 1, k)) = k
  BY <1>5, <1>7, Split
<1>10. /\ readBuff' \in Seq(RxValues) /\ Len(readBuff') = Len(readBuff) + k
       /\ rxTaken' \in Seq(RxValues)
  BY <1>1, <1>2, <1>4, <1>9, ConcatProperties
<1>11. counter' \in Nat
  BY <1>1, <1>2
<1>12. Read'
  BY <1>1, <1>2, <1>4, <1>7, <1>10, <1>11 DEF Read
<1>13. message \o echo \in Seq(Nat)
  <2>1. message \in Seq(Nat) /\ echo \in Seq(Nat)
    BY <1>5
  <2> QED BY <2>1, ConcatProperties
<1>14. ASSUME counter' = 0, NUL \notin RxValues
       PROVE  /\ counter = 0
              /\ rxTaken' = rxTaken \o temp /\ readBuff' = readBuff \o temp
  <2>1. ~full /\ counter = 0
    BY <1>1, <1>2, <1>14
  <2>2. SubSeq(temp, 1, k) = temp
    BY <1>5, <1>8, <2>1, SubSeqFull
  <2> QED BY <1>1, <1>6, <1>14, <2>1, <2>2, Zenon
<1> HIDE DEF full, message, echo
<1> QED BY <1>1, <1>5, <1>12, <1>13, <1>14, Zenon

\* The handler with strings to send.
LEMMA ServingType ==
    ASSUME NEW todo \in Seq(Nat)
    PROVE  /\ Serving(todo) \in [at : {"no", "serve", "push", "kick"}, todo : Seq(Nat)]
           /\ Serving(todo).at = "push" => Serving(todo).todo # <<>>
           /\ Serving(todo).at \in {"serve", "push"}
BY DEF Serving
\* The end of pushBackWriteBuffer runs processTHRE only when the FIFO is empty.
LEMMA KickWrite ==
    ASSUME Write, Flags, Kick, accepted' = accepted
    PROVE  Write' /\ Flags' /\ UNCHANGED rx
<1>1. CASE TEMT /\ processTHRE(threPending)
  <2>1. thr = <<>>
    BY <1>1 DEF TEMT
  <2>2. /\ Write' /\ ierTHRE' = (ierTHRE /\ writeBuff' # <<>>)
        /\ threPending' = (threPending /\ thr' = <<>>) /\ UNCHANGED <<rx, dataReady>>
    BY <1>1, <2>1, ProcessTHREWrite, ZenonT(30)
  <2> QED BY <2>2, ZenonT(30) DEF Flags
<1>2. CASE UNCHANGED <<writeBuff, ierTHRE, device>>
  <2>1. /\ writeBuff' = writeBuff /\ ierTHRE' = ierTHRE /\ thr' = thr /\ shift' = shift
        /\ threPending' = threPending /\ rx' = rx /\ dataReady' = dataReady /\ sent' = sent
    BY <1>2 DEF device
  <2>2. Write'
    BY <2>1 DEF Write, From
  <2> QED BY <2>1, <2>2, ZenonT(30) DEF Flags
<1> QED BY <1>1, <1>2, ZenonT(30) DEF Kick

\* pushBackWriteBuffer and the reports of the device.
LEMMA PushBytesFlags ==
    ASSUME Flags, NEW n, NEW trigger \in BOOLEAN, PushBytes(n, trigger)
    PROVE  Flags' /\ UNCHANGED rx
<1>1. /\ thr' = thr /\ rx' = rx /\ dataReady' = dataReady
  BY DEF PushBytes
<1>2. /\ ierTHRE' \in BOOLEAN /\ threPending' \in BOOLEAN
      /\ threPending' => threPending \/ thr = <<>>
  BY ZenonT(30) DEF PushBytes, Flags
<1> QED BY <1>1, <1>2, ZenonT(30) DEF Flags

-----------------------------------------------------------------------------
\* Steps of the device.
LEMMA DeviceIInv ==
    ASSUME IInv, Device \/ ReceiveByte
    PROVE  IInv'
<1> USE DEF IInv
<1>1. UNCHANGED <<kernel, handler, readBuff, rxTaken, delivered, counter>>
  BY DEF Device, ReceiveByte, StartByte, FinishByte, ReportData, reading
<1>2. Calls'
  BY <1>1 DEF Calls
<1>3. ASSUME rx' = rx PROVE Read'
  BY <1>1, <1>3 DEF Read
<1>4. CASE StartByte
  <2>1. rx' = rx /\ dataReady' = dataReady /\ ierTHRE' = ierTHRE /\ thr' = Tail(thr)
    BY <1>4 DEF StartByte
  <2>2. threPending' = (Tail(thr) = <<>>)
    BY <1>4, ZenonT(30) DEF StartByte
  <2>3. Flags'
    BY <2>1, <2>2, ZenonT(30) DEF Flags
  <2> QED BY <1>2, <1>3, <1>4, <2>1, <2>3, StartByteWrite
<1>5. CASE FinishByte
  <2>1. /\ rx' = rx /\ dataReady' = dataReady /\ ierTHRE' = ierTHRE /\ thr' = thr
        /\ threPending' = threPending
    BY <1>5 DEF FinishByte
  <2>2. Flags'
    BY <2>1, ZenonT(30) DEF Flags
  <2> QED BY <1>2, <1>3, <1>5, <2>1, <2>2, FinishByteWrite
<1>6. CASE ReportData
  <2>1. /\ rx' = rx /\ ierTHRE' = ierTHRE /\ thr' = thr /\ threPending' = threPending
        /\ UNCHANGED <<writeBuff, shift, sent, accepted>>
    BY <1>6 DEF ReportData
  <2>2. dataReady' = TRUE
    BY <1>6, ZenonT(30) DEF ReportData
  <2>3. Flags'
    BY <2>1, <2>2, ZenonT(30) DEF Flags
  <2>4. Write'
    BY <2>1 DEF Write, From
  <2> QED BY <1>2, <1>3, <2>1, <2>3, <2>4
<1>7. CASE ReceiveByte
  <2>1. /\ dataReady' = dataReady /\ ierTHRE' = ierTHRE /\ thr' = thr
        /\ threPending' = threPending /\ UNCHANGED <<writeBuff, shift, sent, accepted>>
    BY <1>7 DEF ReceiveByte
  <2>2. PICK b \in RxValues : rx' = Append(rx, b)
    BY <1>7 DEF ReceiveByte
  <2>3. rx' \in Seq(RxValues)
    BY <2>2, AppendProperties DEF Read
  <2>4. Read'
    BY <1>1, <2>3 DEF Read
  <2>5. Flags'
    BY <2>1, ZenonT(30) DEF Flags
  <2>6. Write'
    BY <2>1 DEF Write, From
  <2> QED BY <1>2, <2>4, <2>5, <2>6
<1> QED BY <1>4, <1>5, <1>6, <1>7 DEF Device
-----------------------------------------------------------------------------
\* Lengths of strings and of messages are numbers.
LEMMA Lengths == (\A n \in StringLengths : n \in Nat) /\ (\A n \in LogLengths : n \in Nat)
<1>1. \A n \in LogLengths : n \in Nat \ {0}
  BY SerialAssumption, ZenonT(30)
<1>2. \A n \in StringLengths : n \in Nat
  BY SerialAssumption, ZenonT(30)
<1> QED BY <1>1, <1>2

\* Steps of kernel code.
LEMMA KernelIInv ==
    ASSUME IInv, Kernel \/ receiveByte \/ \E n \in StringLengths : sendString(n)
    PROVE  IInv'
<1> USE DEF IInv
<1>1. UNCHANGED handler
  BY DEF Kernel, KernelPush, KernelKick, receiveByte, sendString
<1>2. CASE \E n \in StringLengths : sendString(n)
  <2>1. PICK n \in StringLengths : sendString(n)
    BY <1>2
  <2>2. /\ UNCHANGED <<writeBuff, thr, shift, sent, accepted>>
        /\ UNCHANGED <<readBuff, rx, rxTaken, delivered, counter>>
        /\ ierTHRE' = ierTHRE /\ threPending' = threPending /\ dataReady' = dataReady
    BY <2>1, ZenonT(30) DEF sendString, device, reading
  <2>3. n \in Nat
    BY Lengths
  <2>4. DEFINE empty == writeBuff = <<>>
  <2>5. empty \in BOOLEAN
    BY ZenonT(30)
  <2>6. kernel' = IF n = 0 THEN Idle ELSE [at |-> "lock", n |-> n, shouldTriggerTHRE |-> empty]
    BY <2>1, ZenonT(30) DEF sendString
  <2> HIDE DEF empty
  <2>7. Calls'
    BY <1>1, <2>3, <2>5, <2>6 DEF Calls
  <2>8. Write'
    BY <2>2 DEF Write, From
  <2>9. Read'
    BY <2>2 DEF Read
  <2>10. Flags'
    <3>1. thr' = thr
      BY <2>2
    <3> QED BY <2>2, <3>1, ZenonT(30) DEF Flags
  <2> QED BY <2>7, <2>8, <2>9, <2>10
<1>3. CASE KernelPush
  <2>1. kernel.n \in Nat /\ kernel.shouldTriggerTHRE \in BOOLEAN
    BY <1>3 DEF KernelPush, Calls, Idle
  <2>2. PushBytes(kernel.n, kernel.shouldTriggerTHRE) /\ UNCHANGED reading
    BY <1>3 DEF KernelPush
  <2>3. Write'
    BY <2>1, <2>2, PushBytesWrite
  <2>4. Flags' /\ rx' = rx
    BY <2>1, <2>2, PushBytesFlags
  <2>5. Read'
    BY <2>2, <2>4 DEF Read, reading
  <2>6. Calls'
    BY <1>1, <1>3 DEF KernelPush, Calls
  <2> QED BY <2>3, <2>4, <2>5, <2>6
<1>4. CASE KernelKick
  <2>1. Kick /\ kernel' = Idle /\ accepted' = accepted /\ UNCHANGED reading
    BY <1>4 DEF KernelKick
  <2>2. Write' /\ Flags' /\ rx' = rx
    BY <2>1, KickWrite
  <2>3. Read'
    BY <2>1, <2>2 DEF Read, reading
  <2>4. Calls'
    BY <1>1, <2>1 DEF Calls
  <2> QED BY <2>2, <2>3, <2>4
<1>5. CASE receiveByte
  <2>1. /\ UNCHANGED <<writeBuff, thr, shift, sent, accepted, kernel>>
        /\ UNCHANGED <<rx, rxTaken, counter>>
        /\ ierTHRE' = ierTHRE /\ threPending' = threPending /\ dataReady' = dataReady
    BY <1>5 DEF receiveByte, device
  <2>2. readBuff \in Seq(RxValues) /\ readBuff # <<>> /\ delivered \in Seq(RxValues)
    BY <1>5 DEF receiveByte, Read
  <2>3. /\ Head(readBuff) \in RxValues /\ Tail(readBuff) \in Seq(RxValues)
        /\ Len(Tail(readBuff)) = Len(readBuff) - 1 /\ Len(readBuff) \in Nat
    BY <2>2, HeadTailProperties, LenProperties
  <2>4. Append(delivered, Head(readBuff)) \in Seq(RxValues)
    BY <2>2, <2>3, AppendProperties
  <2>5. readBuff' = Tail(readBuff) /\ delivered' = Append(delivered, Head(readBuff))
    BY <1>5 DEF receiveByte
  <2>6. Read'
    BY <2>1, <2>3, <2>4, <2>5, Sizes DEF Read
  <2>7. Write'
    BY <2>1 DEF Write, From
  <2>8. Calls'
    BY <1>1, <2>1 DEF Calls
  <2>9. Flags'
    <3>1. thr' = thr
      BY <2>1
    <3> QED BY <2>1, <3>1, ZenonT(30) DEF Flags
  <2> QED BY <2>6, <2>7, <2>8, <2>9
<1> QED BY <1>2, <1>3, <1>4, <1>5 DEF Kernel
\* Steps of the interrupt handler.
LEMMA HandlerIInv ==
    ASSUME IInv, Handler \/ \E n \in LogLengths : ServeLine(n)
    PROVE  IInv'
<1> USE DEF IInv
<1>1. UNCHANGED kernel
  BY ZenonT(30) DEF Handler, IrqEnter, ServeData, processAvailableData, HandlerPush, HandlerKick, ServeTHRE,
         IrqExit, ServeLine
<1>2. ASSUME NEW todo \in Seq(Nat), handler' = Serving(todo)
      PROVE  Calls'
  BY <1>1, <1>2, ServingType DEF Calls
<1>3. ASSUME UNCHANGED <<writeBuff, ierTHRE, accepted, device, reading>>
      PROVE  Flags' /\ Write' /\ Read'
  <2>1. /\ UNCHANGED <<writeBuff, thr, shift, sent, accepted>>
        /\ UNCHANGED <<readBuff, rx, rxTaken, delivered, counter>>
        /\ ierTHRE' = ierTHRE /\ threPending' = threPending /\ dataReady' = dataReady
        /\ thr' = thr
    BY <1>3 DEF device, reading
  <2>2. Write'
    BY <2>1 DEF Write, From
  <2>3. Read'
    BY <2>1 DEF Read
  <2>4. Flags'
    BY <2>1, ZenonT(30) DEF Flags
  <2> QED BY <2>2, <2>3, <2>4
<1>4. <<>> \in Seq(Nat) /\ \A n \in Nat : <<n>> \in Seq(Nat)
  OBVIOUS
<1>5. CASE IrqEnter
  <2>1. handler' = Serving(<<>>) /\ UNCHANGED <<writeBuff, ierTHRE, accepted, device, reading>>
    BY <1>5 DEF IrqEnter
  <2> QED BY <1>2, <1>3, <1>4, <2>1, ZenonT(30)
<1>6. CASE \E n \in LogLengths : ServeLine(n)
  <2>1. PICK n \in LogLengths : ServeLine(n)
    BY <1>6
  <2>2. handler' = Serving(<<n>>) /\ UNCHANGED <<writeBuff, ierTHRE, accepted, device, reading>>
    BY <2>1 DEF ServeLine
  <2>3. <<n>> \in Seq(Nat)
    BY <1>4, Lengths
  <2> QED BY <1>2, <1>3, <2>2, <2>3, ZenonT(30)
<1>7. CASE ServeData
  <2>1. PICK l \in LogLengths : processAvailableData(l)
    BY <1>7 DEF ServeData
  <2>2. Read' /\ \E todo \in Seq(Nat) : handler' = Serving(todo)
    BY <2>1, Lengths, AvailableData
  <2>3. /\ UNCHANGED <<writeBuff, thr, shift, sent, accepted>>
        /\ ierTHRE' = ierTHRE /\ threPending' = threPending /\ thr' = thr
    BY <2>1 DEF processAvailableData
  <2>4. dataReady' = FALSE
    BY <2>1, ZenonT(30) DEF processAvailableData
  <2>5. Write'
    BY <2>3 DEF Write, From
  <2>6. Flags'
    BY <2>3, <2>4, ZenonT(30) DEF Flags
  <2> QED BY <1>2, <2>2, <2>5, <2>6
<1>8. CASE HandlerPush
  <2> DEFINE n == Head(handler.todo)
             empty == writeBuff = <<>>
  <2>1. /\ PushBytes(n, empty) /\ UNCHANGED reading
        /\ handler' = IF Fitting(n) = n THEN [at |-> "kick", todo |-> Tail(handler.todo)]
                      ELSE Serving(Tail(handler.todo))
    BY <1>8 DEF HandlerPush
  <2>2. handler.todo \in Seq(Nat) /\ handler.todo # <<>>
    BY <1>8 DEF HandlerPush, Calls
  <2>3. n \in Nat /\ Tail(handler.todo) \in Seq(Nat)
    BY <2>2, HeadTailProperties
  <2>4. empty \in BOOLEAN
    BY ZenonT(30)
  <2> HIDE DEF n, empty
  <2>5. Write'
    BY <2>1, <2>3, PushBytesWrite
  <2>6. Flags' /\ rx' = rx
    BY <2>1, <2>4, PushBytesFlags
  <2>7. Read'
    BY <2>1, <2>6 DEF Read, reading
  <2>8. Calls'
    <3>1. CASE handler' = Serving(Tail(handler.todo))
      BY <1>2, <2>3, <3>1, ZenonT(30)
    <3>2. CASE handler' = [at |-> "kick", todo |-> Tail(handler.todo)]
      BY <1>1, <2>3, <3>2 DEF Calls
    <3> QED BY <2>1, <3>1, <3>2
  <2> QED BY <2>5, <2>6, <2>7, <2>8
<1>9. CASE HandlerKick
  <2>1. /\ Kick /\ handler' = Serving(handler.todo) /\ accepted' = accepted
        /\ UNCHANGED reading
    BY <1>9 DEF HandlerKick
  <2>2. Write' /\ Flags' /\ rx' = rx
    BY <2>1, KickWrite
  <2>3. Read'
    BY <2>1, <2>2 DEF Read, reading
  <2>4. handler.todo \in Seq(Nat)
    BY DEF Calls
  <2> QED BY <1>2, <2>1, <2>2, <2>3, <2>4
<1>10. CASE ServeTHRE
  <2>1. thr = <<>>
    BY <1>10, ZenonT(30) DEF ServeTHRE, TransmitPending, Flags
  <2>2. processTHRE(FALSE) /\ accepted' = accepted /\ UNCHANGED reading /\ UNCHANGED handler
    BY <1>10, ZenonT(30) DEF ServeTHRE
  <2>3. /\ Write' /\ ierTHRE' = (ierTHRE /\ writeBuff' # <<>>)
        /\ threPending' = (FALSE /\ thr' = <<>>) /\ UNCHANGED <<rx, dataReady>>
    BY <2>1, <2>2, ProcessTHREWrite, Zenon
  <2>4. Flags'
    BY <2>3, Zenon DEF Flags
  <2>5. Read'
    BY <2>2, <2>3 DEF Read, reading
  <2>6. Calls'
    BY <1>1, <2>2 DEF Calls
  <2> QED BY <2>3, <2>4, <2>5, <2>6
<1>11. CASE IrqExit
  <2>1. handler' = NotRunning /\ UNCHANGED <<writeBuff, ierTHRE, accepted, device, reading>>
    BY <1>11 DEF IrqExit
  <2>2. Calls'
    BY <1>1, <1>4, <2>1 DEF Calls, NotRunning
  <2> QED BY <1>3, <2>1, <2>2
<1> QED BY <1>5, <1>6, <1>7, <1>8, <1>9, <1>10, <1>11 DEF Handler
-----------------------------------------------------------------------------
\* Every step preserves the invariant.
LEMMA NextIInv ==
    ASSUME IInv, [Next]_vars
    PROVE  IInv'
<1>1. CASE Next
  BY <1>1, DeviceIInv, HandlerIInv, KernelIInv DEF Next
<1>2. CASE UNCHANGED vars
  <2>1. /\ UNCHANGED <<writeBuff, thr, shift, sent, accepted, kernel, handler>>
        /\ UNCHANGED <<readBuff, rx, rxTaken, delivered, counter>>
        /\ ierTHRE' = ierTHRE /\ threPending' = threPending /\ dataReady' = dataReady
        /\ thr' = thr
    BY <1>2 DEF vars, device, reading
  <2>2. Flags'
    BY <2>1, ZenonT(30) DEF IInv, Flags
  <2>3. Calls'
    BY <2>1 DEF IInv, Calls
  <2>4. Write'
    BY <2>1 DEF IInv, Write, From
  <2>5. Read'
    BY <2>1 DEF IInv, Read
  <2> QED BY <2>2, <2>3, <2>4, <2>5 DEF IInv
<1> QED BY <1>1, <1>2

\* The invariant holds of every behaviour.
LEMMA SpecIInv == Spec => []IInv
<1>1. IInv /\ [Next]_vars => IInv'
  BY NextIInv
<1> QED BY <1>1, InitIInv, PTL DEF Spec

\* The pieces of the write path, put together.
LEMMA InOrder ==
    ASSUME IInv
    PROVE  TransmitInOrder
<1> DEFINE a == shift \o thr
           all == a \o writeBuff
<1>1. /\ shift \in Seq(Nat) /\ thr \in Seq(Nat) /\ writeBuff \in Seq(Nat) /\ sent \in Nat
      /\ Len(shift) \in Nat /\ Len(thr) \in Nat /\ Len(writeBuff) \in Nat
      /\ accepted = sent + Len(shift) + Len(thr) + Len(writeBuff)
      /\ \A i \in 1 .. Len(shift) : shift[i] = sent + i
      /\ \A i \in 1 .. Len(thr) : thr[i] = sent + Len(shift) + i
      /\ \A i \in 1 .. Len(writeBuff) : writeBuff[i] = sent + Len(shift) + Len(thr) + i
  BY LenProperties DEF IInv, Write, From
<1>2. /\ a \in Seq(Nat) /\ Len(a) = Len(shift) + Len(thr)
      /\ \A i \in 1 .. Len(a) : a[i] = IF i <= Len(shift) THEN shift[i] ELSE thr[i - Len(shift)]
  BY <1>1, ConcatProperties
<1> HIDE DEF a
<1>3. /\ all \in Seq(Nat) /\ Len(all) = Len(a) + Len(writeBuff)
      /\ \A i \in 1 .. Len(all) : all[i] = IF i <= Len(a) THEN a[i] ELSE writeBuff[i - Len(a)]
  <2>1. /\ a \o writeBuff \in Seq(Nat)
        /\ Len(a \o writeBuff) = Len(a) + Len(writeBuff)
        /\ \A i \in 1 .. Len(a) + Len(writeBuff) : (a \o writeBuff)[i] =
              IF i <= Len(a) THEN a[i] ELSE writeBuff[i - Len(a)]
    <3>1. a \in Seq(Nat) /\ writeBuff \in Seq(Nat)
      BY <1>1, <1>2
    <3> QED BY <3>1, ConcatProperties
  <2> QED BY <2>1, ZenonT(30)
<1> HIDE DEF all
<1>4. ASSUME NEW i \in 1 .. Len(a) PROVE a[i] = sent + i
  <2>1. CASE i <= Len(shift)
    <3>1. i \in 1 .. Len(shift) /\ a[i] = shift[i]
      BY <1>1, <1>2, <2>1
    <3> QED BY <1>1, <3>1
  <2>2. CASE i > Len(shift)
    <3>1. i - Len(shift) \in 1 .. Len(thr)
      BY <1>1, <1>2, <2>2
    <3>2. thr[i - Len(shift)] = sent + Len(shift) + (i - Len(shift))
      BY <1>1, <3>1
    <3>3. a[i] = thr[i - Len(shift)]
      BY <1>1, <1>2, <2>2
    <3> QED BY <1>1, <1>2, <3>2, <3>3
  <2> QED BY <1>1, <1>2, <2>1, <2>2
<1>5. ASSUME NEW i \in 1 .. Len(all) PROVE all[i] = sent + i
  <2>1. CASE i <= Len(a)
    BY <1>1, <1>2, <1>3, <1>4, <2>1
  <2>2. CASE i > Len(a)
    <3>1. i - Len(a) \in 1 .. Len(writeBuff)
      BY <1>1, <1>2, <1>3, <2>2
    <3>2. writeBuff[i - Len(a)] = sent + Len(a) + (i - Len(a))
      BY <1>1, <1>2, <3>1
    <3>3. all[i] = writeBuff[i - Len(a)]
      BY <1>1, <1>2, <1>3, <2>2
    <3> QED BY <1>1, <1>2, <1>3, <3>2, <3>3
  <2> QED BY <1>1, <1>2, <1>3, <2>1, <2>2
<1>6. DOMAIN all = 1 .. Len(all)
  BY <1>3, LenProperties
<1>7. Numbered(all)
  BY <1>5, <1>6 DEF Numbered
<1>8. sent + Len(all) = accepted
  BY <1>1, <1>2, <1>3
<1> QED BY <1>7, <1>8 DEF TransmitInOrder, all, a

\* The types follow from the invariant.
LEMMA Types ==
    ASSUME IInv
    PROVE  TypeOK
<1>1. {ierTHRE, threPending, dataReady} \subseteq BOOLEAN
  BY ZenonT(30) DEF IInv, Flags
<1>2. kernel.at \in {"idle", "lock", "kick"} /\ handler.at \in {"no", "serve", "push", "kick"}
  BY DEF IInv, Calls, Idle
<1> QED BY <1>1, <1>2 DEF IInv, Write, Read, TypeOK

\* Every byte that pushBackWriteBuffer accepts leaves once and in order, for buffers,
\* FIFOs and strings of all sizes, and however kernel code, the interrupt handler and
\* the device interleave: processTHRE runs only while the FIFO is empty.
THEOREM WritePathCorrect == Spec => [](TypeOK /\ TransmitInOrder)
<1>1. IInv => TypeOK /\ TransmitInOrder
  BY InOrder, Types
<1> QED BY <1>1, SpecIInv, PTL

\* No buffer of the driver and no FIFO of the device holds more than its size, whatever
\* the sizes and however the kernel, the handler and the device interleave.
THEOREM BuffersBounded == Spec => []TypeOK
BY WritePathCorrect, PTL

-----------------------------------------------------------------------------
\* Kernel code takes the first byte of the read buffer.
LEMMA TakeFirst ==
    ASSUME Read, receiveByte
    PROVE  delivered' \o readBuff' = delivered \o readBuff
<1> DEFINE first == <<Head(readBuff)>>
<1>1. /\ readBuff \in Seq(RxValues) /\ readBuff # <<>> /\ delivered \in Seq(RxValues)
      /\ readBuff' = Tail(readBuff) /\ delivered' = Append(delivered, Head(readBuff))
  BY DEF receiveByte, Read
<1>2. /\ Head(readBuff) \in RxValues /\ Tail(readBuff) \in Seq(RxValues)
      /\ Len(Tail(readBuff)) = Len(readBuff) - 1 /\ Len(readBuff) \in Nat
      /\ \A i \in 1 .. Len(Tail(readBuff)) : Tail(readBuff)[i] = readBuff[i + 1]
      /\ Len(readBuff) > 0 /\ Head(readBuff) = readBuff[1]
  BY <1>1, HeadTailProperties, LenProperties, EmptySeq
<1>3. first \in Seq(RxValues) /\ Len(first) = 1 /\ first[1] = readBuff[1]
  BY <1>2
<1>4. Append(delivered, Head(readBuff)) = delivered \o first
  BY <1>1, <1>2, AppendIsConcat
<1> HIDE DEF first
<1>5. /\ first \o Tail(readBuff) \in Seq(RxValues)
      /\ Len(first \o Tail(readBuff)) = Len(readBuff)
      /\ \A i \in 1 .. Len(readBuff) : (first \o Tail(readBuff))[i] =
            IF i <= 1 THEN first[i] ELSE Tail(readBuff)[i - 1]
  <2>1. Len(first) + Len(Tail(readBuff)) = Len(readBuff)
    BY <1>2, <1>3
  <2>2. /\ first \o Tail(readBuff) \in Seq(RxValues)
        /\ Len(first \o Tail(readBuff)) = Len(first) + Len(Tail(readBuff))
        /\ \A i \in 1 .. Len(first) + Len(Tail(readBuff)) : (first \o Tail(readBuff))[i] =
              IF i <= Len(first) THEN first[i] ELSE Tail(readBuff)[i - Len(first)]
    <3>1. first \in Seq(RxValues) /\ Tail(readBuff) \in Seq(RxValues)
      BY <1>2, <1>3
    <3> QED BY <3>1, ConcatProperties
  <2> QED BY <1>3, <2>1, <2>2, ZenonT(30)
<1>6. ASSUME NEW i \in 1 .. Len(readBuff)
      PROVE  (first \o Tail(readBuff))[i] = readBuff[i]
  <2>1. CASE i = 1
    BY <1>3, <1>5, <2>1
  <2>2. CASE i > 1
    <3>1. i - 1 \in 1 .. Len(Tail(readBuff)) /\ (i - 1) + 1 = i
      BY <1>2, <2>2
    <3>2. Tail(readBuff)[i - 1] = readBuff[i]
      BY <1>2, <3>1
    <3> QED BY <1>2, <1>5, <2>2, <3>2
  <2>3. i = 1 \/ i > 1
    BY <1>2
  <2> QED BY <2>1, <2>2, <2>3, Zenon
<1>7. first \o Tail(readBuff) = readBuff
  BY <1>1, <1>5, <1>6, SeqEqual, Zenon
<1>8. (delivered \o first) \o Tail(readBuff) = delivered \o (first \o Tail(readBuff))
  <2> DEFINE rest == Tail(readBuff)
  <2>1. /\ delivered \in Seq(RxValues) /\ first \in Seq(RxValues)
        /\ rest \in Seq(RxValues)
    BY <1>1, <1>2, <1>3
  <2> HIDE DEF rest
  <2>2. (delivered \o first) \o rest = delivered \o (first \o rest)
    BY <2>1, ConcatAssociative
  <2> QED BY <2>2, ZenonT(30) DEF rest
<1> QED BY <1>1, <1>4, <1>7, <1>8

\* Each step keeps the read path exact.
LEMMA ReadPathStep ==
    ASSUME IInv, ReadPathExact, NUL \notin RxValues, [Next]_vars
    PROVE  ReadPathExact'
<1>1. CASE UNCHANGED reading
  BY <1>1 DEF reading, ReadPathExact
<1>2. CASE receiveByte
  <2>1. counter' = counter /\ rxTaken' = rxTaken
    BY <1>2 DEF receiveByte
  <2>2. delivered' \o readBuff' = delivered \o readBuff
    BY <1>2, TakeFirst DEF IInv
  <2> QED BY <2>1, <2>2 DEF ReadPathExact
<1>3. CASE ServeData
  <2> SUFFICES ASSUME counter' = 0
               PROVE  delivered' \o readBuff' = rxTaken'
    BY DEF ReadPathExact
  <2>1. PICK l \in LogLengths : processAvailableData(l)
    BY <1>3 DEF ServeData
  <2>2. Read /\ l \in Nat
    BY Lengths DEF IInv
  <2>3. counter = 0 /\ \E temp \in Seq(RxValues) :
          rxTaken' = rxTaken \o temp /\ readBuff' = readBuff \o temp
    BY <2>1, <2>2, AvailableData, Zenon
  <2>4. PICK temp \in Seq(RxValues) :
          rxTaken' = rxTaken \o temp /\ readBuff' = readBuff \o temp
    BY <2>3, Zenon
  <2>5. delivered' = delivered
    BY <2>1 DEF processAvailableData
  <2>6. (delivered \o readBuff) \o temp = delivered \o (readBuff \o temp)
    BY <2>2, ConcatAssociative DEF Read
  <2> QED BY <2>3, <2>4, <2>5, <2>6, ZenonT(30) DEF ReadPathExact
<1>4. UNCHANGED reading \/ receiveByte \/ ServeData
  BY Zenon DEF Next, vars, Device, Handler, Kernel, StartByte, FinishByte, ReportData, ReceiveByte,
         IrqEnter, HandlerPush, HandlerKick, ServeTHRE, IrqExit, ServeLine, sendString,
         KernelPush, KernelKick
<1> QED BY <1>1, <1>2, <1>3, <1>4

\* As long as the line brings no NUL, kernel code gets the bytes that the device
\* received, in order and all of them, until processAvailableData first finds the
\* read buffer full; for all sizes of the buffers.
THEOREM ReadPathCorrect ==
    ASSUME NUL \notin RxValues
    PROVE  Spec => []ReadPathExact
<1>1. Init => ReadPathExact
  <2>1. \A S : <<>> \in Seq(S)
    BY EmptySeq
  <2>2. <<>> \o <<>> = <<>>
    BY <2>1, ConcatEmptySeq
  <2> QED BY <2>2 DEF Init, ReadPathExact
<1>2. IInv /\ ReadPathExact /\ [Next]_vars => ReadPathExact'
  BY ReadPathStep
<1> QED BY <1>1, <1>2, SpecIInv, PTL DEF Spec
=============================================================================
