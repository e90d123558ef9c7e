------------------------ MODULE HardwareSerialProofs ------------------------
(***************************************************************************)
(* Theorems about HardwareSerial for every ring size, receiver depth,      *)
(* choice of calls, modes and contexts: TypeOK, the receive ring as a      *)
(* bounded queue, the promise of available(), and the errors getStatus()   *)
(* reports.  TypeInv is TypeOK strengthened by what the loaded register    *)
(* holds; RxInv says what a read() in progress relies on; ErrInv where an  *)
(* error can be.                                                           *)
(*                                                                         *)
(* Then the transmit side, where little comes between the steps of a       *)
(* write() (Paced, which says why): the promise of availableForWrite(),    *)
(* and the path of a byte from write() to the line as a bounded queue.     *)
(*                                                                         *)
(* Last, at any pace: no byte is forgotten in the ring, flush() waits for  *)
(* nothing that does not come and leaves an empty ring, and a port that    *)
(* stopped listening listens again.                                        *)
(***************************************************************************)
EXTENDS HardwareSerial, SequenceTheorems, TLAPS

----------------------------------------------------------------------------
(* Ring buffers of every size *)

(* The remainder of a number that is less than twice the modulus. *)
LEMMA ModSmall ==
    ASSUME NEW n \in Nat \ {0}, NEW x \in 0..n-1
    PROVE  x % n = x
  OBVIOUS

LEMMA ModOnce ==
    ASSUME NEW n \in Nat \ {0}, NEW x \in n..2*n-1
    PROVE  x % n = x - n
  OBVIOUS

(* Succ steps to the next slot and wraps at the end. *)
LEMMA SuccValue ==
    ASSUME NEW n \in Sizes, NEW i \in Slots(n)
    PROVE  /\ Succ(i, n) \in Slots(n)
           /\ Succ(i, n) # i
           /\ Succ(i, n) = IF i + 1 = n THEN 0 ELSE i + 1
<1>1. CASE i + 1 = n
  BY <1>1, ModOnce, n % n = 0 DEF Succ, Sizes, Slots
<1>2. CASE i + 1 # n
  <2>1. i + 1 \in 0..n-1
    BY <1>2 DEF Sizes, Slots
  <2>2. (i + 1) % n = i + 1
    BY <2>1, ModSmall DEF Sizes
  <2>3. QED
    BY <1>2, <2>1, <2>2 DEF Succ, Sizes, Slots
<1>3. QED
  BY <1>1, <1>2

(* Count without the remainder. *)
LEMMA CountValue ==
    ASSUME NEW n \in Sizes, NEW h \in Slots(n), NEW t \in Slots(n)
    PROVE  /\ Count(h, t, n) \in 0..n-1
           /\ Count(h, t, n) = IF h >= t THEN h - t ELSE n + h - t
<1> USE DEF Sizes, Slots
<1>1. CASE h >= t
  <2>1. n + h - t \in n..2*n-1
    BY <1>1
  <2>2. (n + h - t) % n = h - t
    BY <2>1, ModOnce
  <2>3. QED
    BY <1>1, <2>2 DEF Count
<1>2. CASE h < t
  <2>1. n + h - t \in 0..n-1
    BY <1>2
  <2>2. (n + h - t) % n = n + h - t
    BY <2>1, ModSmall
  <2>3. QED
    BY <1>2, <2>1, <2>2 DEF Count
<1>3. QED
  BY <1>1, <1>2

(* The slot of the k-th oldest byte, without the remainder. *)
SlotOf(t, k, n) == IF t + k - 1 < n THEN t + k - 1 ELSE t + k - 1 - n

LEMMA SlotValue ==
    ASSUME NEW n \in Sizes, NEW t \in Slots(n), NEW k \in 1..n
    PROVE  /\ (t + k - 1) % n = SlotOf(t, k, n)
           /\ SlotOf(t, k, n) \in Slots(n)
<1> USE DEF Sizes, Slots, SlotOf
<1>1. CASE t + k - 1 < n
  <2>1. t + k - 1 \in 0..n-1
    BY <1>1
  <2>2. QED
    BY <1>1, <2>1, ModSmall
<1>2. CASE t + k - 1 >= n
  <2>1. t + k - 1 \in n..2*n-1
    BY <1>2
  <2>2. QED
    BY <1>2, <2>1, ModOnce
<1>3. QED
  BY <1>1, <1>2

(* The content of a ring is a sequence of Count bytes, the k-th of them    *)
(* k-1 slots after the tail.                                               *)
LEMMA RingIsSeq ==
    ASSUME NEW n \in Sizes, NEW buf \in Buffers(n),
           NEW h \in Slots(n), NEW t \in Slots(n)
    PROVE  /\ Ring(buf, h, t, n) \in Seq(Nat)
           /\ Len(Ring(buf, h, t, n)) = Count(h, t, n)
           /\ \A k \in 1..Count(h, t, n) :
                 Ring(buf, h, t, n)[k] = buf[SlotOf(t, k, n)]
<1> DEFINE c == Count(h, t, n)
<1>1. c \in 0..n-1 /\ c \in Nat
  BY CountValue DEF Sizes
<1> HIDE DEF c
<1>2. ASSUME NEW k \in 1..c
      PROVE  /\ (t + k - 1) % n = SlotOf(t, k, n)
             /\ buf[SlotOf(t, k, n)] \in Nat
  <2>1. k \in 1..n
    BY <1>1 DEF Sizes
  <2>2. (t + k - 1) % n = SlotOf(t, k, n) /\ SlotOf(t, k, n) \in Slots(n)
    BY <2>1, SlotValue
  <2>3. QED
    BY <2>2 DEF Buffers
<1>3. Ring(buf, h, t, n) = [k \in 1..c |-> buf[SlotOf(t, k, n)]]
  BY <1>2 DEF Ring, c
<1>4. [k \in 1..c |-> buf[SlotOf(t, k, n)]] \in [1..c -> Nat]
  BY <1>2
<1>5. Ring(buf, h, t, n) \in [1..c -> Nat]
  BY <1>3, <1>4
<1>6. Ring(buf, h, t, n) \in Seq(Nat) /\ Len(Ring(buf, h, t, n)) = c
  BY <1>1, <1>5
<1>7. \A k \in 1..c : Ring(buf, h, t, n)[k] = buf[SlotOf(t, k, n)]
  BY <1>3
<1>8. QED
  BY <1>6, <1>7 DEF c

(* Storing a byte at the head of a ring with room, and publishing the next *)
(* head, appends the byte to the content.                                  *)
LEMMA RingPut ==
    ASSUME NEW n \in Sizes, NEW buf \in Buffers(n), NEW b \in Nat,
           NEW h \in Slots(n), NEW t \in Slots(n), HasRoom(Succ(h, n), t)
    PROVE  /\ Ring([buf EXCEPT ![h] = b], Succ(h, n), t, n)
                 = Append(Ring(buf, h, t, n), b)
           /\ Count(Succ(h, n), t, n) = Count(h, t, n) + 1
<1> DEFINE buf2 == [buf EXCEPT ![h] = b]
           h2   == Succ(h, n)
           old  == Ring(buf, h, t, n)
           new  == Ring(buf2, h2, t, n)
           c    == Count(h, t, n)
<1>1. h2 \in Slots(n) /\ h2 = IF h + 1 = n THEN 0 ELSE h + 1
  BY SuccValue
<1>2. /\ Count(h2, t, n) \in 0..n-1
      /\ Count(h2, t, n) = IF h2 >= t THEN h2 - t ELSE n + h2 - t
  <2> HIDE DEF h2
  <2>1. QED
    BY <1>1, CountValue
<1>3. c \in 0..n-1 /\ c = IF h >= t THEN h - t ELSE n + h - t
  BY CountValue
<1>4. buf2 \in Buffers(n) /\ buf2[h] = b
  BY DEF Buffers
<1>5. /\ old \in Seq(Nat) /\ Len(old) = c
      /\ \A k \in 1..c : old[k] = buf[SlotOf(t, k, n)]
  BY RingIsSeq
<1>6. h2 # t
  BY DEF HasRoom
<1>7. /\ new \in Seq(Nat) /\ Len(new) = Count(h2, t, n)
      /\ \A k \in 1..Count(h2, t, n) : new[k] = buf2[SlotOf(t, k, n)]
  <2> HIDE DEF h2, buf2
  <2>1. QED
    BY <1>1, <1>4, RingIsSeq
<1> HIDE DEF old, new, c, h2
<1>8. Count(h2, t, n) = c + 1 /\ c + 1 \in 1..n-1
  BY <1>1, <1>2, <1>3, <1>6 DEF Sizes, Slots
<1>9. /\ Append(old, b) \in Seq(Nat) /\ Len(Append(old, b)) = c + 1
      /\ \A k \in 1..c : Append(old, b)[k] = old[k]
      /\ Append(old, b)[c + 1] = b
  BY <1>5, AppendProperties
<1>10. ASSUME NEW k \in 1..c PROVE new[k] = Append(old, b)[k]
  <2>1. SlotOf(t, k, n) # h /\ SlotOf(t, k, n) \in Slots(n)
    BY <1>3 DEF SlotOf, Slots, Sizes
  <2>2. buf2[SlotOf(t, k, n)] = buf[SlotOf(t, k, n)]
    BY <2>1 DEF Buffers
  <2>3. k \in 1..Count(h2, t, n)
    BY <1>3, <1>8 DEF Sizes
  <2>4. QED
    BY <1>5, <1>7, <1>9, <2>2, <2>3
<1>11. new[c + 1] = b
  <2>1. SlotOf(t, c + 1, n) = h
    BY <1>3 DEF SlotOf, Slots, Sizes
  <2>2. c + 1 \in 1..Count(h2, t, n)
    BY <1>3, <1>8 DEF Sizes
  <2>3. QED
    BY <1>4, <1>7, <2>1, <2>2
<1>12. new = Append(old, b)
  <2>1. Len(new) = Len(Append(old, b))
    BY <1>7, <1>8, <1>9
  <2>2. ASSUME NEW k \in 1..Len(new) PROVE new[k] = Append(old, b)[k]
    <3>1. k \in 1..c \/ k = c + 1
      BY <1>7, <1>8, <1>3
    <3>2. QED
      BY <3>1, <1>9, <1>10, <1>11
  <2>3. QED
    BY <1>7, <1>9, <2>1, <2>2, SeqEqual
<1>13. QED
  BY <1>8, <1>12 DEF old, new, c, h2

(* Stepping the tail of a ring that is not empty removes the byte at it,   *)
(* which is the head of the content.                                       *)
LEMMA RingGet ==
    ASSUME NEW n \in Sizes, NEW buf \in Buffers(n),
           NEW h \in Slots(n), NEW t \in Slots(n), h # t
    PROVE  /\ Ring(buf, h, t, n) # <<>>
           /\ Head(Ring(buf, h, t, n)) = buf[t]
           /\ Ring(buf, h, Succ(t, n), n) = Tail(Ring(buf, h, t, n))
           /\ Count(h, Succ(t, n), n) = Count(h, t, n) - 1
<1> DEFINE t2  == Succ(t, n)
           old == Ring(buf, h, t, n)
           new == Ring(buf, h, t2, n)
           c   == Count(h, t, n)
<1>1. t2 \in Slots(n) /\ t2 = IF t + 1 = n THEN 0 ELSE t + 1
  BY SuccValue
<1>2. c \in 0..n-1 /\ c = IF h >= t THEN h - t ELSE n + h - t
  BY CountValue
<1>3. /\ old \in Seq(Nat) /\ Len(old) = c
      /\ \A k \in 1..c : old[k] = buf[SlotOf(t, k, n)]
  BY RingIsSeq
<1> HIDE DEF t2, old, c
<1>4. /\ Count(h, t2, n) \in 0..n-1
      /\ Count(h, t2, n) = IF h >= t2 THEN h - t2 ELSE n + h - t2
  BY <1>1, CountValue
<1>5. /\ new \in Seq(Nat) /\ Len(new) = Count(h, t2, n)
      /\ \A k \in 1..Count(h, t2, n) : new[k] = buf[SlotOf(t2, k, n)]
  BY <1>1, RingIsSeq
<1> HIDE DEF new
<1>6. Count(h, t2, n) = c - 1 /\ c >= 1
  BY <1>1, <1>2, <1>4 DEF Sizes, Slots
<1>7. old # <<>> /\ old[1] = buf[t]
  <2>1. SlotOf(t, 1, n) = t
    BY DEF SlotOf, Slots, Sizes
  <2>2. 1 \in 1..c
    BY <1>2, <1>6 DEF Slots, Sizes
  <2>3. QED
    BY <1>3, <1>6, <2>1, <2>2
<1>8. /\ Tail(old) \in Seq(Nat) /\ Len(Tail(old)) = c - 1
      /\ \A k \in 1..Len(Tail(old)) : Tail(old)[k] = old[k + 1]
  BY <1>3, <1>7, HeadTailProperties
<1>9. ASSUME NEW k \in 1..Len(new) PROVE new[k] = Tail(old)[k]
  <2>1. k \in 1..c-1 /\ k + 1 \in 1..c
    BY <1>2, <1>5, <1>6 DEF Slots, Sizes
  <2>2. SlotOf(t2, k, n) = SlotOf(t, k + 1, n)
    BY <1>1, <1>2, <2>1 DEF SlotOf, Slots, Sizes
  <2>3. new[k] = buf[SlotOf(t2, k, n)]
    BY <1>5
  <2>4. Tail(old)[k] = old[k + 1]
    BY <1>8, <2>1
  <2>5. old[k + 1] = buf[SlotOf(t, k + 1, n)]
    BY <1>3, <2>1
  <2>6. QED
    BY <2>2, <2>3, <2>4, <2>5
<1>10. new = Tail(old)
  <2>1. Len(new) = Len(Tail(old))
    BY <1>5, <1>6, <1>8
  <2>2. QED
    BY <1>5, <1>8, <1>9, <2>1, SeqEqual
<1>11. Head(old) = old[1]
  BY <1>3, <1>7
<1>12. QED
  BY <1>6, <1>7, <1>10, <1>11 DEF old, new, c, t2

(* Equal indices are an empty ring. *)
LEMMA RingEmpty ==
    ASSUME NEW n \in Sizes, NEW buf, NEW t \in Slots(n)
    PROVE  Ring(buf, t, t, n) = <<>>
<1>1. Count(t, t, n) = 0
  BY CountValue DEF Slots, Sizes
<1>2. QED
  BY <1>1 DEF Ring

----------------------------------------------------------------------------
(* Types, and the receive side *)

(* TypeOK in three parts, so that each leaf sees only what it needs. *)
Booleans ==
    /\ loopback \in BOOLEAN /\ txcif \in BOOLEAN /\ bufovf \in BOOLEAN
    /\ ie \in BOOLEAN /\ fresh \in BOOLEAN

Peripheral ==
    /\ ctrla \subseteq IntEnables /\ ctrlb \subseteq {"RXEN", "TXEN"}
    /\ txdata \in Nat \cup {NoByte} /\ shift \in Nat \cup {NoByte}
    /\ rxfifo \in Seq(Frame) /\ Len(rxfifo) <= RxDepth
    /\ sent \in Nat /\ last \in Nat /\ arrived \in Nat

Driver ==
    /\ state \subseteq Flags
    /\ rxHead \in Slots(RxSize) /\ rxTail \in Slots(RxSize)
    /\ rxBuf \in Buffers(RxSize)
    /\ txHead \in Slots(TxSize) /\ txTail \in Slots(TxSize)
    /\ txBuf \in Buffers(TxSize)
    /\ isr \in {"none", "dre", "poll"}
    /\ pc \in Labels
    /\ call \in {"none", "write", "flush", "end", "begin", "read", "getStatus"}
    /\ mode \in {"full", "half"}
    /\ reg \subseteq IntEnables \cup Flags
    /\ idx \in Slots(TxSize) /\ chr \in Nat
    /\ frames \in Nat
    /\ written \in Nat /\ lastRead \in Nat
    /\ rxPromise \in Nat /\ txPromise \in Nat
    /\ unreported \subseteq Errors

(* The register holds _state on its way back to _state, and CTRLA on its   *)
(* way back to CTRLA.                                                      *)
RegOK ==
    /\ pc \in {"wrStoreState", "bgHalf", "gsStore"} => reg \subseteq Flags
    /\ pc \in {"fastStoreCtrla", "slowClear", "slowStoreCtrla"}
          => reg \subseteq IntEnables
    /\ pc = "fastClear" /\ "h" \in state => reg \subseteq IntEnables

TypeInv == Booleans /\ Peripheral /\ Driver /\ RegOK

LEMMA TypeParts == TypeInv => TypeOK
<1>1. Booleans /\ Peripheral => UsartTypeOK
  BY Zenon DEF UsartTypeOK, Booleans, Peripheral
<1>2. UsartTypeOK /\ Booleans /\ Driver => TypeOK
  BY Zenon DEF TypeOK, Booleans, Driver
<1>3. QED
  BY <1>1, <1>2 DEF TypeInv

----------------------------------------------------------------------------
(* What the pieces of an action leave in the peripheral's registers. *)

LEMMA AssumedSizes == RxSize \in Sizes /\ TxSize \in Sizes
  BY SizeAssumption

LEMMA PutTXDATAType ==
    ASSUME NEW c \in Nat, Peripheral, PutTXDATA(c)
    PROVE  txdata' \in Nat \cup {NoByte} /\ shift' \in Nat \cup {NoByte}
  BY DEF PutTXDATA, Peripheral

LEMMA PollType ==
    ASSUME Peripheral, Driver, Poll
    PROVE  ctrla' \subseteq IntEnables /\ isr' \in {"none", "dre", "poll"}
<1>1. ctrla' \subseteq ctrla
  BY Zenon DEF Poll
<1>2. isr' = isr \/ isr' = "poll"
  BY Zenon DEF Poll
<1>3. QED
  BY <1>1, <1>2 DEF Peripheral, Driver

LEMMA ReceiveType ==
    ASSUME NEW f \in Frame, Peripheral, Receive(f)
    PROVE  rxfifo' \in Seq(Frame) /\ Len(rxfifo') <= RxDepth
<1>1. CASE Len(rxfifo) < RxDepth
  <2>1. rxfifo' = Append(rxfifo, f)
    BY <1>1 DEF Receive
  <2>2. rxfifo \in Seq(Frame) /\ Len(rxfifo) \in Nat
    BY DEF Peripheral
  <2>3. rxfifo' \in Seq(Frame) /\ Len(rxfifo') = Len(rxfifo) + 1
    BY <2>1, <2>2, AppendProperties
  <2>4. QED
    BY <1>1, <2>2, <2>3, RxDepthAssumption
<1>2. CASE ~(Len(rxfifo) < RxDepth)
  BY <1>2 DEF Receive, Peripheral
<1>3. QED
  BY <1>1, <1>2

LEMMA DiscardRxType ==
    ASSUME DiscardRx
    PROVE  rxfifo' \in Seq(Frame) /\ Len(rxfifo') <= RxDepth
<1>1. <<>> \in Seq(Frame) /\ Len(<<>>) = 0
  BY EmptySeq
<1>2. rxfifo' = <<>>
  BY DEF DiscardRx
<1>3. QED
  BY <1>1, <1>2, RxDepthAssumption

LEMMA ReadRXDATAType ==
    ASSUME Peripheral, RXCIF
    PROVE  /\ ReadRXDATA => rxfifo' \in Seq(Frame) /\ Len(rxfifo') <= RxDepth
           /\ rxfifo[1].byte \in Nat /\ rxfifo[1].errs \subseteq {"p", "f"}
<1>1. rxfifo \in Seq(Frame) /\ rxfifo # <<>> /\ Len(rxfifo) <= RxDepth
  BY DEF Peripheral, RXCIF
<1>2. Tail(rxfifo) \in Seq(Frame) /\ Len(Tail(rxfifo)) = Len(rxfifo) - 1
  BY <1>1, HeadTailProperties
<1>3. rxfifo[1] \in Frame
  BY <1>1, EmptySeq, ElementOfSeq
<1>4. Len(rxfifo) \in Nat
  BY <1>1
<1>5. ReadRXDATA => rxfifo' = Tail(rxfifo)
  BY DEF ReadRXDATA
<1>6. ReadRXDATA => rxfifo' \in Seq(Frame) /\ Len(rxfifo') <= RxDepth
  BY <1>1, <1>2, <1>4, <1>5, RxDepthAssumption
<1>7. rxfifo[1].byte \in Nat /\ rxfifo[1].errs \subseteq {"p", "f"}
  BY <1>3 DEF Frame
<1>8. QED
  BY <1>6, <1>7

----------------------------------------------------------------------------
(* TypeInv is inductive: one lemma for each of its parts. *)

LEMMA TypeInit == Init => TypeInv
<1> SUFFICES ASSUME Init PROVE TypeInv
  OBVIOUS
<1>1. Booleans
  BY ContextsAssumption DEF Init, UsartInit, Booleans
<1>2. Peripheral
  <2>1. <<>> \in Seq(Frame) /\ Len(<<>>) = 0
    BY EmptySeq
  <2>2. QED
    BY <2>1, RxDepthAssumption DEF Init, UsartInit, Peripheral, IntEnables
<1>3. Driver
  <2>1. 0 \in Slots(RxSize) /\ 0 \in Slots(TxSize)
    BY AssumedSizes DEF Sizes, Slots
  <2>2. rxBuf \in Buffers(RxSize) /\ txBuf \in Buffers(TxSize)
    BY DEF Init, Buffers
  <2>3. QED
    BY <2>1, <2>2 DEF Init, Driver, Labels
<1>4. RegOK
  BY DEF Init, RegOK
<1>5. QED
  BY <1>1, <1>2, <1>3, <1>4 DEF TypeInv

LEMMA BooleansStep ==
    ASSUME Booleans, [Next]_vars
    PROVE  Booleans'
<1> USE DEF Step, Tick, Return, Called, Handler, usart, config, txWire, rxWire,
            rings, rxRing, txRing, cpu, callers, locals, history, promises
<1>1. CASE UNCHANGED vars
  BY <1>1 DEF vars, Booleans
<1>2. CASE Write
  BY <1>2 DEF Booleans, Write
<1>3. CASE AvailableForWrite
  BY <1>3 DEF Booleans, AvailableForWrite
<1>4. CASE Flush
  BY <1>4 DEF Booleans, Flush
<1>5. CASE End
  BY <1>5 DEF Booleans, End
<1>6. CASE Begin
  BY <1>6 DEF Booleans, Begin, Poll, ClearTXCIF
<1>7. CASE Available
  BY <1>7 DEF Booleans, Available
<1>8. CASE ReadNothing
  BY <1>8 DEF Booleans, ReadNothing
<1>9. CASE Read
  BY <1>9 DEF Booleans, Read
<1>10. CASE GetStatus
  BY <1>10 DEF Booleans, GetStatus
<1>11. CASE SetInterrupts
  BY <1>11, ContextsAssumption DEF Booleans, SetInterrupts
<1>12. CASE WriteLoadState
  BY <1>12 DEF Booleans, WriteLoadState
<1>13. CASE WriteStoreState
  BY <1>13 DEF Booleans, WriteStoreState
<1>14. CASE WriteTestEmpty
  BY <1>14 DEF Booleans, WriteTestEmpty
<1>15. CASE WriteTestDREIF
  BY <1>15 DEF Booleans, WriteTestDREIF
<1>16. CASE FastLoadCtrla
  BY <1>16 DEF Booleans, FastLoadCtrla
<1>17. CASE FastClear
  BY <1>17 DEF Booleans, FastClear, ClearTXCIF
<1>18. CASE FastStoreCtrla
  BY <1>18 DEF Booleans, FastStoreCtrla
<1>19. CASE FastSend
  BY <1>19 DEF Booleans, FastSend
<1>20. CASE SlowWait
  BY <1>20 DEF Booleans, SlowWait, Poll, ClearTXCIF
<1>21. CASE SlowStore
  BY <1>21 DEF Booleans, SlowStore
<1>22. CASE SlowPublish
  BY <1>22 DEF Booleans, SlowPublish
<1>23. CASE SlowLoadCtrla
  BY <1>23 DEF Booleans, SlowLoadCtrla
<1>24. CASE SlowClear
  BY <1>24 DEF Booleans, SlowClear, ClearTXCIF
<1>25. CASE SlowStoreCtrla
  BY <1>25 DEF Booleans, SlowStoreCtrla
<1>26. CASE FlushTest
  BY <1>26 DEF Booleans, FlushTest
<1>27. CASE FlushTestDREIE
  BY <1>27 DEF Booleans, FlushTestDREIE, Poll, ClearTXCIF
<1>28. CASE FlushTestTXCIF
  BY <1>28 DEF Booleans, FlushTestTXCIF, Poll, ClearTXCIF
<1>29. CASE EndCTRLB
  BY <1>29 DEF Booleans, EndCTRLB, DiscardRx
<1>30. CASE EndCTRLA
  BY <1>30 DEF Booleans, EndCTRLA
<1>31. CASE EndFlags
  BY <1>31 DEF Booleans, EndFlags, ClearTXCIF
<1>32. CASE EndRx
  BY <1>32 DEF Booleans, EndRx
<1>33. CASE EndState
  BY <1>33 DEF Booleans, EndState
<1>34. CASE BeginPoll
  BY <1>34 DEF Booleans, BeginPoll, Poll, ClearTXCIF
<1>35. CASE BeginTest
  BY <1>35 DEF Booleans, BeginTest
<1>36. CASE BeginMode
  BY <1>36 DEF Booleans, BeginMode
<1>37. CASE BeginHalf
  BY <1>37 DEF Booleans, BeginHalf
<1>38. CASE BeginConfig
  BY <1>38 DEF Booleans, BeginConfig, EnableBoth, DiscardRx
<1>39. CASE ReadFetch
  BY <1>39 DEF Booleans, ReadFetch
<1>40. CASE ReadAdvance
  BY <1>40 DEF Booleans, ReadAdvance
<1>41. CASE GetStatusLoad
  BY <1>41 DEF Booleans, GetStatusLoad
<1>42. CASE GetStatusStore
  BY <1>42 DEF Booleans, GetStatusStore
<1>43. CASE RxcHandler
  BY <1>43 DEF Booleans, RxcHandler, ReadRXDATA
<1>44. CASE DreHandler
  BY <1>44 DEF Booleans, DreHandler, ClearTXCIF
<1>45. CASE DreSend
  BY <1>45 DEF Booleans, DreSend
<1>46. CASE TxcHandler
  BY <1>46 DEF Booleans, TxcHandler, EchoDiscarded, DiscardRx
<1>47. CASE FrameEnds
  BY <1>47 DEF Booleans, FrameEnds, EndOfFrame, Receive, DREIF
<1>48. CASE FrameArrives
  BY <1>48 DEF Booleans, FrameArrives, Arrival, Receive
<1>49. QED
  BY <1>1, <1>2, <1>3, <1>4, <1>5, <1>6, <1>7, <1>8, <1>9, <1>10, <1>11,
     <1>12, <1>13, <1>14, <1>15, <1>16, <1>17, <1>18, <1>19, <1>20, <1>21,
     <1>22, <1>23, <1>24, <1>25, <1>26, <1>27, <1>28, <1>29, <1>30, <1>31,
     <1>32, <1>33, <1>34, <1>35, <1>36, <1>37, <1>38, <1>39, <1>40, <1>41,
     <1>42, <1>43, <1>44, <1>45, <1>46, <1>47, <1>48
  DEF Next, NewCall, InCall, InWrite, Handlers, Line

LEMMA PeripheralStep ==
    ASSUME Driver, Peripheral, RegOK, [Next]_vars
    PROVE  Peripheral'
<1> USE DEF Peripheral
<1> USE DEF Step, Tick, Return, Called, Handler, usart, config, txWire, rxWire,
            rings, rxRing, txRing, cpu, callers, locals, history, promises
<1>1. CASE UNCHANGED usart
  BY <1>1
<1>2. CASE FastClear
  BY <1>2 DEF FastClear
<1>3. CASE FastStoreCtrla
  BY <1>3 DEF FastStoreCtrla, RegOK
<1>4. CASE FastSend
  BY <1>4, PutTXDATAType DEF FastSend, Driver
<1>5. CASE SlowWait
  BY <1>5, PollType DEF SlowWait
<1>6. CASE SlowClear
  BY <1>6 DEF SlowClear
<1>7. CASE SlowStoreCtrla
  BY <1>7 DEF SlowStoreCtrla, RegOK
<1>8. CASE FlushTestDREIE
  BY <1>8, PollType DEF FlushTestDREIE
<1>9. CASE FlushTestTXCIF
  BY <1>9, PollType DEF FlushTestTXCIF
<1>10. CASE EndCTRLB
  BY <1>10, DiscardRxType DEF EndCTRLB
<1>11. CASE EndCTRLA
  BY <1>11 DEF EndCTRLA
<1>12. CASE EndFlags
  BY <1>12 DEF EndFlags
<1>13. CASE BeginPoll
  BY <1>13, PollType DEF BeginPoll
<1>14. CASE BeginConfig
  BY <1>14, DiscardRxType DEF BeginConfig, EnableBoth, IntEnables
<1>15. CASE RxcHandler
  BY <1>15, ReadRXDATAType DEF RxcHandler, RxcPending
<1>16. CASE DreHandler
  BY <1>16 DEF DreHandler
<1>17. CASE DreSend
  <2>1. txBuf[txTail] \in Nat
    BY DEF Driver, Buffers
  <2>2. txdata' \in Nat \cup {NoByte} /\ shift' \in Nat \cup {NoByte}
    BY <1>17, <2>1, PutTXDATAType DEF DreSend
  <2>3. ctrla' \subseteq IntEnables
    BY <1>17 DEF DreSend, AfterSend
  <2>4. QED
    BY <1>17, <2>2, <2>3 DEF DreSend
<1>18. CASE TxcHandler
  BY <1>18, DiscardRxType DEF TxcHandler, EchoDiscarded, AfterTxc, IntEnables
<1>19. CASE FrameEnds
  <2>1. [byte |-> Echo, errs |-> {}] \in Frame
    BY DEF Frame, Echo
  <2>2. rxfifo' \in Seq(Frame) /\ Len(rxfifo') <= RxDepth
    BY <1>19, <2>1, ReceiveType DEF FrameEnds, EndOfFrame
  <2>3. /\ ctrla' \subseteq IntEnables /\ ctrlb' \subseteq {"RXEN", "TXEN"}
        /\ sent' \in Nat /\ last' \in Nat /\ arrived' \in Nat
        /\ txdata' \in Nat \cup {NoByte} /\ shift' \in Nat \cup {NoByte}
    BY <1>19 DEF FrameEnds, EndOfFrame
  <2>4. QED
    BY <2>2, <2>3
<1>20. CASE FrameArrives
  <2>1. PICK errs \in LineErrors : Arrival(errs)
    BY <1>20 DEF FrameArrives
  <2>2. [byte |-> arrived + 1, errs |-> errs] \in Frame
    BY LineErrorsAssumption DEF Frame
  <2>3. rxfifo' \in Seq(Frame) /\ Len(rxfifo') <= RxDepth
    BY <2>1, <2>2, ReceiveType DEF Arrival
  <2>4. /\ UNCHANGED <<ctrla, ctrlb, txdata, shift, sent, last>>
        /\ arrived' = arrived + 1
    BY <2>1 DEF Arrival
  <2>5. QED
    BY <2>3, <2>4
<1>21. QED
  BY <1>1, <1>2, <1>3, <1>4, <1>5, <1>6, <1>7, <1>8, <1>9, <1>10, <1>11,
     <1>12, <1>13, <1>14, <1>15, <1>16, <1>17, <1>18, <1>19, <1>20
  DEF Next, NewCall, InCall, InWrite, Handlers, Line, vars, Write,
      AvailableForWrite, Flush, End, Begin, Available, ReadNothing, Read,
      GetStatus, SetInterrupts, WriteLoadState, WriteStoreState,
      WriteTestEmpty, WriteTestDREIF, FastLoadCtrla, SlowStore, SlowPublish,
      SlowLoadCtrla, FlushTest, EndRx, EndState, BeginTest, BeginMode,
      BeginHalf, ReadFetch, ReadAdvance, GetStatusLoad, GetStatusStore

LEMMA DriverStep ==
    ASSUME Driver, Peripheral, RegOK, [Next]_vars
    PROVE  Driver'
<1> USE DEF Driver, Labels
<1> USE DEF Step, Tick, Return, Called, Handler, usart, config, txWire, rxWire,
            rings, rxRing, txRing, cpu, callers, locals, history, promises
<1>1. CASE UNCHANGED vars
  BY <1>1 DEF vars
<1>2. CASE Write
  BY <1>2 DEF Write
<1>3. CASE AvailableForWrite
  <2>1. availableForWrite \in Nat
    BY AssumedSizes DEF availableForWrite, Slots, Sizes
  <2>2. QED
    BY <1>3, <2>1 DEF AvailableForWrite
<1>4. CASE Flush
  BY <1>4 DEF Flush
<1>5. CASE End
  BY <1>5 DEF End
<1>6. CASE Begin
  BY <1>6, ModesAssumption DEF Begin
<1>7. CASE Available
  <2>1. available \in Nat
    BY AssumedSizes DEF available, Slots, Sizes
  <2>2. QED
    BY <1>7, <2>1 DEF Available
<1>8. CASE ReadNothing
  BY <1>8 DEF ReadNothing
<1>9. CASE Read
  BY <1>9 DEF Read
<1>10. CASE GetStatus
  BY <1>10 DEF GetStatus
<1>11. CASE SetInterrupts
  BY <1>11 DEF SetInterrupts
<1>12. CASE WriteLoadState
  BY <1>12 DEF WriteLoadState
<1>13. CASE WriteStoreState
  BY <1>13 DEF WriteStoreState, RegOK, Flags
<1>14. CASE WriteTestEmpty
  BY <1>14, AssumedSizes, SuccValue DEF WriteTestEmpty
<1>15. CASE WriteTestDREIF
  BY <1>15 DEF WriteTestDREIF
<1>16. CASE FastLoadCtrla
  BY <1>16 DEF FastLoadCtrla, Peripheral, IntEnables
<1>17. CASE FastClear
  BY <1>17 DEF FastClear
<1>18. CASE FastStoreCtrla
  BY <1>18 DEF FastStoreCtrla
<1>19. CASE FastSend
  BY <1>19 DEF FastSend
<1>20. CASE SlowWait
  BY <1>20, PollType DEF SlowWait
<1>21. CASE SlowStore
  BY <1>21 DEF SlowStore, Buffers
<1>22. CASE SlowPublish
  BY <1>22 DEF SlowPublish
<1>23. CASE SlowLoadCtrla
  BY <1>23 DEF SlowLoadCtrla, WithDREIE, Peripheral, IntEnables
<1>24. CASE SlowClear
  BY <1>24 DEF SlowClear
<1>25. CASE SlowStoreCtrla
  BY <1>25 DEF SlowStoreCtrla
<1>26. CASE FlushTest
  BY <1>26 DEF FlushTest, AfterFlush
<1>27. CASE FlushTestDREIE
  BY <1>27, PollType DEF FlushTestDREIE
<1>28. CASE FlushTestTXCIF
  BY <1>28, PollType DEF FlushTestTXCIF, AfterFlush
<1>29. CASE EndCTRLB
  BY <1>29 DEF EndCTRLB
<1>30. CASE EndCTRLA
  BY <1>30 DEF EndCTRLA
<1>31. CASE EndFlags
  BY <1>31 DEF EndFlags
<1>32. CASE EndRx
  BY <1>32 DEF EndRx
<1>33. CASE EndState
  BY <1>33 DEF EndState, AfterEnd
<1>34. CASE BeginPoll
  BY <1>34, PollType DEF BeginPoll
<1>35. CASE BeginTest
  BY <1>35 DEF BeginTest
<1>36. CASE BeginMode
  BY <1>36 DEF BeginMode
<1>37. CASE BeginHalf
  BY <1>37 DEF BeginHalf, RegOK, Flags
<1>38. CASE BeginConfig
  BY <1>38 DEF BeginConfig
<1>39. CASE ReadFetch
  BY <1>39 DEF ReadFetch, Buffers
<1>40. CASE ReadAdvance
  BY <1>40, AssumedSizes, SuccValue DEF ReadAdvance
<1>41. CASE GetStatusLoad
  BY <1>41 DEF GetStatusLoad
<1>42. CASE GetStatusStore
  BY <1>42 DEF GetStatusStore, ErrorsCleared, RegOK
<1>43. CASE RxcHandler
  <2>1. rxfifo[1].byte \in Nat /\ rxfifo[1].errs \subseteq {"p", "f"}
    BY <1>43, ReadRXDATAType DEF RxcHandler, RxcPending
  <2>2. Succ(rxHead, RxSize) \in Slots(RxSize)
    BY AssumedSizes, SuccValue
  <2>3. rxHead' \in Slots(RxSize) /\ rxBuf' \in Buffers(RxSize)
    BY <1>43, <2>1, <2>2 DEF RxcHandler, Buffers
  <2>4. state' \subseteq Flags /\ unreported' \subseteq Errors
    BY <1>43, <2>1 DEF RxcHandler, Flags, Errors
  <2>5. QED
    BY <1>43, <2>3, <2>4 DEF RxcHandler
<1>44. CASE DreHandler
  BY <1>44 DEF DreHandler
<1>45. CASE DreSend
  BY <1>45, AssumedSizes, SuccValue DEF DreSend
<1>46. CASE TxcHandler
  BY <1>46 DEF TxcHandler
<1>47. CASE FrameEnds
  BY <1>47 DEF FrameEnds
<1>48. CASE FrameArrives
  BY <1>48 DEF FrameArrives
<1>49. QED
  BY <1>1, <1>2, <1>3, <1>4, <1>5, <1>6, <1>7, <1>8, <1>9, <1>10, <1>11,
     <1>12, <1>13, <1>14, <1>15, <1>16, <1>17, <1>18, <1>19, <1>20, <1>21,
     <1>22, <1>23, <1>24, <1>25, <1>26, <1>27, <1>28, <1>29, <1>30, <1>31,
     <1>32, <1>33, <1>34, <1>35, <1>36, <1>37, <1>38, <1>39, <1>40, <1>41,
     <1>42, <1>43, <1>44, <1>45, <1>46, <1>47, <1>48
  DEF Next, NewCall, InCall, InWrite, Handlers, Line

LEMMA RegStep ==
    ASSUME Driver, Peripheral, RegOK, [Next]_vars
    PROVE  RegOK'
<1> USE DEF Driver, RegOK
<1> USE DEF Step, Tick, Return, Called, Handler, usart, config, txWire, rxWire,
            rings, rxRing, txRing, cpu, callers, locals, history, promises
<1>1. CASE UNCHANGED vars
  BY <1>1 DEF vars
<1>2. CASE Write
  BY <1>2 DEF Write
<1>3. CASE AvailableForWrite
  BY <1>3 DEF AvailableForWrite
<1>4. CASE Flush
  BY <1>4 DEF Flush
<1>5. CASE End
  BY <1>5 DEF End
<1>6. CASE Begin
  BY <1>6 DEF Begin
<1>7. CASE Available
  BY <1>7 DEF Available
<1>8. CASE ReadNothing
  BY <1>8 DEF ReadNothing
<1>9. CASE Read
  BY <1>9 DEF Read
<1>10. CASE GetStatus
  BY <1>10 DEF GetStatus
<1>11. CASE SetInterrupts
  BY <1>11 DEF SetInterrupts
<1>12. CASE WriteLoadState
  BY <1>12 DEF WriteLoadState
<1>13. CASE WriteStoreState
  BY <1>13 DEF WriteStoreState
<1>14. CASE WriteTestEmpty
  BY <1>14 DEF WriteTestEmpty
<1>15. CASE WriteTestDREIF
  BY <1>15 DEF WriteTestDREIF
<1>16. CASE FastLoadCtrla
  BY <1>16 DEF FastLoadCtrla, Peripheral, IntEnables
<1>17. CASE FastClear
  BY <1>17 DEF FastClear
<1>18. CASE FastStoreCtrla
  BY <1>18 DEF FastStoreCtrla
<1>19. CASE FastSend
  BY <1>19 DEF FastSend
<1>20. CASE SlowWait
  BY <1>20 DEF SlowWait
<1>21. CASE SlowStore
  BY <1>21 DEF SlowStore
<1>22. CASE SlowPublish
  BY <1>22 DEF SlowPublish
<1>23. CASE SlowLoadCtrla
  BY <1>23 DEF SlowLoadCtrla, WithDREIE, Peripheral, IntEnables
<1>24. CASE SlowClear
  BY <1>24 DEF SlowClear
<1>25. CASE SlowStoreCtrla
  BY <1>25 DEF SlowStoreCtrla
<1>26. CASE FlushTest
  BY <1>26 DEF FlushTest, AfterFlush
<1>27. CASE FlushTestDREIE
  BY <1>27 DEF FlushTestDREIE
<1>28. CASE FlushTestTXCIF
  BY <1>28 DEF FlushTestTXCIF, AfterFlush
<1>29. CASE EndCTRLB
  BY <1>29 DEF EndCTRLB
<1>30. CASE EndCTRLA
  BY <1>30 DEF EndCTRLA
<1>31. CASE EndFlags
  BY <1>31 DEF EndFlags
<1>32. CASE EndRx
  BY <1>32 DEF EndRx
<1>33. CASE EndState
  BY <1>33 DEF EndState, AfterEnd
<1>34. CASE BeginPoll
  BY <1>34 DEF BeginPoll
<1>35. CASE BeginTest
  BY <1>35 DEF BeginTest
<1>36. CASE BeginMode
  BY <1>36 DEF BeginMode
<1>37. CASE BeginHalf
  BY <1>37 DEF BeginHalf
<1>38. CASE BeginConfig
  BY <1>38 DEF BeginConfig
<1>39. CASE ReadFetch
  BY <1>39 DEF ReadFetch
<1>40. CASE ReadAdvance
  BY <1>40 DEF ReadAdvance
<1>41. CASE GetStatusLoad
  BY <1>41 DEF GetStatusLoad
<1>42. CASE GetStatusStore
  BY <1>42 DEF GetStatusStore, ErrorsCleared
<1>43. CASE RxcHandler
  <2>1. rxfifo[1].errs \subseteq {"p", "f"}
    BY <1>43, ReadRXDATAType DEF RxcHandler, RxcPending
  <2>2. "h" \in state' => "h" \in state
    BY <1>43, <2>1 DEF RxcHandler
  <2>3. QED
    BY <1>43, <2>2 DEF RxcHandler
<1>44. CASE DreHandler
  BY <1>44 DEF DreHandler
<1>45. CASE DreSend
  BY <1>45 DEF DreSend
<1>46. CASE TxcHandler
  BY <1>46 DEF TxcHandler
<1>47. CASE FrameEnds
  BY <1>47 DEF FrameEnds
<1>48. CASE FrameArrives
  BY <1>48 DEF FrameArrives
<1>49. QED
  BY <1>1, <1>2, <1>3, <1>4, <1>5, <1>6, <1>7, <1>8, <1>9, <1>10, <1>11,
     <1>12, <1>13, <1>14, <1>15, <1>16, <1>17, <1>18, <1>19, <1>20, <1>21,
     <1>22, <1>23, <1>24, <1>25, <1>26, <1>27, <1>28, <1>29, <1>30, <1>31,
     <1>32, <1>33, <1>34, <1>35, <1>36, <1>37, <1>38, <1>39, <1>40, <1>41,
     <1>42, <1>43, <1>44, <1>45, <1>46, <1>47, <1>48
  DEF Next, NewCall, InCall, InWrite, Handlers, Line

(* Ring indices stay below the sizes the masks assume, both rings and all  *)
(* registers hold what they are meant to hold, whatever the sizes and the  *)
(* timing.                                                                 *)
THEOREM TypeCorrect == Spec => []TypeOK
<1>1. Init => TypeInv
  BY TypeInit
<1>2. TypeInv /\ [Next]_vars => TypeInv'
  BY BooleansStep, PeripheralStep, DriverStep, RegStep DEF TypeInv
<1>3. TypeInv => TypeOK
  BY TypeParts
<1>4. QED
  BY <1>1, <1>2, <1>3, PTL DEF Spec

----------------------------------------------------------------------------
(* The receive ring.  Only four actions touch it or what it promised, and  *)
(* a read() that has found a byte keeps it: the handler never empties the  *)
(* ring nor overwrites the slot at the tail.                               *)

RxInv ==
    /\ pc \in {"rdFetch", "rdAdvance"} => rxHead # rxTail
    /\ pc = "rdAdvance" => chr = rxBuf[rxTail]

LEMMA RxActions ==
    ASSUME [Next]_vars
    PROVE  \/ UNCHANGED <<rxHead, rxTail, rxBuf, lastRead, rxPromise>>
           \/ Available \/ EndRx \/ RxcHandler \/ ReadAdvance
<1> USE DEF Step, Tick, Return, Called, Handler, usart, config, txWire, rxWire,
            rings, rxRing, txRing, cpu, callers, locals, history, promises
<1>1. QED
  BY DEF vars, Next, NewCall, InCall, InWrite, Handlers, Line, Write,
     AvailableForWrite, Flush, End, Begin, ReadNothing, Read, GetStatus,
     SetInterrupts, WriteLoadState, WriteStoreState, WriteTestEmpty,
     WriteTestDREIF, FastLoadCtrla, FastClear, FastStoreCtrla, FastSend,
     SlowWait, SlowStore, SlowPublish, SlowLoadCtrla, SlowClear,
     SlowStoreCtrla, FlushTest, FlushTestDREIE, FlushTestTXCIF, EndCTRLB,
     EndCTRLA, EndFlags, EndState, BeginPoll, BeginTest, BeginMode,
     BeginHalf, BeginConfig, ReadFetch, GetStatusLoad, GetStatusStore,
     DreHandler, DreSend, TxcHandler, FrameEnds, FrameArrives

LEMMA RxInvInit == Init => RxInv
  BY DEF Init, RxInv

LEMMA RxInvStep ==
    ASSUME TypeInv, RxInv, [Next]_vars
    PROVE  RxInv'
<1> USE DEF Step, Tick, Return, Called, Handler, usart, config, txWire, rxWire,
            rings, rxRing, txRing, cpu, callers, locals, history, promises
<1>1. CASE /\ UNCHANGED <<rxHead, rxTail, rxBuf, chr>>
           /\ pc' = pc \/ pc' \notin {"rdFetch", "rdAdvance"}
  BY <1>1 DEF RxInv
<1>2. CASE Read
  BY <1>2 DEF Read, RxInv
<1>3. CASE ReadFetch
  BY <1>3 DEF ReadFetch, RxInv
<1>4. CASE ReadAdvance
  BY <1>4 DEF ReadAdvance, RxInv
<1>5. CASE EndRx
  BY <1>5 DEF EndRx, RxInv
<1>6. CASE RxcHandler
  <2>1. pc' = pc /\ chr' = chr /\ rxTail' = rxTail
    BY <1>6 DEF RxcHandler
  <2>2. \/ rxHead' = rxHead /\ rxBuf' = rxBuf
        \/ /\ rxHead' # rxTail
           /\ rxHead # rxTail => rxBuf'[rxTail] = rxBuf[rxTail]
    BY <1>6 DEF RxcHandler, HasRoom, TypeInv, Driver, Buffers
  <2>3. QED
    BY <2>1, <2>2 DEF RxInv
<1>7. QED
  BY <1>1, <1>2, <1>3, <1>4, <1>5, <1>6
  DEF vars, AfterFlush, AfterEnd, Next, NewCall, InCall, InWrite, Handlers, Line, Write,
      AvailableForWrite, Flush, End, Begin, Available, ReadNothing,
      GetStatus, SetInterrupts, WriteLoadState, WriteStoreState,
      WriteTestEmpty, WriteTestDREIF, FastLoadCtrla, FastClear,
      FastStoreCtrla, FastSend, SlowWait, SlowStore, SlowPublish,
      SlowLoadCtrla, SlowClear, SlowStoreCtrla, FlushTest, FlushTestDREIE,
      FlushTestTXCIF, EndCTRLB, EndCTRLA, EndFlags, EndState, BeginPoll,
      BeginTest, BeginMode, BeginHalf, BeginConfig, GetStatusLoad,
      GetStatusStore, DreHandler, DreSend, TxcHandler, FrameEnds,
      FrameArrives

(* What the three actions that change the ring do to its content. *)
RxContent == Ring(rxBuf, rxHead, rxTail, RxSize)
RxCount == Count(rxHead, rxTail, RxSize)

LEMMA ReadAdvanceGets ==
    ASSUME TypeInv, RxInv, ReadAdvance
    PROVE  /\ RxContent # <<>> /\ lastRead' = Head(RxContent)
           /\ RxContent' = Tail(RxContent) /\ RxCount' = RxCount - 1
<1>1. /\ rxHead \in Slots(RxSize) /\ rxTail \in Slots(RxSize)
      /\ rxBuf \in Buffers(RxSize)
  BY DEF TypeInv, Driver
<1>2. rxHead # rxTail /\ lastRead' = rxBuf[rxTail]
  BY DEF ReadAdvance, RxInv, Step
<1>3. rxHead' = rxHead /\ rxBuf' = rxBuf /\ rxTail' = Succ(rxTail, RxSize)
  BY DEF ReadAdvance
<1>4. QED
  BY <1>1, <1>2, <1>3, AssumedSizes, RingGet DEF RxContent, RxCount

LEMMA EndRxClears ==
    ASSUME TypeInv, EndRx
    PROVE  RxContent' = <<>> /\ lastRead' = lastRead
<1>1. rxTail \in Slots(RxSize)
  BY DEF TypeInv, Driver
<1>2. rxHead' = rxTail /\ rxTail' = rxTail /\ lastRead' = lastRead
  BY DEF EndRx
<1>3. QED
  BY <1>1, <1>2, AssumedSizes, RingEmpty DEF RxContent

LEMMA RxcHandlerPuts ==
    ASSUME TypeInv, RxcHandler
    PROVE  /\ lastRead' = lastRead /\ rxPromise' = rxPromise
           /\ \/ RxContent' = RxContent /\ RxCount' = RxCount
              \/ /\ RxContent' = Append(RxContent, rxfifo[1].byte)
                 /\ RxCount' = RxCount + 1
<1> DEFINE byte == rxfifo[1].byte
<1>1. /\ rxHead \in Slots(RxSize) /\ rxTail \in Slots(RxSize)
      /\ rxBuf \in Buffers(RxSize)
  BY DEF TypeInv, Driver
<1>2. byte \in Nat
  BY ReadRXDATAType DEF TypeInv, RxcHandler, RxcPending
<1>3. lastRead' = lastRead /\ rxPromise' = rxPromise /\ rxTail' = rxTail
  BY DEF RxcHandler, promises
<1>4. CASE rxHead' = rxHead /\ rxBuf' = rxBuf
  BY <1>3, <1>4 DEF RxContent, RxCount
<1>5. CASE /\ HasRoom(Succ(rxHead, RxSize), rxTail)
           /\ rxHead' = Succ(rxHead, RxSize)
           /\ rxBuf' = [rxBuf EXCEPT ![rxHead] = byte]
  <2> HIDE DEF byte
  <2>1. /\ RxContent' = Append(RxContent, byte)
        /\ RxCount' = RxCount + 1
    BY <1>1, <1>2, <1>3, <1>5, AssumedSizes, RingPut DEF RxContent, RxCount
  <2>2. QED
    BY <1>3, <2>1 DEF byte
<1>6. QED
  BY <1>4, <1>5 DEF RxcHandler

LEMMA RxInvariant == Spec => [](TypeInv /\ RxInv)
<1>1. Init => TypeInv /\ RxInv
  BY TypeInit, RxInvInit
<1>2. TypeInv /\ RxInv /\ [Next]_vars => TypeInv' /\ RxInv'
  BY BooleansStep, PeripheralStep, DriverStep, RegStep, RxInvStep DEF TypeInv
<1>3. QED
  BY <1>1, <1>2, PTL DEF Spec

(* The receive ring, shared between the RXC handler and read(), is a       *)
(* bounded first-in first-out queue of RxSize - 1 bytes that end() may     *)
(* empty: the handler's store and read()'s fetch and step may fall in any  *)
(* order.                                                                  *)
THEOREM ReceiveRingIsQueue == Spec => RxIsQueue
<1>1. Init => Rx!Init
  <2> SUFFICES ASSUME Init PROVE Rx!Init
    OBVIOUS
  <2>1. rxTail \in Slots(RxSize) /\ rxHead = rxTail /\ lastRead = 0
    BY TypeInit DEF TypeInv, Driver, Init
  <2>2. QED
    BY <2>1, AssumedSizes, RingEmpty DEF Rx!Init
<1>2. ASSUME TypeInv, RxInv, [Next]_vars
      PROVE  [Rx!Next]_<<RxContent, lastRead>>
  <2>1. CASE UNCHANGED <<rxHead, rxTail, rxBuf, lastRead, rxPromise>>
    BY <2>1 DEF RxContent
  <2>2. CASE Available
    BY <2>2 DEF Available, rings, rxRing, RxContent
  <2>3. CASE EndRx
    BY <1>2, <2>3, EndRxClears DEF Rx!Next, Rx!Clear, RxContent
  <2>4. CASE ReadAdvance
    BY <1>2, <2>4, ReadAdvanceGets DEF Rx!Next, Rx!Get, RxContent
  <2>5. CASE RxcHandler
    <3> DEFINE byte == rxfifo[1].byte
    <3>1. CASE UNCHANGED <<RxContent, lastRead>>
      BY <3>1
    <3>2. CASE /\ RxContent' = Append(RxContent, byte)
               /\ RxCount' = RxCount + 1
               /\ lastRead' = lastRead
      <4>1. /\ RxContent \in Seq(Nat) /\ Len(RxContent) = RxCount
            /\ RxCount' \in 0..RxSize-1 /\ RxCount \in 0..RxSize-1
        <5>1. /\ rxHead \in Slots(RxSize) /\ rxTail \in Slots(RxSize)
              /\ rxBuf \in Buffers(RxSize)
              /\ rxHead' \in Slots(RxSize) /\ rxTail' \in Slots(RxSize)
          BY <1>2, DriverStep DEF TypeInv, Driver
        <5>2. QED
          BY <5>1, AssumedSizes, RingIsSeq, CountValue DEF RxContent, RxCount
      <4>2. Len(RxContent) < RxSize - 1
        BY <3>2, <4>1, AssumedSizes DEF Sizes
      <4>3. byte \in Nat
        BY <1>2, <2>5, ReadRXDATAType DEF TypeInv, RxcHandler, RxcPending
      <4> HIDE DEF byte
      <4>4. RxContent' # <<>> /\ RxContent'[Len(RxContent')] = byte
        BY <3>2, <4>1, <4>3
      <4>5. QED
        BY <3>2, <4>2, <4>4 DEF Rx!Next, Rx!Put, RxContent
    <3>3. QED
      BY <1>2, <2>5, <3>1, <3>2, RxcHandlerPuts
  <2>6. QED
    BY <1>2, <2>1, <2>2, <2>3, <2>4, <2>5, RxActions
<1>3. QED
  BY <1>1, <1>2, RxInvariant, PTL DEF Spec, RxIsQueue, Rx!Spec, RxContent

(* As long as the program reads no more bytes than available() reported,   *)
(* and does not end the port, read() has a byte to return.                 *)
THEOREM ReadPromiseKept == Spec => []ReadPromise
<1> DEFINE Inv == ReadPromise
<1>1. Init => Inv
  <2> SUFFICES ASSUME Init PROVE Inv
    OBVIOUS
  <2>1. rxHead \in Slots(RxSize) /\ rxTail \in Slots(RxSize) /\ rxPromise = 0
    BY TypeInit DEF TypeInv, Driver, Init
  <2>2. QED
    BY <2>1, AssumedSizes, CountValue DEF ReadPromise, Sizes
<1>2. ASSUME TypeInv, RxInv, Inv, [Next]_vars
      PROVE  Inv'
  <2>1. RxCount \in Nat /\ RxCount' \in Nat /\ rxPromise \in Nat
    <3>1. /\ rxHead \in Slots(RxSize) /\ rxTail \in Slots(RxSize)
          /\ rxHead' \in Slots(RxSize) /\ rxTail' \in Slots(RxSize)
          /\ rxPromise \in Nat
      BY <1>2, DriverStep DEF TypeInv, Driver
    <3>2. QED
      BY <3>1, AssumedSizes, CountValue DEF RxCount
  <2>2. rxPromise <= RxCount
    BY <1>2 DEF ReadPromise, RxCount
  <2>3. CASE UNCHANGED <<rxHead, rxTail, rxBuf, lastRead, rxPromise>>
    BY <2>2, <2>3 DEF ReadPromise, RxCount
  <2>4. CASE Available
    <3>1. rxPromise' = RxCount /\ RxCount' = RxCount
      BY <2>4 DEF Available, available, rings, rxRing, RxCount, Count
    <3>2. QED
      BY <2>1, <3>1 DEF ReadPromise, RxCount
  <2>5. CASE EndRx
    <3>1. rxPromise' = 0
      BY <2>5 DEF EndRx
    <3>2. QED
      BY <2>1, <3>1 DEF ReadPromise, RxCount
  <2>6. CASE RxcHandler
    <3>1. rxPromise' = rxPromise /\ (RxCount' = RxCount \/ RxCount' = RxCount + 1)
      BY <1>2, <2>6, RxcHandlerPuts
    <3>2. QED
      BY <2>1, <2>2, <3>1 DEF ReadPromise, RxCount
  <2>7. CASE ReadAdvance
    <3>1. RxCount' = RxCount - 1
      BY <1>2, <2>7, ReadAdvanceGets
    <3>2. rxPromise' = IF rxPromise > 0 THEN rxPromise - 1 ELSE 0
      BY <2>7 DEF ReadAdvance
    <3>3. QED
      BY <2>1, <2>2, <3>1, <3>2 DEF ReadPromise, RxCount
  <2>8. QED
    BY <1>2, <2>3, <2>4, <2>5, <2>6, <2>7, RxActions
<1>3. QED
  BY <1>1, <1>2, RxInvariant, PTL DEF Spec
----------------------------------------------------------------------------
(* Errors.  What write() and begin() are about to put back into _state has *)
(* no error in it that getStatus() has reported.                           *)

ErrInv ==
    /\ ReportedOnce
    /\ pc \in {"wrStoreState", "bgHalf"} => reg \cap Errors \subseteq unreported

LEMMA ErrInvStep ==
    ASSUME ErrInv, [Next]_vars
    PROVE  ErrInv'
<1> USE DEF ErrInv, ReportedOnce
<1> USE DEF Step, Tick, Return, Called, Handler, usart, config, txWire, rxWire,
            rings, rxRing, txRing, cpu, callers, locals, history, promises
<1>1. CASE /\ UNCHANGED <<state, unreported>>
           /\ \/ UNCHANGED <<pc, reg>>
              \/ /\ pc \notin {"gsLoad", "gsStore"}
                 /\ pc' \notin {"wrStoreState", "bgHalf"}
  BY <1>1
<1>2. CASE WriteLoadState
  BY <1>2 DEF WriteLoadState
<1>3. CASE WriteStoreState
  BY <1>3 DEF WriteStoreState, Errors
<1>4. CASE EndState
  BY <1>4 DEF EndState, AfterEnd
<1>5. CASE BeginMode
  BY <1>5 DEF BeginMode
<1>6. CASE BeginHalf
  BY <1>6 DEF BeginHalf, Errors
<1>7. CASE GetStatus
  BY <1>7 DEF GetStatus
<1>8. CASE GetStatusLoad
  BY <1>8 DEF GetStatusLoad
<1>9. CASE GetStatusStore
  BY <1>9 DEF GetStatusStore, ErrorsCleared
<1>10. CASE RxcHandler
  <2>1. PICK seen : state' = state \cup seen /\ unreported' = unreported \cup seen
    BY <1>10 DEF RxcHandler
  <2>2. UNCHANGED <<pc, reg>>
    BY <1>10 DEF RxcHandler
  <2>3. QED
    BY <2>1, <2>2
<1>11. QED
  BY <1>1, <1>2, <1>3, <1>4, <1>5, <1>6, <1>7, <1>8, <1>9, <1>10
  DEF vars, AfterFlush, Next, NewCall, InCall, InWrite, Handlers, Line, Write,
      AvailableForWrite, Flush, End, Begin, Available, ReadNothing, Read,
      SetInterrupts, WriteTestEmpty, WriteTestDREIF, FastLoadCtrla, FastClear,
      FastStoreCtrla, FastSend, SlowWait, SlowStore, SlowPublish,
      SlowLoadCtrla, SlowClear, SlowStoreCtrla, FlushTest, FlushTestDREIE,
      FlushTestTXCIF, EndCTRLB, EndCTRLA, EndFlags, EndRx, BeginPoll,
      BeginTest, BeginConfig, ReadFetch, ReadAdvance, DreHandler, DreSend,
      TxcHandler, FrameEnds, FrameArrives

(* However often the RXC handler comes between a load and a store of       *)
(* _state, getStatus() reports no error twice: each error bit stands for   *)
(* an error seen since the last report.                                    *)
THEOREM ErrorsReportedOnce == Spec => []ReportedOnce
<1>1. Init => ErrInv
  BY DEF Init, ErrInv, ReportedOnce
<1>2. ErrInv /\ [Next]_vars => ErrInv'
  BY ErrInvStep
<1>3. ErrInv => ReportedOnce
  BY DEF ErrInv
<1>4. QED
  BY <1>1, <1>2, <1>3, PTL DEF Spec

----------------------------------------------------------------------------
(* The transmit ring and the labels of write(); the DRE interrupt may come *)
(* at any instruction when the handler drives the transmission.            *)
TxCount == Count(txHead, txTail, TxSize)
Driven == ie /\ "DREIE" \in ctrla
Publishing == pc \in {"slowLoadCtrla", "slowClear", "slowStoreCtrla"}

WriteLabels ==
    {"wrLoadState", "wrStoreState", "wrEmpty", "wrDreif", "fastLoadCtrla",
     "fastClear", "fastStoreCtrla", "fastSend", "slowWait", "slowStore",
     "slowPublish", "slowLoadCtrla", "slowClear", "slowStoreCtrla"}

LEMMA PollOnlyDisables ==
    ASSUME Poll
    PROVE  ctrla' \subseteq ctrla
  BY Zenon DEF Poll

LEMMA CountZero ==
    ASSUME NEW n \in Sizes, NEW h \in Slots(n), NEW t \in Slots(n)
    PROVE  Count(h, t, n) \in 0..n-1 /\ (Count(h, t, n) = 0 <=> h = t)
<1>1. n \in Nat /\ h \in 0..n-1 /\ t \in 0..n-1
  BY DEF Slots, Sizes
<1>2. /\ Count(h, t, n) \in 0..n-1
      /\ Count(h, t, n) = IF h >= t THEN h - t ELSE n + h - t
  BY CountValue
<1>3. QED
  BY <1>1, <1>2

LEMMA TxCountValue ==
    ASSUME Driver
    PROVE  TxCount \in 0..TxSize-1 /\ (TxCount = 0 <=> txHead = txTail)
  BY AssumedSizes, CountZero DEF TxCount, Driver

LEMMA ArrivalLeavesTx ==
    ASSUME FrameArrives
    PROVE  UNCHANGED <<config, txWire, state, rings, cpu, callers, locals, promises>>
<1>1. PICK errs \in LineErrors : Arrival(errs)
  BY DEF FrameArrives
<1>2. UNCHANGED <<config, txWire>>
  BY <1>1 DEF Arrival
<1>3. QED
  BY <1>2 DEF FrameArrives, history, promises

----------------------------------------------------------------------------
(* Where no frame ends while the CPU is busy (Slow) a driver in half       *)
(* duplex listens only while nothing of its own is on the way out, so that *)
(* no RXC handler comes in while it sends.  It is one of the paces of      *)
(* Paced, below.                                                           *)

Slow == \A on \in BOOLEAN : FramesPerWindow[on] = 0

Closing == pc \in {"endCtrlb", "endCtrla", "endFlags", "endRx", "endState",
                   "bgMode", "bgHalf", "bgConfig"}

Silent ==
    /\ shift = NoByte /\ txdata = NoByte
    /\ txHead = txTail /\ "DREIE" \notin ctrla

(* Nothing is on the way out before the first write(), while the           *)
(* transmitter is off, and from the end of flush() to the end of begin();  *)
(* TXCIF says so of the two registers, DREIE of the ring.                  *)
QuietInv ==
    /\ "w" \notin state \/ "TXEN" \notin ctrlb \/ Closing => Silent
    /\ txcif => shift = NoByte /\ txdata = NoByte
    /\ "DREIE" \notin ctrla => txHead = txTail \/ Publishing
    /\ isr # "none" => "DREIE" \in ctrla /\ ~txcif
    /\ pc = "flTxcif" => "DREIE" \notin ctrla
    /\ pc \in WriteLabels => "TXEN" \in ctrlb
    /\ pc \in WriteLabels \ {"wrLoadState", "wrStoreState"} => "w" \in state
    /\ pc \in {"wrStoreState", "gsStore", "bgHalf"}
          => \A f \in {"w", "h"} : f \in reg <=> f \in state
    /\ pc = "fastStoreCtrla" => "h" \in state
    /\ pc \in {"fastClear", "fastStoreCtrla"} /\ "h" \in state /\ "DREIE" \notin reg
          => "DREIE" \notin ctrla
    /\ pc \in {"fastStoreCtrla", "fastSend"} => ~txcif
    /\ pc \in {"slowClear", "slowStoreCtrla"} => "DREIE" \in reg

LEMMA SlowFrames ==
    ASSUME Slow, TypeInv, FrameEnds
    PROVE  Quiescent /\ EndOfFrame
<1>1. ie \in BOOLEAN /\ frames \in Nat
  BY DEF TypeInv, Booleans, Driver
<1>2. FramesPerWindow[ie] = 0
  BY <1>1 DEF Slow
<1>3. QED
  BY <1>1, <1>2 DEF FrameEnds

(* A poll disables the DRE interrupt for an empty ring only, and sends     *)
(* only what the interrupt would have sent.                                *)
LEMMA PollWhenQuiet ==
    ASSUME Poll, isr = "none", ~Publishing,
           "DREIE" \notin ctrla => txHead = txTail \/ Publishing
    PROVE  /\ "DREIE" \in ctrla' => "DREIE" \in ctrla
           /\ "RXCIE" \in ctrla' <=> "RXCIE" \in ctrla
           /\ "DREIE" \notin ctrla' => txHead = txTail
           /\ isr' # "none" => "DREIE" \in ctrla' /\ ~txcif'
           /\ txcif' => txcif
<1>1. CASE UNCHANGED <<ctrla, txcif, isr>>
  BY <1>1
<1>2. CASE /\ ctrla' = ctrla \ {"DREIE"} /\ txHead = txTail
           /\ UNCHANGED <<txcif, isr>>
  BY <1>2
<1>3. CASE /\ txHead # txTail /\ ~txcif'
           /\ UNCHANGED ctrla
  BY <1>3
<1>4. QED
  BY <1>1, <1>2, <1>3 DEF Poll, ClearTXCIF

(* The RXC handler adds errors to _state and leaves the way out alone. *)
LEMMA ReceiveLeavesTx ==
    ASSUME TypeInv, RxcHandler
    PROVE  /\ UNCHANGED <<config, txWire, txRing, isr, ie, pc, callers, locals>>
           /\ \A f \in {"w", "h"} : f \in state' <=> f \in state
<1>1. rxfifo[1].errs \subseteq {"p", "f"}
  BY ReadRXDATAType DEF TypeInv, RxcHandler, RxcPending
<1>2. PICK seen : seen \subseteq Errors /\ state' = state \cup seen
  BY <1>1 DEF RxcHandler, Errors
<1>3. QED
  BY <1>2 DEF RxcHandler, Handler, Errors

LEMMA QuietStep ==
    ASSUME Slow, TypeInv, QuietInv, [Next]_vars
    PROVE  QuietInv'
<1> USE DEF Step, Tick, Return, Called, Handler, usart, config, txWire, rxWire,
            rings, rxRing, txRing, cpu, callers, locals, history, promises,
            QuietInv, Silent, Closing, Publishing, WriteLabels
<1>1. CASE UNCHANGED vars
  BY <1>1 DEF vars
<1>2. CASE Write
  BY <1>2 DEF Write
<1>3. CASE AvailableForWrite \/ Flush \/ End \/ Available \/ ReadNothing
  BY <1>3 DEF AvailableForWrite, Flush, End, Available, ReadNothing
<1>4. CASE Read \/ GetStatus \/ SetInterrupts \/ Begin
  BY <1>4 DEF Read, GetStatus, SetInterrupts, Begin
<1>5. CASE WriteLoadState
  BY <1>5 DEF WriteLoadState
<1>6. CASE WriteStoreState
  BY <1>6 DEF WriteStoreState
<1>7. CASE WriteTestEmpty
  BY <1>7 DEF WriteTestEmpty
<1>8. CASE WriteTestDREIF
  BY <1>8 DEF WriteTestDREIF
<1>9. CASE FastLoadCtrla
  BY <1>9 DEF FastLoadCtrla
<1>10. CASE FastClear
  BY <1>10 DEF FastClear, ClearTXCIF
<1>11. CASE FastStoreCtrla
  BY <1>11 DEF FastStoreCtrla
<1>12. CASE FastSend
  BY <1>12 DEF FastSend, PutTXDATA
<1>13. CASE SlowWait
  BY <1>13, PollWhenQuiet DEF SlowWait, CpuFree
<1>14. CASE SlowStore
  BY <1>14 DEF SlowStore
<1>15. CASE SlowPublish
  BY <1>15 DEF SlowPublish
<1>16. CASE SlowLoadCtrla
  BY <1>16 DEF SlowLoadCtrla, WithDREIE
<1>17. CASE SlowClear
  BY <1>17 DEF SlowClear, ClearTXCIF
<1>18. CASE SlowStoreCtrla
  BY <1>18 DEF SlowStoreCtrla
<1>19. CASE FlushTest
  BY <1>19 DEF FlushTest, AfterFlush
<1>20. CASE FlushTestDREIE
  BY <1>20, PollWhenQuiet DEF FlushTestDREIE, CpuFree
<1>21. CASE FlushTestTXCIF
  BY <1>21, PollWhenQuiet DEF FlushTestTXCIF, AfterFlush, CpuFree
<1>22. CASE EndCTRLB
  BY <1>22 DEF EndCTRLB
<1>23. CASE EndCTRLA
  BY <1>23 DEF EndCTRLA
<1>24. CASE EndFlags \/ EndRx
  BY <1>24 DEF EndFlags, EndRx, ClearTXCIF
<1>25. CASE EndState
  BY <1>25 DEF EndState, AfterEnd
<1>26. CASE BeginPoll
  BY <1>26, PollWhenQuiet DEF BeginPoll, CpuFree
<1>27. CASE BeginTest \/ BeginMode
  BY <1>27 DEF BeginTest, BeginMode
<1>28. CASE BeginHalf
  BY <1>28 DEF BeginHalf
<1>29. CASE BeginConfig
  BY <1>29 DEF BeginConfig, EnableBoth, DREIF
<1>30. CASE ReadFetch \/ ReadAdvance \/ GetStatusLoad
  BY <1>30 DEF ReadFetch, ReadAdvance, GetStatusLoad
<1>31. CASE GetStatusStore
  BY <1>31 DEF GetStatusStore, ErrorsCleared, Errors
<1>32. CASE RxcHandler
  BY <1>32, ReceiveLeavesTx
<1>33. CASE DreHandler
  BY <1>33 DEF DreHandler, ClearTXCIF, DrePending
<1>34. CASE DreSend
  BY <1>34 DEF DreSend, AfterSend, PutTXDATA
<1>35. CASE TxcHandler
  BY <1>35 DEF TxcHandler, AfterTxc
<1>36. CASE FrameEnds
  BY <1>36, SlowFrames DEF Quiescent, EndOfFrame, FrameEnds, DREIF
<1>37. CASE FrameArrives
  BY <1>37, ArrivalLeavesTx
<1>38. QED
  BY <1>1, <1>2, <1>3, <1>4, <1>5, <1>6, <1>7, <1>8, <1>9, <1>10, <1>11,
     <1>12, <1>13, <1>14, <1>15, <1>16, <1>17, <1>18, <1>19, <1>20, <1>21,
     <1>22, <1>23, <1>24, <1>25, <1>26, <1>27, <1>28, <1>29, <1>30, <1>31,
     <1>32, <1>33, <1>34, <1>35, <1>36, <1>37
  DEF Next, NewCall, InCall, InWrite, Handlers, Line

(* In half duplex the RXC interrupt is enabled only while no frame of ours *)
(* is on its way: what write() is about to store in CTRLA leaves it off.   *)
DeafInv ==
    /\ loopback => "h" \in state
    /\ pc = "bgConfig" /\ mode = "half" => "h" \in state
    /\ pc \in {"endFlags", "endRx", "endState"} => ~loopback
    /\ "h" \in state =>
        /\ "RXCIE" \in ctrla =>
               shift = NoByte /\ txdata = NoByte /\ "DREIE" \notin ctrla
        /\ pc = "fastSend" => "RXCIE" \notin ctrla
        /\ pc \in {"fastClear", "fastStoreCtrla", "slowClear", "slowStoreCtrla"}
              => "RXCIE" \notin reg

LEMMA DeafStep ==
    ASSUME Slow, TypeInv, QuietInv, DeafInv, [Next]_vars
    PROVE  DeafInv'
<1> USE DEF Step, Tick, Return, Called, Handler, usart, config, txWire, rxWire,
            rings, rxRing, txRing, cpu, callers, locals, history, promises,
            DeafInv
<1>1. CASE UNCHANGED vars
  BY <1>1 DEF vars
<1>2. CASE Write \/ AvailableForWrite \/ Flush \/ End \/ Available
  BY <1>2 DEF Write, AvailableForWrite, Flush, End, Available
<1>3. CASE ReadNothing \/ Read \/ GetStatus \/ SetInterrupts \/ Begin
  BY <1>3 DEF Read, ReadNothing, GetStatus, SetInterrupts, Begin
<1>4. CASE WriteLoadState
  BY <1>4 DEF WriteLoadState
<1>5. CASE WriteStoreState
  BY <1>5 DEF WriteStoreState, QuietInv
<1>6. CASE WriteTestEmpty \/ WriteTestDREIF
  BY <1>6 DEF WriteTestEmpty, WriteTestDREIF
<1>7. CASE FastLoadCtrla
  BY <1>7 DEF FastLoadCtrla
<1>8. CASE FastClear
  BY <1>8 DEF FastClear
<1>9. CASE FastStoreCtrla
  BY <1>9 DEF FastStoreCtrla
<1>10. CASE FastSend
  BY <1>10 DEF FastSend
<1>11. CASE SlowWait
  BY <1>11, PollWhenQuiet DEF SlowWait, CpuFree, Publishing, QuietInv
<1>12. CASE SlowStore \/ SlowPublish
  BY <1>12 DEF SlowStore, SlowPublish
<1>13. CASE SlowLoadCtrla
  BY <1>13 DEF SlowLoadCtrla, WithDREIE
<1>14. CASE SlowClear
  BY <1>14 DEF SlowClear
<1>15. CASE SlowStoreCtrla
  BY <1>15 DEF SlowStoreCtrla
<1>16. CASE FlushTest
  BY <1>16 DEF FlushTest, AfterFlush
<1>17. CASE FlushTestDREIE
  BY <1>17, PollWhenQuiet DEF FlushTestDREIE, CpuFree, Publishing, QuietInv
<1>18. CASE FlushTestTXCIF
  BY <1>18, PollWhenQuiet
  DEF FlushTestTXCIF, AfterFlush, CpuFree, Publishing, QuietInv
<1>19. CASE EndCTRLB
  BY <1>19 DEF EndCTRLB
<1>20. CASE EndCTRLA
  BY <1>20 DEF EndCTRLA
<1>21. CASE EndFlags \/ EndRx
  BY <1>21 DEF EndFlags, EndRx
<1>22. CASE EndState
  BY <1>22 DEF EndState, AfterEnd
<1>23. CASE BeginPoll
  BY <1>23, PollWhenQuiet DEF BeginPoll, CpuFree, Publishing, QuietInv
<1>24. CASE BeginTest \/ BeginMode
  BY <1>24 DEF BeginTest, BeginMode, TypeInv, Driver
<1>25. CASE BeginHalf
  BY <1>25 DEF BeginHalf, QuietInv, Silent, Closing
<1>26. CASE BeginConfig
  BY <1>26 DEF BeginConfig, EnableBoth, DREIF, QuietInv, Silent, Closing
<1>27. CASE ReadFetch \/ ReadAdvance \/ GetStatusLoad
  BY <1>27 DEF ReadFetch, ReadAdvance, GetStatusLoad
<1>28. CASE GetStatusStore
  BY <1>28 DEF GetStatusStore, ErrorsCleared, Errors, QuietInv
<1>29. CASE RxcHandler
  BY <1>29, ReceiveLeavesTx
<1>30. CASE DreHandler
  BY <1>30 DEF DreHandler
<1>31. CASE DreSend
  BY <1>31 DEF DreSend, AfterSend, QuietInv
<1>32. CASE TxcHandler
  BY <1>32 DEF TxcHandler, AfterTxc, TxcPending, DrePending, DREIF, QuietInv
<1>33. CASE FrameEnds
  BY <1>33, SlowFrames DEF Quiescent, EndOfFrame, FrameEnds
<1>34. CASE FrameArrives
  BY <1>34, ArrivalLeavesTx
<1>35. QED
  BY <1>1, <1>2, <1>3, <1>4, <1>5, <1>6, <1>7, <1>8, <1>9, <1>10, <1>11,
     <1>12, <1>13, <1>14, <1>15, <1>16, <1>17, <1>18, <1>19, <1>20, <1>21,
     <1>22, <1>23, <1>24, <1>25, <1>26, <1>27, <1>28, <1>29, <1>30, <1>31,
     <1>32, <1>33, <1>34
  DEF Next, NewCall, InCall, InWrite, Handlers, Line

(* Our own frames are in the receiver only while nobody listens. *)
NoEchoIn(fifo) == \A k \in 1..Len(fifo) : fifo[k].byte # Echo

EchoInv ==
    /\ "RXEN" \notin ctrlb => rxfifo = <<>>
    /\ pc = "endCtrla" => "RXEN" \notin ctrlb
    /\ "RXCIE" \in ctrla \/ ~loopback => NoEchoIn(rxfifo)

LEMMA EmptyNoEcho == NoEchoIn(<<>>)
  BY DEF NoEchoIn

LEMMA TailNoEcho ==
    ASSUME NEW s \in Seq(Frame), s # <<>>, NoEchoIn(s)
    PROVE  NoEchoIn(Tail(s)) /\ s[1].byte # Echo
<1>1. Len(s) \in Nat /\ Len(s) >= 1
  BY EmptySeq
<1>2. Len(Tail(s)) = Len(s) - 1 /\ \A i \in 1..Len(Tail(s)) : Tail(s)[i] = s[i + 1]
  BY HeadTailProperties
<1>3. QED
  BY <1>1, <1>2 DEF NoEchoIn

LEMMA ReceiveNoEcho ==
    ASSUME NEW f \in Frame, f.byte # Echo, Peripheral, NoEchoIn(rxfifo), Receive(f)
    PROVE  NoEchoIn(rxfifo')
<1>1. CASE rxfifo' = rxfifo
  BY <1>1
<1>2. CASE rxfifo' = Append(rxfifo, f)
  <2>1. rxfifo \in Seq(Frame) /\ Len(rxfifo) \in Nat
    BY DEF Peripheral
  <2>2. /\ Len(rxfifo') = Len(rxfifo) + 1
        /\ \A i \in 1..Len(rxfifo) : rxfifo'[i] = rxfifo[i]
        /\ rxfifo'[Len(rxfifo) + 1] = f
    BY <1>2, <2>1, AppendProperties
  <2>3. QED
    BY <2>1, <2>2 DEF NoEchoIn
<1>3. QED
  BY <1>1, <1>2 DEF Receive

LEMMA EchoStep ==
    ASSUME Slow, TypeInv, QuietInv, DeafInv, EchoInv, [Next]_vars
    PROVE  EchoInv'
<1> USE DEF EchoInv, Step, Tick, Return, Called, Handler, usart, config, txWire, rxWire,
            rings, rxRing, txRing, cpu, callers, locals, history, promises
<1>1. CASE /\ UNCHANGED <<ctrlb, loopback, rxfifo>>
           /\ pc' = "endCtrla" => pc = "endCtrla"
           /\ "RXCIE" \in ctrla' => "RXCIE" \in ctrla
  BY <1>1
<1>2. CASE UNCHANGED usart /\ (pc' = "endCtrla" => pc = "endCtrla")
  BY <1>1, <1>2
<1>3. CASE FastClear \/ FastSend \/ SlowClear \/ EndFlags
  BY <1>1, <1>3 DEF FastClear, FastSend, SlowClear, EndFlags
<1>4. CASE FastStoreCtrla
  BY <1>4 DEF FastStoreCtrla, QuietInv, DeafInv
<1>5. CASE SlowWait \/ FlushTestDREIE \/ FlushTestTXCIF \/ BeginPoll
  BY <1>1, <1>5, PollOnlyDisables
  DEF SlowWait, FlushTestDREIE, FlushTestTXCIF, BeginPoll, AfterFlush
<1>6. CASE SlowStoreCtrla
  BY <1>6 DEF SlowStoreCtrla, DeafInv
<1>7. CASE EndCTRLB
  BY <1>7, EmptyNoEcho DEF EndCTRLB, DiscardRx
<1>8. CASE EndCTRLA
  BY <1>8, EmptyNoEcho DEF EndCTRLA
<1>9. CASE BeginConfig
  BY <1>9, EmptyNoEcho DEF BeginConfig, EnableBoth, DiscardRx
<1>10. CASE RxcHandler
  <2>1. rxfifo \in Seq(Frame) /\ rxfifo # <<>> /\ rxfifo' = Tail(rxfifo)
    BY <1>10 DEF RxcHandler, RxcPending, RXCIF, ReadRXDATA, TypeInv, Peripheral
  <2>2. NoEchoIn(rxfifo) => NoEchoIn(rxfifo')
    BY <2>1, TailNoEcho
  <2>3. UNCHANGED <<config, pc>>
    BY <1>10, ReceiveLeavesTx
  <2>4. QED
    BY <2>1, <2>2, <2>3
<1>11. CASE DreHandler \/ DreSend
  BY <1>1, <1>11 DEF DreHandler, DreSend, AfterSend
<1>12. CASE TxcHandler
  BY <1>12, EmptyNoEcho DEF TxcHandler, EchoDiscarded, DiscardRx
<1>13. CASE FrameEnds
  <2>1. Quiescent /\ EndOfFrame /\ UNCHANGED pc
    BY <1>13, SlowFrames DEF FrameEnds
  <2>2. loopback => "RXCIE" \notin ctrla
    BY <2>1 DEF EndOfFrame, DeafInv
  <2>3. CASE loopback /\ "RXEN" \in ctrlb
    BY <2>1, <2>2, <2>3 DEF EndOfFrame, Quiescent
  <2>4. CASE ~(loopback /\ "RXEN" \in ctrlb)
    BY <2>1, <2>4 DEF EndOfFrame
  <2>5. QED
    BY <2>3, <2>4
<1>14. CASE FrameArrives
  <2>1. PICK errs \in LineErrors : Arrival(errs)
    BY <1>14 DEF FrameArrives
  <2> DEFINE frame == [byte |-> arrived + 1, errs |-> errs]
  <2>2. frame \in Frame /\ frame.byte # Echo
    BY LineErrorsAssumption DEF Frame, TypeInv, Peripheral, Echo
  <2>3. Receive(frame) /\ UNCHANGED config /\ "RXEN" \in ctrlb
    BY <2>1 DEF Arrival
  <2> HIDE DEF frame
  <2>4. NoEchoIn(rxfifo) => NoEchoIn(rxfifo')
    BY <2>2, <2>3, ReceiveNoEcho DEF TypeInv
  <2>5. UNCHANGED pc
    BY <1>14 DEF FrameArrives
  <2>6. QED
    BY <2>3, <2>4, <2>5
<1>15. QED
  BY <1>1, <1>2, <1>3, <1>4, <1>5, <1>6, <1>7, <1>8, <1>9, <1>10, <1>11,
     <1>12, <1>13, <1>14
  DEF Next, NewCall, InCall, InWrite, Handlers, Line, vars, Write, AfterFlush, AfterEnd,
      AvailableForWrite, Flush, End, Begin, Available, ReadNothing, Read,
      GetStatus, SetInterrupts, WriteLoadState, WriteStoreState,
      WriteTestEmpty, WriteTestDREIF, FastLoadCtrla, SlowStore, SlowPublish,
      SlowLoadCtrla, FlushTest, EndRx, EndState, BeginTest, BeginMode,
      BeginHalf, ReadFetch, ReadAdvance, GetStatusLoad, GetStatusStore

LEMMA ListeningInvariant ==
    ASSUME Slow
    PROVE  Spec => [](TypeInv /\ QuietInv /\ DeafInv /\ EchoInv)
<1> DEFINE Inv == QuietInv /\ DeafInv /\ EchoInv
<1>1. Init => Inv
  BY EmptyNoEcho
  DEF Init, UsartInit, QuietInv, DeafInv, EchoInv, Silent, Closing, Publishing,
      WriteLabels
<1>2. TypeInv /\ Inv /\ [Next]_vars => Inv'
  BY QuietStep, DeafStep, EchoStep
<1>3. Spec => [](TypeInv /\ RxInv)
  BY RxInvariant
<1>4. QED
  BY <1>1, <1>2, <1>3, PTL DEF Spec

----------------------------------------------------------------------------
(* Transmitting.  A handler between write()'s load and store of CTRLA may  *)
(* empty the ring and disable the DRE interrupt, which the store enables   *)
(* again: the next handler would send a stale slot.  That takes two frames *)
(* within one write(), or one and other handlers.  Paced excludes it: a    *)
(* program with interrupts on only transmits, and then at most one frame   *)
(* ends while the CPU is busy; or no frame ends while it is, and either    *)
(* interrupts are never off or nothing is received while it transmits.     *)

Sending == MaxRx = 0 /\ Modes \subseteq {"full"}

Paced ==
    TRUE \in Contexts =>
        \/ FramesPerWindow[TRUE] <= 1 /\ Sending
        \/ Slow /\ (Contexts = {TRUE} \/ MaxRx = 0 \/ Modes \subseteq {"half"})

(* How many bytes the DRE handler may take from the ring before the        *)
(* program waits for the line again: one for each empty register and one   *)
(* for the frame that may end.                                             *)
Empty(r) == IF r = NoByte THEN 1 ELSE 0
Allowed == IF frames < FramesPerWindow[TRUE] THEN 1 ELSE 0
Takes == Empty(txdata) + Empty(shift) + Allowed

LEMMA TakesNat ==
    /\ Allowed \in {0, 1} /\ Takes \in 0..3
    /\ Allowed' \in {0, 1} /\ Takes' \in 0..3
<1>1. Allowed = 0 \/ Allowed = 1
  BY Zenon DEF Allowed
<1>2. Allowed' = 0 \/ Allowed' = 1
  BY Zenon DEF Allowed
<1>3. Allowed \in {0, 1} /\ Takes \in 0..3
  BY <1>1 DEF Takes, Empty
<1>4. Allowed' \in {0, 1} /\ Takes' \in 0..3
  BY <1>2 DEF Takes, Empty
<1>5. QED
  BY <1>3, <1>4

(* What the transmit side needs of it.  When the DRE interrupt is on, no   *)
(* other handler delays it by an instruction, or just one byte is due.     *)
Calm ==
    Driven => /\ FramesPerWindow[TRUE] <= 1
              /\ RxcPending => Takes <= 1
              /\ TxcPending => DrePending

(* A program that only transmits meets no handler but DRE's. *)
Alone ==
    /\ rxfifo = <<>> /\ arrived = 0 /\ ~loopback
    /\ mode = "full" /\ "h" \notin state
    /\ "TXCIE" \notin ctrla
    /\ pc \notin {"bgHalf", "fastLoadCtrla", "fastStoreCtrla", "slowClear"}
    /\ pc \in {"wrStoreState", "gsStore"} => "h" \notin reg
    /\ pc = "slowStoreCtrla" => "TXCIE" \notin reg

LEMMA AloneStep ==
    ASSUME Sending, Alone, [Next]_vars
    PROVE  Alone'
<1> USE DEF Step, Tick, Return, Called, Handler, usart, config, txWire, rxWire,
            rings, rxRing, txRing, cpu, callers, locals, history, promises
<1>1. ASSUME /\ UNCHANGED <<ie, rxfifo, arrived, loopback, mode, ctrla>>
             /\ "h" \in state' => "h" \in state
             /\ \/ UNCHANGED <<pc, reg>>
                \/ pc' \notin {"bgHalf", "fastLoadCtrla", "fastStoreCtrla", "slowClear",
                               "wrStoreState", "gsStore", "slowStoreCtrla"}
      PROVE  Alone'
  BY <1>1 DEF Alone, Sending
<1>2. CASE UNCHANGED vars
  BY <1>1, <1>2 DEF vars
<1>3. CASE Write \/ AvailableForWrite \/ Flush \/ End \/ Available
           \/ ReadNothing \/ Read \/ GetStatus
  BY <1>1, <1>3
  DEF Write, AvailableForWrite, Flush, End, Available, ReadNothing, Read,
      GetStatus
<1>4. CASE WriteTestEmpty \/ SlowStore \/ FastSend
  BY <1>1, <1>4 DEF WriteTestEmpty, SlowStore, FastSend
<1>5. CASE FlushTest \/ EndFlags \/ EndRx \/ EndState
  BY <1>1, <1>5 DEF FlushTest, EndFlags, EndRx, EndState, AfterFlush, AfterEnd
<1>6. CASE BeginTest \/ ReadFetch \/ ReadAdvance \/ DreHandler
  BY <1>1, <1>6 DEF BeginTest, ReadFetch, ReadAdvance, DreHandler
<1>7. CASE Begin
  BY <1>7 DEF Begin, Alone, Sending
<1>8. CASE SetInterrupts
  BY <1>8, ContextsAssumption DEF SetInterrupts, Alone, Sending
<1>9. CASE WriteLoadState
  BY <1>9 DEF WriteLoadState, Alone, Sending
<1>10. CASE WriteStoreState
  BY <1>10 DEF WriteStoreState, Alone, Sending
<1>11. CASE WriteTestDREIF
  BY <1>11 DEF WriteTestDREIF, Alone, Sending
<1>12. CASE FastLoadCtrla
  BY <1>12 DEF FastLoadCtrla, Alone, Sending
<1>13. CASE FastClear
  BY <1>13 DEF FastClear, Alone, Sending
<1>14. CASE FastStoreCtrla
  BY <1>14 DEF FastStoreCtrla, Alone, Sending
<1>15. CASE SlowWait
  BY <1>15, PollOnlyDisables DEF SlowWait, Alone, Sending
<1>16. CASE SlowPublish
  BY <1>16 DEF SlowPublish, Alone, Sending
<1>17. CASE SlowLoadCtrla
  BY <1>17 DEF SlowLoadCtrla, Alone, Sending, WithDREIE
<1>18. CASE SlowClear
  BY <1>18 DEF SlowClear, Alone, Sending
<1>19. CASE SlowStoreCtrla
  BY <1>19 DEF SlowStoreCtrla, Alone, Sending
<1>20. CASE FlushTestDREIE
  BY <1>20, PollOnlyDisables DEF FlushTestDREIE, Alone, Sending
<1>21. CASE FlushTestTXCIF
  BY <1>21, PollOnlyDisables DEF FlushTestTXCIF, Alone, Sending, AfterFlush
<1>22. CASE EndCTRLB
  BY <1>22 DEF EndCTRLB, Alone, Sending, DiscardRx
<1>23. CASE EndCTRLA
  BY <1>23 DEF EndCTRLA, Alone, Sending
<1>24. CASE BeginPoll
  BY <1>24, PollOnlyDisables DEF BeginPoll, Alone, Sending
<1>25. CASE BeginMode
  BY <1>25 DEF BeginMode, Alone, Sending
<1>26. CASE BeginHalf
  BY <1>26 DEF BeginHalf, Alone, Sending
<1>27. CASE BeginConfig
  BY <1>27 DEF BeginConfig, Alone, Sending, EnableBoth, DiscardRx
<1>28. CASE GetStatusLoad
  BY <1>28 DEF GetStatusLoad, Alone, Sending
<1>29. CASE GetStatusStore
  BY <1>29 DEF GetStatusStore, Alone, Sending, ErrorsCleared
<1>30. CASE RxcHandler
  BY <1>30 DEF RxcHandler, Alone, Sending, RxcPending, RXCIF
<1>31. CASE DreSend
  BY <1>31 DEF DreSend, Alone, Sending, AfterSend
<1>32. CASE TxcHandler
  BY <1>32 DEF TxcHandler, Alone, Sending, TxcPending
<1>33. CASE FrameEnds
  BY <1>33 DEF FrameEnds, Alone, Sending, EndOfFrame
<1>34. ~FrameArrives
  <2>1. ASSUME MaxRx = 0, arrived = 0
        PROVE  ~(arrived < IF written = 0 THEN MaxRx ELSE MaxBoth)
    BY <2>1, BoundsAssumption
  <2>2. QED
    BY <2>1 DEF FrameArrives, Alone, Sending
<1>35. QED
  BY <1>2, <1>3, <1>4, <1>5, <1>6, <1>7, <1>8, <1>9, <1>10, <1>11, <1>12,
     <1>13, <1>14, <1>15, <1>16, <1>17, <1>18, <1>19, <1>20, <1>21, <1>22,
     <1>23, <1>24, <1>25, <1>26, <1>27, <1>28, <1>29, <1>30, <1>31, <1>32,
     <1>33, <1>34
  DEF Next, NewCall, InCall, InWrite, Handlers, Line

(* begin() was given one of the Modes; where that is always half duplex,   *)
(* _state says so from begin() to end().                                   *)
ModeInv ==
    /\ pc \in {"bgPoll", "bgTest", "bgMode", "bgHalf", "bgConfig"} => mode \in Modes
    /\ pc \in {"flTest", "flDreie", "flTxcif", "endCtrlb", "endCtrla",
               "endFlags", "endRx", "endState"}
          => call \in {"flush", "end"} \/ mode \in Modes
    /\ pc \in {"endCtrlb", "endCtrla", "endFlags", "endRx", "endState"}
          => call # "flush"
    /\ pc \in {"endCtrla", "endFlags", "endRx", "endState"} => "TXEN" \notin ctrlb
    /\ Modes \subseteq {"half"} /\ "TXEN" \in ctrlb /\ ~Closing => "h" \in state

LEMMA ModeStep ==
    ASSUME TypeInv, QuietInv, DeafInv, ModeInv, [Next]_vars
    PROVE  ModeInv'
<1> USE DEF Step, Tick, Return, Called, Handler, usart, config, txWire, rxWire,
            rings, rxRing, txRing, cpu, callers, locals, history, promises,
            ModeInv, Closing
<1>1. CASE /\ UNCHANGED <<ctrlb, state>>
           /\ UNCHANGED <<mode, call, pc>>
  BY <1>1
<1>2. CASE UNCHANGED vars \/ DreHandler \/ DreSend \/ TxcHandler \/ FrameEnds
  BY <1>1, <1>2 DEF vars, DreHandler, DreSend, TxcHandler, FrameEnds, EndOfFrame
<1>3. CASE Write \/ AvailableForWrite \/ Flush \/ End \/ Available
  BY <1>3 DEF Write, AvailableForWrite, Flush, End, Available
<1>4. CASE ReadNothing \/ Read \/ GetStatus \/ SetInterrupts \/ Begin
  BY <1>4 DEF Read, ReadNothing, GetStatus, SetInterrupts, Begin
<1>5. CASE WriteStoreState
  BY <1>5 DEF WriteStoreState, QuietInv
<1>6. CASE WriteLoadState \/ WriteTestEmpty \/ WriteTestDREIF \/ FastLoadCtrla
  BY <1>6 DEF WriteLoadState, WriteTestEmpty, WriteTestDREIF, FastLoadCtrla
<1>7. CASE FastClear \/ FastStoreCtrla \/ FastSend \/ SlowWait \/ SlowStore
  BY <1>7 DEF FastClear, FastStoreCtrla, FastSend, SlowWait, SlowStore
<1>8. CASE SlowPublish \/ SlowLoadCtrla \/ SlowClear \/ SlowStoreCtrla
  BY <1>8 DEF SlowPublish, SlowLoadCtrla, SlowClear, SlowStoreCtrla
<1>9. CASE FlushTest \/ FlushTestDREIE \/ FlushTestTXCIF
  BY <1>9 DEF FlushTest, FlushTestDREIE, FlushTestTXCIF, AfterFlush
<1>10. CASE EndCTRLB \/ EndCTRLA \/ EndFlags \/ EndRx
  BY <1>10 DEF EndCTRLB, EndCTRLA, EndFlags, EndRx
<1>11. CASE EndState
  BY <1>11 DEF EndState, AfterEnd
<1>12. CASE BeginPoll \/ BeginTest
  BY <1>12 DEF BeginPoll, BeginTest
<1>13. CASE BeginMode \/ BeginHalf
  BY <1>13 DEF BeginMode, BeginHalf
<1>14. CASE BeginConfig
  BY <1>14 DEF BeginConfig, EnableBoth, DeafInv
<1>15. CASE ReadFetch \/ ReadAdvance \/ GetStatusLoad
  BY <1>15 DEF ReadFetch, ReadAdvance, GetStatusLoad
<1>16. CASE GetStatusStore
  BY <1>16 DEF GetStatusStore, ErrorsCleared, Errors, QuietInv
<1>17. CASE RxcHandler
  BY <1>17, ReceiveLeavesTx
<1>18. CASE FrameArrives
  BY <1>1, <1>18, ArrivalLeavesTx
<1>19. QED
  BY <1>2, <1>3, <1>4, <1>5, <1>6, <1>7, <1>8, <1>9, <1>10, <1>11, <1>12,
     <1>13, <1>14, <1>15, <1>16, <1>17, <1>18
  DEF Next, NewCall, InCall, InWrite, Handlers, Line

(* Where the other end sends nothing, all there is to receive is our own.  *)
EchoesOnly(fifo) == \A k \in 1..Len(fifo) : fifo[k].byte = Echo

LEMMA EchoesOnlyStep ==
    ASSUME MaxRx = 0, TypeInv, EchoesOnly(rxfifo), [Next]_vars
    PROVE  EchoesOnly(rxfifo')
<1>1. CASE rxfifo' = rxfifo
  BY <1>1
<1>2. CASE rxfifo' = <<>>
  BY <1>2 DEF EchoesOnly
<1>3. CASE RxcHandler
  <2>1. rxfifo \in Seq(Frame) /\ rxfifo # <<>> /\ rxfifo' = Tail(rxfifo)
    BY <1>3 DEF RxcHandler, RxcPending, RXCIF, ReadRXDATA, TypeInv, Peripheral
  <2>2. /\ Len(rxfifo') = Len(rxfifo) - 1 /\ Len(rxfifo) \in Nat
        /\ \A i \in 1..Len(rxfifo') : rxfifo'[i] = rxfifo[i + 1]
    BY <2>1, HeadTailProperties
  <2>3. QED
    BY <2>2 DEF EchoesOnly
<1>4. CASE FrameEnds
  <2> DEFINE echo == [byte |-> Echo, errs |-> {}]
  <2>1. rxfifo' = rxfifo \/ rxfifo' = Append(rxfifo, echo)
    BY <1>4 DEF FrameEnds, EndOfFrame, Receive
  <2>2. echo \in Frame /\ echo.byte = Echo
    BY DEF Frame, Echo
  <2> HIDE DEF echo
  <2>3. rxfifo \in Seq(Frame) /\ Len(rxfifo) \in Nat
    BY DEF TypeInv, Peripheral
  <2>4. CASE rxfifo' = Append(rxfifo, echo)
    <3>1. /\ Len(rxfifo') = Len(rxfifo) + 1
          /\ \A i \in 1..Len(rxfifo) : rxfifo'[i] = rxfifo[i]
          /\ rxfifo'[Len(rxfifo) + 1] = echo
      BY <2>2, <2>3, <2>4, AppendProperties
    <3>2. QED
      BY <2>2, <2>3, <3>1 DEF EchoesOnly
  <2>5. QED
    BY <1>1, <2>1, <2>4
<1>5. ~FrameArrives
  BY BoundsAssumption DEF FrameArrives, TypeInv, Peripheral
<1>6. QED
  BY <1>1, <1>2, <1>3, <1>4, <1>5
  DEF Step, Tick, Return, Called, Handler, usart, config, txWire, rxWire,
      rings, rxRing, txRing, cpu, callers, locals, history, promises,
      vars, Next, NewCall, InCall, InWrite, Handlers, Line,
      Write, AvailableForWrite, Flush, End, Begin, Available, ReadNothing,
      Read, GetStatus, SetInterrupts, WriteLoadState, WriteStoreState,
      WriteTestEmpty, WriteTestDREIF, FastLoadCtrla, FastClear,
      FastStoreCtrla, FastSend, SlowWait, SlowStore, SlowPublish,
      SlowLoadCtrla, SlowClear, SlowStoreCtrla, FlushTest, FlushTestDREIE,
      FlushTestTXCIF, EndCTRLB, EndCTRLA, EndFlags, EndRx, EndState,
      BeginPoll, BeginTest, BeginMode, BeginHalf, BeginConfig, ReadFetch,
      ReadAdvance, GetStatusLoad, GetStatusStore, DreHandler, DreSend,
      TxcHandler, EnableBoth, DiscardRx, EchoDiscarded

(* While the DRE interrupt is on, a half-duplex port is deaf, and a        *)
(* full-duplex one receives nothing where nobody sends.                    *)
LEMMA DeafIsCalm ==
    ASSUME Slow, MaxRx = 0 \/ Modes \subseteq {"half"},
           TypeInv, QuietInv, DeafInv, EchoInv, ModeInv,
           MaxRx = 0 => EchoesOnly(rxfifo)
    PROVE  Calm
<1> SUFFICES ASSUME Driven
             PROVE  /\ FramesPerWindow[TRUE] <= 1 /\ ~RxcPending
                    /\ TxcPending => DrePending
  BY DEF Calm
<1>1. FramesPerWindow[TRUE] <= 1
  <2>1. FramesPerWindow[TRUE] = 0
    BY DEF Slow
  <2>2. QED
    BY <2>1
<1>2. TxcPending => DrePending
  BY DEF TxcPending, DrePending, QuietInv, DREIF, Driven
<1>3. CASE Modes \subseteq {"half"}
  <2>1. "TXEN" \in ctrlb /\ ~Closing
    BY DEF QuietInv, Silent, Driven
  <2>2. "h" \in state
    BY <1>3, <2>1 DEF ModeInv
  <2>3. QED
    BY <1>1, <1>2, <2>2 DEF DeafInv, RxcPending, Driven
<1>4. CASE MaxRx = 0
  <2>1. rxfifo # <<>> => "RXCIE" \notin ctrla
    <3>1. SUFFICES ASSUME rxfifo # <<>>, "RXCIE" \in ctrla PROVE FALSE
      OBVIOUS
    <3>2. Len(rxfifo) \in Nat /\ Len(rxfifo) >= 1
      BY <3>1, EmptySeq DEF TypeInv, Peripheral
    <3>3. rxfifo[1].byte = Echo
      BY <1>4, <3>2 DEF EchoesOnly
    <3>4. rxfifo[1].byte # Echo
      BY <3>1, <3>2 DEF EchoInv, NoEchoIn
    <3>5. QED
      BY <3>3, <3>4
  <2>2. QED
    BY <1>1, <1>2, <2>1 DEF RxcPending, RXCIF
<1>5. QED
  BY <1>3, <1>4

(* Where interrupts are never off, the DRE interrupt is on only while a    *)
(* frame is on the line: the handler refills the data register before the  *)
(* program waits for the next one.                                         *)
SlowPath == pc \in {"slowWait", "slowStore", "slowPublish"} \/ Publishing

PromptInv ==
    /\ ie
    /\ "DREIE" \in ctrla \/ SlowPath => shift # NoByte
    /\ "TXEN" \in ctrlb /\ shift = NoByte => DREIF
    /\ pc \in {"fastClear", "fastStoreCtrla"} /\ "h" \in state /\ "DREIE" \in reg
          => shift # NoByte
    /\ pc \in {"wrDreif", "slowWait", "slowStore", "slowPublish"}
          => idx = Succ(txHead, TxSize)

LEMMA PromptStep ==
    ASSUME Slow, Contexts = {TRUE}, TypeInv, QuietInv, PromptInv, [Next]_vars
    PROVE  PromptInv'
<1> USE DEF Step, Tick, Return, Called, Handler, usart, config, txWire, rxWire,
            rings, rxRing, txRing, cpu, callers, locals, history, promises,
            PromptInv, SlowPath, Publishing, DREIF
<1>1. CASE UNCHANGED vars
  BY <1>1 DEF vars
<1>2. CASE \/ Write \/ AvailableForWrite \/ Flush \/ End \/ Begin \/ Available
           \/ ReadNothing \/ Read \/ GetStatus \/ SetInterrupts
  BY <1>2
  DEF Write, AvailableForWrite, Flush, End, Begin, Available, ReadNothing, Read,
      GetStatus, SetInterrupts
<1>3. CASE WriteLoadState \/ WriteStoreState
  BY <1>3 DEF WriteLoadState, WriteStoreState
<1>4. CASE WriteTestEmpty
  BY <1>4 DEF WriteTestEmpty, Shortcut, QuietInv
<1>5. CASE WriteTestDREIF
  BY <1>5 DEF WriteTestDREIF, QuietInv, WriteLabels
<1>6. CASE FastLoadCtrla \/ FastClear
  BY <1>6 DEF FastLoadCtrla, FastClear
<1>7. CASE FastStoreCtrla
  BY <1>7 DEF FastStoreCtrla, QuietInv
<1>8. CASE FastSend
  BY <1>8 DEF FastSend, PutTXDATA, TypeInv, Driver, NoByte
<1>9. CASE SlowWait
  BY <1>9, PollOnlyDisables DEF SlowWait
<1>10. CASE SlowStore \/ SlowPublish \/ SlowLoadCtrla \/ SlowClear \/ SlowStoreCtrla
  BY <1>10 DEF SlowStore, SlowPublish, SlowLoadCtrla, SlowClear, SlowStoreCtrla
<1>11. CASE FlushTest \/ FlushTestDREIE \/ FlushTestTXCIF
  BY <1>11, PollOnlyDisables
  DEF FlushTest, FlushTestDREIE, FlushTestTXCIF, AfterFlush
<1>12. CASE EndCTRLB \/ EndCTRLA \/ EndFlags \/ EndRx \/ EndState
  BY <1>12 DEF EndCTRLB, EndCTRLA, EndFlags, EndRx, EndState, AfterEnd
<1>13. CASE BeginPoll \/ BeginTest \/ BeginMode \/ BeginHalf
  BY <1>13, PollOnlyDisables DEF BeginPoll, BeginTest, BeginMode, BeginHalf
<1>14. CASE BeginConfig
  BY <1>14 DEF BeginConfig, EnableBoth
<1>15. CASE ReadFetch \/ ReadAdvance \/ GetStatusLoad \/ GetStatusStore
  BY <1>15 DEF ReadFetch, ReadAdvance, GetStatusLoad, GetStatusStore
<1>16. CASE RxcHandler
  BY <1>16, ReceiveLeavesTx
<1>17. CASE DreHandler \/ TxcHandler
  BY <1>17 DEF DreHandler, TxcHandler, AfterTxc
<1>18. CASE DreSend
  <2>1. txBuf[txTail] # NoByte
    BY DEF TypeInv, Driver, Buffers, NoByte
  <2>2. QED
    BY <1>18, <2>1 DEF DreSend, AfterSend, PutTXDATA
<1>19. CASE FrameEnds
  <2>1. Quiescent /\ EndOfFrame
    BY <1>19, SlowFrames
  <2>2. "DREIE" \in ctrla => txdata # NoByte
    BY <2>1 DEF Quiescent, Pending, DrePending
  <2>3. ~SlowPath \/ (pc = "slowWait" /\ idx = txTail)
    BY <2>1 DEF Quiescent
  <2>4. pc = "slowWait" /\ idx = txTail => txHead # txTail
    BY AssumedSizes, SuccValue DEF TypeInv, Driver
  <2>5. pc = "slowWait" /\ idx = txTail => "DREIE" \in ctrla
    BY <2>4 DEF QuietInv
  <2>6. QED
    BY <1>19, <2>1, <2>2, <2>3, <2>5 DEF FrameEnds, EndOfFrame, Quiescent
<1>20. CASE FrameArrives
  BY <1>20, ArrivalLeavesTx
<1>21. QED
  BY <1>1, <1>2, <1>3, <1>4, <1>5, <1>6, <1>7, <1>8, <1>9, <1>10, <1>11,
     <1>12, <1>13, <1>14, <1>15, <1>16, <1>17, <1>18, <1>19, <1>20
  DEF Next, NewCall, InCall, InWrite, Handlers, Line

LEMMA PromptIsCalm ==
    ASSUME Slow, TypeInv, QuietInv, PromptInv
    PROVE  Calm
<1>1. FramesPerWindow[TRUE] = 0 /\ frames \in Nat
  BY DEF Slow, TypeInv, Driver
<1>2. Driven => Takes <= 1
  <2>1. Allowed = 0
    BY <1>1 DEF Allowed
  <2>2. QED
    BY <2>1 DEF PromptInv, Driven, Takes, Empty
<1>3. Driven /\ TxcPending => DrePending
  BY DEF TxcPending, DrePending, QuietInv, DREIF, Driven
<1>4. FramesPerWindow[TRUE] <= 1
  BY <1>1
<1>5. QED
  BY <1>2, <1>3, <1>4 DEF Calm

(* Paced leaves the transmit side its calm. *)
LEMMA CalmAlways ==
    ASSUME Paced
    PROVE  Spec => [](TypeInv /\ Calm)
<1>1. ASSUME TRUE \notin Contexts
      PROVE  Spec => []Calm
  <2> DEFINE Masked == ie \in Contexts
  <2>1. Init => Masked
    BY DEF Init
  <2>2. Masked /\ [Next]_vars => Masked'
    <3> USE DEF Step, Handler, usart, config, txWire, rxWire, rings, rxRing,
                txRing, cpu, callers, locals, history, promises
    <3>1. QED
      BY DEF vars, Next, NewCall, InCall, InWrite, Handlers, Line,
         Write, AvailableForWrite, Flush, End, Begin, Available, ReadNothing,
         Read, GetStatus, SetInterrupts, WriteLoadState, WriteStoreState,
         WriteTestEmpty, WriteTestDREIF, FastLoadCtrla, FastClear,
         FastStoreCtrla, FastSend, SlowWait, SlowStore, SlowPublish,
         SlowLoadCtrla, SlowClear, SlowStoreCtrla, FlushTest, FlushTestDREIE,
         FlushTestTXCIF, EndCTRLB, EndCTRLA, EndFlags, EndRx, EndState,
         BeginPoll, BeginTest, BeginMode, BeginHalf, BeginConfig, ReadFetch,
         ReadAdvance, GetStatusLoad, GetStatusStore, RxcHandler, DreHandler,
         DreSend, TxcHandler, FrameEnds, FrameArrives
  <2>3. Masked => Calm
    <3>1. ie \in Contexts => ie = FALSE
      BY <1>1, ContextsAssumption
    <3>2. ie \in Contexts => ~ie
      BY <3>1, Zenon
    <3>3. QED
      BY <3>2 DEF Calm, Driven
  <2> HIDE DEF Masked
  <2>4. QED
    BY <2>1, <2>2, <2>3, PTL DEF Spec
<1>2. ASSUME FramesPerWindow[TRUE] <= 1, Sending
      PROVE  Spec => []Calm
  <2>1. Init => Alone
    BY DEF Init, UsartInit, Alone
  <2>2. Alone /\ [Next]_vars => Alone'
    BY <1>2, AloneStep
  <2>3. Alone => Calm
    BY <1>2 DEF Alone, Calm, RxcPending, RXCIF, TxcPending
  <2>4. QED
    BY <2>1, <2>2, <2>3, PTL DEF Spec
<1>3. ASSUME Slow, MaxRx = 0 \/ Modes \subseteq {"half"}
      PROVE  Spec => []Calm
  <2> DEFINE Own == MaxRx = 0 => EchoesOnly(rxfifo)
  <2>1. Init => ModeInv /\ Own
    BY DEF Init, UsartInit, ModeInv, Closing, EchoesOnly
  <2>2. TypeInv /\ QuietInv /\ DeafInv /\ ModeInv /\ [Next]_vars => ModeInv'
    BY ModeStep
  <2>3. TypeInv /\ Own /\ [Next]_vars => Own'
    BY EchoesOnlyStep DEF EchoesOnly
  <2>4. TypeInv /\ QuietInv /\ DeafInv /\ EchoInv /\ ModeInv /\ Own => Calm
    BY <1>3, DeafIsCalm
  <2>5. Spec => [](TypeInv /\ QuietInv /\ DeafInv /\ EchoInv)
    BY <1>3, ListeningInvariant
  <2> HIDE DEF Own
  <2>6. QED
    BY <2>1, <2>2, <2>3, <2>4, <2>5, PTL DEF Spec
<1>4. ASSUME Slow, Contexts = {TRUE}
      PROVE  Spec => []Calm
  <2>1. Init => PromptInv
    BY <1>4 DEF Init, UsartInit, PromptInv, SlowPath, Publishing, DREIF
  <2>2. TypeInv /\ QuietInv /\ PromptInv /\ [Next]_vars => PromptInv'
    BY <1>4, PromptStep
  <2>3. TypeInv /\ QuietInv /\ PromptInv => Calm
    BY <1>4, PromptIsCalm
  <2>4. Spec => [](TypeInv /\ QuietInv /\ DeafInv /\ EchoInv)
    BY <1>4, ListeningInvariant
  <2>5. QED
    BY <2>1, <2>2, <2>3, <2>4, PTL DEF Spec
<1>5. Spec => []TypeInv
  BY RxInvariant, PTL
<1>6. Spec => []Calm
  BY <1>1, <1>2, <1>3, <1>4 DEF Paced
<1>7. QED
  BY <1>5, <1>6, PTL

(* The ring on the way out.  The DRE interrupt is enabled only for a ring  *)
(* that holds a byte, the shortcut is taken only past an empty one, and    *)
(* the slot write() waits for stays the one after the head.                *)
ShortcutTaken == pc \in {"fastLoadCtrla", "fastClear", "fastStoreCtrla", "fastSend"}

RingInv ==
    /\ "DREIE" \in ctrla => txHead # txTail
    /\ pc = "wrDreif" => txHead = txTail
    /\ ShortcutTaken => txHead = txTail /\ DREIF
    /\ pc = "fastStoreCtrla" => "DREIE" \notin reg
    /\ pc = "fastClear" /\ "h" \in state => "DREIE" \notin reg
    /\ isr # "none" => txHead # txTail /\ DREIF
    /\ isr = "dre" => Driven
    /\ isr = "poll" => ~ie /\ pc \in {"slowWait", "flDreie", "bgTest"}
    /\ pc \in {"wrDreif", "slowWait", "slowStore", "slowPublish"}
           => idx = Succ(txHead, TxSize)
    /\ pc \in {"slowStore", "slowPublish"} => idx # txTail
    /\ Publishing => txHead # txTail

(* With the interrupt enabled the handler takes at most one byte by the    *)
(* time write() publishes its own, which leaves that one.                  *)
PaceInv ==
    /\ pc \in WriteLabels => "TXEN" \in ctrlb
    /\ "TXEN" \in ctrlb /\ shift = NoByte => DREIF
    /\ Driven =>
        /\ fresh => Takes <= 2
        /\ pc = "wrLoadState" => Takes <= 2 /\ (fresh => Takes <= 1)
        /\ pc \in {"wrStoreState", "wrEmpty", "slowStore", "slowPublish"} => Takes <= 1
        /\ pc = "slowWait" => Takes <= 2 /\ (Takes = 2 => idx = txTail)
        /\ Publishing => Takes < TxCount

(* Storing into the slot at the head and sending change the ring; nothing  *)
(* else does.                                                              *)
LEMMA PublishPuts ==
    ASSUME Driver, RingInv, SlowPublish
    PROVE  /\ Ring(txBuf', txHead', txTail', TxSize)
                = Append(Ring(txBuf, txHead, txTail, TxSize), txBuf[txHead])
           /\ TxCount' = TxCount + 1
<1>1. /\ txHead \in Slots(TxSize) /\ txTail \in Slots(TxSize)
      /\ txBuf \in Buffers(TxSize) /\ txBuf[txHead] \in Nat
  BY DEF Driver, Buffers
<1>2. /\ txHead' = Succ(txHead, TxSize) /\ txTail' = txTail /\ txBuf' = txBuf
      /\ HasRoom(Succ(txHead, TxSize), txTail)
  BY DEF SlowPublish, Step, RingInv, HasRoom
<1>3. txBuf = [txBuf EXCEPT ![txHead] = txBuf[txHead]]
  BY <1>1 DEF Buffers
<1>4. /\ Ring([txBuf EXCEPT ![txHead] = txBuf[txHead]], Succ(txHead, TxSize),
              txTail, TxSize)
           = Append(Ring(txBuf, txHead, txTail, TxSize), txBuf[txHead])
      /\ Count(Succ(txHead, TxSize), txTail, TxSize) = TxCount + 1
  BY <1>1, <1>2, AssumedSizes, RingPut DEF TxCount
<1>5. QED
  BY <1>2, <1>3, <1>4 DEF TxCount

LEMMA SendGets ==
    ASSUME Driver, RingInv, DreSend
    PROVE  /\ Ring(txBuf, txHead, txTail, TxSize) # <<>>
           /\ Head(Ring(txBuf, txHead, txTail, TxSize)) = txBuf[txTail]
           /\ Ring(txBuf', txHead', txTail', TxSize)
                = Tail(Ring(txBuf, txHead, txTail, TxSize))
           /\ TxCount' = TxCount - 1
<1>1. /\ txHead \in Slots(TxSize) /\ txTail \in Slots(TxSize)
      /\ txBuf \in Buffers(TxSize)
  BY DEF Driver
<1>2. /\ txHead' = txHead /\ txTail' = Succ(txTail, TxSize) /\ txBuf' = txBuf
      /\ txHead # txTail
  BY DEF DreSend, RingInv
<1>3. QED
  BY <1>1, <1>2, AssumedSizes, RingGet DEF TxCount

(* A byte sent goes into an empty register. *)
LEMMA SendFills ==
    ASSUME Peripheral, Driver, RingInv, DreSend
    PROVE  Empty(txdata') + Empty(shift') = Empty(txdata) + Empty(shift) - 1
<1>1. txBuf[txTail] \in Nat /\ txBuf[txTail] # NoByte
  BY DEF Driver, Buffers, NoByte
<1>2. DREIF /\ PutTXDATA(txBuf[txTail])
  BY DEF RingInv, DreSend
<1>3. QED
  BY <1>1, <1>2 DEF PutTXDATA, DREIF, Empty

(* The next instruction is executed only when no byte is due, or right     *)
(* after a handler.                                                        *)
LEMMA NotDue ==
    ASSUME PaceInv, CpuFree, ~fresh, Driven, "TXEN" \in ctrlb
    PROVE  ~DREIF /\ Takes <= 1
<1>1. ~DREIF
  BY DEF CpuFree, Pending, DrePending, Driven
<1>2. shift # NoByte
  BY <1>1 DEF PaceInv
<1>3. QED
  BY <1>1, <1>2, TakesNat DEF Takes, Empty, DREIF

LEMMA RingInvStep ==
    ASSUME Calm, TypeInv, TypeInv', RingInv, PaceInv, [Next]_vars
    PROVE  RingInv'
<1> USE DEF Step, Tick, Return, Called, Handler, usart, config, txWire, rxWire,
            rings, rxRing, txRing, cpu, callers, locals, history, promises
<1>1. ASSUME /\ UNCHANGED <<txdata, shift, txHead, txTail>>
             /\ "DREIE" \in ctrla' => "DREIE" \in ctrla
             /\ isr' = "none" /\ pc' \notin WriteLabels
      PROVE  RingInv'
  BY <1>1 DEF RingInv, Publishing, ShortcutTaken, Driven, DREIF, WriteLabels
<1>2. CASE UNCHANGED vars
  BY <1>2 DEF vars, RingInv, Publishing, ShortcutTaken, Driven, DREIF
<1>3. CASE AvailableForWrite \/ Flush \/ End \/ Begin \/ Available
           \/ ReadNothing \/ Read \/ GetStatus
  BY <1>1, <1>3
  DEF AvailableForWrite, Flush, End, Begin, Available, ReadNothing, Read,
      GetStatus, CpuFree, WriteLabels
<1>4. CASE SetInterrupts \/ FlushTest \/ EndCTRLA \/ EndFlags \/ EndRx
           \/ EndState
  BY <1>1, <1>4
  DEF SetInterrupts, FlushTest, EndCTRLA, EndFlags, EndRx, EndState, CpuFree,
      AfterFlush, AfterEnd, WriteLabels
<1>5. CASE BeginTest \/ BeginMode \/ BeginHalf \/ ReadFetch \/ ReadAdvance
           \/ GetStatusLoad \/ GetStatusStore
  BY <1>1, <1>5
  DEF BeginTest, BeginMode, BeginHalf, ReadFetch, ReadAdvance, GetStatusLoad,
      GetStatusStore, CpuFree, WriteLabels
<1>6. CASE Write
  BY <1>6
  DEF Write, RingInv, Publishing, ShortcutTaken, Driven, DREIF, CpuFree,
      WriteLabels
<1>7. CASE WriteLoadState
  BY <1>7
  DEF WriteLoadState, RingInv, Publishing, ShortcutTaken, Driven, DREIF,
      CpuFree
<1>8. CASE WriteStoreState
  BY <1>8
  DEF WriteStoreState, RingInv, Publishing, ShortcutTaken, Driven, DREIF,
      CpuFree
<1>9. CASE WriteTestEmpty
  BY <1>9
  DEF WriteTestEmpty, RingInv, Publishing, ShortcutTaken, Driven, DREIF,
      CpuFree, Shortcut
<1>10. CASE WriteTestDREIF
  BY <1>10
  DEF WriteTestDREIF, RingInv, Publishing, ShortcutTaken, Driven, DREIF,
      CpuFree
<1>11. CASE FastLoadCtrla
  BY <1>11
  DEF FastLoadCtrla, RingInv, Publishing, ShortcutTaken, Driven, DREIF,
      CpuFree
<1>12. CASE FastClear
  BY <1>12
  DEF FastClear, RingInv, Publishing, ShortcutTaken, Driven, DREIF, CpuFree
<1>13. CASE FastStoreCtrla
  BY <1>13
  DEF FastStoreCtrla, RingInv, Publishing, ShortcutTaken, Driven, DREIF,
      CpuFree
<1>14. CASE FastSend
  BY <1>14
  DEF FastSend, RingInv, Publishing, ShortcutTaken, Driven, DREIF, CpuFree,
      PutTXDATA
<1>15. CASE SlowWait
  BY <1>15, PollOnlyDisables
  DEF SlowWait, RingInv, Publishing, ShortcutTaken, Driven, DREIF, CpuFree,
      HasRoom, Poll
<1>16. CASE SlowStore
  BY <1>16
  DEF SlowStore, RingInv, Publishing, ShortcutTaken, Driven, DREIF, CpuFree
<1>17. CASE SlowPublish
  BY <1>17
  DEF SlowPublish, RingInv, Publishing, ShortcutTaken, Driven, DREIF, CpuFree
<1>18. CASE SlowLoadCtrla
  BY <1>18
  DEF SlowLoadCtrla, RingInv, Publishing, ShortcutTaken, Driven, DREIF,
      CpuFree, WithDREIE
<1>19. CASE SlowClear
  BY <1>19
  DEF SlowClear, RingInv, Publishing, ShortcutTaken, Driven, DREIF, CpuFree
<1>20. CASE SlowStoreCtrla
  BY <1>20
  DEF SlowStoreCtrla, RingInv, Publishing, ShortcutTaken, Driven, DREIF,
      CpuFree
<1>21. CASE FlushTestDREIE
  BY <1>21, PollOnlyDisables
  DEF FlushTestDREIE, RingInv, Publishing, ShortcutTaken, Driven, DREIF,
      CpuFree, Poll
<1>22. CASE FlushTestTXCIF
  BY <1>22, PollOnlyDisables
  DEF FlushTestTXCIF, RingInv, Publishing, ShortcutTaken, Driven, DREIF,
      CpuFree, AfterFlush, Poll
<1>23. CASE EndCTRLB
  BY <1>23
  DEF EndCTRLB, RingInv, Publishing, ShortcutTaken, Driven, DREIF, CpuFree
<1>24. CASE BeginPoll
  BY <1>24, PollOnlyDisables
  DEF BeginPoll, RingInv, Publishing, ShortcutTaken, Driven, DREIF, CpuFree,
      Poll
<1>25. CASE BeginConfig
  BY <1>25
  DEF BeginConfig, RingInv, Publishing, ShortcutTaken, Driven, DREIF,
      CpuFree, EnableBoth
<1>26. CASE RxcHandler
  BY <1>26, ReceiveLeavesTx
  DEF RingInv, Publishing, ShortcutTaken, Driven, DREIF
<1>27. CASE DreHandler
  BY <1>27
  DEF DreHandler, RingInv, Publishing, ShortcutTaken, Driven, DREIF, CpuFree,
      DrePending
<1>28. CASE DreSend
  <2>1. /\ UNCHANGED <<txHead, pc, idx, reg, state, ie>> /\ isr' = "none"
        /\ ctrla' = AfterSend(Succ(txTail, TxSize)) /\ txTail' = Succ(txTail, TxSize)
        /\ txHead # txTail /\ isr \in {"dre", "poll"}
    BY <1>28 DEF DreSend, RingInv
  <2>2. ~ShortcutTaken /\ pc # "wrDreif"
    BY <2>1 DEF RingInv
  <2>3. "DREIE" \in ctrla' => txHead' # txTail' /\ "DREIE" \in ctrla
    BY <2>1 DEF AfterSend
  <2>4. pc \in {"slowStore", "slowPublish"} => idx # txTail'
    BY <2>1, AssumedSizes, SuccValue DEF RingInv, TypeInv, Driver, Slots, Sizes
  <2>5. Publishing => txHead' # txTail'
    <3>1. SUFFICES ASSUME Publishing PROVE txHead' # txTail'
      OBVIOUS
    <3>2. Driven
      BY <2>1, <3>1 DEF RingInv, Publishing
    <3>3. Takes < TxCount
      BY <3>1, <3>2 DEF PaceInv
    <3>4. DREIF
      BY <2>1 DEF RingInv
    <3>5. Takes \in Nat /\ Takes >= 1
      BY <3>4, TakesNat DEF Takes, Empty, DREIF
    <3>6. TxCount' = TxCount - 1 /\ TxCount \in Nat
      BY <1>28, SendGets, TxCountValue DEF TypeInv
    <3>7. TxCount' # 0
      BY <3>3, <3>5, <3>6
    <3>8. txHead' \in Slots(TxSize) /\ txTail' \in Slots(TxSize)
      BY DEF TypeInv, Driver
    <3>9. QED
      BY <3>7, <3>8, AssumedSizes, CountZero DEF TxCount
  <2>6. QED
    BY <2>1, <2>2, <2>3, <2>4, <2>5 DEF RingInv, Publishing, ShortcutTaken
<1>29. CASE TxcHandler
  BY <1>29
  DEF TxcHandler, AfterTxc, RingInv, Publishing, ShortcutTaken, Driven, DREIF
<1>30. CASE FrameEnds
  BY <1>30
  DEF FrameEnds, RingInv, Publishing, ShortcutTaken, Driven, DREIF, CpuFree,
      EndOfFrame
<1>31. CASE FrameArrives
  BY <1>31, ArrivalLeavesTx
  DEF FrameArrives, RingInv, Publishing, ShortcutTaken, Driven, DREIF
<1>32. QED
  BY <1>2, <1>3, <1>4, <1>5, <1>6, <1>7, <1>8, <1>9, <1>10, <1>11, <1>12,
     <1>13, <1>14, <1>15, <1>16, <1>17, <1>18, <1>19, <1>20, <1>21, <1>22,
     <1>23, <1>24, <1>25, <1>26, <1>27, <1>28, <1>29, <1>30, <1>31
  DEF Next, NewCall, InCall, InWrite, Handlers, Line

(* An instruction leaves Takes alone, or starts a window in which one byte *)
(* may be taken.                                                           *)
LEMMA TickTakes ==
    ASSUME PaceInv, Driven, "TXEN" \in ctrlb, Tick, UNCHANGED <<txdata, shift>>
    PROVE  Takes' = Takes \/ (Quiescent /\ Takes' <= 1)
<1>1. CASE Quiescent
  <2>1. ~DREIF
    BY <1>1 DEF Quiescent, Pending, DrePending, Driven
  <2>2. shift # NoByte
    BY <2>1 DEF PaceInv
  <2>3. Takes' <= 1
    <3>1. Empty(txdata)' = 0 /\ Empty(shift)' = 0
      BY <2>1, <2>2 DEF Empty, DREIF
    <3>2. Allowed' = 0 \/ Allowed' = 1
      BY TakesNat
    <3>3. QED
      BY <3>1, <3>2 DEF Takes
  <2>4. QED
    BY <1>1, <2>3
<1>2. CASE ~Quiescent
  BY <1>2 DEF Tick, Takes, Allowed
<1>3. QED
  BY <1>1, <1>2

LEMMA StepTakes ==
    ASSUME NEW from, NEW to, PaceInv, Driven, "TXEN" \in ctrlb, Step(from, to),
           UNCHANGED <<txdata, shift>>
    PROVE  /\ ~fresh => Takes <= 1
           /\ Takes' = Takes \/ (Quiescent /\ Takes' <= 1)
           /\ Takes \in 0..3 /\ Takes' \in 0..3
<1>1. ~fresh => Takes <= 1
  BY NotDue DEF Step
<1>2. Takes' = Takes \/ (Quiescent /\ Takes' <= 1)
  BY TickTakes DEF Step
<1>3. Takes \in 0..3 /\ Takes' \in 0..3
  BY <1>1, <1>2, TakesNat
<1>4. QED
  BY <1>1, <1>2, <1>3

LEMMA FrameTakes ==
    ASSUME Calm, Driver, PaceInv, Driven, FrameEnds
    PROVE  Takes' = Takes \/ (Quiescent /\ Takes' <= 2)
<1>1. shift # NoByte /\ shift' = txdata /\ txdata' = NoByte
  BY DEF FrameEnds, EndOfFrame
<1>2. CASE Quiescent
  <2>1. ~DREIF
    BY <1>2 DEF Quiescent, Pending, DrePending, Driven
  <2>2. frames' = 0
    BY <1>2 DEF FrameEnds
  <2>3. Takes' <= 2
    <3>1. Empty(txdata)' = 1 /\ Empty(shift)' = 0
      BY <1>1, <2>1 DEF Empty, DREIF
    <3>2. Allowed' = 0 \/ Allowed' = 1
      BY TakesNat
    <3>3. QED
      BY <3>1, <3>2 DEF Takes
  <2>4. QED
    BY <1>2, <2>3
<1>3. CASE ~Quiescent
  <2> DEFINE most == FramesPerWindow[TRUE]
  <2>2. most <= 1 /\ most \in Nat
    BY BoundsAssumption DEF Calm
  <2>3. frames < most /\ frames' = frames + 1
    <3>1. frames < FramesPerWindow[ie] /\ frames' = frames + 1
      BY <1>3 DEF FrameEnds
    <3>2. CASE ie = TRUE
      BY <3>1, <3>2
    <3>3. QED
      BY <3>2 DEF Driven
  <2> HIDE DEF most
  <2>4. most = 1 /\ frames = 0 /\ frames' = 1
    BY <2>2, <2>3 DEF Driver
  <2>5. Allowed = 1 /\ Allowed' = 0
    BY <2>4 DEF Allowed, most
  <2>6. QED
    BY <1>1, <2>5 DEF Takes, Empty
<1>4. QED
  BY <1>2, <1>3
LEMMA PaceInvStep ==
    ASSUME Calm, TypeInv, RingInv, PaceInv, [Next]_vars
    PROVE  PaceInv'
<1> USE DEF Step, Tick, Return, Called, Handler, usart, config, txWire, rxWire,
            rings, rxRing, txRing, cpu, callers, locals, history, promises
<1>1. ASSUME /\ "TXEN" \in ctrlb' /\ shift' = NoByte => DREIF'
             /\ ~fresh' /\ pc' \notin WriteLabels
      PROVE  PaceInv'
  BY <1>1 DEF PaceInv, WriteLabels, Publishing
<1>2. CASE UNCHANGED vars
  <2>1. UNCHANGED <<Takes, TxCount, Driven, DREIF, Publishing>>
    BY <1>2 DEF vars, Takes, Allowed, TxCount, Driven, DREIF, Publishing
  <2>2. QED
    BY <1>2, <2>1 DEF vars, PaceInv
<1>3. CASE AvailableForWrite \/ Flush \/ End \/ Begin \/ Available
           \/ ReadNothing \/ Read \/ GetStatus
  BY <1>1, <1>3
  DEF AvailableForWrite, Flush, End, Begin, Available, ReadNothing, Read,
      GetStatus, PaceInv, WriteLabels, DREIF
<1>4. CASE SetInterrupts \/ FlushTest \/ EndCTRLA \/ EndFlags \/ EndRx
           \/ EndState
  BY <1>1, <1>4
  DEF SetInterrupts, FlushTest, EndCTRLA, EndFlags, EndRx, EndState,
      AfterFlush, PaceInv, WriteLabels, DREIF, AfterEnd
<1>5. CASE FlushTestDREIE \/ FlushTestTXCIF \/ BeginPoll \/ BeginTest
           \/ BeginMode \/ BeginHalf
  BY <1>1, <1>5
  DEF FlushTestDREIE, FlushTestTXCIF, BeginPoll, BeginTest, BeginMode,
      BeginHalf, AfterFlush, PaceInv, WriteLabels, DREIF
<1>6. CASE ReadFetch \/ ReadAdvance \/ GetStatusLoad \/ GetStatusStore
           \/ SlowStoreCtrla
  BY <1>1, <1>6
  DEF ReadFetch, ReadAdvance, GetStatusLoad, GetStatusStore, SlowStoreCtrla,
      PaceInv, WriteLabels, DREIF
<1>7. CASE Write
  <2>1. /\ UNCHANGED <<ctrlb, ie, ctrla, txdata, shift>> /\ ~fresh'
        /\ "TXEN" \in ctrlb /\ Step("ready", "wrLoadState")
    BY <1>7 DEF Write, PaceInv, WriteLabels
  <2>2. Driven' => Takes' <= 2
    <3> SUFFICES ASSUME Driven' PROVE Takes' <= 2
      OBVIOUS
    <3>1. Driven
      BY <2>1 DEF Driven
    <3>2. /\ ~fresh => Takes <= 1
          /\ Takes' = Takes \/ (Quiescent /\ Takes' <= 1)
          /\ Takes \in 0..3 /\ Takes' \in 0..3
      BY <2>1, <3>1, StepTakes
    <3>3. fresh => Takes <= 2
      BY <2>1, <3>1 DEF PaceInv
    <3> QED
      BY <3>2, <3>3
  <2>3. QED
    BY <2>1, <2>2 DEF PaceInv, WriteLabels, Publishing, DREIF
<1>8. CASE WriteLoadState
  <2>1. /\ UNCHANGED <<ctrlb, ie, ctrla, txdata, shift>> /\ ~fresh'
        /\ "TXEN" \in ctrlb /\ Step("wrLoadState", "wrStoreState")
    BY <1>8 DEF WriteLoadState, PaceInv, WriteLabels
  <2>2. Driven' => Takes' <= 1
    <3> SUFFICES ASSUME Driven' PROVE Takes' <= 1
      OBVIOUS
    <3>1. Driven
      BY <2>1 DEF Driven
    <3>2. /\ ~fresh => Takes <= 1
          /\ Takes' = Takes \/ (Quiescent /\ Takes' <= 1)
          /\ Takes \in 0..3 /\ Takes' \in 0..3
      BY <2>1, <3>1, StepTakes
    <3>3. fresh => Takes <= 1
      BY <2>1, <3>1 DEF PaceInv
    <3> QED
      BY <3>2, <3>3
  <2>3. QED
    BY <2>1, <2>2 DEF PaceInv, WriteLabels, Publishing, DREIF
<1>9. CASE WriteStoreState
  <2>1. /\ UNCHANGED <<ctrlb, ie, ctrla, txdata, shift>> /\ ~fresh'
        /\ "TXEN" \in ctrlb /\ Step("wrStoreState", "wrEmpty")
    BY <1>9 DEF WriteStoreState, PaceInv, WriteLabels
  <2>2. Driven' => Takes' <= 1
    <3> SUFFICES ASSUME Driven' PROVE Takes' <= 1
      OBVIOUS
    <3>1. Driven
      BY <2>1 DEF Driven
    <3>2. /\ ~fresh => Takes <= 1
          /\ Takes' = Takes \/ (Quiescent /\ Takes' <= 1)
          /\ Takes \in 0..3 /\ Takes' \in 0..3
      BY <2>1, <3>1, StepTakes
    <3>3. Takes <= 1
      BY <2>1, <3>1 DEF PaceInv
    <3> QED
      BY <3>2, <3>3
  <2>3. QED
    BY <2>1, <2>2 DEF PaceInv, WriteLabels, Publishing, DREIF
<1>10. CASE WriteTestEmpty
  <2>1. /\ UNCHANGED <<ctrlb, ie, ctrla, txdata, shift>> /\ ~fresh'
        /\ "TXEN" \in ctrlb /\ pc' \in {"wrDreif", "slowWait"}
        /\ Step("wrEmpty", IF Shortcut THEN "wrDreif" ELSE "slowWait")
    BY <1>10 DEF WriteTestEmpty, PaceInv, WriteLabels
  <2>2. Driven' => Takes' <= 1 /\ Takes' \in 0..3
    <3> SUFFICES ASSUME Driven' PROVE Takes' <= 1 /\ Takes' \in 0..3
      OBVIOUS
    <3>1. Driven
      BY <2>1 DEF Driven
    <3>2. /\ Takes' = Takes \/ (Quiescent /\ Takes' <= 1)
          /\ Takes \in 0..3 /\ Takes' \in 0..3
      BY <2>1, <3>1, StepTakes
    <3>3. Takes <= 1
      BY <2>1, <3>1 DEF PaceInv
    <3> QED
      BY <3>2, <3>3
  <2>3. QED
    BY <2>1, <2>2 DEF PaceInv, WriteLabels, Publishing, DREIF
<1>11. CASE WriteTestDREIF
  <2>1. pc' = "slowWait" => ~Driven'
    BY <1>11 DEF WriteTestDREIF, RingInv, Driven
  <2>2. QED
    BY <1>11, <2>1 DEF WriteTestDREIF, PaceInv, WriteLabels, Publishing, DREIF
<1>12. CASE FastLoadCtrla
  BY <1>12 DEF FastLoadCtrla, PaceInv, WriteLabels, Publishing, DREIF
<1>13. CASE FastClear
  BY <1>13 DEF FastClear, PaceInv, WriteLabels, Publishing, DREIF
<1>14. CASE FastStoreCtrla
  BY <1>14 DEF FastStoreCtrla, PaceInv, WriteLabels, Publishing, DREIF
<1>15. CASE FastSend
  <2>1. "TXEN" \in ctrlb' /\ shift' = NoByte => DREIF'
    BY <1>15 DEF FastSend, PutTXDATA, PaceInv, TypeInv, Driver, NoByte, DREIF
  <2>2. QED
    BY <1>1, <1>15, <2>1 DEF FastSend, WriteLabels
<1>16. CASE SlowWait
  <2>1. /\ UNCHANGED <<ctrlb, ie, txdata, shift, idx, txTail>> /\ ~fresh'
        /\ "TXEN" \in ctrlb
        /\ Step("slowWait", IF HasRoom(idx, txTail) THEN "slowStore" ELSE "slowWait")
    BY <1>16 DEF SlowWait, PaceInv, WriteLabels
  <2>2. Driven' => Driven
    BY <1>16, PollOnlyDisables DEF SlowWait, Driven
  <2>3. Driven' => /\ Takes' <= 2 /\ (Takes' = 2 => idx = txTail)
                   /\ idx # txTail => Takes' <= 1
    <3> SUFFICES ASSUME Driven
                 PROVE  /\ Takes' <= 2 /\ (Takes' = 2 => idx = txTail)
                        /\ idx # txTail => Takes' <= 1
      BY <2>2
    <3>1. /\ Takes' = Takes \/ (Quiescent /\ Takes' <= 1)
          /\ Takes \in 0..3 /\ Takes' \in 0..3
      BY <2>1, StepTakes
    <3>2. Takes <= 2 /\ (Takes = 2 => idx = txTail)
      BY <2>1 DEF PaceInv
    <3> QED
      BY <3>1, <3>2
  <2>4. pc' \in {"slowWait", "slowStore"} /\ (pc' = "slowStore" => idx # txTail)
    BY <2>1 DEF HasRoom
  <2>5. QED
    BY <2>1, <2>3, <2>4 DEF PaceInv, WriteLabels, Publishing, DREIF
<1>17. CASE SlowStore
  <2>1. /\ UNCHANGED <<ctrlb, ie, ctrla, txdata, shift>> /\ ~fresh'
        /\ "TXEN" \in ctrlb /\ Step("slowStore", "slowPublish")
    BY <1>17 DEF SlowStore, PaceInv, WriteLabels
  <2>2. Driven' => Takes' <= 1
    <3> SUFFICES ASSUME Driven' PROVE Takes' <= 1
      OBVIOUS
    <3>1. Driven
      BY <2>1 DEF Driven
    <3>2. /\ ~fresh => Takes <= 1
          /\ Takes' = Takes \/ (Quiescent /\ Takes' <= 1)
          /\ Takes \in 0..3 /\ Takes' \in 0..3
      BY <2>1, <3>1, StepTakes
    <3>3. Takes <= 1
      BY <2>1, <3>1 DEF PaceInv
    <3> QED
      BY <3>2, <3>3
  <2>3. QED
    BY <2>1, <2>2 DEF PaceInv, WriteLabels, Publishing, DREIF
<1>18. CASE SlowPublish
  <2>1. /\ UNCHANGED <<ctrlb, ie, ctrla, txdata, shift>> /\ ~fresh'
        /\ "TXEN" \in ctrlb
        /\ Step("slowPublish", "slowLoadCtrla")
    BY <1>18 DEF SlowPublish, PaceInv, WriteLabels
  <2>2. Driven' => Takes' < TxCount'
    <3> SUFFICES ASSUME Driven' PROVE Takes' < TxCount'
      OBVIOUS
    <3>1. Driven
      BY <2>1 DEF Driven
    <3>2. Takes' = Takes /\ Takes \in 0..3
      BY <2>1, <3>1, StepTakes DEF Quiescent
    <3>3. Takes <= 1
      BY <2>1, <3>1 DEF PaceInv
    <3>4. TxCount \in Nat /\ TxCount # 0
      BY <3>1, TxCountValue DEF TypeInv, RingInv, Driven
    <3>5. TxCount' = TxCount + 1
      BY <1>18, PublishPuts DEF TypeInv
    <3> QED
      BY <3>2, <3>3, <3>4, <3>5
  <2>3. pc' \in {"slowLoadCtrla", "slowClear", "slowStoreCtrla"}
    BY <2>1
  <2>4. QED
    BY <2>1, <2>2, <2>3 DEF PaceInv, WriteLabels, Publishing, DREIF
<1>19. CASE SlowLoadCtrla
  <2>1. /\ UNCHANGED <<ctrlb, ie, ctrla, txdata, shift>> /\ ~fresh'
        /\ "TXEN" \in ctrlb
        /\ Step("slowLoadCtrla", IF "h" \in state THEN "slowClear" ELSE "slowStoreCtrla")
    BY <1>19 DEF SlowLoadCtrla, PaceInv, WriteLabels
  <2>2. Driven' => Takes' < TxCount'
    <3> SUFFICES ASSUME Driven' PROVE Takes' < TxCount'
      OBVIOUS
    <3>1. Driven
      BY <2>1 DEF Driven
    <3>2. Takes' = Takes /\ Takes \in 0..3
      BY <2>1, <3>1, StepTakes DEF Quiescent
    <3>3. Takes < TxCount
      BY <2>1, <3>1 DEF PaceInv, Publishing
    <3>4. TxCount' = TxCount
      BY <1>19 DEF SlowLoadCtrla, TxCount
    <3> QED
      BY <3>2, <3>3, <3>4
  <2>3. pc' \in {"slowLoadCtrla", "slowClear", "slowStoreCtrla"}
    BY <2>1
  <2>4. QED
    BY <2>1, <2>2, <2>3 DEF PaceInv, WriteLabels, Publishing, DREIF
<1>20. CASE SlowClear
  <2>1. /\ UNCHANGED <<ctrlb, ie, ctrla, txdata, shift>> /\ ~fresh'
        /\ "TXEN" \in ctrlb
        /\ Step("slowClear", "slowStoreCtrla")
    BY <1>20 DEF SlowClear, PaceInv, WriteLabels
  <2>2. Driven' => Takes' < TxCount'
    <3> SUFFICES ASSUME Driven' PROVE Takes' < TxCount'
      OBVIOUS
    <3>1. Driven
      BY <2>1 DEF Driven
    <3>2. Takes' = Takes /\ Takes \in 0..3
      BY <2>1, <3>1, StepTakes DEF Quiescent
    <3>3. Takes < TxCount
      BY <2>1, <3>1 DEF PaceInv, Publishing
    <3>4. TxCount' = TxCount
      BY <1>20 DEF SlowClear, TxCount
    <3> QED
      BY <3>2, <3>3, <3>4
  <2>3. pc' \in {"slowLoadCtrla", "slowClear", "slowStoreCtrla"}
    BY <2>1
  <2>4. QED
    BY <2>1, <2>2, <2>3 DEF PaceInv, WriteLabels, Publishing, DREIF
<1>21. CASE EndCTRLB
  BY <1>1, <1>21 DEF EndCTRLB, WriteLabels
<1>22. CASE BeginConfig
  BY <1>1, <1>22 DEF BeginConfig, EnableBoth, DREIF, WriteLabels
<1>23. CASE RxcHandler
  <2>1. UNCHANGED <<config, txWire, txRing, isr, ie, pc, callers, locals>>
    BY <1>23, ReceiveLeavesTx
  <2>2. frames' = frames
    BY <1>23 DEF RxcHandler, Quiescent, Pending
  <2>3. UNCHANGED <<Takes, TxCount, Driven, DREIF, Publishing>>
    BY <2>1, <2>2 DEF Takes, Allowed, TxCount, Driven, DREIF, Publishing
  <2>4. Driven => Takes <= 1
    BY <1>23 DEF RxcHandler, Calm
  <2>5. Takes \in 0..3
    BY TakesNat
  <2>6. QED
    BY <2>1, <2>3, <2>4, <2>5 DEF PaceInv, Publishing
<1>24. CASE DreHandler
  <2>1. UNCHANGED <<ctrla, ctrlb, txdata, shift, txHead, txTail, ie, fresh, pc, idx>>
    BY <1>24 DEF DreHandler
  <2>2. frames' = frames
    BY <1>24 DEF DreHandler, Quiescent, Pending
  <2>3. UNCHANGED <<Takes, TxCount, Driven, DREIF, Publishing>>
    BY <2>1, <2>2 DEF Takes, Allowed, TxCount, Driven, DREIF, Publishing
  <2>4. QED
    BY <2>1, <2>3 DEF PaceInv
<1>25. CASE DreSend
  <2>1. UNCHANGED <<ctrlb, txHead, ie, pc, idx, frames>>
    BY <1>25 DEF DreSend, Quiescent
  <2>2. Driven' => Driven
    BY <1>25, <2>1 DEF DreSend, AfterSend, Driven
  <2>3. Takes' = Takes - 1 /\ Takes \in 1..3
    <3>1. Empty(txdata') + Empty(shift') = Empty(txdata) + Empty(shift) - 1
      BY <1>25, SendFills DEF TypeInv
    <3>2. DREIF
      BY <1>25 DEF DreSend, RingInv
    <3>3. Allowed' = Allowed /\ Allowed \in {0, 1}
      BY <2>1, TakesNat DEF Allowed
    <3> QED
      BY <3>1, <3>2, <3>3 DEF Takes, Empty, DREIF
  <2>4. TxCount' = TxCount - 1 /\ TxCount \in Nat
    BY <1>25, SendGets, TxCountValue DEF TypeInv
  <2>5. "TXEN" \in ctrlb' /\ shift' = NoByte => DREIF'
    <3>1. txBuf[txTail] # NoByte /\ DREIF
      BY <1>25 DEF DreSend, RingInv, TypeInv, Driver, Buffers, NoByte
    <3> QED
      BY <1>25, <2>1, <3>1 DEF DreSend, PutTXDATA, DREIF
  <2>6. QED
    BY <2>1, <2>2, <2>3, <2>4, <2>5 DEF PaceInv, Publishing
<1>26. CASE TxcHandler
  <2>1. ~Driven
    BY <1>26 DEF TxcHandler, Calm
  <2>2. /\ UNCHANGED <<ctrlb, txWire, isr, ie, pc>>
        /\ "DREIE" \in ctrla' => "DREIE" \in ctrla
    BY <1>26 DEF TxcHandler, AfterTxc
  <2>3. QED
    BY <2>1, <2>2 DEF PaceInv, Driven, DREIF
<1>27. CASE FrameEnds
  <2>1. UNCHANGED <<ctrla, ctrlb, txHead, txTail, ie, pc, idx, fresh>>
    BY <1>27 DEF FrameEnds, EndOfFrame
  <2>2. UNCHANGED <<TxCount, Driven, Publishing>> /\ DREIF'
    BY <1>27, <2>1 DEF TxCount, Driven, Publishing, DREIF, FrameEnds, EndOfFrame
  <2>3. Driven => Takes' = Takes \/ (Quiescent /\ Takes' <= 2)
    BY <1>27, FrameTakes DEF TypeInv
  <2>4. Quiescent => /\ pc = "slowWait" => idx = txTail
                     /\ pc \in {"ready", "slowWait", "flDreie", "flTxcif"}
    BY DEF Quiescent
  <2>5. QED
    BY <2>1, <2>2, <2>3, <2>4 DEF PaceInv, Publishing
<1>28. CASE FrameArrives
  <2>1. UNCHANGED <<ctrla, ctrlb, txdata, shift, txHead, txTail, cpu, locals>>
    BY <1>28, ArrivalLeavesTx
  <2>2. UNCHANGED <<Takes, TxCount, Driven, DREIF, Publishing>>
    BY <2>1 DEF Takes, Allowed, TxCount, Driven, DREIF, Publishing
  <2>3. QED
    BY <2>1, <2>2 DEF PaceInv
<1>29. QED
  BY <1>2, <1>3, <1>4, <1>5, <1>6, <1>7, <1>8, <1>9, <1>10, <1>11, <1>12,
     <1>13, <1>14, <1>15, <1>16, <1>17, <1>18, <1>19, <1>20, <1>21, <1>22,
     <1>23, <1>24, <1>25, <1>26, <1>27, <1>28
  DEF Next, NewCall, InCall, InWrite, Handlers, Line

TxInv == RingInv /\ PaceInv

LEMMA TxInvariant == Paced => (Spec => [](TypeInv /\ TxInv))
<1> SUFFICES ASSUME Paced PROVE Spec => [](TypeInv /\ TxInv)
  OBVIOUS
<1>1. Init => TxInv
  BY DEF Init, UsartInit, RingInv, ShortcutTaken, Publishing, PaceInv, WriteLabels,
     Driven, TxInv
<1>2. Calm /\ TypeInv /\ TypeInv' /\ TxInv /\ [Next]_vars => TxInv'
  BY RingInvStep, PaceInvStep DEF TxInv
<1>3. QED
  BY <1>1, <1>2, CalmAlways, PTL DEF Spec

(* What touches the path from write() to the line. *)
Reserving ==
    pc \in {"wrLoadState", "wrStoreState", "wrEmpty", "wrDreif", "slowWait",
            "slowStore", "slowPublish"}

LEMMA TxActions ==
    ASSUME [Next]_vars
    PROVE  \/ /\ UNCHANGED <<txdata, shift, last, txHead, txTail, txBuf, txPromise>>
              /\ Reserving' => Reserving
           \/ Write \/ AvailableForWrite \/ FastSend \/ SlowStore \/ SlowPublish
           \/ DreSend \/ FrameEnds \/ BeginConfig
<1> USE DEF Step, Tick, Return, Called, Handler, usart, config, txWire, rxWire,
            rings, rxRing, txRing, cpu, callers, locals, history, promises
<1>1. CASE FrameArrives
  BY <1>1, ArrivalLeavesTx DEF Reserving
<1>2. CASE InWrite
  BY <1>2
  DEF InWrite, WriteLoadState, WriteStoreState, WriteTestEmpty, WriteTestDREIF,
      FastLoadCtrla, FastClear, FastStoreCtrla, SlowWait, SlowLoadCtrla,
      SlowClear, SlowStoreCtrla, Reserving
<1>3. CASE UNCHANGED vars \/ NewCall \/ Handlers
  BY <1>3
  DEF vars, NewCall, Flush, End, Begin, Available, ReadNothing, Read, GetStatus,
      SetInterrupts, Handlers, RxcHandler, DreHandler, TxcHandler, Reserving
<1>4. CASE InCall /\ ~InWrite
  BY <1>4
  DEF InCall, FlushTest, FlushTestDREIE, FlushTestTXCIF, EndCTRLB, EndCTRLA,
      EndFlags, EndRx, EndState, BeginPoll, BeginTest, BeginMode, BeginHalf,
      ReadFetch, ReadAdvance, GetStatusLoad, GetStatusStore, Reserving,
      AfterFlush, AfterEnd
<1>5. QED
  BY <1>1, <1>2, <1>3, <1>4 DEF Next, Line, InCall

(* A write() in progress has a slot of its own besides those promised. *)
ReserveInv ==
    /\ WritePromise
    /\ Reserving => txPromise = 0 \/ txPromise + TxCount <= TxSize - 2

LEMMA ReserveStep ==
    ASSUME TypeInv, TypeInv', RingInv, ReserveInv, [Next]_vars
    PROVE  ReserveInv'
<1>1. /\ TxSize \in Nat /\ txPromise \in Nat /\ txPromise' \in Nat
      /\ TxCount \in 0..TxSize-1 /\ TxCount' \in 0..TxSize-1
  <2>1. TxSize \in Nat
    BY AssumedSizes DEF Sizes
  <2>2. txHead' \in Slots(TxSize) /\ txTail' \in Slots(TxSize)
    BY DEF TypeInv, Driver
  <2>3. TxCount' \in 0..TxSize-1
    BY <2>2, AssumedSizes, CountZero DEF TxCount
  <2>4. QED
    BY <2>1, <2>3, TxCountValue DEF TypeInv, Driver
<1>2. /\ WritePromise <=> txPromise <= TxSize - 1 - TxCount
      /\ WritePromise' <=> txPromise' <= TxSize - 1 - TxCount'
  BY DEF WritePromise, TxCount
<1>3. CASE /\ UNCHANGED <<txdata, shift, last, txHead, txTail, txBuf, txPromise>>
           /\ Reserving' => Reserving
  BY <1>2, <1>3 DEF ReserveInv, TxCount
<1>4. CASE Write
  <2>1. TxCount' = TxCount
    BY <1>4 DEF Write, rings, txRing, TxCount
  <2>2. txPromise' = IF txPromise > 0 THEN txPromise - 1 ELSE 0
    BY <1>4 DEF Write
  <2>3. QED
    BY <1>1, <1>2, <2>1, <2>2 DEF ReserveInv
<1>5. CASE AvailableForWrite
  <2>1. TxCount' = TxCount /\ txPromise' = availableForWrite
    BY <1>5 DEF AvailableForWrite, rings, txRing, TxCount
  <2>2. availableForWrite = TxSize - 1 - TxCount
    <3>1. txHead \in 0..TxSize-1 /\ txTail \in 0..TxSize-1
      BY DEF TypeInv, Driver, Slots
    <3>2. TxCount = IF txHead >= txTail THEN txHead - txTail
                    ELSE TxSize + txHead - txTail
      BY AssumedSizes, CountValue DEF TypeInv, Driver, TxCount
    <3>3. QED
      BY <1>1, <3>1, <3>2 DEF availableForWrite
  <2>3. ~Reserving'
    BY <1>5 DEF AvailableForWrite, Step, Reserving
  <2>4. QED
    BY <1>1, <1>2, <2>1, <2>2, <2>3 DEF ReserveInv
<1>6. CASE FastSend \/ BeginConfig
  <2>1. UNCHANGED <<TxCount, txPromise>> /\ ~Reserving'
    BY <1>6 DEF FastSend, BeginConfig, Step, Reserving, rings, txRing, TxCount,
                history
  <2>2. QED
    BY <1>2, <2>1 DEF ReserveInv
<1>7. CASE SlowStore \/ FrameEnds
  <2>1. UNCHANGED <<TxCount, txPromise>> /\ (Reserving' => Reserving)
    BY <1>7 DEF SlowStore, FrameEnds, Step, Reserving, rings, txRing, TxCount,
                history
  <2>2. QED
    BY <1>2, <2>1 DEF ReserveInv
<1>8. CASE SlowPublish
  <2>1. txPromise' = txPromise /\ Reserving /\ ~Reserving'
    BY <1>8 DEF SlowPublish, Step, Reserving, history
  <2>2. TxCount' = TxCount + 1
    BY <1>8, PublishPuts DEF TypeInv
  <2>3. QED
    BY <1>1, <1>2, <2>1, <2>2 DEF ReserveInv
<1>9. CASE DreSend
  <2>1. txPromise' = txPromise /\ (Reserving' => Reserving)
    BY <1>9 DEF DreSend, Reserving, history
  <2>2. TxCount' = TxCount - 1
    BY <1>9, SendGets DEF TypeInv
  <2>3. QED
    BY <1>1, <1>2, <2>1, <2>2 DEF ReserveInv
<1>10. QED
  BY <1>3, <1>4, <1>5, <1>6, <1>7, <1>8, <1>9, TxActions

(* As long as the program writes no more bytes than availableForWrite()    *)
(* reported, write() has a slot for each, whatever the handlers and polls  *)
(* do in between.                                                          *)
THEOREM WritePromiseKept ==
    ASSUME Paced
    PROVE  Spec => []WritePromise
<1>1. Init => ReserveInv
  <2> SUFFICES ASSUME Init PROVE ReserveInv
    OBVIOUS
  <2>1. TxSize \in Nat /\ TxCount \in 0..TxSize-1 /\ txPromise = 0 /\ ~Reserving
    BY TypeInit, TxCountValue, AssumedSizes DEF TypeInv, Init, Sizes, Reserving
  <2>2. QED
    BY <2>1 DEF ReserveInv, WritePromise, TxCount
<1>2. TypeInv /\ TxInv /\ TypeInv' /\ ReserveInv /\ [Next]_vars => ReserveInv'
  BY ReserveStep DEF TxInv
<1>3. ReserveInv => WritePromise
  BY DEF ReserveInv
<1>4. Spec => [](TypeInv /\ TxInv)
  BY TxInvariant
<1>5. QED
  BY <1>1, <1>2, <1>3, <1>4, PTL DEF Spec

(* From write() to the line: the shift register, the data register and the *)
(* ring, one after the other.                                              *)
TxRing == Ring(txBuf, txHead, txTail, TxSize)
Path == Register(shift) \o Register(txdata) \o TxRing

LEMMA FirstAndRest ==
    ASSUME NEW S, NEW a \in S, NEW s \in Seq(S)
    PROVE  <<a>> \o s # <<>> /\ Head(<<a>> \o s) = a /\ Tail(<<a>> \o s) = s
<1>1. /\ <<a>> \in Seq(S) /\ Len(<<a>>) = 1 /\ <<a>>[1] = a
      /\ <<a>> \o s \in Seq(S) /\ Len(<<a>> \o s) = 1 + Len(s) /\ Len(s) \in Nat
  BY ConcatProperties
<1>2. \A i \in 1..1+Len(s) : (<<a>> \o s)[i] = IF i <= 1 THEN <<a>>[i] ELSE s[i - 1]
  BY <1>1, ConcatProperties
<1>3. <<a>> \o s # <<>> /\ Head(<<a>> \o s) = a
  BY <1>1, <1>2, EmptySeq
<1>4. /\ Tail(<<a>> \o s) \in Seq(S) /\ Len(Tail(<<a>> \o s)) = Len(s)
      /\ \A i \in 1..Len(s) : Tail(<<a>> \o s)[i] = (<<a>> \o s)[i + 1]
  BY <1>1, <1>3, HeadTailProperties
<1>5. \A i \in 1..Len(s) : Tail(<<a>> \o s)[i] = s[i]
  BY <1>1, <1>2, <1>4
<1>6. QED
  BY <1>1, <1>3, <1>4, <1>5, SeqEqual

LEMMA Regrouped ==
    ASSUME NEW S, NEW s \in Seq(S), s # <<>>
    PROVE  <<Head(s)>> \o Tail(s) = s
<1>1. /\ Head(s) \in S /\ Tail(s) \in Seq(S) /\ Len(Tail(s)) = Len(s) - 1
      /\ \A i \in 1..Len(Tail(s)) : Tail(s)[i] = s[i + 1]
      /\ Len(s) \in Nat \ {0}
  BY HeadTailProperties, EmptySeq
<1>2. <<Head(s)>> \in Seq(S) /\ Len(<<Head(s)>>) = 1 /\ <<Head(s)>>[1] = s[1]
  BY <1>1
<1>3. /\ <<Head(s)>> \o Tail(s) \in Seq(S) /\ Len(<<Head(s)>> \o Tail(s)) = Len(s)
      /\ \A i \in 1..Len(s) : (<<Head(s)>> \o Tail(s))[i]
             = IF i <= 1 THEN <<Head(s)>>[i] ELSE Tail(s)[i - 1]
  BY <1>1, <1>2, ConcatProperties
<1>4. \A i \in 1..Len(s) : (<<Head(s)>> \o Tail(s))[i] = s[i]
  BY <1>1, <1>2, <1>3
<1>5. QED
  BY <1>3, <1>4, SeqEqual

(* The slot at the head is not part of the ring's content. *)
LEMMA StoreOutside ==
    ASSUME NEW n \in Sizes, NEW buf \in Buffers(n), NEW b \in Nat,
           NEW h \in Slots(n), NEW t \in Slots(n)
    PROVE  Ring([buf EXCEPT ![h] = b], h, t, n) = Ring(buf, h, t, n)
<1> DEFINE buf2 == [buf EXCEPT ![h] = b]
           c == Count(h, t, n)
<1>1. buf2 \in Buffers(n)
  BY DEF Buffers
<1>2. /\ c \in 0..n-1 /\ c = IF h >= t THEN h - t ELSE n + h - t
      /\ n \in Nat /\ h \in 0..n-1 /\ t \in 0..n-1
  BY CountValue DEF Slots, Sizes
<1> HIDE DEF c
<1>3. \A k \in 1..c : SlotOf(t, k, n) # h /\ SlotOf(t, k, n) \in Slots(n)
  BY <1>2 DEF SlotOf, Slots
<1>4. /\ Ring(buf, h, t, n) \in Seq(Nat) /\ Len(Ring(buf, h, t, n)) = c
      /\ \A k \in 1..c : Ring(buf, h, t, n)[k] = buf[SlotOf(t, k, n)]
  BY RingIsSeq DEF c
<1>5. /\ Ring(buf2, h, t, n) \in Seq(Nat) /\ Len(Ring(buf2, h, t, n)) = c
      /\ \A k \in 1..c : Ring(buf2, h, t, n)[k] = buf2[SlotOf(t, k, n)]
  <2> HIDE DEF buf2
  <2> QED
    BY <1>1, RingIsSeq DEF c
<1>6. \A k \in 1..c : buf2[SlotOf(t, k, n)] = buf[SlotOf(t, k, n)]
  BY <1>3 DEF Buffers
<1> HIDE DEF buf2
<1>7. \A k \in 1..c : Ring(buf2, h, t, n)[k] = Ring(buf, h, t, n)[k]
  BY <1>4, <1>5, <1>6
<1>8. QED
  BY <1>4, <1>5, <1>7, SeqEqual DEF buf2

LEMMA PathParts ==
    ASSUME TypeInv
    PROVE  /\ Register(shift) \in Seq(Nat) /\ Len(Register(shift)) \in 0..1
           /\ Register(txdata) \in Seq(Nat) /\ Len(Register(txdata)) \in 0..1
           /\ TxRing \in Seq(Nat) /\ Len(TxRing) = TxCount
           /\ Path \in Seq(Nat) /\ Len(Path) <= TxCount + 2
<1>1. /\ Register(shift) \in Seq(Nat) /\ Len(Register(shift)) \in 0..1
      /\ Register(txdata) \in Seq(Nat) /\ Len(Register(txdata)) \in 0..1
  BY DEF TypeInv, Peripheral, Register
<1>2. TxRing \in Seq(Nat) /\ Len(TxRing) = TxCount /\ TxCount \in Nat
  BY AssumedSizes, RingIsSeq, TxCountValue DEF TypeInv, Driver, TxRing, TxCount
<1>3. /\ Register(shift) \o Register(txdata) \in Seq(Nat)
      /\ Len(Register(shift) \o Register(txdata)) \in 0..2
  BY <1>1, ConcatProperties
<1>4. Path \in Seq(Nat)
      /\ Len(Path) = Len(Register(shift) \o Register(txdata)) + TxCount
  BY <1>2, <1>3, ConcatProperties DEF Path
<1>5. Len(Path) <= TxCount + 2
  BY <1>2, <1>3, <1>4
<1>6. QED
  BY <1>1, <1>2, <1>4, <1>5

(* The steps of the queue. *)
LEMMA PathPut ==
    ASSUME NEW b \in Nat, Path \in Seq(Nat), Len(Path) < TxSize + 1,
           Path' = Append(Path, b), last' = last
    PROVE  Tx!Next
<1>1. Path' # <<>> /\ Path'[Len(Path')] = b
  BY AppendProperties
<1>2. Path' # <<>> /\ Len(Path) < TxSize + 1
      /\ Path' = Append(Path, Path'[Len(Path')]) /\ last' = last
  BY <1>1
<1>3. QED
  BY <1>2 DEF Tx!Next, Tx!Put, Path, TxRing

LEMMA FastSendPuts ==
    ASSUME TypeInv, TypeInv', RingInv, FastSend
    PROVE  Tx!Next
<1>1. /\ txHead = txTail /\ txdata = NoByte
      /\ UNCHANGED <<txHead, txTail, txBuf, last>>
      /\ PutTXDATA(written) /\ written \in Nat /\ written # NoByte
  BY DEF FastSend, Step, RingInv, ShortcutTaken, DREIF, rings, txRing, TypeInv,
         Driver, NoByte
<1>2. TxRing = <<>> /\ TxRing' = <<>>
  <2>1. TxRing = <<>>
    BY <1>1, AssumedSizes, RingEmpty DEF TxRing, TypeInv, Driver
  <2>2. QED
    BY <1>1, <2>1 DEF TxRing
<1>3. Path = Register(shift)
  BY <1>1, <1>2, PathParts, ConcatEmptySeq DEF Path, Register
<1>4. \/ /\ Register(shift) = <<>> /\ Register(shift') = <<written>>
         /\ Register(txdata') = <<>>
      \/ Register(shift') = Register(shift) /\ Register(txdata') = <<written>>
  BY <1>1 DEF PutTXDATA, DREIF, Register
<1>5. <<written>> \in Seq(Nat) /\ Register(shift) \in Seq(Nat)
  BY <1>1, PathParts
<1>6. Path' = Append(Path, written)
  <2>1. Path' = Register(shift') \o Register(txdata') \o <<>>
    BY <1>2 DEF Path
  <2>2. Path' = Register(shift) \o <<written>>
    <3>1. Register(shift) \o <<written>> \in Seq(Nat) /\ <<>> \o <<written>> = <<written>>
          /\ <<written>> \o <<>> = <<written>>
      BY <1>5, ConcatProperties, ConcatEmptySeq
    <3>2. QED
      BY <1>4, <2>1, <3>1, ConcatEmptySeq
  <2>3. QED
    BY <1>1, <1>3, <1>5, <2>2, AppendIsConcat
<1>7. Path \in Seq(Nat) /\ Len(Path) < TxSize + 1
  <2>1. Path \in Seq(Nat) /\ Len(Path) \in 0..1
    BY <1>3, PathParts
  <2>2. \A n \in 0..1 : n < TxSize + 1
    BY AssumedSizes DEF Sizes
  <2>3. QED
    BY <2>1, <2>2
<1>8. QED
  BY <1>1, <1>6, <1>7, PathPut

LEMMA PublishPutsInPath ==
    ASSUME TypeInv, TypeInv', RingInv, SlowPublish
    PROVE  Tx!Next
<1> DEFINE regs == Register(shift) \o Register(txdata)
           b == txBuf[txHead]
<1>1. UNCHANGED <<shift, txdata, last>> /\ b \in Nat
  BY DEF SlowPublish, usart, txWire, TypeInv, Driver, Buffers
<1>2. TxRing' = Append(TxRing, b) /\ TxCount' = TxCount + 1
  BY PublishPuts DEF TypeInv, TxRing
<1>3. /\ regs \in Seq(Nat) /\ TxRing \in Seq(Nat) /\ Path = regs \o TxRing
      /\ Path \in Seq(Nat)
  BY PathParts, ConcatProperties DEF Path
<1>4. Path' = regs \o Append(TxRing, b)
  BY <1>1, <1>2 DEF Path
<1>5. Path' = Append(Path, b)
  <2> HIDE DEF regs, b
  <2>1. <<b>> \in Seq(Nat)
    BY <1>1
  <2>2. Append(TxRing, b) = TxRing \o <<b>>
    BY <1>1, <1>3, AppendIsConcat
  <2>3. regs \o (TxRing \o <<b>>) = (regs \o TxRing) \o <<b>>
    BY <1>3, <2>1, ConcatAssociative
  <2>4. Append(Path, b) = Path \o <<b>>
    BY <1>1, <1>3, AppendIsConcat
  <2>5. QED
    BY <1>3, <1>4, <2>2, <2>3, <2>4
<1>6. Len(Path) < TxSize + 1
  <2>1. TxCount' \in 0..TxSize-1
    BY AssumedSizes, CountZero DEF TypeInv, Driver, TxCount
  <2>2. Len(Path) <= TxCount + 2 /\ TxCount \in Nat /\ TxSize \in Nat
        /\ Len(Path) \in Nat
    BY <1>3, PathParts, TxCountValue, AssumedSizes DEF TypeInv, Sizes
  <2>3. QED
    BY <1>2, <2>1, <2>2
<1>7. QED
  BY <1>1, <1>3, <1>5, <1>6, PathPut

LEMMA SendKeepsPath ==
    ASSUME TypeInv, TypeInv', RingInv, DreSend
    PROVE  UNCHANGED <<Path, last>>
<1> DEFINE b == txBuf[txTail]
<1>1. /\ txdata = NoByte /\ PutTXDATA(b) /\ last' = last
      /\ b \in Nat /\ b # NoByte
  BY DEF DreSend, RingInv, DREIF, TypeInv, Driver, Buffers, NoByte
<1>2. TxRing # <<>> /\ Head(TxRing) = b /\ TxRing' = Tail(TxRing)
  BY SendGets DEF TypeInv, TxRing
<1> HIDE DEF b
<1>3. \/ /\ Register(shift) = <<>> /\ Register(shift') = <<b>>
         /\ Register(txdata') = <<>>
      \/ Register(shift') = Register(shift) /\ Register(txdata') = <<b>>
  BY <1>1 DEF PutTXDATA, DREIF, Register
<1>4. /\ Register(txdata) = <<>> /\ Register(shift) \in Seq(Nat)
      /\ TxRing \in Seq(Nat) /\ <<b>> \in Seq(Nat)
  BY <1>1, PathParts DEF Register
<1>5. Tail(TxRing) \in Seq(Nat) /\ <<b>> \o Tail(TxRing) = TxRing
  BY <1>2, <1>4, HeadTailProperties, Regrouped
<1>6. Path = Register(shift) \o TxRing
  BY <1>4, ConcatEmptySeq DEF Path
<1>7. Path' = Register(shift) \o TxRing
  <2>1. Path' = Register(shift') \o Register(txdata') \o Tail(TxRing)
    BY <1>2 DEF Path
  <2>2. CASE /\ Register(shift) = <<>> /\ Register(shift') = <<b>>
             /\ Register(txdata') = <<>>
    BY <1>4, <1>5, <2>1, <2>2, ConcatEmptySeq
  <2>3. CASE Register(shift') = Register(shift) /\ Register(txdata') = <<b>>
    <3>1. Path' = Register(shift) \o (<<b>> \o Tail(TxRing))
      <4>1. Path' = (Register(shift) \o <<b>>) \o Tail(TxRing)
        BY <2>1, <2>3
      <4>2. (Register(shift) \o <<b>>) \o Tail(TxRing)
              = Register(shift) \o (<<b>> \o Tail(TxRing))
        BY <1>4, <1>5, ConcatAssociative
      <4>3. QED
        BY <4>1, <4>2
    <3>2. QED
      BY <1>5, <3>1
  <2>4. QED
    BY <1>3, <2>2, <2>3
<1>8. QED
  BY <1>1, <1>6, <1>7

LEMMA FrameEndGets ==
    ASSUME TypeInv, FrameEnds
    PROVE  Tx!Next
<1>1. /\ shift # NoByte /\ shift \in Nat /\ last' = shift
      /\ shift' = txdata /\ txdata' = NoByte /\ TxRing' = TxRing
  BY DEF FrameEnds, EndOfFrame, rings, txRing, TxRing, TypeInv, Peripheral
<1>2. Register(shift) = <<shift>> /\ Register(txdata') = <<>>
  BY <1>1 DEF Register
<1>3. /\ Register(txdata) \in Seq(Nat) /\ TxRing \in Seq(Nat) /\ <<shift>> \in Seq(Nat)
      /\ Register(txdata) \o TxRing \in Seq(Nat)
  BY <1>1, PathParts, ConcatProperties
<1>4. Path = <<shift>> \o (Register(txdata) \o TxRing)
  BY <1>2, <1>3, ConcatAssociative DEF Path
<1>5. Path' = Register(txdata) \o TxRing
  <2>1. Path' = Register(txdata) \o <<>> \o TxRing
    BY <1>1, <1>2 DEF Path
  <2>2. QED
    BY <1>3, <2>1, ConcatEmptySeq
<1>6. Path # <<>> /\ last' = Head(Path) /\ Path' = Tail(Path)
  BY <1>1, <1>3, <1>4, <1>5, FirstAndRest
<1>7. QED
  BY <1>6 DEF Tx!Next, Tx!Get, Path, TxRing

LEMMA BeginKeepsPath ==
    ASSUME TypeInv, BeginConfig
    PROVE  UNCHANGED <<Path, last>>
<1>1. last' = last /\ TxRing' = TxRing
  BY DEF BeginConfig, rings, txRing, TxRing
<1>2. \/ UNCHANGED <<shift, txdata>>
      \/ shift = NoByte /\ shift' = txdata /\ txdata' = NoByte
  BY DEF BeginConfig, EnableBoth
<1>3. Register(shift') \o Register(txdata') = Register(shift) \o Register(txdata)
  BY <1>2, PathParts, ConcatEmptySeq DEF Register
<1>4. QED
  BY <1>1, <1>3 DEF Path

LEMMA StoreKeepsPath ==
    ASSUME TypeInv, SlowStore
    PROVE  UNCHANGED <<Path, last>>
<1>1. /\ UNCHANGED <<shift, txdata, last, txHead, txTail>>
      /\ txBuf' = [txBuf EXCEPT ![txHead] = written]
  BY DEF SlowStore, usart, txWire
<1>2. TxRing' = TxRing
  BY <1>1, AssumedSizes, StoreOutside DEF TxRing, TypeInv, Driver
<1>3. QED
  BY <1>1, <1>2 DEF Path

(* Bytes go onto the line in the order in which they were written, each    *)
(* once, whichever of the shortcut, the DRE handler and the poll carries   *)
(* them: the ring and the two registers together are a bounded queue.      *)
THEOREM TransmitPathIsQueue ==
    ASSUME Paced
    PROVE  Spec => TxIsQueue
<1>1. Init => Tx!Init
  <2> SUFFICES ASSUME Init PROVE Tx!Init
    OBVIOUS
  <2>1. TxRing = <<>> /\ Register(shift) = <<>> /\ Register(txdata) = <<>> /\ last = 0
    <3>1. txHead = txTail /\ txTail \in Slots(TxSize)
      BY TypeInit DEF TypeInv, Driver, Init
    <3>2. TxRing = <<>>
      BY <3>1, AssumedSizes, RingEmpty DEF TxRing
    <3>3. QED
      BY <3>2 DEF Init, UsartInit, Register
  <2>2. <<>> \in Seq(Nat)
    BY EmptySeq
  <2>3. QED
    BY <2>1, <2>2, ConcatEmptySeq DEF Tx!Init, TxRing
<1>2. ASSUME TypeInv, TypeInv', TxInv, [Next]_vars
      PROVE  [Tx!Next]_<<Path, last>>
  <2>1. CASE UNCHANGED <<txdata, shift, last, txHead, txTail, txBuf, txPromise>>
    BY <2>1 DEF Path, TxRing
  <2>2. CASE Write \/ AvailableForWrite
    BY <2>2 DEF Write, AvailableForWrite, usart, txWire, rings, txRing, Path, TxRing
  <2>3. CASE FastSend
    BY <1>2, <2>3, FastSendPuts DEF TxInv
  <2>4. CASE SlowStore
    BY <1>2, <2>4, StoreKeepsPath
  <2>5. CASE SlowPublish
    BY <1>2, <2>5, PublishPutsInPath DEF TxInv
  <2>6. CASE DreSend
    BY <1>2, <2>6, SendKeepsPath DEF TxInv
  <2>7. CASE FrameEnds
    BY <1>2, <2>7, FrameEndGets
  <2>8. CASE BeginConfig
    BY <1>2, <2>8, BeginKeepsPath
  <2>9. QED
    BY <1>2, <2>1, <2>2, <2>3, <2>4, <2>5, <2>6, <2>7, <2>8, TxActions
<1>3. Spec => [](TypeInv /\ TxInv)
  BY TxInvariant
<1>4. QED
  BY <1>1, <1>2, <1>3, PTL DEF Spec, TxIsQueue, Tx!Spec, Path, TxRing

----------------------------------------------------------------------------
(* Nothing waits in vain, whatever the pace, the modes and the masking of  *)
(* interrupts: what keeps a byte moving, the program in flush() and the    *)
(* receiver of a half-duplex port from being forgotten is always there.    *)

Spent == txHead = txTail /\ "DREIE" \notin ctrla
Stopped == pc \in {"endFlags", "endRx", "endState"}

(* write() has loaded CTRLA and is about to store it.  In full duplex the  *)
(* shortcut does not.                                                      *)
ForRing == pc \in {"slowClear", "slowStoreCtrla"}
ForShortcut == (pc = "fastClear" /\ "h" \in state) \/ pc = "fastStoreCtrla"

(* A byte in the ring has the DRE interrupt enabled, or is the one that    *)
(* write() is about to enable it for (UART.cpp:813).                       *)
NoneStranded == txHead # txTail => "DREIE" \in ctrla \/ Publishing

(* Where the DRE interrupt is enabled, and where there is nothing that     *)
(* needs it.                                                               *)
EnableInv ==
    /\ NoneStranded
    /\ isr # "none" => "DREIE" \in ctrla
    /\ isr = "dre" => ie
    /\ isr = "poll" => ~ie /\ pc \in {"slowWait", "flDreie", "bgTest"}
    /\ "w" \notin state \/ ctrlb = {} => Spent
    /\ pc \in {"flTxcif", "endCtrlb"} => Spent
    /\ pc = "endCtrla" \/ Stopped => ctrlb = {}
    /\ Stopped => ctrla = {}
    /\ pc \in {"bgMode", "bgHalf", "bgConfig"} => "w" \notin state
    /\ pc = "bgHalf" => "w" \notin reg
    /\ pc \in {"flDreie", "flTxcif"} => "w" \in state
    /\ pc = "gsStore" => ("w" \in reg <=> "w" \in state)
    /\ pc \in WriteLabels => "TXEN" \in ctrlb
    /\ pc \in WriteLabels \ {"wrLoadState", "wrStoreState"} => "w" \in state
    /\ ForRing => "DREIE" \in reg
    /\ ForShortcut /\ "DREIE" \notin reg => Spent
    /\ ctrlb \in {{}, {"RXEN", "TXEN"}}

(* The receive interrupt is only ever exchanged for the transmit one.      *)
EarInv ==
    /\ ctrlb # {} => "RXCIE" \in ctrla \/ "TXCIE" \in ctrla
    /\ ForRing => "RXCIE" \in reg \/ "TXCIE" \in reg
    /\ ForShortcut => "TXCIE" \in reg
    /\ pc = "slowClear" => "RXCIE" \notin reg

(* What has been written is on its way out or out.  An interrupt enabled   *)
(* over an empty ring, as without Paced it may be, is taken before the     *)
(* program can mask it, or a frame is still going out.                     *)
ComingInv ==
    /\ ctrlb # {} /\ ~DREIF => shift # NoByte
    /\ "w" \in state /\ pc \notin WriteLabels \cup {"endRx", "endState"}
          => Coming \/ "DREIE" \in ctrla
    /\ "TXCIE" \in ctrla => Coming \/ "DREIE" \in ctrla \/ AboutToSend
    /\ "DREIE" \in ctrla /\ txHead = txTail /\ isr = "none" /\ ~AboutToSend
          => Coming \/ (ie /\ ~fresh /\ "RXCIE" \notin ctrla)
    /\ pc \in {"slowStore", "slowPublish"} /\ isr = "none"
          => idx # txTail \/ (ie /\ Coming)
    /\ pc = "slowLoadCtrla" /\ isr = "none"
          => txHead # txTail \/ (ie /\ Coming)
    /\ ForRing /\ isr = "none" /\ txHead = txTail
          => ie /\ (Coming \/ "RXCIE" \notin reg)

LEMMA WakeInit == Init => EnableInv /\ EarInv /\ ComingInv
  BY DEF Init, UsartInit, EnableInv, NoneStranded, EarInv, ComingInv, Spent,
     Coming, Stopped, AboutToSend, ForRing, ForShortcut, Publishing, WriteLabels, DREIF

(* Over an empty ring the interrupt would be taken before the next access  *)
(* of the program, unless a frame is in the way.                           *)
LEMMA TakenFirst ==
    ASSUME EnableInv, ComingInv, CpuFree,
           "DREIE" \in ctrla, txHead = txTail, ~AboutToSend
    PROVE  Coming
<1>1. SUFFICES ASSUME ~Coming PROVE FALSE
  OBVIOUS
<1>2. ie /\ ~fresh
  BY <1>1 DEF ComingInv, CpuFree
<1>3. ctrlb # {} /\ shift = NoByte
  BY <1>1 DEF EnableInv, Spent, Coming
<1>4. DREIF
  BY <1>3 DEF ComingInv
<1>5. QED
  BY <1>2, <1>4 DEF CpuFree, Pending, DrePending

(* A poll stands in for a handler that has a byte to send, or disables the *)
(* interrupt for an empty ring.                                            *)
LEMMA PollIsRight ==
    ASSUME EnableInv, ComingInv, CpuFree, Poll, ~Publishing, ~AboutToSend
    PROVE  /\ ctrla' \subseteq ctrla /\ ctrla \subseteq ctrla' \cup {"DREIE"}
           /\ isr' # "none" => /\ isr' = "poll" /\ ~ie
                               /\ "DREIE" \in ctrla' /\ txHead # txTail
           /\ "DREIE" \notin ctrla' => txHead = txTail /\ txcif' = txcif
           /\ "DREIE" \in ctrla /\ "DREIE" \notin ctrla' => Coming
           /\ txcif' # txcif => isr' # "none"
<1>1. isr = "none"
  BY DEF CpuFree
<1>2. CASE UNCHANGED <<ctrla, txcif, isr>>
  BY <1>1, <1>2 DEF EnableInv, NoneStranded
<1>3. CASE /\ ~ie /\ txHead = txTail /\ ctrla' = ctrla \ {"DREIE"}
           /\ UNCHANGED <<txcif, isr>>
  BY <1>1, <1>3, TakenFirst
<1>4. CASE /\ ~ie /\ txHead # txTail /\ isr' = "poll" /\ ~txcif'
           /\ UNCHANGED ctrla
  BY <1>1, <1>4 DEF EnableInv, NoneStranded
<1>5. QED
  BY <1>2, <1>3, <1>4 DEF Poll, ClearTXCIF

LEMMA EnableStep ==
    ASSUME TypeInv, EnableInv, ComingInv, [Next]_vars
    PROVE  EnableInv'
<1> USE DEF Step, Tick, Return, Called, Handler, usart, config, txWire, rxWire,
            rings, rxRing, txRing, cpu, callers, locals, history, promises,
            EnableInv, NoneStranded, Spent, Stopped, Publishing, WriteLabels,
            ForRing, ForShortcut, AboutToSend
<1>1. CASE UNCHANGED vars
  BY <1>1 DEF vars
<1>2. CASE AvailableForWrite \/ Flush \/ End \/ Begin \/ Available \/
           ReadNothing
  BY <1>2 DEF AvailableForWrite, Flush, End, Begin, Available, ReadNothing
<1>3. CASE Write \/ Read \/ GetStatus
  BY <1>3 DEF Write, Read, GetStatus
<1>4. CASE SetInterrupts
  BY <1>4 DEF SetInterrupts, CpuFree
<1>5. CASE WriteLoadState \/ WriteStoreState
  BY <1>5 DEF WriteLoadState, WriteStoreState
<1>6. CASE WriteTestEmpty \/ WriteTestDREIF
  BY <1>6 DEF WriteTestEmpty, Shortcut, WriteTestDREIF
<1>7. CASE FastLoadCtrla \/ FastClear \/ FastStoreCtrla
  BY <1>7 DEF FastLoadCtrla, FastClear, ClearTXCIF, FastStoreCtrla
<1>8. CASE FastSend
  BY <1>8 DEF FastSend, PutTXDATA
<1>9. CASE SlowWait
  <2>1. CASE HasRoom(idx, txTail)
    BY <1>9, <2>1 DEF SlowWait, CpuFree
  <2>2. CASE ~HasRoom(idx, txTail)
    BY <1>9, <2>2, PollIsRight DEF SlowWait
  <2>3. QED
    BY <2>1, <2>2
<1>10. CASE SlowStore \/ SlowPublish
  BY <1>10 DEF SlowStore, SlowPublish
<1>11. CASE SlowLoadCtrla \/ SlowStoreCtrla
  BY <1>11 DEF SlowLoadCtrla, WithDREIE, SlowStoreCtrla
<1>12. CASE SlowClear
  BY <1>12 DEF SlowClear, ClearTXCIF
<1>13. CASE FlushTest
  BY <1>13 DEF FlushTest, AfterFlush
<1>14. CASE FlushTestDREIE
  BY <1>14, PollIsRight DEF FlushTestDREIE, AfterFlush, HasRoom
<1>15. CASE FlushTestTXCIF
  BY <1>15, PollIsRight DEF FlushTestTXCIF, AfterFlush, HasRoom
<1>16. CASE EndCTRLB \/ EndCTRLA
  BY <1>16 DEF EndCTRLB, EndCTRLA
<1>17. CASE EndFlags \/ EndRx \/ EndState
  BY <1>17 DEF EndFlags, ClearTXCIF, EndRx, EndState, AfterEnd
<1>18. CASE BeginPoll
  BY <1>18, PollIsRight DEF BeginPoll, AfterFlush, HasRoom
<1>19. CASE BeginTest
  BY <1>19 DEF BeginTest, CpuFree
<1>20. CASE BeginMode \/ BeginHalf
  BY <1>20 DEF BeginMode, BeginHalf
<1>21. CASE BeginConfig
  BY <1>21 DEF BeginConfig, EnableBoth
<1>22. CASE ReadFetch \/ ReadAdvance
  BY <1>22 DEF ReadFetch, ReadAdvance
<1>23. CASE GetStatusLoad \/ GetStatusStore
  BY <1>23 DEF GetStatusLoad, GetStatusStore, ErrorsCleared, Errors
<1>24. CASE RxcHandler
  BY <1>24, ReceiveLeavesTx DEF RxcHandler
<1>25. CASE DreHandler
  BY <1>25 DEF DreHandler, DrePending, ClearTXCIF
<1>26. CASE DreSend
  BY <1>26 DEF DreSend, PutTXDATA, AfterSend
<1>27. CASE TxcHandler
  BY <1>27 DEF TxcHandler, TxcPending, DrePending, AfterTxc
<1>28. CASE FrameEnds
  BY <1>28 DEF FrameEnds, EndOfFrame
<1>29. CASE FrameArrives
  BY <1>29, ArrivalLeavesTx DEF FrameArrives
<1>30. QED
  BY <1>1, <1>2, <1>3, <1>4, <1>5, <1>6, <1>7, <1>8, <1>9, <1>10, <1>11,
     <1>12, <1>13, <1>14, <1>15, <1>16, <1>17, <1>18, <1>19, <1>20, <1>21,
     <1>22, <1>23, <1>24, <1>25, <1>26, <1>27, <1>28, <1>29
  DEF Next, NewCall, InCall, InWrite, Handlers, Line

LEMMA EarStep ==
    ASSUME TypeInv, EnableInv, EarInv, ComingInv, [Next]_vars
    PROVE  EarInv'
<1> USE DEF Step, Tick, Return, Called, Handler, usart, config, txWire, rxWire,
            rings, rxRing, txRing, cpu, callers, locals, history, promises,
            EarInv, EnableInv, ForRing, ForShortcut, WriteLabels, AboutToSend,
            Publishing, Stopped
<1>1. CASE UNCHANGED vars
  BY <1>1 DEF vars
<1>2. CASE AvailableForWrite \/ Flush \/ End \/ Begin \/ Available \/
           ReadNothing
  BY <1>2 DEF AvailableForWrite, Flush, End, Begin, Available, ReadNothing
<1>3. CASE Write \/ Read \/ GetStatus
  BY <1>3 DEF Write, Read, GetStatus
<1>4. CASE SetInterrupts
  BY <1>4 DEF SetInterrupts, CpuFree
<1>5. CASE WriteLoadState \/ WriteStoreState
  BY <1>5 DEF WriteLoadState, WriteStoreState
<1>6. CASE WriteTestEmpty \/ WriteTestDREIF
  BY <1>6 DEF WriteTestEmpty, Shortcut, WriteTestDREIF
<1>7. CASE FastLoadCtrla \/ FastClear \/ FastStoreCtrla
  BY <1>7 DEF FastLoadCtrla, FastClear, ClearTXCIF, FastStoreCtrla
<1>8. CASE FastSend
  BY <1>8 DEF FastSend, PutTXDATA
<1>9. CASE SlowWait
  BY <1>9, PollIsRight DEF SlowWait, AfterFlush, HasRoom
<1>10. CASE SlowStore \/ SlowPublish
  BY <1>10 DEF SlowStore, SlowPublish
<1>11. CASE SlowLoadCtrla \/ SlowStoreCtrla
  BY <1>11 DEF SlowLoadCtrla, WithDREIE, SlowStoreCtrla
<1>12. CASE SlowClear
  BY <1>12 DEF SlowClear, ClearTXCIF
<1>13. CASE FlushTest
  BY <1>13 DEF FlushTest, AfterFlush
<1>14. CASE FlushTestDREIE
  BY <1>14, PollIsRight DEF FlushTestDREIE, AfterFlush, HasRoom
<1>15. CASE FlushTestTXCIF
  BY <1>15, PollIsRight DEF FlushTestTXCIF, AfterFlush, HasRoom
<1>16. CASE EndCTRLB \/ EndCTRLA
  BY <1>16 DEF EndCTRLB, EndCTRLA
<1>17. CASE EndFlags \/ EndRx \/ EndState
  BY <1>17 DEF EndFlags, ClearTXCIF, EndRx, EndState, AfterEnd
<1>18. CASE BeginPoll
  BY <1>18, PollIsRight DEF BeginPoll, AfterFlush, HasRoom
<1>19. CASE BeginTest
  BY <1>19 DEF BeginTest
<1>20. CASE BeginMode \/ BeginHalf
  BY <1>20 DEF BeginMode, BeginHalf
<1>21. CASE BeginConfig
  BY <1>21 DEF BeginConfig, EnableBoth
<1>22. CASE ReadFetch \/ ReadAdvance
  BY <1>22 DEF ReadFetch, ReadAdvance
<1>23. CASE GetStatusLoad \/ GetStatusStore
  BY <1>23 DEF GetStatusLoad, GetStatusStore, ErrorsCleared, Errors
<1>24. CASE RxcHandler
  BY <1>24, ReceiveLeavesTx DEF RxcHandler
<1>25. CASE DreHandler
  BY <1>25 DEF DreHandler, DrePending, ClearTXCIF
<1>26. CASE DreSend
  BY <1>26 DEF DreSend, PutTXDATA, AfterSend
<1>27. CASE TxcHandler
  BY <1>27 DEF TxcHandler, TxcPending, DrePending, AfterTxc
<1>28. CASE FrameEnds
  BY <1>28 DEF FrameEnds, EndOfFrame
<1>29. CASE FrameArrives
  BY <1>29, ArrivalLeavesTx DEF FrameArrives
<1>30. QED
  BY <1>1, <1>2, <1>3, <1>4, <1>5, <1>6, <1>7, <1>8, <1>9, <1>10, <1>11,
     <1>12, <1>13, <1>14, <1>15, <1>16, <1>17, <1>18, <1>19, <1>20, <1>21,
     <1>22, <1>23, <1>24, <1>25, <1>26, <1>27, <1>28, <1>29
  DEF Next, NewCall, InCall, InWrite, Handlers, Line

LEMMA ComingStep ==
    ASSUME TypeInv, EnableInv, EarInv, ComingInv, [Next]_vars
    PROVE  ComingInv'
<1> USE DEF Step, Tick, Return, Called, Handler, usart, config, txWire, rxWire,
            rings, rxRing, txRing, cpu, callers, locals, history, promises,
            ComingInv, Coming, EnableInv, NoneStranded, Spent, Stopped,
            Publishing, WriteLabels, ForRing, AboutToSend, DREIF
<1>1. CASE UNCHANGED vars
  BY <1>1 DEF vars
<1>2. CASE AvailableForWrite \/ Flush \/ End \/ Begin \/ Available \/
           ReadNothing
  BY <1>2 DEF AvailableForWrite, Flush, End, Begin, Available, ReadNothing
<1>3. CASE Write \/ Read \/ GetStatus
  BY <1>3 DEF Write, Read, GetStatus
<1>4. CASE SetInterrupts
  <2>1. isr = "none" /\ CpuFree
    BY <1>4 DEF SetInterrupts, CpuFree
  <2>2. QED
    BY <1>4, <2>1, TakenFirst DEF SetInterrupts
<1>5. CASE WriteLoadState \/ WriteStoreState
  BY <1>5 DEF WriteLoadState, WriteStoreState
<1>6. CASE WriteTestEmpty \/ WriteTestDREIF
  BY <1>6 DEF WriteTestEmpty, Shortcut, WriteTestDREIF
<1>7. CASE FastLoadCtrla \/ FastClear \/ FastStoreCtrla
  BY <1>7 DEF FastLoadCtrla, FastClear, ClearTXCIF, FastStoreCtrla
<1>8. CASE FastSend
  <2>1. written # NoByte /\ "TXEN" \in ctrlb
    BY <1>8 DEF FastSend, TypeInv, Driver, NoByte
  <2>2. shift' # NoByte
    BY <1>8, <2>1 DEF FastSend, PutTXDATA
  <2>3. QED
    BY <1>8, <2>2 DEF FastSend
<1>9. CASE SlowWait
  <2>1. isr = "none" /\ CpuFree
    BY <1>9 DEF SlowWait, CpuFree
  <2>2. CASE HasRoom(idx, txTail)
    BY <1>9, <2>1, <2>2, TakenFirst DEF SlowWait, HasRoom
  <2>3. CASE ~HasRoom(idx, txTail)
    BY <1>9, <2>1, <2>3, PollIsRight, TakenFirst DEF SlowWait
  <2>4. QED
    BY <2>2, <2>3
<1>10. CASE SlowStore \/ SlowPublish
  BY <1>10 DEF SlowStore, SlowPublish
<1>11. CASE SlowLoadCtrla \/ SlowStoreCtrla
  BY <1>11 DEF SlowLoadCtrla, WithDREIE, SlowStoreCtrla
<1>12. CASE SlowClear
  <2>1. isr = "none" /\ CpuFree
    BY <1>12 DEF SlowClear, CpuFree
  <2>2. QED
    BY <1>12, <2>1, TakenFirst DEF SlowClear, ClearTXCIF, EarInv
<1>13. CASE FlushTest
  BY <1>13 DEF FlushTest, AfterFlush
<1>14. CASE FlushTestDREIE
  <2>1. isr = "none" /\ CpuFree
    BY <1>14 DEF FlushTestDREIE, CpuFree
  <2>2. CASE "DREIE" \in ctrla
    BY <1>14, <2>1, <2>2, PollIsRight, TakenFirst DEF FlushTestDREIE
  <2>3. CASE "DREIE" \notin ctrla
    BY <1>14, <2>1, <2>3 DEF FlushTestDREIE
  <2>4. QED
    BY <2>2, <2>3
<1>15. CASE FlushTestTXCIF
  BY <1>15, PollIsRight DEF FlushTestTXCIF, AfterFlush, HasRoom
<1>16. CASE EndCTRLB \/ EndCTRLA
  BY <1>16 DEF EndCTRLB, EndCTRLA
<1>17. CASE EndFlags \/ EndRx \/ EndState
  BY <1>17 DEF EndFlags, ClearTXCIF, EndRx, EndState, AfterEnd
<1>18. CASE BeginPoll
  <2>1. isr = "none" /\ CpuFree /\ Poll
    BY <1>18 DEF BeginPoll, CpuFree
  <2>2. QED
    BY <1>18, <2>1, PollIsRight, TakenFirst DEF BeginPoll
<1>19. CASE BeginTest
  BY <1>19 DEF BeginTest
<1>20. CASE BeginMode \/ BeginHalf
  BY <1>20 DEF BeginMode, BeginHalf
<1>21. CASE BeginConfig
  BY <1>21 DEF BeginConfig, EnableBoth
<1>22. CASE ReadFetch \/ ReadAdvance
  BY <1>22 DEF ReadFetch, ReadAdvance
<1>23. CASE GetStatusLoad \/ GetStatusStore
  BY <1>23 DEF GetStatusLoad, GetStatusStore, ErrorsCleared, Errors
<1>24. CASE RxcHandler
  <2>1. "RXCIE" \in ctrla
    BY <1>24 DEF RxcHandler, RxcPending
  <2>2. QED
    BY <1>24, <2>1, ReceiveLeavesTx DEF RxcHandler
<1>25. CASE DreHandler
  BY <1>25 DEF DreHandler, DrePending, ClearTXCIF
<1>26. CASE DreSend
  <2>1. "TXEN" \in ctrlb
    BY <1>26 DEF DreSend
  <2>2. txBuf[txTail] \in Nat
    BY DEF TypeInv, Driver, Buffers
  <2>3. txBuf[txTail] # NoByte
    BY <2>2 DEF NoByte
  <2>4. shift' # NoByte
    BY <1>26, <2>1, <2>3 DEF DreSend, PutTXDATA
  <2>5. QED
    BY <1>26, <2>4 DEF DreSend
<1>27. CASE TxcHandler
  BY <1>27 DEF TxcHandler, TxcPending, DrePending, AfterTxc
<1>28. CASE FrameEnds
  BY <1>28 DEF FrameEnds, EndOfFrame
<1>29. CASE FrameArrives
  BY <1>29, ArrivalLeavesTx DEF FrameArrives
<1>30. QED
  BY <1>1, <1>2, <1>3, <1>4, <1>5, <1>6, <1>7, <1>8, <1>9, <1>10, <1>11,
     <1>12, <1>13, <1>14, <1>15, <1>16, <1>17, <1>18, <1>19, <1>20, <1>21,
     <1>22, <1>23, <1>24, <1>25, <1>26, <1>27, <1>28, <1>29
  DEF Next, NewCall, InCall, InWrite, Handlers, Line

LEMMA WakeInvariant == Spec => [](TypeInv /\ EnableInv /\ EarInv /\ ComingInv)
<1> DEFINE Inv == EnableInv /\ EarInv /\ ComingInv
<1>1. Init => TypeInv /\ Inv
  BY TypeInit, WakeInit
<1>2. TypeInv /\ Inv /\ [Next]_vars => Inv'
  BY EnableStep, EarStep, ComingStep
<1>3. Spec => [](TypeInv /\ RxInv)
  BY RxInvariant
<1>4. QED
  BY <1>1, <1>2, <1>3, PTL DEF Spec

(* No byte stays in the transmit ring with its interrupt off, whatever     *)
(* comes between the load and the store of CTRLA in write(), in flush()    *)
(* and in the polls; Drains needs fairness besides.                        *)
THEOREM NothingStranded == Spec => []NoneStranded
<1>1. EnableInv => NoneStranded
  BY DEF EnableInv
<1>2. QED
  BY <1>1, WakeInvariant, PTL

(* flush() never waits for a TXCIF that no frame is going to set, though   *)
(* write(), the handler and the poll all clear it: the safety that         *)
(* CallsReturn rests on.                                                   *)
THEOREM FlushIsAnswered == Spec => []FlushAnswered
<1>1. EnableInv /\ ComingInv => FlushAnswered
  BY DEF EnableInv, ComingInv, FlushAnswered, Spent, WriteLabels
<1>2. QED
  BY <1>1, WakeInvariant, PTL

(* A half-duplex port that has stopped listening has the TXC interrupt     *)
(* enabled and the frame under way that raises it, until it listens again  *)
(* or is closed: the safety that ListensAgain rests on.                    *)
THEOREM ReceiverReturns == Spec => []EarKept
<1>1. EarInv /\ ComingInv => EarKept
  BY DEF EarInv, ComingInv, EarKept
<1>2. QED
  BY <1>1, WakeInvariant, PTL

(* flush(), called by the program or by end(), returns only with the ring  *)
(* empty and the DRE interrupt off, whatever the pace.                     *)
THEOREM QueueIsFlushed == Spec => QueueFlushed
<1>1. EnableInv /\ [Next]_vars
        => [FlushReturns => txHead = txTail /\ "DREIE" \notin ctrla]_vars
  <2> SUFFICES ASSUME EnableInv, [Next]_vars, FlushReturns
               PROVE  Spent
    BY DEF Spent
  <2>1. "w" \notin state \/ pc = "flTxcif"
    BY DEF FlushReturns, vars, cpu, Next, NewCall, InCall, InWrite, Handlers, Line,
       Step, Handler, Write, AvailableForWrite, Flush, End, Begin, Available,
       ReadNothing, Read, GetStatus, SetInterrupts, WriteLoadState, WriteStoreState,
       WriteTestEmpty, WriteTestDREIF, FastLoadCtrla, FastClear,
       FastStoreCtrla, FastSend, SlowWait, SlowStore, SlowPublish,
       SlowLoadCtrla, SlowClear, SlowStoreCtrla, FlushTest, FlushTestDREIE,
       FlushTestTXCIF, EndCTRLB, EndCTRLA, EndFlags, EndRx, EndState,
       BeginPoll, BeginTest, BeginMode, BeginHalf, BeginConfig, ReadFetch,
       ReadAdvance, GetStatusLoad, GetStatusStore, RxcHandler, DreHandler,
       DreSend, TxcHandler, FrameEnds, FrameArrives
  <2>2. QED
    BY <2>1 DEF EnableInv
<1>2. QED
  BY <1>1, WakeInvariant, PTL DEF Spec, QueueFlushed
=============================================================================
