---------------------------- MODULE CirBufProofs ----------------------------
(***************************************************************************)
(* The ring of bytes for every size: the types, the bytes a reader gets    *)
(* and that the ring implements the counters of OutputBuffer.              *)
(***************************************************************************)
EXTENDS CirBuf, TLAPS

(* Arithmetic of the ring: every position has a slot.                      *)
LEMMA WrapType ==
  ASSUME NEW x \in Nat
  PROVE  Wrap(x) \in Slots
  BY RingSizeAssumption DEF Wrap, Slots

(* A position is its slot plus a number of whole turns.                    *)
LEMMA WrapTurns ==
  ASSUME NEW x \in Nat
  PROVE  \E q \in Nat : x = q * CirBufSize + Wrap(x)
<1>1. x \div CirBufSize \in Nat /\ x = CirBufSize * (x \div CirBufSize) + Wrap(x)
  BY RingSizeAssumption DEF Wrap
<1>2. QED
  BY <1>1, RingSizeAssumption

(* Less than one turn apart: different slots.                              *)
LEMMA WrapApart ==
  ASSUME NEW x \in Nat, NEW y \in Nat, x < y, y < x + CirBufSize
  PROVE  Wrap(x) # Wrap(y)
<1> SUFFICES ASSUME Wrap(x) = Wrap(y) PROVE FALSE
  OBVIOUS
<1>1. PICK p \in Nat : x = p * CirBufSize + Wrap(x)
  BY WrapTurns
<1>2. PICK q \in Nat : y = q * CirBufSize + Wrap(x)
  BY WrapTurns
<1>3. y - x = (q - p) * CirBufSize
  BY <1>1, <1>2, WrapType, RingSizeAssumption DEF Slots
<1>4. q - p \in Int /\ (q - p <= 0 \/ q - p >= 1)
  OBVIOUS
<1>5. q - p <= 0 => (q - p) * CirBufSize <= 0
  BY RingSizeAssumption
<1>6. q - p >= 1 => (q - p) * CirBufSize >= CirBufSize
  BY RingSizeAssumption
<1>7. QED
  BY <1>3, <1>4, <1>5, <1>6, RingSizeAssumption

(* A position and a slot: adding whole turns does not change the slot.     *)
LEMMA WrapOf ==
  ASSUME NEW q \in Nat, NEW r \in Slots
  PROVE  Wrap(q * CirBufSize + r) = r
  BY RingSizeAssumption DEF Wrap, Slots

(* Walking on from a slot is walking on from the position it stands for.   *)
LEMMA WrapAdd ==
  ASSUME NEW x \in Nat, NEW y \in Nat
  PROVE  Wrap(Wrap(x) + y) = Wrap(x + y)
<1>1. PICK p \in Nat : x = p * CirBufSize + Wrap(x)
  BY WrapTurns
<1>2. Wrap(x) + y \in Nat /\ x + y \in Nat
  BY WrapType, RingSizeAssumption DEF Slots
<1>3. PICK q \in Nat : Wrap(x) + y = q * CirBufSize + Wrap(Wrap(x) + y)
  BY <1>2, WrapTurns
<1>4. x + y = (p + q) * CirBufSize + Wrap(Wrap(x) + y)
  BY <1>1, <1>2, <1>3, WrapType, RingSizeAssumption DEF Slots
<1>5. Wrap((p + q) * CirBufSize + Wrap(Wrap(x) + y)) = Wrap(Wrap(x) + y)
  BY <1>2, WrapType, WrapOf
<1>6. QED
  BY <1>4, <1>5

-----------------------------------------------------------------------------

(* Min and Max, as the methods use them: of two integers.                  *)
LEMMA MinOfTwo ==
  ASSUME NEW a \in Int, NEW b \in Int
  PROVE  Min({a, b}) = IF a <= b THEN a ELSE b
  BY DEF Min

(* The larger one of two integers, as SetEffectiveWindow picks it.          *)
LEMMA MaxOfTwo ==
  ASSUME NEW a \in Int, NEW b \in Int
  PROVE  Max({a, b}) = IF a >= b THEN a ELSE b
  BY DEF Max

(* An upper bound that is itself in the set is its Max.                    *)
LEMMA MaxIs ==
  ASSUME NEW S \in SUBSET Int, NEW m \in S, \A i \in S : i <= m
  PROVE  Max(S) = m
<1>1. \A i \in S : (\A j \in S : i >= j) => i = m
  OBVIOUS
<1>2. \A j \in S : m >= j
  OBVIOUS
<1>3. QED
  BY <1>1, <1>2 DEF Max

(* The bytes of a call that land in one slot: the last of them is found a  *)
(* number of whole turns after any other.                                  *)
LEMMA LastByteOfSlot ==
  ASSUME NEW x \in Nat, NEW n \in Nat, NEW s,
         NEW mine, mine = {j \in 0 .. n - 1 : Wrap(x + j) = s}, mine # {}
  PROVE  Max(mine) \in mine
<1>0. PICK i \in 0 .. n - 1 : Wrap(x + i) = s
  OBVIOUS
<1> DEFINE k == n - 1 - i
           m == n - 1 - Wrap(k)
<1>1. k \in Nat
  OBVIOUS
<1>2. PICK q \in Nat : k = q * CirBufSize + Wrap(k)
  BY <1>1, WrapTurns
<1>3. Wrap(k) \in Nat /\ Wrap(k) < CirBufSize
  BY <1>1, WrapType, RingSizeAssumption DEF Slots
<1>4. q * CirBufSize \in Nat
  BY RingSizeAssumption
<1>5. m \in 0 .. n - 1 /\ m = i + q * CirBufSize
  BY <1>2, <1>3, <1>4
<1>6. Wrap(x + m) = s
  <2>1. PICK p \in Nat : x + i = p * CirBufSize + Wrap(x + i)
    BY WrapTurns
  <2>2. Wrap(x + i) \in Slots
    BY WrapType
  <2>3. x + m = (p + q) * CirBufSize + Wrap(x + i)
    BY <1>5, <2>1, <2>2, RingSizeAssumption DEF Slots
  <2>4. Wrap((p + q) * CirBufSize + Wrap(x + i)) = Wrap(x + i)
    BY <2>2, WrapOf
  <2>5. QED
    BY <1>0, <2>3, <2>4
<1>7. \A j \in mine : j <= m
  <2> SUFFICES ASSUME NEW j \in mine, m < j PROVE FALSE
    BY <1>5
  <2>1. x + m \in Nat /\ x + j \in Nat /\ x + m < x + j /\ x + j < x + m + CirBufSize
    BY <1>3, <1>5, RingSizeAssumption
  <2>2. Wrap(x + m) # Wrap(x + j)
    BY <2>1, WrapApart
  <2>3. QED
    BY <1>6, <2>2
<1>8. mine \in SUBSET Int /\ m \in mine
  BY <1>5, <1>6
<1> HIDE DEF m
<1>9. Max(mine) = m
  BY <1>7, <1>8, MaxIs
<1>10. QED
  BY <1>8, <1>9

-----------------------------------------------------------------------------

(* The two indexes of the ring stand for the two ends of what is held, and *)
(* every byte held is in the slot of its position.                         *)
RingPlaced == readPos = Wrap(HeadPos) /\ writePos = Wrap(totalSize)
BytesInPlace == \A p \in HeadPos .. totalSize - 1 : buf[Wrap(p)] = p

(* The inductive invariant.  In async mode the ring never holds more than  *)
(* the window, so that one write moves the read index at most by its own   *)
(* length; the chunk at hand still fits the bound on the output.           *)
Inv ==
  /\ TypeOK
  /\ count <= totalSize
  /\ totalSize + pending <= MaxBytes
  /\ ~syncMode => count <= windowSize
  /\ RingPlaced
  /\ BytesInPlace

(* MakeCirBuf: an empty ring.                                              *)
LEMMA InitInv == Init => Inv
<1> SUFFICES ASSUME Init PROVE Inv
  OBVIOUS
<1>1. Wrap(0) = 0
  BY RingSizeAssumption DEF Wrap
<1>2. TypeOK
  <2>1. buf \in [Slots -> 0 .. MaxBytes \union {Nothing}]
    BY DEF Init
  <2>2. 0 \in Slots
    BY RingSizeAssumption DEF Slots
  <2>3. /\ 0 \in 0 .. CirBufSize /\ CirBufSize \in 0 .. CirBufSize
        /\ 0 \in 0 .. MaxBytes /\ 0 \in 0 .. MaxPacketSize
    BY RingSizeAssumption, ChunkSizeAssumption, MaxBytesAssumption
  <2>4. QED
    BY <2>1, <2>2, <2>3, Zenon DEF Init, TypeOK
<1>3. HeadPos = 0 /\ totalSize = 0
  BY DEF Init, HeadPos
<1>4. RingPlaced /\ BytesInPlace
  BY <1>1, <1>3 DEF Init, RingPlaced, BytesInPlace
<1>5. QED
  BY <1>2, <1>4, RingSizeAssumption, MaxBytesAssumption DEF Inv, Init

(* What the ring holds after n bytes have been stored, of which the oldest *)
(* ones may be overwritten: any position within a turn of the new end is   *)
(* where it should be.                                                     *)
LEMMA StoredInPlace ==
  ASSUME Inv, NEW n \in 0 .. pending,
         NEW p \in HeadPos .. totalSize + n - 1, totalSize + n - CirBufSize <= p
  PROVE  Stored(n)[Wrap(p)] = p
<1> DEFINE mine == {i \in 0 .. n - 1 : Wrap(writePos + i) = Wrap(p)}
<1>1. p \in Nat /\ totalSize \in Nat /\ n \in Nat /\ CirBufSize \in Nat /\ HeadPos \in Nat
  BY RingSizeAssumption, MaxBytesAssumption, ChunkSizeAssumption DEF Inv, TypeOK, HeadPos
<1>2. Wrap(p) \in Slots
  BY <1>1, WrapType
<1>3. Stored(n)[Wrap(p)] = IF mine = {} THEN buf[Wrap(p)] ELSE totalSize + Max(mine)
  BY <1>2 DEF Stored
<1>4. \A i \in 0 .. n - 1 : Wrap(writePos + i) = Wrap(totalSize + i)
  BY <1>1, WrapAdd DEF Inv, RingPlaced
<1>5. \A i \in mine : ~ (p < totalSize + i)
  <2> SUFFICES ASSUME NEW i \in mine, p < totalSize + i PROVE FALSE
    OBVIOUS
  <2>1. totalSize + i \in Nat /\ totalSize + i < p + CirBufSize
    BY <1>1
  <2>2. Wrap(p) # Wrap(totalSize + i)
    BY <1>1, <2>1, WrapApart
  <2>3. QED
    BY <1>4, <2>2
<1>6. CASE p < totalSize
  <2>1. mine = {}
    BY <1>1, <1>5, <1>6
  <2>2. buf[Wrap(p)] = p
    BY <1>1, <1>6 DEF Inv, BytesInPlace
  <2>3. QED
    BY <1>3, <2>1, <2>2
<1>7. CASE p >= totalSize
  <2>1. p - totalSize \in 0 .. n - 1 /\ totalSize + (p - totalSize) = p
    BY <1>1, <1>7
  <2>2. p - totalSize \in mine
    BY <1>4, <2>1
  <2>3. \A i \in mine : i <= p - totalSize
    BY <1>1, <1>5
  <2>4. mine \in SUBSET Int
    OBVIOUS
  <2> HIDE DEF mine
  <2>5. Max(mine) = p - totalSize
    BY <2>2, <2>3, <2>4, MaxIs
  <2>6. QED
    BY <1>1, <1>3, <2>1, <2>2, <2>5
<1>8. QED
  BY <1>1, <1>6, <1>7

(* Every slot keeps a byte of the stream, or nothing.                      *)
LEMMA StoredType ==
  ASSUME Inv, NEW n \in 0 .. pending
  PROVE  Stored(n) \in [Slots -> 0 .. MaxBytes \union {Nothing}]
<1> SUFFICES ASSUME NEW s \in Slots
             PROVE  Stored(n)[s] \in 0 .. MaxBytes \union {Nothing}
  BY DEF Stored
<1> DEFINE mine == {i \in 0 .. n - 1 : Wrap(writePos + i) = s}
<1>1. Stored(n)[s] = IF mine = {} THEN buf[s] ELSE totalSize + Max(mine)
  BY DEF Stored
<1>2. CASE mine = {}
  BY <1>1, <1>2 DEF Inv, TypeOK
<1>3. CASE mine # {}
  <2>1. mine = {i \in 0 .. n - 1 : Wrap(writePos + i) = s}
    OBVIOUS
  <2>2. writePos \in Nat /\ n \in Nat
    BY RingSizeAssumption, ChunkSizeAssumption DEF Inv, TypeOK, Slots
  <2>3. Max(mine) \in mine
    <3> HIDE DEF mine
    <3>1. QED
      BY <1>3, <2>1, <2>2, LastByteOfSlot
  <2>4. Max(mine) \in 0 .. n - 1
    BY <2>3
  <2> HIDE DEF mine
  <2>5. totalSize + Max(mine) \in 0 .. MaxBytes
    BY <2>2, <2>4, ChunkSizeAssumption, MaxBytesAssumption DEF Inv, TypeOK
  <2>6. QED
    BY <1>1, <1>3, <2>5
<1>4. QED
  BY <1>2, <1>3

-----------------------------------------------------------------------------

(* Moving the read index over n held bytes keeps the ring placed.          *)
LEMMA ReadIndexMoves ==
  ASSUME Inv, NEW n \in 0 .. count
  PROVE  /\ Wrap(readPos + n) = Wrap(totalSize - (count - n))
         /\ Wrap(readPos + n) \in Slots
<1>1. HeadPos \in Nat /\ n \in Nat /\ HeadPos + n = totalSize - (count - n)
  BY RingSizeAssumption, MaxBytesAssumption DEF Inv, TypeOK, HeadPos
<1>2. Wrap(readPos + n) = Wrap(HeadPos + n)
  BY <1>1, WrapAdd DEF Inv, RingPlaced
<1>3. QED
  BY <1>1, <1>2, WrapType

(* The arithmetic of a write: in either mode what is stored is part of the *)
(* chunk, and what it pushes out was held or came with the same chunk.     *)
LEMMA WriteFacts ==
  ASSUME Inv, ~Blocked,
         NEW n, n = IF syncMode THEN Min({pending, windowSize - count}) ELSE pending,
         NEW o, o = Max({0, count + n - windowSize})
  PROVE  /\ n \in 0 .. pending
         /\ pending > 0 => n > 0
         /\ o \in Nat /\ o <= count + n
         /\ count + n - o \in 0 .. windowSize
         /\ count + n - o = IF count + n <= windowSize THEN count + n ELSE windowSize
         /\ syncMode => o = 0
<1>1. /\ pending \in Nat /\ windowSize \in Nat /\ count \in Nat
      /\ syncMode \in BOOLEAN /\ (syncMode => count < windowSize)
      /\ ~syncMode => count <= windowSize
  BY RingSizeAssumption, ChunkSizeAssumption DEF Inv, TypeOK, Blocked
<1>2. n = IF syncMode
          THEN IF pending <= windowSize - count THEN pending ELSE windowSize - count
          ELSE pending
  BY <1>1, MinOfTwo
<1>3. n \in Int /\ count + n - windowSize \in Int /\ 0 \in Int
  BY <1>1, <1>2
<1>4. o = IF 0 >= count + n - windowSize THEN 0 ELSE count + n - windowSize
  BY <1>3, MaxOfTwo, Zenon
<1>5. CASE syncMode
  BY <1>1, <1>2, <1>4, <1>5
<1>6. CASE ~syncMode
  BY <1>1, <1>2, <1>4, <1>6
<1>7. QED
  BY <1>5, <1>6

(* SetEffectiveWindow cuts off what async mode may not hold.               *)
LEMMA WindowFacts ==
  ASSUME Inv, NEW sync \in BOOLEAN, NEW newSize \in Nat,
         NEW w, w = Min({newSize, CirBufSize}),
         NEW x, sync => x = 0, ~sync => x = Max({0, count - w})
  PROVE  /\ w \in 0 .. CirBufSize
         /\ w = IF newSize <= CirBufSize THEN newSize ELSE CirBufSize
         /\ x \in 0 .. count
         /\ count - x = IF sync \/ count <= w THEN count ELSE w
         /\ ~sync => count - x <= w
<1>1. count \in Nat /\ CirBufSize \in Nat
  BY RingSizeAssumption DEF Inv, TypeOK
<1>2. w = IF newSize <= CirBufSize THEN newSize ELSE CirBufSize
  BY <1>1, MinOfTwo
<1>3. w \in Nat /\ count - w \in Int /\ 0 \in Int
  BY <1>1, <1>2
<1>4. Max({0, count - w}) = IF 0 >= count - w THEN 0 ELSE count - w
  BY <1>3, MaxOfTwo, Zenon
<1>5. QED
  BY <1>1, <1>2, <1>4

-----------------------------------------------------------------------------

(* ReadChunk leaves the ring alone.                                        *)
LEMMA ReadChunkInv ==
  ASSUME Inv, NEW n \in 1 .. MaxPacketSize, ReadChunk(n)
  PROVE  Inv'
<1>1. TypeOK'
  BY ChunkSizeAssumption DEF Inv, TypeOK, ReadChunk
<1>2. RingPlaced' /\ BytesInPlace'
  BY DEF Inv, ReadChunk, RingPlaced, BytesInPlace, HeadPos
<1>3. QED
  BY <1>1, <1>2 DEF Inv, ReadChunk

(* WriteAvailable puts every byte in its slot, also when it runs over the  *)
(* end of the ring and over the oldest bytes.                              *)
LEMMA WriteAvailableInv ==
  ASSUME Inv, WriteAvailable
  PROVE  Inv'
<1>1. CASE Blocked
  <2>1. TypeOK'
    BY <1>1 DEF Inv, TypeOK, WriteAvailable
  <2>2. RingPlaced' /\ BytesInPlace'
    BY <1>1 DEF Inv, WriteAvailable, RingPlaced, BytesInPlace, HeadPos
  <2>3. QED
    BY <1>1, <2>1, <2>2 DEF Inv, WriteAvailable
<1>2. CASE ~Blocked
  <2> DEFINE n == IF syncMode THEN Min({pending, windowSize - count}) ELSE pending
             o == Max({0, count + n - windowSize})
  <2>1. /\ buf' = Stored(n)
        /\ writePos' = Wrap(writePos + n)
        /\ readPos' = Wrap(readPos + o)
        /\ count' = count + n - o
        /\ totalSize' = totalSize + n
        /\ pending' = pending - n
        /\ UNCHANGED <<waiterChan, syncMode, windowSize>>
    BY <1>2 DEF WriteAvailable
  <2>o. /\ n = IF syncMode THEN Min({pending, windowSize - count}) ELSE pending
        /\ o = Max({0, count + n - windowSize})
    OBVIOUS
  <2> HIDE DEF n, o
  <2>2. /\ n \in 0 .. pending
        /\ o \in Nat /\ o <= count + n
        /\ count + n - o \in 0 .. windowSize
        /\ syncMode => o = 0
    BY <1>2, <2>o, WriteFacts
  <2>3. /\ totalSize \in Nat /\ count \in Nat /\ pending \in Nat /\ windowSize \in Nat
        /\ windowSize <= CirBufSize /\ HeadPos \in Nat /\ n \in Nat /\ CirBufSize \in Nat
        /\ totalSize + pending <= MaxBytes /\ pending <= MaxPacketSize
    BY <2>2, RingSizeAssumption, ChunkSizeAssumption, MaxBytesAssumption
    DEF Inv, TypeOK, HeadPos
  <2>4. HeadPos' = HeadPos + o
    BY <2>1, <2>2, <2>3 DEF HeadPos, Inv, TypeOK
  <2>5. RingPlaced'
    <3>1. writePos' = Wrap(totalSize')
      BY <2>1, <2>3, WrapAdd DEF Inv, RingPlaced
    <3>2. readPos' = Wrap(HeadPos')
      BY <2>1, <2>2, <2>3, <2>4, WrapAdd DEF Inv, RingPlaced
    <3>3. QED
      BY <3>1, <3>2 DEF RingPlaced
  <2>6. BytesInPlace'
    <3> SUFFICES ASSUME NEW p \in HeadPos' .. totalSize' - 1
                 PROVE  buf'[Wrap(p)] = p
      BY DEF BytesInPlace
    <3>1. /\ p \in HeadPos .. totalSize + n - 1
          /\ totalSize + n - CirBufSize <= p
      BY <2>1, <2>2, <2>3, <2>4 DEF HeadPos
    <3>2. QED
      BY <2>1, <2>2, <3>1, StoredInPlace
  <2>7. TypeOK'
    <3>1. buf' \in [Slots -> 0 .. MaxBytes \union {Nothing}]
      BY <2>1, <2>2, StoredType
    <3>2. readPos' \in Slots /\ writePos' \in Slots
      <4>1. totalSize' \in Nat /\ HeadPos' \in Nat
        BY <2>1, <2>2, <2>3, <2>4
      <4>2. QED
        BY <2>5, <4>1, WrapType DEF RingPlaced
    <3>3. count' \in 0 .. CirBufSize /\ totalSize' \in 0 .. MaxBytes
          /\ pending' \in 0 .. MaxPacketSize
      BY <2>1, <2>2, <2>3, ChunkSizeAssumption, MaxBytesAssumption
    <3>4. QED
      BY <2>1, <3>1, <3>2, <3>3 DEF Inv, TypeOK
  <2>8. count' <= totalSize' /\ totalSize' + pending' <= MaxBytes
        /\ (~syncMode' => count' <= windowSize')
    BY <2>1, <2>2, <2>3, MaxBytesAssumption DEF Inv, TypeOK
  <2>9. QED
    BY <2>5, <2>6, <2>7, <2>8 DEF Inv
<1>3. QED
  BY <1>1, <1>2

(* Consume moves the head over bytes that are held.                        *)
LEMMA ConsumeInv ==
  ASSUME Inv, NEW n \in 0 .. CirBufSize, Consume(n)
  PROVE  Inv'
<1>1. n \in 0 .. count /\ count \in Nat /\ totalSize \in Nat /\ count <= totalSize
  BY RingSizeAssumption, MaxBytesAssumption DEF Inv, TypeOK, Consume
<1>2. HeadPos' = totalSize - (count - n) /\ HeadPos' >= HeadPos
  BY <1>1 DEF Consume, HeadPos
<1>3. readPos' = Wrap(HeadPos') /\ readPos' \in Slots
  BY <1>1, <1>2, ReadIndexMoves DEF Consume
<1>4. RingPlaced'
  BY <1>3 DEF Inv, RingPlaced, Consume
<1>5. BytesInPlace'
  BY <1>1, <1>2 DEF Inv, BytesInPlace, Consume, HeadPos
<1>6. TypeOK'
  <2>1. count \in 0 .. CirBufSize
    BY DEF Inv, TypeOK
  <2>2. count' \in 0 .. CirBufSize
    BY <1>1, <2>1, RingSizeAssumption DEF Consume
  <2>3. QED
    BY <1>3, <2>2, Zenon DEF Inv, TypeOK, Consume
<1>7. QED
  BY <1>1, <1>4, <1>5, <1>6, RingSizeAssumption DEF Inv, TypeOK, Consume

(* SetEffectiveWindow may cut off the oldest bytes, and only those.        *)
LEMMA SetEffectiveWindowInv ==
  ASSUME Inv, NEW sync \in BOOLEAN, NEW newSize \in 0 .. CirBufSize + 1,
         SetEffectiveWindow(sync, newSize)
  PROVE  Inv'
<1> DEFINE w == Min({newSize, CirBufSize})
           x == IF sync THEN 0 ELSE Max({0, count - w})
<1>1. /\ windowSize' = w /\ syncMode' = sync
      /\ readPos' = Wrap(readPos + x)
      /\ count' = count - x
      /\ waiterChan' \in BOOLEAN
      /\ UNCHANGED <<buf, writePos, totalSize, pending>>
  BY DEF SetEffectiveWindow, Inv, TypeOK
<1>w. /\ w = Min({newSize, CirBufSize})
      /\ sync => x = 0
      /\ ~sync => x = Max({0, count - w})
  OBVIOUS
<1> HIDE DEF w, x
<1>s. newSize \in Nat
  BY RingSizeAssumption
<1>2. w \in 0 .. CirBufSize /\ x \in 0 .. count /\ (~sync => count - x <= w)
  BY <1>w, <1>s, WindowFacts
<1>3. count \in Nat /\ totalSize \in Nat /\ count <= totalSize /\ count <= CirBufSize
  BY RingSizeAssumption, MaxBytesAssumption DEF Inv, TypeOK
<1>4. HeadPos' = totalSize - (count - x) /\ HeadPos' >= HeadPos
  BY <1>1, <1>2, <1>3 DEF HeadPos
<1>5. readPos' = Wrap(HeadPos') /\ readPos' \in Slots
  BY <1>1, <1>2, <1>4, ReadIndexMoves
<1>6. RingPlaced'
  BY <1>1, <1>5 DEF Inv, RingPlaced
<1>7. BytesInPlace'
  BY <1>1, <1>2, <1>3, <1>4 DEF Inv, BytesInPlace, HeadPos
<1>8. TypeOK'
  BY <1>1, <1>2, <1>3, <1>5, RingSizeAssumption DEF Inv, TypeOK
<1>9. QED
  BY <1>1, <1>2, <1>3, <1>6, <1>7, <1>8 DEF Inv

(* The ring keeps its bytes in place.                                      *)
THEOREM RingInvariant == Spec => []Inv
<1>1. Inv /\ [Next]_vars => Inv'
  <2> SUFFICES ASSUME Inv, [Next]_vars PROVE Inv'
    OBVIOUS
  <2>1. CASE UNCHANGED vars
    BY <2>1 DEF vars, Inv, TypeOK, RingPlaced, BytesInPlace, HeadPos
  <2>2. QED
    BY <2>1, ReadChunkInv, WriteAvailableInv, ConsumeInv, SetEffectiveWindowInv DEF Next
<1>2. QED
  BY InitInv, <1>1, PTL DEF Spec

(* Type correctness of the ring.                                           *)
THEOREM RingTypes == Spec => []TypeOK
  BY RingInvariant, PTL DEF Inv

(* PeekDataAt: whatever was written, consumed, overwritten or cut off, the *)
(* bytes it copies out are the bytes of the stream its caller asked for.   *)
THEOREM PeekedBytes == Spec => []PeekedBytesMatchLabel
<1>1. Inv => PeekedBytesMatchLabel
  <2> SUFFICES ASSUME Inv, NEW offset \in 0 .. count,
                      NEW i \in DOMAIN PeekDataAt(offset, MaxPacketSize)
               PROVE  PeekDataAt(offset, MaxPacketSize)[i] = HeadPos + offset + i - 1
    BY DEF PeekedBytesMatchLabel
  <2>1. /\ count \in Nat /\ totalSize \in Nat /\ count <= totalSize /\ MaxPacketSize \in Nat
        /\ HeadPos \in Nat
    BY RingSizeAssumption, MaxBytesAssumption, ChunkSizeAssumption DEF Inv, TypeOK, HeadPos
  <2> DEFINE len == Min({MaxPacketSize, count - offset})
  <2>2. CASE offset >= count
    BY <2>2 DEF PeekDataAt
  <2>3. CASE ~ (offset >= count)
    <3>1. PeekDataAt(offset, MaxPacketSize)
            = [j \in 1 .. len |-> buf[Wrap(readPos + offset + j - 1)]]
      BY <2>3 DEF PeekDataAt
    <3>2. len \in Nat /\ len <= count - offset
      BY <2>1, <2>3, MinOfTwo
    <3> HIDE DEF len
    <3>3. /\ i \in 1 .. len
          /\ PeekDataAt(offset, MaxPacketSize)[i] = buf[Wrap(readPos + offset + i - 1)]
      BY <3>1
    <3>4. offset + i - 1 \in Nat /\ readPos \in Nat
      BY <2>1, <3>2, <3>3, RingSizeAssumption DEF Inv, TypeOK, Slots
    <3>5. readPos + offset + i - 1 = Wrap(HeadPos) + (offset + i - 1)
      BY <3>2, <3>3, <3>4 DEF Inv, RingPlaced
    <3>6. Wrap(readPos + offset + i - 1) = Wrap(HeadPos + (offset + i - 1))
      BY <2>1, <3>4, <3>5, WrapAdd
    <3>7. HeadPos + (offset + i - 1) \in HeadPos .. totalSize - 1
      BY <2>1, <3>2, <3>3, <3>4 DEF HeadPos
    <3>8. buf[Wrap(HeadPos + (offset + i - 1))] = HeadPos + (offset + i - 1)
      BY <3>7 DEF Inv, BytesInPlace
    <3>9. QED
      BY <2>1, <3>2, <3>3, <3>4, <3>6, <3>8
  <2>4. QED
    BY <2>2, <2>3
<1>2. QED
  BY <1>1, RingInvariant, PTL

-----------------------------------------------------------------------------

(* The record that OutputBuffer sees.                                      *)
seen == [total |-> totalSize, count |-> count, window |-> windowSize,
         sync |-> syncMode, waiter |-> waiterChan]

(* The record has the type of the counters.                                *)
LEMMA SeenType ==
  ASSUME Inv
  PROVE  /\ seen \in Counters!Buffer
         /\ seen.total = totalSize /\ seen.count = count /\ seen.window = windowSize
         /\ seen.sync = syncMode /\ seen.waiter = waiterChan
<1>1. /\ totalSize \in Nat /\ count \in Nat /\ windowSize \in Nat
      /\ syncMode \in BOOLEAN /\ waiterChan \in BOOLEAN
  BY RingSizeAssumption, MaxBytesAssumption DEF Inv, TypeOK
<1>2. QED
  BY <1>1 DEF seen, Counters!Buffer

(* After a step the record is the buffer that agrees with it everywhere.   *)
LEMMA SeenIs ==
  ASSUME Inv', NEW q \in Counters!Buffer,
         q.total = totalSize', q.count = count', q.window = windowSize',
         q.sync = syncMode', q.waiter = waiterChan'
  PROVE  seen' = q
<1>1. /\ totalSize' \in Nat /\ count' \in Nat /\ windowSize' \in Nat
      /\ syncMode' \in BOOLEAN /\ waiterChan' \in BOOLEAN
  BY RingSizeAssumption, MaxBytesAssumption DEF Inv, TypeOK
<1>2. seen' \in Counters!Buffer
  BY <1>1 DEF seen, Counters!Buffer
<1>3. /\ seen'.total = totalSize' /\ seen'.count = count' /\ seen'.window = windowSize'
      /\ seen'.sync = syncMode' /\ seen'.waiter = waiterChan'
  BY DEF seen
<1>4. QED
  BY <1>2, <1>3 DEF Counters!Buffer

(* A write of the ring is a write of the counters, or the writer parks.    *)
LEMMA WriteImplements ==
  ASSUME Inv, WriteAvailable
  PROVE  Counters!BufWrite \/ Counters!BufPark
<1>1. CASE Blocked
  <2>1. /\ waiterChan' = TRUE /\ ~waiterChan
        /\ UNCHANGED <<totalSize, count, syncMode, windowSize>>
    BY <1>1 DEF WriteAvailable
  <2>2. seen' = Counters!Parked(seen)
    <3> DEFINE q == Counters!Parked(seen)
    <3>1. /\ q \in Counters!Buffer
          /\ q.total = seen.total /\ q.count = seen.count /\ q.window = seen.window
          /\ q.sync = seen.sync /\ q.waiter = TRUE
      BY SeenType DEF Counters!Buffer, Counters!Parked
    <3> HIDE DEF q
    <3>2. seen' = q
      BY <2>1, <3>1, SeenType, SeenIs, WriteAvailableInv
    <3>3. QED
      BY <3>2 DEF q
  <2>3. Counters!Full(seen)
    BY <1>1 DEF Blocked, seen, Counters!Full
  <2>4. QED
    BY <2>1, <2>2, <2>3 DEF Counters!BufPark, seen
<1>2. CASE ~Blocked
  <2> DEFINE n == IF syncMode THEN Min({pending, windowSize - count}) ELSE pending
             o == Max({0, count + n - windowSize})
  <2>1. /\ count' = count + n - o
        /\ totalSize' = totalSize + n
        /\ UNCHANGED <<waiterChan, syncMode, windowSize>>
        /\ ~waiterChan /\ pending > 0
    BY <1>2 DEF WriteAvailable
  <2>o. /\ n = IF syncMode THEN Min({pending, windowSize - count}) ELSE pending
        /\ o = Max({0, count + n - windowSize})
    OBVIOUS
  <2> HIDE DEF n, o
  <2>2. /\ n \in 0 .. pending /\ n > 0
        /\ count + n - o = IF count + n <= windowSize THEN count + n ELSE windowSize
        /\ syncMode => o = 0
    BY <1>2, <2>1, <2>o, WriteFacts
  <2>3. /\ pending \in 0 .. MaxPacketSize /\ count \in Nat /\ windowSize \in Nat
        /\ totalSize \in Nat
    BY RingSizeAssumption, MaxBytesAssumption DEF Inv, TypeOK
  <2>4. n \in 1 .. MaxPacketSize
    BY <2>2, <2>3, ChunkSizeAssumption
  <2>5. Counters!Accepts(seen, n) = n
    <3>1. syncMode => count + n <= windowSize
      BY <2>2, <2>3, <2>4
    <3>2. QED
      BY <2>3, <2>4, <3>1 DEF seen, Counters!Accepts, Counters!Least
  <2>6. seen' = Counters!Written(seen, n)
    <3> DEFINE q == Counters!Written(seen, n)
    <3>1. seen.total + n \in Nat /\ Counters!Least(seen.window, seen.count + n) \in Nat
      BY <2>3, <2>4, SeenType DEF Counters!Least
    <3>2. /\ q \in Counters!Buffer
          /\ q.total = seen.total + n
          /\ q.count = Counters!Least(seen.window, seen.count + n)
          /\ q.window = seen.window /\ q.sync = seen.sync /\ q.waiter = seen.waiter
      BY <3>1, SeenType DEF Counters!Buffer, Counters!Written
    <3> HIDE DEF q
    <3>3. q.total = totalSize' /\ q.count = count'
      BY <2>1, <2>2, <2>3, <2>4, <3>2, SeenType DEF Counters!Least
    <3>4. seen' = q
      BY <2>1, <3>2, <3>3, SeenType, SeenIs, WriteAvailableInv
    <3>5. QED
      BY <3>4 DEF q
  <2>7. ~Counters!Full(seen)
    BY <1>2 DEF Blocked, seen, Counters!Full
  <2>8. QED
    BY <2>1, <2>4, <2>5, <2>6, <2>7 DEF Counters!BufWrite, seen
<1>3. QED
  BY <1>1, <1>2

(* Consuming from the ring is consuming from the counters.                 *)
LEMMA ConsumeImplements ==
  ASSUME Inv, NEW n \in 0 .. CirBufSize, Consume(n)
  PROVE  Counters!BufConsume
<1>1. n \in 0 .. count
  BY RingSizeAssumption DEF Inv, TypeOK, Consume
<1>2. seen' = Counters!Consumed(seen, n)
  <2> DEFINE q == Counters!Consumed(seen, n)
  <2>1. seen.count - n \in Nat
    BY <1>1, SeenType DEF Counters!Buffer
  <2>2. /\ q \in Counters!Buffer
        /\ q.total = seen.total /\ q.count = seen.count - n /\ q.window = seen.window
        /\ q.sync = seen.sync /\ q.waiter = FALSE
    BY <2>1, SeenType DEF Counters!Buffer, Counters!Consumed
  <2> HIDE DEF q
  <2>3. seen' = q
    BY <2>2, SeenType, SeenIs, ConsumeInv DEF Consume
  <2>4. QED
    BY <2>3 DEF q
<1>3. QED
  BY <1>1, <1>2 DEF Counters!BufConsume, seen

(* Setting the window of the ring is setting it for the counters: a size   *)
(* above the ring's is the ring's.                                         *)
LEMMA WindowImplements ==
  ASSUME Inv, NEW sync \in BOOLEAN, NEW newSize \in 0 .. CirBufSize + 1,
         SetEffectiveWindow(sync, newSize)
  PROVE  Counters!BufSetEffectiveWindow
<1> DEFINE w == Min({newSize, CirBufSize})
           x == IF sync THEN 0 ELSE Max({0, count - w})
<1>1. /\ windowSize' = w /\ syncMode' = sync
      /\ count' = count - x
      /\ waiterChan' = (waiterChan /\ ~(syncMode /\ (w > windowSize \/ ~sync)))
      /\ totalSize' = totalSize
  BY DEF SetEffectiveWindow
<1>w. /\ w = Min({newSize, CirBufSize})
      /\ sync => x = 0
      /\ ~sync => x = Max({0, count - w})
  OBVIOUS
<1> HIDE DEF w, x
<1>s. newSize \in Nat
  BY RingSizeAssumption
<1>2. /\ w \in 0 .. CirBufSize
      /\ count - x = IF sync \/ count <= w THEN count ELSE w
  BY <1>w, <1>s, WindowFacts
<1>3. Counters!Least(w, CirBufSize) = w
  BY <1>2, RingSizeAssumption DEF Counters!Least
<1>4. seen' = Counters!WithWindow(seen, sync, w)
  <2>1. count' = IF sync THEN count ELSE Counters!Least(count, w)
    BY <1>1, <1>2 DEF Counters!Least
  <2> DEFINE q == Counters!WithWindow(seen, sync, w)
             k == waiterChan /\ ~(syncMode /\ (w > windowSize \/ ~sync))
             c == IF sync THEN count ELSE Counters!Least(count, w)
  <2>2. w \in Nat /\ c \in Nat /\ k \in BOOLEAN
    BY <1>2, SeenType, RingSizeAssumption DEF Counters!Buffer, Counters!Least
  <2>3. /\ q \in Counters!Buffer
        /\ q.total = totalSize /\ q.count = c /\ q.window = w
        /\ q.sync = sync /\ q.waiter = k
    BY <1>3, <2>2, SeenType DEF Counters!Buffer, Counters!WithWindow
  <2>4. count' = c /\ waiterChan' = k
    BY <1>1, <2>1
  <2> HIDE DEF q, k, c
  <2>5. seen' = q
    BY <1>1, <2>3, <2>4, SeenIs, SetEffectiveWindowInv
  <2>6. QED
    BY <2>5 DEF q
<1>5. QED
  BY <1>2, <1>4 DEF Counters!BufSetEffectiveWindow, seen

(* cirbuf.go keeps the promises of OutputBuffer: every step of the ring is *)
(* a step of the counters the stream manager relies on, or none of its     *)
(* business.                                                               *)
THEOREM RingImplementsBuffer == Spec => ImplementsOutputBuffer
<1>1. Init => Counters!BufInit
  BY DEF Init, Counters!BufInit, Counters!MakeCirBuf
<1>2. Inv /\ [Next]_vars => [Counters!BufNext]_seen
  <2> SUFFICES ASSUME Inv, [Next]_vars PROVE Counters!BufNext \/ UNCHANGED seen
    OBVIOUS
  <2>1. CASE UNCHANGED vars
    BY <2>1 DEF vars, seen
  <2>2. ASSUME NEW n \in 1 .. MaxPacketSize, ReadChunk(n) PROVE UNCHANGED seen
    BY <2>2 DEF ReadChunk, seen
  <2>3. QED
    BY <2>1, <2>2, WriteImplements, ConsumeImplements, WindowImplements
    DEF Next, Counters!BufNext
<1>3. QED
  BY <1>1, <1>2, RingInvariant, PTL DEF Spec, ImplementsOutputBuffer, Counters!BufSpec, seen

=============================================================================
