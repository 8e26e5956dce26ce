------------------------- MODULE ChipReceive_proofs -------------------------
(***************************************************************************)
(* Proofs about ChipReceive, for every base of the registers' bytes and    *)
(* every size of the receive memory that divides the range of the          *)
(* pointers: getSn_RX_RSR never returns a size put together of two, and    *)
(* every step of the program and the chip is a step of ByteStream.         *)
(***************************************************************************)
EXTENDS ChipDriver, TLAPS

(***************************************************************************)
(* Arithmetic of bytes and of pointers that wrap.                          *)
(***************************************************************************)
\* Division with remainder.
LEMMA Division ==
  ASSUME NEW n \in Nat \ {0}, NEW a \in Int
  PROVE  /\ a % n \in 0..(n - 1) /\ a \div n \in Int
         /\ a = n * (a \div n) + (a % n)
  OBVIOUS

\* It is unique.
LEMMA Unique ==
  ASSUME NEW n \in Nat \ {0}, NEW q \in Int, NEW r \in 0..(n - 1),
         NEW p \in Int, NEW s \in 0..(n - 1), n * q + r = n * p + s
  PROVE  q = p /\ r = s
<1>1. CASE q = p
  BY <1>1
<1>2. CASE q < p
  <2>1. n * (p - q) >= n
    BY <1>2
  <2>2. n * (p - q) = r - s
    OBVIOUS
  <2> QED BY <2>1, <2>2
<1>3. CASE p < q
  <2>1. n * (q - p) >= n
    BY <1>3
  <2>2. n * (q - p) = s - r
    OBVIOUS
  <2> QED BY <2>1, <2>2
<1> QED BY <1>1, <1>2, <1>3

LEMMA Remainder ==
  ASSUME NEW n \in Nat \ {0}, NEW q \in Int, NEW r \in 0..(n - 1)
  PROVE  (n * q + r) % n = r /\ (n * q + r) \div n = q
<1> DEFINE a == n * q + r
<1>1. a \in Int
  OBVIOUS
<1>2. /\ a % n \in 0..(n - 1) /\ a \div n \in Int
      /\ a = n * (a \div n) + (a % n)
  BY <1>1, Division
<1> HIDE DEF a
<1>3. n * q + r = n * (a \div n) + (a % n)
  BY <1>2 DEF a
<1>4. q = a \div n /\ r = a % n
  BY <1>2, <1>3, Unique
<1> QED BY <1>4 DEF a

\* Adding a multiple of n changes no remainder.
LEMMA Periodic ==
  ASSUME NEW n \in Nat \ {0}, NEW q \in Int, NEW a \in Int
  PROVE  (n * q + a) % n = a % n
<1>1. /\ a % n \in 0..(n - 1) /\ a \div n \in Int
      /\ a = n * (a \div n) + (a % n)
  BY Division
<1> DEFINE d == a \div n
           m == a % n
<1>2. m \in 0..(n - 1) /\ d \in Int /\ a = n * d + m
  BY <1>1
<1> HIDE DEF d, m
<1>3. n * q + a = n * (q + d) + m
  BY <1>2
<1>4. (n * (q + d) + m) % n = m
  BY <1>2, Remainder
<1> QED BY <1>3, <1>4 DEF m

\* The distance of two pointers that wrap, if it is shorter than their range.
LEMMA Distance ==
  ASSUME NEW n \in Nat \ {0}, NEW a \in Nat, NEW b \in Nat, a - b \in 0..(n - 1)
  PROVE  ((a % n) - b) % n = a - b
<1> DEFINE d == a \div n
           m == a % n
<1>1. m \in 0..(n - 1) /\ d \in Int /\ a = n * d + m
  BY Division
<1> HIDE DEF d, m
<1>2. -d \in Int /\ n * (-d) = -(n * d)
  BY <1>1
<1>3. m - b = n * (-d) + (a - b)
  BY <1>1, <1>2
<1>4. (n * (-d) + (a - b)) % n = a - b
  BY <1>2, Remainder
<1> QED BY <1>3, <1>4 DEF m

\* Two numbers less than n apart that have the same remainder are equal.
LEMMA Apart ==
  ASSUME NEW n \in Nat \ {0}, NEW a \in Int, NEW b \in Int,
         a - b < n, b - a < n, a % n = b % n
  PROVE  a = b
<1>1. CASE b <= a
  <2> DEFINE d == a \div n - b \div n
  <2>2. d \in Int /\ a - b = n * d
    BY Division
  <2>3. a - b = n * d + 0 /\ n * 0 + (a - b) = a - b
    BY <2>2
  <2>4. a - b \in 0..(n - 1) /\ 0 \in 0..(n - 1) /\ n * 0 + (a - b) = n * d + 0
    BY <1>1, <2>2, <2>3
  <2> HIDE DEF d
  <2>5. a - b = 0
    BY <2>2, <2>4, Unique
  <2> QED BY <2>5
<1>2. CASE a <= b
  <2> DEFINE d == b \div n - a \div n
  <2>2. d \in Int /\ b - a = n * d
    BY Division
  <2>4. b - a \in 0..(n - 1) /\ 0 \in 0..(n - 1) /\ n * 0 + (b - a) = n * d + 0
    BY <1>2, <2>2
  <2> HIDE DEF d
  <2>5. b - a = 0
    BY <2>2, <2>4, Unique
  <2> QED BY <2>5
<1> QED BY <1>1, <1>2

LEMMA Grows ==
  ASSUME NEW n \in Nat \ {0}, NEW a \in Nat, NEW b \in Nat, a <= b
  PROVE  a \div n \in Nat /\ a \div n <= b \div n
  OBVIOUS

\* A register is its two bytes.
LEMMA Bytes ==
  ASSUME NEW v \in Nat
  PROVE  Hi(v) \in Nat /\ Lo(v) \in 0..(Base - 1) /\ v = Hi(v) * Base + Lo(v)
<1>1. Base \in Nat \ {0}
  BY SizesAssumption
<1>2. v % Base \in 0..(Base - 1) /\ v = Base * (v \div Base) + (v % Base)
  BY <1>1, Division
<1>3. v \div Base \in Nat
  BY <1>1, Grows
<1> QED BY <1>1, <1>2, <1>3 DEF Hi, Lo

LEMMA Joined ==
  ASSUME NEW h \in Nat, NEW l \in 0..(Base - 1)
  PROVE  Hi(h * Base + l) = h /\ Lo(h * Base + l) = l /\ h * Base + l \in Nat
<1>1. h * Base = Base * h /\ Base \in Nat \ {0} /\ h * Base \in Nat
  BY SizesAssumption
<1>2. (Base * h + l) % Base = l /\ (Base * h + l) \div Base = h
  BY <1>1, Remainder
<1> QED BY <1>1, <1>2 DEF Hi, Lo

LEMMA WideIsPositive == Wide \in Nat \ {0} /\ Base \in Nat \ {0}
  BY SizesAssumption DEF Wide

\* The bytes of a pointer are in range, and so is a pointer of two such bytes.
LEMMA PointerBytes ==
  ASSUME NEW v \in 0..(Wide - 1), NEW w \in 0..(Wide - 1)
  PROVE  /\ Hi(v) \in 0..(Base - 1)
         /\ Hi(v) * Base \in 0..v
         /\ Hi(v) * Base + Lo(w) \in 0..(Wide - 1)
<1>1. Hi(v) \in Nat /\ Lo(v) \in 0..(Base - 1) /\ v = Hi(v) * Base + Lo(v)
      /\ Lo(w) \in 0..(Base - 1)
  BY Bytes
<1>2. Hi(v) < Base
  <2> SUFFICES ASSUME Hi(v) >= Base PROVE FALSE
    BY <1>1, WideIsPositive
  <2>1. Hi(v) * Base >= Base * Base
    BY <1>1, WideIsPositive
  <2> QED BY <1>1, <2>1, WideIsPositive DEF Wide
<1>3. Hi(v) * Base <= (Base - 1) * Base
  BY <1>1, <1>2, WideIsPositive
<1>4. (Base - 1) * Base = Wide - Base
  BY WideIsPositive DEF Wide
<1>5. Hi(v) * Base \in Nat
  BY <1>1, WideIsPositive
<1> QED BY <1>1, <1>2, <1>3, <1>4, <1>5, WideIsPositive

(***************************************************************************)
(* The inductive invariant.                                                *)
(***************************************************************************)
\* What is freed has been taken, and what is taken has arrived; they differ
\* only from the reading of data until the RECV command is executed.
Positions ==
  /\ freed <= taken
  /\ pc \in {"setHi", "setLo", "command"} \/ CR = "RECV" \/ freed = taken
  /\ CR = "RECV" => pc = "wait"

\* The pointer register stands for the bytes taken, but while it is written.
Pointers ==
  /\ pc \notin {"setHi", "setLo"} => RX_RD = (start + taken) % Wide
  /\ pc \in {"setHi", "setLo"} => ptr = (start + taken) % Wide
  /\ pc = "ptrLo" => ptr = Hi(RX_RD) * Base
  /\ pc = "data" => ptr = RX_RD
  /\ pc = "setLo" => Hi(RX_RD) = Hi(ptr)

\* What is read is not more than was asked for, nor than has arrived.
Request ==
  /\ InRead \/ pc = "sized" => len \in Lens
  /\ pc \in {"ptrHi", "ptrLo", "data"} =>
       len >= 1 /\ len <= arrived - taken /\ \E l \in Lens : len <= l

\* While the size is read it only grows: a value put together of two has a
\* lower high byte than the next reading, and so does not agree with it.
Readings ==
  /\ InRead => RX_RSR \in held /\ \A h \in held : h \in Nat /\ h <= RX_RSR
  /\ pc = "lo1" => val1 <= Hi(RX_RSR)
  /\ pc = "hi2" => val1 \in held \/ Hi(val1) < Hi(RX_RSR)
  /\ pc = "lo2" => val1 \in held \/ Hi(val1) < val
  /\ pc = "compare" => val1 = 0 \/ val1 \in held \/ Hi(val1) < Hi(val)
  /\ pc = "sized" => val = 0 \/ (val \in held /\ val <= RX_RSR)

IInv == TypeOK /\ Positions /\ Pointers /\ Request /\ Readings

LEMMA ArriveKeeps == ASSUME NEW k \in 1..Size, IInv, Arrive(k) PROVE IInv'
<1>1. RX_RSR \in Nat /\ RX_RSR' = RX_RSR + k /\ RX_RSR' \in Nat /\ freed' = freed /\ arrived' = arrived + k
      /\ pc' = pc
  BY SizesAssumption DEF Arrive, IInv, TypeOK, RX_RSR
<1>2. Hi(RX_RSR) \in Nat /\ Hi(RX_RSR') \in Nat /\ Hi(RX_RSR) <= Hi(RX_RSR')
  <2>1. RX_RSR + k \in Nat /\ RX_RSR <= RX_RSR + k
    BY <1>1
  <2>2. Hi(RX_RSR) \in Nat /\ Hi(RX_RSR + k) \in Nat /\ Hi(RX_RSR) <= Hi(RX_RSR + k)
    BY <1>1, <2>1, Bytes, Grows, WideIsPositive DEF Hi
  <2> QED BY <1>1, <2>2
<1>3. TypeOK'
  BY <1>1, <1>2, SizesAssumption DEF Arrive, Seen, IInv, TypeOK, recvVars, stream
<1>4. Positions'
  BY <1>1, <1>2 DEF Arrive, Seen, IInv, Positions, stream
<1>5. Pointers'
  BY <1>1, <1>2 DEF Arrive, Seen, IInv, Pointers, recvVars, stream
<1>6. Request'
  BY <1>1, <1>2 DEF Arrive, Seen, IInv, TypeOK, Request, InRead, recvVars, stream
<1>7. Readings'
  <2>1. InRead' => RX_RSR' \in held' /\ \A h \in held' : h \in Nat /\ h <= RX_RSR'
    BY <1>1 DEF Arrive, Seen, InRead, IInv, Readings
  <2>2. held \subseteq held'
    BY DEF Arrive, Seen
  <2>3. pc' = pc /\ val' = val /\ val1' = val1
    BY DEF Arrive, recvVars
  <2>4. val1 \in Nat /\ Hi(val1) \in Nat
    BY Bytes DEF IInv, TypeOK
  <2>5. pc # "sized" \/ val = 0 \/ (val \in held' /\ val <= RX_RSR')
    BY <1>1, <2>2 DEF IInv, Readings, TypeOK
  <2>6. (pc = "lo1" => val1 <= Hi(RX_RSR')) /\ (pc = "hi2" => val1 \in held' \/ Hi(val1) < Hi(RX_RSR'))
    BY <1>1, <1>2, <2>2, <2>4 DEF IInv, Readings, TypeOK
  <2> QED BY <2>1, <2>2, <2>3, <2>5, <2>6 DEF IInv, Readings
<1> QED BY <1>3, <1>4, <1>5, <1>6, <1>7 DEF IInv

LEMMA ExecuteRecvKeeps == IInv /\ ExecuteRecv => IInv'
<1> SUFFICES ASSUME IInv, ExecuteRecv PROVE IInv'
  OBVIOUS
<1>1. pc = "wait" /\ taken - freed \in 0..(Wide - 1) /\ RX_RD = (start + taken) % Wide
  BY SizesAssumption, WideIsPositive DEF ExecuteRecv, IInv, TypeOK, Positions,
     Pointers, RX_RSR
<1>2. freed' = taken
  <2>1. start + taken \in Nat /\ start + freed \in Nat /\ freed \in Nat /\ taken \in Nat
        /\ (start + taken) - (start + freed) = taken - freed
    BY WideIsPositive DEF IInv, TypeOK
  <2>2. (((start + taken) % Wide) - (start + freed)) % Wide = taken - freed
    BY <1>1, <2>1, WideIsPositive, Distance
  <2> QED BY <1>1, <2>1, <2>2 DEF ExecuteRecv
<1>3. TypeOK'
  BY <1>1, <1>2, SizesAssumption DEF ExecuteRecv, Seen, IInv, TypeOK, RX_RSR,
     recvVars, stream
<1>4. Positions'
  BY <1>1, <1>2 DEF ExecuteRecv, Seen, IInv, Positions, stream
<1>5. Pointers'
  BY <1>1, <1>2 DEF ExecuteRecv, Seen, IInv, Pointers, stream
<1>6. Request'
  BY <1>1, <1>2 DEF ExecuteRecv, Seen, IInv, Request, InRead
<1>7. Readings'
  BY <1>1, <1>2 DEF ExecuteRecv, Seen, IInv, Readings, InRead
<1> QED BY <1>3, <1>4, <1>5, <1>6, <1>7 DEF IInv

LEMMA CallKeeps == ASSUME NEW l \in Lens, IInv, Call(l) PROVE IInv'
<1>1. l \in 1..Size
  BY InputsAssumption
<1>2. TypeOK'
  BY <1>1 DEF Call, IInv, TypeOK, RX_RSR, chip, stream
<1>3. Positions'
  BY <1>1 DEF Call, IInv, Positions, chip, stream
<1>4. Pointers'
  BY <1>1 DEF Call, IInv, Pointers, chip, stream
<1>5. Request'
  BY <1>1 DEF Call, IInv, Request
<1>6. Readings'
  BY <1>1 DEF Call, IInv, TypeOK, Readings, RX_RSR, chip
<1> QED BY <1>2, <1>3, <1>4, <1>5, <1>6 DEF IInv

LEMMA ReadHi1Keeps == IInv /\ ReadHi1 => IInv'
<1> SUFFICES ASSUME IInv, ReadHi1 PROVE IInv'
  OBVIOUS
<1>1. RX_RSR \in Nat /\ Hi(RX_RSR) \in Nat /\ Lo(RX_RSR) \in 0..(Base - 1)
      /\ RX_RSR = Hi(RX_RSR) * Base + Lo(RX_RSR)
  <2>1. RX_RSR \in Nat
    BY DEF IInv, TypeOK, RX_RSR
  <2> QED BY <2>1, Bytes
<1>2. TypeOK'
  BY <1>1 DEF ReadHi1, IInv, TypeOK, RX_RSR, chip, stream
<1>3. Positions'
  BY <1>1 DEF ReadHi1, IInv, Positions, chip, stream
<1>4. Pointers'
  BY <1>1 DEF ReadHi1, IInv, Pointers, chip, stream
<1>5. Request'
  BY <1>1 DEF ReadHi1, IInv, Request, InRead
<1>6. Readings'
  BY <1>1 DEF ReadHi1, IInv, Readings, InRead, RX_RSR, chip
<1> QED BY <1>2, <1>3, <1>4, <1>5, <1>6 DEF IInv

LEMMA ReadLo1Keeps == IInv /\ ReadLo1 => IInv'
<1> SUFFICES ASSUME IInv, ReadLo1 PROVE IInv'
  OBVIOUS
<1>1. RX_RSR \in Nat /\ Hi(RX_RSR) \in Nat /\ Lo(RX_RSR) \in 0..(Base - 1)
      /\ RX_RSR = Hi(RX_RSR) * Base + Lo(RX_RSR)
  <2>1. RX_RSR \in Nat
    BY DEF IInv, TypeOK, RX_RSR
  <2> QED BY <2>1, Bytes
<1>2. val1 * Base + Lo(RX_RSR) \in Nat /\ Hi(val1 * Base + Lo(RX_RSR)) = val1
  BY <1>1, Joined DEF IInv, TypeOK
<1>3. val1 = Hi(RX_RSR) => val1 * Base + Lo(RX_RSR) = RX_RSR
  BY <1>1
<1>4. TypeOK'
  BY <1>1, <1>2, <1>3 DEF ReadLo1, IInv, TypeOK, RX_RSR, chip, stream
<1>5. Positions'
  BY <1>1, <1>2, <1>3 DEF ReadLo1, IInv, Positions, chip, stream
<1>6. Pointers'
  BY <1>1, <1>2, <1>3 DEF ReadLo1, IInv, Pointers, chip, stream
<1>7. Request'
  BY <1>1, <1>2, <1>3 DEF ReadLo1, IInv, Request, InRead
<1>8. Readings'
  BY <1>1, <1>2, <1>3 DEF ReadLo1, IInv, TypeOK, Readings, InRead, RX_RSR, chip
<1> QED BY <1>4, <1>5, <1>6, <1>7, <1>8 DEF IInv

LEMMA ReadHi2Keeps == IInv /\ ReadHi2 => IInv'
<1> SUFFICES ASSUME IInv, ReadHi2 PROVE IInv'
  OBVIOUS
<1>1. RX_RSR \in Nat /\ Hi(RX_RSR) \in Nat /\ Lo(RX_RSR) \in 0..(Base - 1)
      /\ RX_RSR = Hi(RX_RSR) * Base + Lo(RX_RSR)
  <2>1. RX_RSR \in Nat
    BY DEF IInv, TypeOK, RX_RSR
  <2> QED BY <2>1, Bytes
<1>2. TypeOK'
  BY <1>1 DEF ReadHi2, IInv, TypeOK, RX_RSR, chip, stream
<1>3. Positions'
  BY <1>1 DEF ReadHi2, IInv, Positions, chip, stream
<1>4. Pointers'
  BY <1>1 DEF ReadHi2, IInv, Pointers, chip, stream
<1>5. Request'
  BY <1>1 DEF ReadHi2, IInv, Request, InRead
<1>6. Readings'
  BY <1>1 DEF ReadHi2, IInv, Readings, InRead, RX_RSR, chip
<1> QED BY <1>2, <1>3, <1>4, <1>5, <1>6 DEF IInv

LEMMA ReadLo2Keeps == IInv /\ ReadLo2 => IInv'
<1> SUFFICES ASSUME IInv, ReadLo2 PROVE IInv'
  OBVIOUS
<1>1. RX_RSR \in Nat /\ Hi(RX_RSR) \in Nat /\ Lo(RX_RSR) \in 0..(Base - 1)
      /\ RX_RSR = Hi(RX_RSR) * Base + Lo(RX_RSR)
  <2>1. RX_RSR \in Nat
    BY DEF IInv, TypeOK, RX_RSR
  <2> QED BY <2>1, Bytes
<1>2. val * Base + Lo(RX_RSR) \in Nat /\ Hi(val * Base + Lo(RX_RSR)) = val
  BY <1>1, Joined DEF IInv, TypeOK
<1>3. TypeOK'
  BY <1>1, <1>2 DEF ReadLo2, IInv, TypeOK, RX_RSR, chip, stream
<1>4. Positions'
  BY <1>1, <1>2 DEF ReadLo2, IInv, Positions, chip, stream
<1>5. Pointers'
  BY <1>1, <1>2 DEF ReadLo2, IInv, Pointers, chip, stream
<1>6. Request'
  BY <1>1, <1>2 DEF ReadLo2, IInv, Request, InRead
<1>7. Readings'
  BY <1>1, <1>2 DEF ReadLo2, IInv, Readings, InRead, RX_RSR, chip
<1> QED BY <1>3, <1>4, <1>5, <1>6, <1>7 DEF IInv

LEMMA CompareKeeps == IInv /\ Compare => IInv'
<1> SUFFICES ASSUME IInv, Compare PROVE IInv'
  OBVIOUS
<1>1. Hi(val) \in Nat
  BY Bytes DEF IInv, TypeOK
<1>2. TypeOK'
  BY <1>1 DEF Compare, Settled, IInv, TypeOK, RX_RSR, chip, recvVars, stream
<1>3. Positions'
  BY <1>1 DEF Compare, Settled, IInv, Positions, chip, stream
<1>4. Pointers'
  BY <1>1 DEF Compare, Settled, IInv, Pointers, chip, stream
<1>5. Request'
  BY <1>1 DEF Compare, Settled, IInv, Request, InRead, recvVars
<1>6. Readings'
  BY <1>1 DEF Compare, Settled, IInv, Readings, InRead, RX_RSR, chip, recvVars
<1> QED BY <1>2, <1>3, <1>4, <1>5, <1>6 DEF IInv

LEMMA SizedKeeps == IInv /\ Sized => IInv'
<1> SUFFICES ASSUME IInv, Sized PROVE IInv'
  OBVIOUS
<1>1. len \in 1..Size
  BY InputsAssumption DEF Sized, IInv, Request
<1>2. TypeOK'
  BY <1>1, SizesAssumption DEF Sized, Length, IInv, TypeOK, RX_RSR, chip, stream
<1>3. Positions'
  BY <1>1 DEF Sized, Length, IInv, Positions, chip, stream
<1>4. Pointers'
  BY <1>1 DEF Sized, Length, IInv, Pointers, chip, stream
<1>5. Request'
  BY <1>1 DEF Sized, Length, IInv, TypeOK, Positions, Request, Readings, InRead,
     RX_RSR, chip, stream
<1>6. Readings'
  BY <1>1 DEF Sized, Length, IInv, Readings, InRead
<1> QED BY <1>2, <1>3, <1>4, <1>5, <1>6 DEF IInv

LEMMA PtrHiKeeps == IInv /\ PtrHi => IInv'
<1> SUFFICES ASSUME IInv, PtrHi PROVE IInv'
  OBVIOUS
<1>1. Hi(RX_RD) * Base \in 0..(Wide - 1)
  BY PointerBytes, WideIsPositive DEF IInv, TypeOK
<1>2. TypeOK'
  BY <1>1 DEF PtrHi, IInv, TypeOK, RX_RSR, chip, stream
<1>3. Positions'
  BY <1>1 DEF PtrHi, IInv, Positions, chip, stream
<1>4. Pointers'
  BY <1>1 DEF PtrHi, IInv, Pointers, chip, stream
<1>5. Request'
  BY <1>1 DEF PtrHi, IInv, Request, InRead, chip, stream
<1>6. Readings'
  BY <1>1 DEF PtrHi, IInv, Readings, InRead
<1> QED BY <1>2, <1>3, <1>4, <1>5, <1>6 DEF IInv

LEMMA PtrLoKeeps == IInv /\ PtrLo => IInv'
<1> SUFFICES ASSUME IInv, PtrLo PROVE IInv'
  OBVIOUS
<1>1. RX_RD = Hi(RX_RD) * Base + Lo(RX_RD)
  BY Bytes, WideIsPositive DEF IInv, TypeOK
<1>2. TypeOK'
  BY <1>1 DEF PtrLo, IInv, TypeOK, Pointers, RX_RSR, chip, stream
<1>3. Positions'
  BY <1>1 DEF PtrLo, IInv, Positions, chip, stream
<1>4. Pointers'
  BY <1>1 DEF PtrLo, IInv, Pointers, chip, stream
<1>5. Request'
  BY <1>1 DEF PtrLo, IInv, Request, InRead, chip, stream
<1>6. Readings'
  BY <1>1 DEF PtrLo, IInv, Readings, InRead
<1> QED BY <1>2, <1>3, <1>4, <1>5, <1>6 DEF IInv

LEMMA DataKeeps == IInv /\ Data => IInv'
<1> SUFFICES ASSUME IInv, Data PROVE IInv'
  OBVIOUS
<1>1. start \in Nat /\ taken \in Nat /\ len \in Nat /\ ptr = (start + taken) % Wide
  BY WideIsPositive DEF Data, IInv, TypeOK, Pointers
<1>2. ptr' = (start + taken') % Wide
  <2> DEFINE q == (start + taken) \div Wide
  <2>1. q \in Int /\ start + taken = Wide * q + ptr /\ ptr \in Int
    BY <1>1, Division, WideIsPositive
  <2> HIDE DEF q
  <2>2. start + taken' = Wide * q + (ptr + len) /\ ptr + len \in Int
    <3>1. taken' = taken + len
      BY DEF Data
    <3>2. Wide * q \in Int
      BY <2>1, WideIsPositive
    <3> QED BY <1>1, <2>1, <3>1, <3>2
  <2>3. (Wide * q + (ptr + len)) % Wide = (ptr + len) % Wide
    BY <2>1, <2>2, WideIsPositive, Periodic
  <2> QED BY <2>2, <2>3 DEF Data
<1>3. ptr' \in 0..(Wide - 1)
  BY <1>1, Division, WideIsPositive DEF Data, IInv, TypeOK
<1>4. TypeOK'
  BY <1>1, <1>2, <1>3 DEF Data, IInv, TypeOK, Request, RX_RSR, chip
<1>5. Positions'
  BY <1>1, <1>2, <1>3 DEF Data, IInv, Positions, chip
<1>6. Pointers'
  BY <1>1, <1>2, <1>3 DEF Data, IInv, Pointers, chip
<1>7. Request'
  BY <1>1, <1>2, <1>3 DEF Data, IInv, Request, InRead
<1>8. Readings'
  BY <1>1, <1>2, <1>3 DEF Data, IInv, Readings, InRead
<1> QED BY <1>4, <1>5, <1>6, <1>7, <1>8 DEF IInv

LEMMA SetHiKeeps == IInv /\ SetHi => IInv'
<1> SUFFICES ASSUME IInv, SetHi PROVE IInv'
  OBVIOUS
<1>1. Hi(ptr) * Base + Lo(RX_RD) \in 0..(Wide - 1) /\ Hi(Hi(ptr) * Base + Lo(RX_RD)) = Hi(ptr)
  <2>1. ptr \in Nat /\ RX_RD \in Nat /\ ptr \in 0..(Wide - 1) /\ RX_RD \in 0..(Wide - 1)
    BY WideIsPositive DEF IInv, TypeOK
  <2>2. Hi(ptr) \in Nat /\ Lo(RX_RD) \in 0..(Base - 1)
    BY <2>1, Bytes
  <2> QED BY <2>1, <2>2, PointerBytes, Joined
<1>2. TypeOK'
  BY <1>1 DEF SetHi, IInv, TypeOK, RX_RSR, recvVars, stream
<1>3. Positions'
  BY <1>1 DEF SetHi, IInv, Positions, stream
<1>4. Pointers'
  BY <1>1 DEF SetHi, IInv, Pointers, recvVars, stream
<1>5. Request'
  BY <1>1 DEF SetHi, IInv, Request, InRead
<1>6. Readings'
  BY <1>1 DEF SetHi, IInv, Readings, InRead
<1> QED BY <1>2, <1>3, <1>4, <1>5, <1>6 DEF IInv

LEMMA SetLoKeeps == IInv /\ SetLo => IInv'
<1> SUFFICES ASSUME IInv, SetLo PROVE IInv'
  OBVIOUS
<1>1. Hi(RX_RD) * Base + Lo(ptr) = ptr
  <2>1. ptr = Hi(ptr) * Base + Lo(ptr)
    BY Bytes, WideIsPositive DEF IInv, TypeOK
  <2> QED BY <2>1 DEF SetLo, IInv, Pointers
<1>2. TypeOK'
  BY <1>1 DEF SetLo, IInv, TypeOK, RX_RSR, recvVars, stream
<1>3. Positions'
  BY <1>1 DEF SetLo, IInv, Positions, stream
<1>4. Pointers'
  BY <1>1 DEF SetLo, IInv, Pointers, stream
<1>5. Request'
  BY <1>1 DEF SetLo, IInv, Request, InRead
<1>6. Readings'
  BY <1>1 DEF SetLo, IInv, Readings, InRead
<1> QED BY <1>2, <1>3, <1>4, <1>5, <1>6 DEF IInv

LEMMA CommandKeeps == IInv /\ Command => IInv'
<1> SUFFICES ASSUME IInv, Command PROVE IInv'
  OBVIOUS
<1>1. TypeOK'
  BY DEF Command, IInv, TypeOK, RX_RSR, recvVars, stream
<1>2. Positions'
  BY DEF Command, IInv, Positions, stream
<1>3. Pointers'
  BY DEF Command, IInv, Pointers, stream
<1>4. Request'
  BY DEF Command, IInv, Request, InRead
<1>5. Readings'
  BY DEF Command, IInv, Readings, InRead
<1> QED BY <1>1, <1>2, <1>3, <1>4, <1>5 DEF IInv

LEMMA WaitKeeps == IInv /\ Wait => IInv'
<1> SUFFICES ASSUME IInv, Wait PROVE IInv'
  OBVIOUS
<1>1. TypeOK'
  BY WideIsPositive, SizesAssumption DEF Wait, Executed, IInv, TypeOK, RX_RSR, chip,
     stream
<1>2. Positions'
  BY DEF Wait, Executed, IInv, Positions, chip, stream
<1>3. Pointers'
  BY DEF Wait, Executed, IInv, Pointers, chip, stream
<1>4. Request'
  BY DEF Wait, Executed, IInv, Request, InRead
<1>5. Readings'
  BY DEF Wait, Executed, IInv, Readings, InRead
<1> QED BY <1>1, <1>2, <1>3, <1>4, <1>5 DEF IInv

LEMMA InitHolds == Init => IInv
<1> SUFFICES ASSUME Init PROVE IInv
  OBVIOUS
<1>1. start \in 0..(Wide - 1) /\ start % Wide = start
  <2>1. start \in 0..(Wide - 1)
    BY InputsAssumption DEF Init
  <2>2. (Wide * 0 + start) % Wide = start /\ Wide * 0 + start = start
    BY <2>1, WideIsPositive, Remainder
  <2> QED BY <2>1, <2>2
<1>2. TypeOK
  BY <1>1, WideIsPositive, SizesAssumption DEF Init, TypeOK, RX_RSR
<1>3. Positions /\ Request
  BY DEF Init, Positions, Request, InRead
<1>4. Pointers
  BY <1>1, WideIsPositive DEF Init, Pointers
<1>5. Readings
  BY DEF Init, Readings, InRead
<1> QED BY <1>2, <1>3, <1>4, <1>5 DEF IInv

\* Every step of the program and of the chip keeps the invariant.
LEMMA StepKeeps == IInv /\ [Next]_vars => IInv'
<1> SUFFICES ASSUME IInv, [Next]_vars PROVE IInv'
  OBVIOUS
<1>1. CASE \E l \in Lens : Call(l)
  BY <1>1, CallKeeps
<1>2. CASE Read
  BY <1>2, ReadHi1Keeps, ReadLo1Keeps, ReadHi2Keeps, ReadLo2Keeps, CompareKeeps
     DEF Read
<1>3. CASE Sized \/ PtrHi \/ PtrLo \/ Data
  BY <1>3, SizedKeeps, PtrHiKeeps, PtrLoKeeps, DataKeeps
<1>4. CASE SetHi \/ SetLo \/ Command \/ Wait
  BY <1>4, SetHiKeeps, SetLoKeeps, CommandKeeps, WaitKeeps
<1>5. CASE ExecuteRecv
  BY <1>5, ExecuteRecvKeeps
<1>6. CASE \E k \in 1..Size : Arrive(k)
  BY <1>6, ArriveKeeps
<1>7. CASE UNCHANGED vars
  BY <1>7 DEF vars, chip, recvVars, stream, IInv, TypeOK, Positions, Pointers,
     Request, Readings, InRead, RX_RSR
<1> QED BY <1>1, <1>2, <1>3, <1>4, <1>5, <1>6, <1>7 DEF Next, Program

LEMMA Invariance == Spec => []IInv
  BY InitHolds, StepKeeps, PTL DEF Spec

\* Every variable keeps its type; in particular the memory never holds more
\* than its size, and no call takes bytes that have not arrived.
THEOREM TypeCorrect == Spec => []TypeOK
<1>1. IInv => TypeOK
  BY DEF IInv
<1> QED BY <1>1, Invariance, PTL

\* getSn_RX_RSR returns 0 or what the register was at one moment of the call,
\* although its two bytes are read apart.
THEOREM SizeIsTrue == Spec => []SizeWasTrue
<1>1. IInv => SizeWasTrue
  BY DEF IInv, Readings, SizeWasTrue
<1> QED BY <1>1, Invariance, PTL

(***************************************************************************)
(* Of the calls of getSn_RX_RSR during which nothing arrives.              *)
(***************************************************************************)
\* If the register has had one value v since the call began, both readings
\* are v: the loop is not gone round again, and v is returned, 0 as well.
UndisturbedSize ==
  \A v \in held : held = {v} =>
    /\ pc = "compare" => Settled
    /\ pc = "sized" => val = v

\* Where such a call is: in its first round, with the bytes of v.
FirstRound ==
  /\ pc \notin {"hi1", "lo1", "hi2", "lo2", "compare", "sized"} => val = 0
  /\ \A v \in held : held = {v} =>
       /\ pc = "hi1" => val = 0
       /\ pc = "lo1" => val1 = Hi(v) /\ val = 0
       /\ pc = "hi2" => val1 = v
       /\ pc = "lo2" => val1 = v /\ val = Hi(v)
       /\ pc = "compare" => val1 = v /\ val = v
       /\ pc = "sized" => val = v

LEMMA FirstRoundKept == IInv /\ FirstRound /\ [Next]_vars => FirstRound'
<1> SUFFICES ASSUME IInv, FirstRound, [Next]_vars PROVE FirstRound'
  OBVIOUS
<1>1. \A v \in held : held = {v} /\ InRead => RX_RSR = v
  BY DEF IInv, Readings
<1>2. RX_RSR \in Nat /\ RX_RSR = Hi(RX_RSR) * Base + Lo(RX_RSR)
  <2>1. RX_RSR \in Nat
    BY DEF IInv, TypeOK, RX_RSR
  <2> QED BY <2>1, Bytes
<1>3. CASE \E l \in Lens : Call(l)
  BY <1>3 DEF Call, FirstRound
<1>4. CASE ReadHi1
  BY <1>1, <1>4 DEF ReadHi1, FirstRound, InRead
<1>5. CASE ReadLo1
  <2>1. /\ pc = "lo1" /\ val1' = val1 * Base + Lo(RX_RSR)
        /\ pc' \in {"hi2", "compare"} /\ (pc' = "compare" => val1' = 0)
        /\ UNCHANGED <<val, held>>
    BY <1>5 DEF ReadLo1
  <2>2. \A v \in held : held = {v} => val1' = v /\ val = 0
    BY <1>1, <1>2, <2>1 DEF FirstRound, InRead
  <2> QED BY <2>1, <2>2 DEF FirstRound
<1>6. CASE ReadHi2
  BY <1>1, <1>6 DEF ReadHi2, FirstRound, InRead
<1>7. CASE ReadLo2
  <2>1. /\ pc = "lo2" /\ pc' = "compare" /\ val' = val * Base + Lo(RX_RSR)
        /\ UNCHANGED <<val1, held>>
    BY <1>7 DEF ReadLo2
  <2>2. \A v \in held : held = {v} => val1 = v /\ val' = v
    BY <1>1, <1>2, <2>1 DEF FirstRound, InRead
  <2> QED BY <2>1, <2>2 DEF FirstRound
<1>8. CASE Compare
  BY <1>8 DEF Compare, Settled, FirstRound, recvVars
<1>9. CASE Sized \/ PtrHi \/ PtrLo \/ Data \/ SetHi \/ SetLo \/ Command \/ Wait
  BY <1>9 DEF Sized, PtrHi, PtrLo, Data, SetHi, SetLo, Command, Wait, FirstRound,
              recvVars
<1>10. CASE ExecuteRecv
  BY <1>10 DEF ExecuteRecv, IInv, Positions, FirstRound, recvVars
<1>11. ASSUME NEW k \in 1..Size, Arrive(k)
       PROVE  FirstRound'
  <2>1. UNCHANGED <<pc, val1, val>>
    BY <1>11 DEF Arrive, recvVars
  <2>2. CASE ~InRead
    BY <1>11, <2>1, <2>2 DEF Arrive, Seen, InRead, FirstRound
  <2>3. CASE InRead
    <3>1. held' = held \cup {RX_RSR + k} /\ RX_RSR \in held
      BY <1>11, <2>3 DEF Arrive, Seen, IInv, Readings
    <3>2. RX_RSR + k # RX_RSR
      BY <1>2, SizesAssumption
    <3>3. \A v : held' # {v}
      BY <3>1, <3>2
    <3> QED BY <2>1, <2>3, <3>3 DEF InRead, FirstRound
  <2> QED BY <2>2, <2>3
<1>12. CASE UNCHANGED vars
  BY <1>12 DEF vars, recvVars, FirstRound
<1> QED
  BY <1>3, <1>4, <1>5, <1>6, <1>7, <1>8, <1>9, <1>10, <1>11, <1>12
     DEF Next, Program, Read

LEMMA FirstRoundTells == FirstRound => UndisturbedSize
  BY DEF FirstRound, UndisturbedSize, Settled

\* getSn_RX_RSR goes round again, or returns 0 for bytes that are there, only
\* if data arrived during the call: recv answers SOCK_BUSY about bytes that wait
\* only while more come in.
THEOREM UndisturbedSizeIsTrue == Spec => []UndisturbedSize
<1>1. Init => FirstRound
  BY DEF Init, FirstRound
<1> QED BY <1>1, FirstRoundKept, FirstRoundTells, Invariance, PTL DEF Spec

(***************************************************************************)
(* ChipReceive implements ByteStream.                                      *)
(***************************************************************************)
\* Wherever the pointer has wrapped, the memory there holds the next bytes.
LEMMA MemoryHolds ==
  ASSUME IInv, pc = "data", NEW i \in 1..len
  PROVE  Memory((ptr + i - 1) % Size) = taken + i
<1>1. /\ start \in Nat /\ taken \in Nat /\ freed \in Nat /\ arrived \in Nat
      /\ len \in Nat /\ freed = taken /\ len <= arrived - taken
      /\ arrived - freed <= Size /\ ptr \in Nat /\ ptr = (start + taken) % Wide
  BY WideIsPositive DEF IInv, TypeOK, Positions, Pointers, Request, RX_RSR
<1> DEFINE S == (arrived - Size + 1)..arrived
           b == taken + i
<1>2. b \in S /\ b \in Int /\ Size \in Nat \ {0}
  BY <1>1, SizesAssumption
<1>3. (start + b - 1) % Size = (ptr + i - 1) % Size
  <2> DEFINE q == (start + taken) \div Wide
             c == Wide \div Size
  <2>1. q \in Int /\ start + taken = Wide * q + ptr
    BY <1>1, Division, WideIsPositive
  <2>2. c \in Int /\ Wide = Size * c
    <3>1. Wide \in Int /\ Wide % Size = 0
      BY WideIsPositive, SizesAssumption
    <3>2. c \in Int /\ Wide = Size * c + (Wide % Size)
      BY <1>2, <3>1, Division
    <3>3. Size * c \in Int
      BY <1>2, <3>2
    <3> QED BY <3>1, <3>2, <3>3
  <2> HIDE DEF q, c
  <2>3. Wide * q = Size * (c * q) /\ c * q \in Int /\ Size * (c * q) \in Int
    BY <1>2, <2>1, <2>2
  <2>4. start + b - 1 = Size * (c * q) + (ptr + i - 1) /\ ptr + i - 1 \in Int
    BY <1>1, <2>1, <2>3
  <2>5. (Size * (c * q) + (ptr + i - 1)) % Size = (ptr + i - 1) % Size
    BY <1>2, <2>3, <2>4, Periodic
  <2> QED BY <2>4, <2>5
<1>4. ASSUME NEW p \in S, (start + p - 1) % Size = (ptr + i - 1) % Size
      PROVE  p = b
  <2>1. p \in Int /\ p - b < Size /\ b - p < Size
    BY <1>1, <1>2
  <2>2. start + p - 1 \in Int /\ start + b - 1 \in Int
        /\ (start + p - 1) - (start + b - 1) < Size
        /\ (start + b - 1) - (start + p - 1) < Size
    BY <1>1, <1>2, <2>1
  <2>3. (start + p - 1) % Size = (start + b - 1) % Size
    BY <1>3, <1>4
  <2>4. start + p - 1 = start + b - 1
    BY <1>2, <2>2, <2>3, Apart
  <2> QED BY <1>1, <1>2, <2>1, <2>4
<1>5. Memory((ptr + i - 1) % Size)
        = CHOOSE p \in S : (start + p - 1) % Size = (ptr + i - 1) % Size
  BY DEF Memory
<1> HIDE DEF S, b
<1>6. (CHOOSE p \in S : (start + p - 1) % Size = (ptr + i - 1) % Size) = b
  BY <1>2, <1>3, <1>4
<1> QED BY <1>5, <1>6 DEF b

\* Reading the data is taking the next bytes of the stream.
LEMMA DataTakes ==
  ASSUME IInv, Data
  PROVE  \E l \in Lens : \E n \in 1..l : Stream!Take(n)
<1>1. PICK l \in Lens : len <= l
  BY DEF Data, IInv, Request
<1>2. len \in 1..l /\ len <= arrived - taken
  BY <1>1, InputsAssumption DEF Data, IInv, Request, TypeOK
<1>3. last' = [i \in 1..len |-> taken + i]
  BY MemoryHolds DEF Data
<1>4. Stream!Take(len)
  BY <1>2, <1>3 DEF Data, chip, Stream!Take
<1> QED BY <1>1, <1>2, <1>4

\* Every step is a step of ByteStream or leaves it alone.
LEMMA StepRefines == IInv /\ [Next]_vars => [Stream!Next]_(Stream!vars)
<1> SUFFICES ASSUME IInv, [Next]_vars
             PROVE  [Stream!Next]_(Stream!vars)
  OBVIOUS
<1>1. CASE Data
  BY <1>1, DataTakes DEF Stream!Next
<1>2. ASSUME NEW k \in 1..Size, Arrive(k)
      PROVE  Stream!Next
  <2>1. arrived \in Nat /\ k \in Nat \ {0}
    BY SizesAssumption DEF IInv, TypeOK
  <2>2. arrived' = arrived + k /\ UNCHANGED <<taken, last>>
    BY <1>2 DEF Arrive, stream
  <2>3. arrived' > arrived /\ arrived + (arrived' - arrived) = arrived'
    BY <2>1, <2>2
  <2> QED BY <2>2, <2>3 DEF Stream!Next, Stream!Arrive
<1>3. CASE UNCHANGED vars
  BY <1>3 DEF vars, chip, stream, Stream!vars
<1>4. CASE ExecuteRecv
  BY <1>4 DEF ExecuteRecv, stream, Stream!vars
<1>5. CASE \E l \in Lens : Call(l)
  BY <1>5 DEF Call, chip, stream, Stream!vars
<1>6. CASE Read
  BY <1>6 DEF Read, ReadHi1, ReadLo1, ReadHi2, ReadLo2, Compare, chip, stream,
              Stream!vars
<1>7. CASE Sized \/ PtrHi \/ PtrLo \/ SetHi \/ SetLo \/ Command \/ Wait
  BY <1>7 DEF Sized, PtrHi, PtrLo, SetHi, SetLo, Command, Wait, chip, stream,
              Stream!vars
<1> QED BY <1>1, <1>2, <1>3, <1>4, <1>5, <1>6, <1>7 DEF Next, Program

\* Whatever the sizes, the pointers' values and the moments at which data
\* arrive, calls of recv return the bytes of the stream, each once and in order,
\* and never more than have arrived: ChipReceive implements ByteStream but for
\* its fairness.
THEOREM ReceivesStream == Spec => Stream!Init /\ [][Stream!Next]_(Stream!vars)
<1>1. Init => Stream!Init
  BY DEF Init, Stream!Init
<1> QED BY <1>1, Invariance, StepRefines, PTL DEF Spec

(***************************************************************************)
(* ChipDriver implements ChipReceive but for its fairness: an access takes *)
(* a whole transfer, and happens at its last byte or not at all.           *)
(***************************************************************************)
LEMMA DriverSteps == [DriverNext]_driverVars => [Next]_vars
<1>1. AccessBegins \/ Transfer \/ Failure => UNCHANGED vars
  BY DEF AccessBegins, Transfer, Failure
<1>2. Between => Next
  BY DEF Between, Next, Program, Read
<1>3. Access => Next \/ UNCHANGED vars
  BY DEF Access, Poll, Next, Program, Read
<1>4. Exchange => Next \/ UNCHANGED vars
  BY <1>3 DEF Exchange
<1>5. Chip => Next
  BY DEF Chip, Next
<1>6. UNCHANGED driverVars => UNCHANGED vars
  BY DEF driverVars
<1> QED BY <1>1, <1>2, <1>4, <1>5, <1>6 DEF DriverNext

LEMMA DriverInvariance == DriverSpec => []IInv
<1>1. DriverInit => IInv
  BY InitHolds DEF DriverInit
<1>2. IInv /\ [DriverNext]_driverVars => IInv'
  BY StepKeeps, DriverSteps
<1> QED BY <1>1, <1>2, PTL DEF DriverSpec

\* The same of the program over SPI, where data arrive between any two bytes of
\* a transfer and the hardware may fail.
THEOREM DriverSizeIsTrue == DriverSpec => []SizeWasTrue
<1>1. IInv => SizeWasTrue
  BY DEF IInv, Readings, SizeWasTrue
<1> QED BY <1>1, DriverInvariance, PTL

\* And recv over SPI returns the bytes of the stream, each once and in order.
THEOREM DriverReceivesStream ==
  DriverSpec => Stream!Init /\ [][Stream!Next]_(Stream!vars)
<1>1. DriverInit => Stream!Init
  BY DEF DriverInit, Init, Stream!Init
<1>2. IInv /\ [DriverNext]_driverVars => [Stream!Next]_(Stream!vars)
  BY StepRefines, DriverSteps
<1> QED BY <1>1, <1>2, DriverInvariance, PTL DEF DriverSpec

\* Nor over SPI, where an access takes as long as its transfer.
THEOREM DriverUndisturbedSizeIsTrue == DriverSpec => []UndisturbedSize
<1>1. DriverInit => FirstRound
  BY DEF DriverInit, Init, FirstRound
<1>2. IInv /\ FirstRound /\ [DriverNext]_driverVars => FirstRound'
  BY FirstRoundKept, DriverSteps
<1> QED BY <1>1, <1>2, FirstRoundTells, DriverInvariance, PTL DEF DriverSpec
=============================================================================
