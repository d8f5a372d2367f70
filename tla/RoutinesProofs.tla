---------------------------- MODULE RoutinesProofs ----------------------------
(***************************************************************************)
(* Three routines of the query code, each for every input.                 *)
(*  - decompress_name keeps inside the message, its buffer and the data    *)
(*    field for every message, and every turn of its loops makes progress. *)
(*  - rrs2cent reads inside the message and puts every record together     *)
(*    inside its buffer, whatever sizes a reply gives to its records, and  *)
(*    rr_to_cache keeps one entry for each name.                           *)
(*  - The search of bind_socket for a port is exhaustive and bounded, for  *)
(*    every range of ports and whatever other sockets do meanwhile.        *)
(***************************************************************************)
EXTENDS Decompress, ReplyDecode, BindPort, TLAPS

(* The types of TypeOK that are numbers, or a place in the code. *)
Numbers ==
    /\ start \in Nat /\ sz \in Nat /\ at \in Nat /\ left \in Nat /\ end \in Nat
    /\ hops \in 0..MaxJumps /\ pc \in {"start", "data", "jumped"} \union Results

(* What decompress_name has tested whenever it is at the head of a loop: the
   byte at lptr is in the message, and one byte of the buffer is still free.  In
   the data field lptr and the bytes left add up to its end. *)
Tested ==
    /\ start + sz <= Len(msg)
    /\ pc = "start" => at = start /\ left = sz /\ Len(tgt) = 0 /\ hops = 0 /\ end = 0
    /\ pc = "data" => /\ at + left = start + sz /\ left > 0 /\ hops = 0
                      /\ at < Len(msg) /\ Len(tgt) <= BufSize - 1
    /\ pc = "jumped" => at < Len(msg) /\ Len(tgt) <= BufSize - 1

NameInv == TypeOK /\ Tested /\ InBounds

(* A byte of the message, or what stands for one outside, is a byte. *)
LEMMA ByteType ==
    ASSUME TypeOK, NEW o \in Nat
    PROVE  Byte(o) \in Bytes \union {0} /\ Byte(o) \in 0..255
  <1>1. msg \in Seq(Bytes) BY SizesAssumption DEF TypeOK
  <1>2. CASE o < Len(msg)
    <2>1. o + 1 \in 1..Len(msg) BY <1>1, <1>2
    <2>2. msg[o + 1] \in Bytes BY <1>1, <2>1
    <2>3. QED BY <1>2, <2>2, SizesAssumption, Zenon DEF Byte
  <1>3. CASE ~(o < Len(msg)) BY <1>3 DEF Byte
  <1>4. QED BY <1>2, <1>3

(* Copying n bytes appends n bytes. *)
LEMMA CopyLength ==
    ASSUME TypeOK, NEW o \in Nat, NEW n \in Nat
    PROVE  /\ tgt \o Copy(o, n) \in Seq(Bytes \union {0})
           /\ Len(tgt \o Copy(o, n)) = Len(tgt) + n
  <1>1. \A k \in 1..n : Byte(o + k - 1) \in Bytes \union {0}
    <2>1. TAKE k \in 1..n
    <2>2. o + k - 1 \in Nat OBVIOUS
    <2>3. QED BY <2>2, ByteType
  <1>2. Copy(o, n) \in [1..n -> Bytes \union {0}] BY <1>1, Zenon DEF Copy
  <1>3. Copy(o, n) \in Seq(Bytes \union {0}) /\ Len(Copy(o, n)) = n BY <1>2
  <1>4. QED BY <1>3 DEF TypeOK

LEMMA AppendLength ==
    ASSUME TypeOK, NEW b \in Bytes \union {0}
    PROVE  Append(tgt, b) \in Seq(Bytes \union {0}) /\ Len(Append(tgt, b)) = Len(tgt) + 1
  BY DEF TypeOK

LEMMA TypesSplit == TypeOK <=> Numbers /\ msg \in Msgs /\ tgt \in Seq(Bytes \union {0})
  BY DEF TypeOK, Numbers

LEMMA LengthTypes ==
    ASSUME TypeOK
    PROVE  Len(tgt) \in Nat /\ Len(msg) \in Nat
  <1>1. msg \in Seq(Bytes) BY SizesAssumption DEF TypeOK
  <1>2. QED BY <1>1 DEF TypeOK

(* An offset is a natural number. *)
LEMMA OffsetType ==
    ASSUME TypeOK, NEW lb \in 0..255, NEW o \in Nat
    PROVE  Offset(lb, o) \in Nat
  <1>1. Byte(o) \in 0..255 BY ByteType
  <1>2. QED BY <1>1 DEF Offset

(* Before the first byte nothing was read or written. *)
LEMMA NameInvInit == Init => NameInv
  <1>1. SUFFICES ASSUME Init PROVE NameInv OBVIOUS
  <1>2. msg \in Seq(Bytes) /\ Len(msg) \in Nat BY <1>1, SizesAssumption DEF Init
  <1>3. tgt \in Seq(Bytes \union {0}) /\ Len(tgt) = 0 BY <1>1 DEF Init
  <1>4. Numbers /\ msg \in Msgs BY <1>1, <1>2, SizesAssumption DEF Init, Numbers
  <1>5. Tested /\ InBounds BY <1>1, <1>2, <1>3, SizesAssumption DEF Init, Tested, InBounds
  <1>6. QED BY <1>3, <1>4, <1>5, TypesSplit DEF NameInv

(* A step that leaves the message alone and writes what is a name so far keeps
   the invariant if the numbers are right. *)
LEMMA KeepsIfNumbers ==
    ASSUME NameInv, UNCHANGED input, tgt' \in Seq(Bytes \union {0}), Numbers', Tested', InBounds'
    PROVE  NameInv'
  <1>1. msg' \in Msgs BY TypesSplit DEF NameInv, input
  <1>2. TypeOK' BY <1>1 DEF TypeOK, Numbers
  <1>3. QED BY <1>2 DEF NameInv

LEMMA NumbersNow ==
    ASSUME NameInv
    PROVE  /\ Numbers /\ Tested /\ InBounds /\ TypeOK
           /\ Len(tgt) \in Nat /\ Len(msg) \in Nat /\ BufSize \in Nat \ {0}
  BY TypesSplit, LengthTypes, SizesAssumption DEF NameInv

LEMMA NameNow == ASSUME NameInv PROVE tgt \in Seq(Bytes \union {0})
  BY TypesSplit DEF NameInv

LEMMA BeginKeeps == ASSUME NameInv, Begin PROVE NameInv'
  <1>1. UNCHANGED <<input, at, left, tgt, hops, end>> BY DEF Begin, Fail
  <1>2. pc = "start" /\ pc' \in {"data"} \union Results /\ (pc' = "data" => left # 0 /\ start < Len(msg))
    BY NumbersNow DEF Begin, Fail, Results, Numbers
  <1>3. Numbers' BY <1>1, <1>2, NumbersNow DEF Numbers, input, Results
  <1>4. Tested' /\ InBounds'
    BY <1>1, <1>2, NumbersNow DEF Tested, InBounds, Numbers, input, Results
  <1>5. QED BY <1>1, <1>3, <1>4, NameNow, KeepsIfNumbers

(* The two loops end with one more byte in the buffer and read, *)
LEMMA OneByteKeeps ==
    ASSUME NameInv, pc \in {"data", "jumped"}, NEW b \in Bytes \union {0}, tgt' = Append(tgt, b),
           pc' \in Results, end' = at + 1, left' \in {left, left - 1},
           left' = left - 1 => pc = "data", UNCHANGED <<input, at, hops>>
    PROVE  NameInv'
  <1>1. tgt' \in Seq(Bytes \union {0}) /\ Len(tgt') = Len(tgt) + 1 BY NumbersNow, AppendLength
  <1>2. at \in Nat /\ left \in Nat /\ sz \in Nat /\ left <= sz /\ (pc = "data" => left > 0)
    BY NumbersNow DEF Numbers, Tested, InBounds
  <1>3. left' \in Nat /\ left' <= left BY <1>2
  <1>4. at < Len(msg) /\ Len(tgt) <= BufSize - 1 BY NumbersNow DEF Tested
  <1>5. end' \in Nat /\ end' <= Len(msg) /\ Len(tgt') <= BufSize /\ left' <= sz
    BY <1>1, <1>2, <1>3, <1>4, NumbersNow
  <1>6. pc' \notin {"start", "data", "jumped"} BY DEF Results
  <1>7. Numbers' BY <1>3, <1>5, NumbersNow DEF Numbers, input
  <1>8. Tested' BY <1>6, NumbersNow DEF Tested, input
  <1>9. InBounds' BY <1>5, <1>6 DEF InBounds, input
  <1>10. QED BY <1>1, <1>7, <1>8, <1>9, KeepsIfNumbers DEF input

(* or with nothing written. *)
LEMMA FailKeeps ==
    ASSUME NameInv, pc \in {"data", "jumped"}, NEW res \in Results, Fail(res),
           end' \in {at + 1, at + 2}, end' = at + 2 => at + 1 < Len(msg)
    PROVE  NameInv'
  <1>1. at < Len(msg) /\ at \in Nat BY NumbersNow DEF Tested, Numbers
  <1>2. end' \in Nat /\ end' <= Len(msg) BY <1>1, NumbersNow
  <1>3. Numbers' BY <1>2, NumbersNow DEF Numbers, Fail, input
  <1>4. pc' \notin {"start", "data", "jumped"} BY DEF Fail, Results
  <1>5. Tested' /\ InBounds' BY <1>2, <1>4, NumbersNow DEF Tested, InBounds, Fail, input
  <1>6. QED BY <1>3, <1>5, NameNow, KeepsIfNumbers DEF Fail, input

(* A label that is taken leaves one byte to read and one to write. *)
LEMMA LabelKeeps ==
    ASSUME NameInv, NEW lb \in 1..63, pc \in {"data", "jumped"},
           at + 1 + lb < Len(msg), Len(tgt) + 1 + lb <= BufSize - 1,
           tgt' \in Seq(Bytes \union {0}), Len(tgt') = Len(tgt) + (lb + 1),
           at' = at + lb + 1, end' = at + lb + 1,
           UNCHANGED <<input, pc, hops>>,
           \/ pc = "data" /\ left - 1 > lb /\ left' = left - lb - 1
           \/ pc = "jumped" /\ left' = left
    PROVE  NameInv'
  <1>1. at \in Nat /\ left \in Nat /\ start \in Nat /\ sz \in Nat BY NumbersNow DEF Numbers
  <1>2. left' \in Nat /\ left' <= left BY <1>1
  <1>3. Numbers' BY <1>1, <1>2, NumbersNow DEF Numbers, input
  <1>4. pc = "data" => at' + left' = start + sz /\ left' > 0 /\ end' <= start + sz
    BY <1>1, NumbersNow DEF Tested
  <1>5. at' < Len(msg) /\ end' <= Len(msg) /\ Len(tgt') <= BufSize - 1
    BY <1>1, NumbersNow
  <1>6. Tested' BY <1>4, <1>5, NumbersNow DEF Tested, input
  <1>7. left' <= sz BY <1>1, <1>2, NumbersNow DEF InBounds
  <1>8. Len(tgt') <= BufSize BY <1>5, NumbersNow
  <1>9. InBounds' BY <1>4, <1>5, <1>7, <1>8 DEF InBounds, input
  <1>10. QED BY <1>3, <1>6, <1>9, KeepsIfNumbers DEF input

(* An offset that is followed leads into the message. *)
LEMMA JumpKeeps ==
    ASSUME NameInv, NEW o \in Nat, o < Len(msg), pc \in {"data", "jumped"}, pc' = "jumped",
           at' = o, end' = at + 2, at + 1 < Len(msg), hops' \in 0..MaxJumps,
           left' \in Nat, left' <= left, UNCHANGED <<input, tgt>>
    PROVE  NameInv'
  <1>1. at \in Nat /\ left \in Nat /\ start \in Nat /\ sz \in Nat BY NumbersNow DEF Numbers
  <1>2. end' \in Nat /\ end' <= Len(msg) BY <1>1, NumbersNow
  <1>3. Numbers' BY <1>1, <1>2 DEF Numbers, input
  <1>4. Len(tgt) <= BufSize - 1 /\ left <= sz /\ start + sz <= Len(msg)
    BY NumbersNow DEF Tested, InBounds
  <1>5. Tested' BY <1>4 DEF Tested, input
  <1>6. left' <= sz /\ Len(tgt) <= BufSize BY <1>1, <1>4, NumbersNow
  <1>7. InBounds' BY <1>2, <1>6 DEF InBounds, input
  <1>8. QED BY <1>3, <1>5, <1>7, NameNow, KeepsIfNumbers DEF input

LEMMA InDataKeeps == ASSUME NameInv, InData PROVE NameInv'
  <1>1. at \in Nat /\ left \in Nat /\ at + 1 \in Nat /\ left > 0 /\ pc = "data"
    BY NumbersNow DEF Numbers, InData, Tested
  <1>2. PICK lb \in 0..255 : lb = Byte(at) /\ lb \in Bytes \union {0}
    BY <1>1, NumbersNow, ByteType, Zenon
  <1>3. CASE lb > 63
    <2>1. DataOffset(lb) BY <1>2, <1>3 DEF InData
    <2>2. Offset(lb, at + 1) \in Nat BY <1>1, NumbersNow, OffsetType, Zenon
    <2>3. CASE lb < 192 \/ left = 1 \/ at + 1 >= Len(msg)
      BY <1>1, <2>1, <2>3, FailKeeps DEF DataOffset, Results
    <2>4. CASE ~(lb < 192 \/ left = 1 \/ at + 1 >= Len(msg))
      <3>1. end' = at + 2 /\ at + 1 < Len(msg) BY <1>1, <2>1, <2>4, NumbersNow DEF DataOffset
      <3>2. CASE Offset(lb, at + 1) >= Len(msg)
        BY <1>1, <2>1, <2>4, <3>1, <3>2, FailKeeps DEF DataOffset, Results
      <3>3. CASE Offset(lb, at + 1) < Len(msg)
        <4>1. ~(Offset(lb, at + 1) >= Len(msg)) BY <2>2, <3>3, NumbersNow
        <4>2. /\ at' = Offset(lb, at + 1) /\ left' = left - 2 /\ hops' = 1 /\ pc' = "jumped"
              /\ UNCHANGED <<input, tgt>>
          BY <2>1, <2>4, <4>1 DEF DataOffset
        <4>3. left' \in Nat /\ left' <= left /\ hops' \in 0..MaxJumps
          BY <1>1, <2>4, <4>2, SizesAssumption
        <4>4. QED BY <1>1, <2>2, <3>1, <3>3, <4>2, <4>3, JumpKeeps
      <3>4. QED BY <2>2, <3>2, <3>3, NumbersNow
    <2>5. QED BY <2>3, <2>4
  <1>4. CASE lb = 0
    <2>1. Last BY <1>2, <1>4 DEF InData
    <2>2. QED BY <1>1, <2>1, OneByteKeeps DEF Last, Results
  <1>5. CASE lb \in 1..63
    <2>1. DataLabel(lb) BY <1>2, <1>5 DEF InData
    <2>2. CASE left - 1 <= lb \/ at + 1 + lb >= Len(msg) \/ Len(tgt) + 1 + lb > BufSize - 1
      <3>1. Refuse(lb, "TRUNC") \/ Refuse(lb, "FORMAT") BY <2>1, <2>2 DEF DataLabel
      <3>2. QED BY <1>1, <1>2, <3>1, OneByteKeeps DEF Refuse, Results
    <2>3. CASE ~(left - 1 <= lb \/ at + 1 + lb >= Len(msg) \/ Len(tgt) + 1 + lb > BufSize - 1)
      <3>1. /\ tgt' = tgt \o Copy(at, lb + 1) /\ at' = at + lb + 1 /\ end' = at + lb + 1
            /\ left' = left - lb - 1 /\ UNCHANGED <<input, pc, hops>>
        BY <2>1, <2>3 DEF DataLabel
      <3>2. /\ at + 1 + lb < Len(msg) /\ Len(tgt) + 1 + lb <= BufSize - 1 /\ left - 1 > lb
        BY <1>1, <2>3, NumbersNow, SizesAssumption
      <3>3. tgt' \in Seq(Bytes \union {0}) /\ Len(tgt') = Len(tgt) + (lb + 1)
        <4>1. TypeOK /\ at \in Nat /\ lb + 1 \in Nat BY <1>1, <1>5, NumbersNow
        <4>2. /\ tgt \o Copy(at, lb + 1) \in Seq(Bytes \union {0})
              /\ Len(tgt \o Copy(at, lb + 1)) = Len(tgt) + (lb + 1)
          BY <4>1, CopyLength, Zenon
        <4>3. QED BY <3>1, <4>2, Zenon
      <3>4. QED BY <1>1, <1>5, <3>1, <3>2, <3>3, LabelKeeps, Zenon
    <2>4. QED BY <2>2, <2>3
  <1>6. QED BY <1>3, <1>4, <1>5

LEMMA JumpedKeeps == ASSUME NameInv, Jumped PROVE NameInv'
  <1>1. at \in Nat /\ left \in Nat /\ at + 1 \in Nat /\ pc = "jumped" /\ hops \in Nat
    BY NumbersNow DEF Numbers, Jumped
  <1>2. PICK lb \in 0..255 : lb = Byte(at) /\ lb \in Bytes \union {0}
    BY <1>1, NumbersNow, ByteType, Zenon
  <1>3. CASE lb > 63
    <2>1. JumpedOffset(lb) BY <1>2, <1>3 DEF Jumped
    <2>2. Offset(lb, at + 1) \in Nat BY <1>1, NumbersNow, OffsetType, Zenon
    <2>3. CASE lb < 192 \/ at + 1 >= Len(msg) \/ hops + 1 > MaxJumps
      BY <1>1, <2>1, <2>3, FailKeeps DEF JumpedOffset, Results
    <2>4. CASE ~(lb < 192 \/ at + 1 >= Len(msg) \/ hops + 1 > MaxJumps)
      <3>1. end' = at + 2 /\ at + 1 < Len(msg) BY <1>1, <2>1, <2>4, NumbersNow DEF JumpedOffset
      <3>2. CASE Offset(lb, at + 1) >= Len(msg)
        BY <1>1, <2>1, <2>4, <3>1, <3>2, FailKeeps DEF JumpedOffset, Results
      <3>3. CASE Offset(lb, at + 1) < Len(msg)
        <4>1. ~(Offset(lb, at + 1) >= Len(msg)) BY <2>2, <3>3, NumbersNow
        <4>2. /\ at' = Offset(lb, at + 1) /\ hops' = hops + 1
              /\ UNCHANGED <<input, pc, left, tgt>>
          BY <2>1, <2>4, <4>1 DEF JumpedOffset
        <4>3. hops' \in 0..MaxJumps BY <1>1, <2>4, <4>2, SizesAssumption
        <4>4. QED BY <1>1, <2>2, <3>1, <3>3, <4>2, <4>3, JumpKeeps
      <3>4. QED BY <2>2, <3>2, <3>3, NumbersNow
    <2>5. QED BY <2>3, <2>4
  <1>4. CASE lb = 0
    <2>1. Last BY <1>2, <1>4 DEF Jumped
    <2>2. QED BY <1>1, <2>1, OneByteKeeps DEF Last, Results
  <1>5. CASE lb \in 1..63
    <2>1. JumpedLabel(lb) BY <1>2, <1>5 DEF Jumped
    <2>2. CASE at + 1 + lb >= Len(msg) \/ Len(tgt) + 1 + lb > BufSize - 1
      <3>1. Refuse(lb, "FORMAT") BY <2>1, <2>2 DEF JumpedLabel
      <3>2. QED BY <1>1, <1>2, <3>1, OneByteKeeps DEF Refuse, Results
    <2>3. CASE ~(at + 1 + lb >= Len(msg) \/ Len(tgt) + 1 + lb > BufSize - 1)
      <3>1. /\ tgt' = tgt \o Copy(at, lb + 1) /\ at' = at + lb + 1 /\ end' = at + lb + 1
            /\ UNCHANGED <<input, pc, left, hops>>
        BY <2>1, <2>3 DEF JumpedLabel
      <3>2. at + 1 + lb < Len(msg) /\ Len(tgt) + 1 + lb <= BufSize - 1
        BY <1>1, <2>3, NumbersNow, SizesAssumption
      <3>3. tgt' \in Seq(Bytes \union {0}) /\ Len(tgt') = Len(tgt) + (lb + 1)
        <4>1. TypeOK /\ at \in Nat /\ lb + 1 \in Nat BY <1>1, <1>5, NumbersNow
        <4>2. /\ tgt \o Copy(at, lb + 1) \in Seq(Bytes \union {0})
              /\ Len(tgt \o Copy(at, lb + 1)) = Len(tgt) + (lb + 1)
          BY <4>1, CopyLength, Zenon
        <4>3. QED BY <3>1, <4>2, Zenon
      <3>4. QED BY <1>1, <1>5, <3>1, <3>2, <3>3, LabelKeeps, Zenon
    <2>4. QED BY <2>2, <2>3
  <1>6. QED BY <1>3, <1>4, <1>5

(* Every label and every offset keeps it. *)
LEMMA NameInvNext == NameInv /\ [Next]_vars => NameInv'
  <1> SUFFICES ASSUME NameInv, [Next]_vars PROVE NameInv' OBVIOUS
  <1>1. CASE UNCHANGED vars BY <1>1 DEF vars, NameInv, TypeOK, Tested, InBounds
  <1>2. QED BY <1>1, BeginKeeps, InDataKeeps, JumpedKeeps DEF Next

(* Whatever the bytes of the message are, decompress_name reads only inside it
   and inside the data field, and writes only inside its buffer. *)
THEOREM InBoundsHolds == Spec => []InBounds
  <1>1. NameInv => InBounds BY DEF NameInv
  <1>2. QED BY <1>1, NameInvInit, NameInvNext, PTL DEF Spec

(* Between two turns of a loop what was written is a row of whole labels: a walk
   through it ends right behind its last byte. *)
WholeLabels ==
    pc \notin Results => \E heads \in SUBSET (1..Len(tgt)) : Walk(tgt, heads, Len(tgt) + 1)

WalkInv == NameInv /\ WholeLabels /\ Walkable

(* A walk goes the same way through what begins with the same bytes. *)
LEMMA WalkOn ==
    ASSUME NEW t, NEW u, NEW n, NEW heads, Walk(t, heads, n), \A j \in heads : u[j] = t[j]
    PROVE  Walk(u, heads, n)
  BY DEF Walk

(* Where the elements of two sequences are when they are put together. *)
LEMMA Joined ==
    ASSUME NEW S, NEW t \in Seq(S), NEW c \in Seq(S), Len(c) > 0
    PROVE  /\ Len(t \o c) = Len(t) + Len(c) /\ (t \o c)[Len(t) + 1] = c[1]
           /\ \A j \in 1..Len(t) : (t \o c)[j] = t[j]
  <1>1. Len(t) \in Nat /\ Len(c) \in Nat OBVIOUS
  <1>2. Len(t \o c) = Len(t) + Len(c) OBVIOUS
  <1>3. \A j \in 1..Len(t) : (t \o c)[j] = t[j] OBVIOUS
  <1>4. (t \o c)[Len(t) + 1] = c[1] BY <1>1
  <1>5. QED BY <1>2, <1>3, <1>4, Zenon

(* A label is written behind the others, its length first. *)
LEMMA LabelWritten ==
    ASSUME NameInv, NEW lb \in 1..63, at \in Nat, lb = Byte(at)
    PROVE  LET u == tgt \o Copy(at, lb + 1)
           IN  /\ Len(u) = Len(tgt) + (lb + 1) /\ u[Len(tgt) + 1] = lb
               /\ \A j \in 1..Len(tgt) : u[j] = tgt[j]
  <1> DEFINE c == Copy(at, lb + 1)
  <1>1. Len(tgt) \in Nat /\ tgt \in Seq(Bytes \union {0}) /\ TypeOK BY NumbersNow, NameNow
  <1>2. lb + 1 \in Nat /\ lb + 1 > 0 /\ 1 \in 1..(lb + 1) /\ at + 1 - 1 = at OBVIOUS
  <1>3. \A k \in 1..(lb + 1) : Byte(at + k - 1) \in Bytes \union {0}
    <2>1. TAKE k \in 1..(lb + 1)
    <2>2. at + k - 1 \in Nat BY <1>2
    <2>3. QED BY <1>1, <2>2, ByteType
  <1>4. c \in [1..(lb + 1) -> Bytes \union {0}] BY <1>3 DEF Copy
  <1>5. c[1] = Byte(at + 1 - 1) BY <1>2 DEF Copy
  <1>6. c[1] = lb BY <1>2, <1>5
  <1> HIDE DEF c
  <1>7. c \in Seq(Bytes \union {0}) /\ Len(c) = lb + 1 BY <1>2, <1>4
  <1>8. Len(c) > 0 BY <1>2, <1>7, Zenon
  <1>9. /\ Len(tgt \o c) = Len(tgt) + Len(c) /\ (tgt \o c)[Len(tgt) + 1] = c[1]
        /\ \A j \in 1..Len(tgt) : (tgt \o c)[j] = tgt[j]
    BY <1>1, <1>7, <1>8, Joined, Zenon
  <1>10. QED BY <1>6, <1>7, <1>9, Zenon DEF c

(* One more label is one more stop. *)
LEMMA OneMoreStop ==
    ASSUME NEW t, NEW u, NEW n \in Nat, NEW lb \in 1..63, NEW heads, heads \subseteq 1..n,
           Walk(t, heads, n + 1), \A j \in 1..n : u[j] = t[j], u[n + 1] = lb
    PROVE  Walk(u, heads \union {n + 1}, n + lb + 2)
  <1>1. \A j \in heads : u[j] = t[j] OBVIOUS
  <1>2. Walk(u, heads, n + 1) BY <1>1, WalkOn, Zenon
  <1>3. 1 \in heads \union {n + 1} BY <1>2 DEF Walk
  <1>4. ASSUME NEW j \in heads
        PROVE  u[j] \in 1..63 /\ j + u[j] + 1 \in (heads \union {n + 1}) \union {n + lb + 2}
    BY <1>2, Zenon DEF Walk
  <1>5. n + 1 + lb + 1 = n + lb + 2 OBVIOUS
  <1>6. u[n + 1] \in 1..63 /\ n + 1 + u[n + 1] + 1 \in (heads \union {n + 1}) \union {n + lb + 2}
    BY <1>5, Zenon
  <1>7. \A j \in heads \union {n + 1} :
           u[j] \in 1..63 /\ j + u[j] + 1 \in (heads \union {n + 1}) \union {n + lb + 2}
    BY <1>4, <1>6, Zenon
  <1>8. QED BY <1>3, <1>7, Zenon DEF Walk

(* The byte that ends a name is where the walk ends. *)
LEMMA LastWalks ==
    ASSUME NameInv, WholeLabels, pc \notin Results, Last
    PROVE  WholeLabels' /\ Walkable'
  <1>1. tgt' = Append(tgt, 0) /\ pc' = "OK" BY DEF Last
  <1>2. Len(tgt) \in Nat /\ tgt \in Seq(Bytes \union {0}) BY NumbersNow, NameNow
  <1>3. PICK heads \in SUBSET (1..Len(tgt)) : Walk(tgt, heads, Len(tgt) + 1) BY DEF WholeLabels
  <1>4. /\ Len(tgt') = Len(tgt) + 1 /\ tgt' # << >> /\ tgt'[Len(tgt')] = 0
        /\ \A j \in 1..Len(tgt) : tgt'[j] = tgt[j]
    BY <1>1, <1>2
  <1>5. Walk(tgt', heads, Len(tgt')) BY <1>3, <1>4, WalkOn, Zenon
  <1>6. heads \in SUBSET (1..(Len(tgt') - 1)) BY <1>2, <1>4
  <1>7. Walkable' BY <1>4, <1>5, <1>6 DEF Walkable
  <1>8. QED BY <1>1, <1>7 DEF WholeLabels, Results

(* A step that writes nothing, or a refused label, leaves it as it is. *)
LEMMA SameWalks ==
    ASSUME WholeLabels, pc \notin Results, pc' # "OK", tgt' = tgt \/ pc' \in Results
    PROVE  WholeLabels' /\ Walkable'
  BY DEF WholeLabels, Walkable, Results

LEMMA EndOfLabel == ASSUME NEW n \in Nat, NEW lb \in 1..63 PROVE n + (lb + 1) + 1 = n + lb + 2
  OBVIOUS

LEMMA PlaceOfLength == ASSUME NEW n \in Nat, NEW lb \in 1..63 PROVE n + 1 \in 1..(n + (lb + 1))
  OBVIOUS

(* A label that is taken keeps the row whole. *)
LEMMA TakenWalks ==
    ASSUME NameInv, WholeLabels, NEW lb \in 1..63, at \in Nat, lb = Byte(at),
           pc \notin Results, pc' = pc, tgt' = tgt \o Copy(at, lb + 1)
    PROVE  WholeLabels' /\ Walkable'
  <1>1. PICK heads \in SUBSET (1..Len(tgt)) : Walk(tgt, heads, Len(tgt) + 1) BY DEF WholeLabels
  <1>2. /\ Len(tgt') = Len(tgt) + (lb + 1) /\ tgt'[Len(tgt) + 1] = lb
        /\ \A j \in 1..Len(tgt) : tgt'[j] = tgt[j]
    BY LabelWritten, Zenon
  <1>3. Len(tgt) \in Nat /\ heads \subseteq 1..Len(tgt) BY NumbersNow, Zenon
  <1>4. Walk(tgt', heads \union {Len(tgt) + 1}, Len(tgt) + lb + 2)
    BY <1>1, <1>2, <1>3, OneMoreStop, ZenonT(60)
  <1>5. Len(tgt') + 1 = Len(tgt) + lb + 2 BY <1>2, <1>3, EndOfLabel, Zenon
  <1>6. \A j \in 1..Len(tgt) : j \in 1..Len(tgt') BY <1>2, <1>3
  <1>7. Len(tgt) + 1 \in 1..Len(tgt')
    BY <1>2, <1>3, PlaceOfLength, Zenon
  <1>8. heads \union {Len(tgt) + 1} \in SUBSET (1..Len(tgt')) BY <1>3, <1>6, <1>7, Zenon
  <1>9. Walk(tgt', heads \union {Len(tgt) + 1}, Len(tgt') + 1) BY <1>4, <1>5, Zenon
  <1>10. WholeLabels' BY <1>8, <1>9, Zenon DEF WholeLabels
  <1>11. QED BY <1>10 DEF Walkable, Results

LEMMA WalkInData == ASSUME WalkInv, InData PROVE WholeLabels' /\ Walkable'
  <1>1. NameInv /\ WholeLabels /\ at \in Nat /\ pc = "data" /\ pc \notin Results
    BY NumbersNow DEF WalkInv, Numbers, InData, Results
  <1>2. PICK lb \in 0..255 : lb = Byte(at) BY <1>1, NumbersNow, ByteType, Zenon
  <1>3. CASE lb > 63
    <2>1. DataOffset(lb) BY <1>2, <1>3 DEF InData
    <2>2. tgt' = tgt /\ pc' # "OK" BY <2>1 DEF DataOffset, Fail
    <2>3. QED BY <1>1, <2>2, SameWalks
  <1>4. CASE lb = 0
    <2>1. Last BY <1>2, <1>4 DEF InData
    <2>2. QED BY <1>1, <2>1, LastWalks
  <1>5. CASE lb \in 1..63
    <2>1. DataLabel(lb) BY <1>2, <1>5 DEF InData
    <2>2. CASE pc' \in {"TRUNC", "FORMAT"} BY <1>1, <2>2, SameWalks DEF Results
    <2>3. CASE pc' \notin {"TRUNC", "FORMAT"}
      <3>1. tgt' = tgt \o Copy(at, lb + 1) /\ pc' = pc BY <2>1, <2>3 DEF DataLabel, Refuse
      <3>2. QED BY <1>1, <1>2, <1>5, <3>1, TakenWalks, Zenon
    <2>4. QED BY <2>2, <2>3
  <1>6. QED BY <1>3, <1>4, <1>5

LEMMA WalkJumped == ASSUME WalkInv, Jumped PROVE WholeLabels' /\ Walkable'
  <1>1. NameInv /\ WholeLabels /\ at \in Nat /\ pc = "jumped" /\ pc \notin Results
    BY NumbersNow DEF WalkInv, Numbers, Jumped, Results
  <1>2. PICK lb \in 0..255 : lb = Byte(at) BY <1>1, NumbersNow, ByteType, Zenon
  <1>3. CASE lb > 63
    <2>1. JumpedOffset(lb) BY <1>2, <1>3 DEF Jumped
    <2>2. tgt' = tgt /\ pc' # "OK" BY <1>1, <2>1 DEF JumpedOffset, Fail
    <2>3. QED BY <1>1, <2>2, SameWalks
  <1>4. CASE lb = 0
    <2>1. Last BY <1>2, <1>4 DEF Jumped
    <2>2. QED BY <1>1, <2>1, LastWalks
  <1>5. CASE lb \in 1..63
    <2>1. JumpedLabel(lb) BY <1>2, <1>5 DEF Jumped
    <2>2. CASE pc' = "FORMAT" BY <1>1, <2>2, SameWalks DEF Results
    <2>3. CASE pc' # "FORMAT"
      <3>1. tgt' = tgt \o Copy(at, lb + 1) /\ pc' = pc BY <2>1, <2>3 DEF JumpedLabel, Refuse
      <3>2. QED BY <1>1, <1>2, <1>5, <3>1, TakenWalks, Zenon
    <2>4. QED BY <2>2, <2>3
  <1>6. QED BY <1>3, <1>4, <1>5

(* Before the first label the walk is over at once. *)
LEMMA WalkInit == Init => WholeLabels /\ Walkable
  <1> SUFFICES ASSUME Init PROVE WholeLabels /\ Walkable OBVIOUS
  <1>1. tgt = << >> /\ Len(tgt) = 0 /\ pc = "start" BY DEF Init
  <1>2. Walk(tgt, {}, Len(tgt) + 1) /\ {} \in SUBSET (1..Len(tgt)) BY <1>1 DEF Walk
  <1>3. QED BY <1>1, <1>2 DEF WholeLabels, Walkable

(* Whatever bytes a message holds, a name that decompress_name accepts is a row of
   whole labels with the one empty label at its end: rhnlen and the other walks
   through names stay inside it. *)
THEOREM WalkableHolds == Spec => []Walkable
  <1>1. Init => WalkInv BY NameInvInit, WalkInit DEF WalkInv
  <1>2. WalkInv /\ [Next]_vars => WalkInv'
    <2> SUFFICES ASSUME WalkInv, [Next]_vars PROVE WalkInv' OBVIOUS
    <2>1. NameInv' BY NameInvNext DEF WalkInv
    <2>2. CASE Begin
      <3>1. tgt' = tgt /\ pc \notin Results /\ pc' # "OK" BY <2>2 DEF Begin, Fail, Results
      <3>2. QED BY <2>1, <3>1, SameWalks DEF WalkInv
    <2>3. CASE UNCHANGED vars
      <3>1. pc' = pc /\ tgt' = tgt BY <2>3 DEF vars
      <3>2. WholeLabels' /\ Walkable' BY <3>1, Zenon DEF WalkInv, WholeLabels, Walkable
      <3>3. QED BY <2>1, <3>2 DEF WalkInv
    <2>4. QED BY <2>1, <2>2, <2>3, WalkInData, WalkJumped DEF Next, WalkInv
  <1>3. WalkInv => Walkable BY DEF WalkInv
  <1>4. QED BY <1>1, <1>2, <1>3, PTL DEF Spec

(* Every turn of a loop writes a label or follows one more offset, unless it is the
   last one; so decompress_name ends, also on offsets that lead in a circle. *)
THEOREM AdvancesHolds == Spec => Advances
  <1> DEFINE Forward == (pc \in {"data", "jumped"} /\ pc' \notin Results)
                            => Len(tgt') + hops' > Len(tgt) + hops
  <1>1. ASSUME NameInv, InData PROVE Forward
    <2>1. at \in Nat /\ hops = 0 /\ Len(tgt) \in Nat /\ TypeOK
      BY <1>1, NumbersNow DEF Numbers, Tested, InData
    <2>2. PICK lb \in 0..255 : lb = Byte(at) BY <2>1, ByteType, Zenon
    <2>3. CASE lb > 63
      <3>1. DataOffset(lb) BY <1>1, <2>2, <2>3 DEF InData
      <3>2. pc' \in Results \/ (hops' = 1 /\ tgt' = tgt) BY <3>1 DEF DataOffset, Fail, Results
      <3>3. QED BY <2>1, <3>2
    <2>4. CASE lb = 0
      <3>1. pc' \in Results BY <1>1, <2>2, <2>4 DEF InData, Last, Results
      <3>2. QED BY <3>1
    <2>5. CASE lb \in 1..63
      <3>1. DataLabel(lb) BY <1>1, <2>2, <2>5 DEF InData
      <3>2. pc' \in Results \/ (hops' = hops /\ tgt' = tgt \o Copy(at, lb + 1))
        BY <3>1 DEF DataLabel, Refuse, Results
      <3>3. lb + 1 \in Nat BY <2>5
      <3>4. Len(tgt \o Copy(at, lb + 1)) = Len(tgt) + (lb + 1) BY <2>1, <3>3, CopyLength, Zenon
      <3>5. pc' \in Results \/ (hops' = hops /\ Len(tgt') = Len(tgt) + (lb + 1)) BY <3>2, <3>4, Zenon
      <3>6. QED BY <2>1, <2>5, <3>5
    <2>6. QED BY <2>3, <2>4, <2>5
  <1>2. ASSUME NameInv, Jumped PROVE Forward
    <2>1. at \in Nat /\ hops \in Nat /\ Len(tgt) \in Nat /\ TypeOK
      BY <1>2, NumbersNow DEF Numbers
    <2>2. PICK lb \in 0..255 : lb = Byte(at) BY <2>1, ByteType, Zenon
    <2>3. CASE lb > 63
      <3>1. JumpedOffset(lb) BY <1>2, <2>2, <2>3 DEF Jumped
      <3>2. pc' \in Results \/ (hops' = hops + 1 /\ tgt' = tgt)
        BY <3>1 DEF JumpedOffset, Fail, Results
      <3>3. QED BY <2>1, <3>2
    <2>4. CASE lb = 0
      <3>1. pc' \in Results BY <1>2, <2>2, <2>4 DEF Jumped, Last, Results
      <3>2. QED BY <3>1
    <2>5. CASE lb \in 1..63
      <3>1. JumpedLabel(lb) BY <1>2, <2>2, <2>5 DEF Jumped
      <3>2. pc' \in Results \/ (hops' = hops /\ tgt' = tgt \o Copy(at, lb + 1))
        BY <3>1 DEF JumpedLabel, Refuse, Results
      <3>3. lb + 1 \in Nat BY <2>5
      <3>4. Len(tgt \o Copy(at, lb + 1)) = Len(tgt) + (lb + 1) BY <2>1, <3>3, CopyLength, Zenon
      <3>5. pc' \in Results \/ (hops' = hops /\ Len(tgt') = Len(tgt) + (lb + 1)) BY <3>2, <3>4, Zenon
      <3>6. QED BY <2>1, <2>5, <3>5
    <2>6. QED BY <2>3, <2>4, <2>5
  <1>3. NameInv /\ [Next]_vars => [Forward]_vars
    BY <1>1, <1>2 DEF Next, Begin
  <1>4. QED BY <1>3, NameInvInit, NameInvNext, PTL DEF Spec, Advances

-------------------------------------------------------------------------------
PortTypes ==
    /\ range[1] \in Int /\ range[2] \in Int
    /\ prt \in Int /\ pstart \in Int /\ try2 \in Nat
    /\ outcome \in {"none", "bound", "failed", "full"}
    /\ tried \subseteq Ports

(* The ports from pstart up to the one before prt, around the end of the range. *)
Scanned ==
    IF prt > pstart THEN pstart..(prt - 1) ELSE (pstart..range[2]) \union (range[1]..(prt - 1))

(* How far the scan has come. *)
Distance == IF prt > pstart THEN prt - pstart ELSE prt - pstart + RangeSize

(* A port in hand belongs to a range that makes sense.  Up to 2 * range attempts it
   is the one just drawn; from then on the scan has found in use every port between
   the last one drawn and the one in hand. *)
Searching ==
    outcome = "none" =>
        /\ prt = -1 => try2 < 2 * RangeSize \/ try2 = 0
        /\ prt # -1 =>
             /\ range[1] >= 0 /\ RangeSize > 0 /\ prt \in Ports /\ pstart \in Ports
             /\ try2 < 2 * RangeSize => prt = pstart
             /\ try2 >= 2 * RangeSize => /\ prt # pstart /\ try2 = 2 * RangeSize + Distance - 1
                                         /\ Scanned \subseteq tried

PortInv == PortTypes /\ Searching /\ PortSearch

LEMMA PortsAreNumbers == PortNumbers \subseteq Int
  BY DEF PortNumbers

LEMMA SensibleSize == ASSUME RangeSize \in Int, Sensible PROVE RangeSize > 0
  BY DEF Sensible

LEMMA PortInvInit == PInit => PortInv
  <1>1. SUFFICES ASSUME PInit PROVE PortInv OBVIOUS
  <1>2. range \in PortNumbers \X PortNumbers BY <1>1, RangesAssumption DEF PInit
  <1>3. range[1] \in Int /\ range[2] \in Int BY <1>2, PortsAreNumbers, Zenon
  <1>4. PortTypes BY <1>1, <1>3 DEF PInit, PortTypes
  <1>5. Searching BY <1>1 DEF PInit, Searching
  <1>6. PortSearch BY <1>1, <1>3 DEF PInit, PortSearch, FullMeansAllTried, AttemptsBounded, RangeSize
  <1>7. QED BY <1>4, <1>5, <1>6 DEF PortInv

(* No attempt is made: the kernel chooses, or a port is drawn. *)
LEMMA DrawKeeps == ASSUME PortInv, Unranged \/ Draw PROVE PortInv'
  <1>1. /\ range[1] \in Int /\ range[2] \in Int /\ RangeSize \in Int /\ try2 \in Nat
        /\ outcome = "none" /\ prt = -1 /\ UNCHANGED <<range, try2, tried>>
    BY DEF PortInv, PortTypes, Unranged, Draw, RangeSize
  <1>2. CASE outcome' \in {"bound", "failed"} /\ UNCHANGED <<prt, pstart>>
        /\ (outcome' = "bound" => range[1] < 0)
    BY <1>1, <1>2 DEF PortInv, PortTypes, Searching, PortSearch, FullMeansAllTried, AttemptsBounded,
                      Ports, RangeSize
  <1>3. ASSUME NEW p \in Ports, prt' = p, pstart' = p, UNCHANGED outcome, range[1] >= 0, Sensible
        PROVE  PortInv'
    <2>1. RangeSize > 0 BY <1>1, <1>3, SensibleSize
    <2>2. p \in Int /\ p # -1 /\ try2 < 2 * RangeSize BY <1>1, <1>3, <2>1 DEF PortInv, Searching, Ports
    <2>3. PortTypes' BY <1>1, <1>3, <2>2 DEF PortInv, PortTypes, Ports
    <2>4. Searching' BY <1>1, <1>3, <2>1, <2>2 DEF Searching, Ports, RangeSize
    <2>5. PortSearch'
      BY <1>1, <1>3 DEF PortInv, PortSearch, FullMeansAllTried, AttemptsBounded, RangeSize
    <2>6. QED BY <2>3, <2>4, <2>5 DEF PortInv
  <1>4. QED BY <1>2, <1>3 DEF Unranged, Draw

(* An attempt: it ends the search, or the port is in use and the next one is tried. *)
LEMMA BindKeeps == ASSUME PortInv, Bind PROVE PortInv'
  <1>1. /\ outcome = "none" /\ prt # -1 /\ range' = range
        /\ range[1] \in Int /\ range[2] \in Int /\ range[1] >= 0 /\ range[2] >= range[1]
        /\ prt \in Int /\ pstart \in Int /\ try2 \in Nat /\ tried \subseteq Ports
    BY DEF PortInv, PortTypes, Searching, Bind, RangeSize
  <1>2. CASE outcome' \in {"bound", "failed"} /\ UNCHANGED <<prt, pstart, try2, tried>>
    BY <1>1, <1>2 DEF PortInv, PortTypes, Searching, PortSearch, FullMeansAllTried, AttemptsBounded,
                Ports, RangeSize
  <1>3. CASE tried' = tried \union {prt} /\ try2' = try2 + 1 /\ Onward
    <2>1. prt \in Ports /\ pstart \in Ports BY <1>1 DEF PortInv, Searching
    <2>2. tried' \subseteq Ports' BY <1>1, <1>3, <2>1 DEF Ports
    <2>3. CASE try2 + 1 < RangeSize * 2
      <3>1. prt' = -1 /\ pstart' = pstart /\ outcome' = outcome
        BY <1>1, <1>3, <2>3 DEF Onward, RangeSize
      <3>2. PortTypes' BY <1>1, <1>3, <2>2, <3>1 DEF PortTypes
      <3>3. RangeSize \in Int /\ RangeSize' = RangeSize /\ try2' < 2 * RangeSize /\ try2' <= 3 * RangeSize
        BY <1>1, <1>3, <2>3 DEF RangeSize
      <3>4. Searching' BY <1>1, <3>1, <3>3 DEF Searching
      <3>5. PortSearch' BY <1>1, <3>1, <3>3 DEF PortSearch, FullMeansAllTried, AttemptsBounded
      <3>6. QED BY <3>2, <3>4, <3>5, Zenon DEF PortInv
    <2>4. CASE try2 + 1 >= RangeSize * 2
      <3>1. prt' = After(prt) /\ pstart' = pstart /\ outcome' = (IF After(prt) = pstart THEN "full" ELSE outcome)
        BY <1>3, <2>4 DEF Onward
      <3>2. After(prt) \in Ports BY <1>1, <2>1 DEF After, Ports
      <3>3. PortTypes' BY <1>1, <1>3, <2>2, <3>1, <3>2 DEF PortInv, PortTypes, Ports
      <3>4. (try2 = 2 * RangeSize - 1 /\ prt = pstart) \/ (try2 >= 2 * RangeSize /\ prt # pstart)
        BY <1>1, <2>4 DEF PortInv, Searching, RangeSize
      <3>5. CASE After(prt) # pstart
        <4>1. ASSUME NEW p \in Scanned' PROVE p = prt \/ (prt # pstart /\ p \in Scanned)
          <5>1. CASE prt + 1 > range[2]
            <6>1. prt' = range[1] /\ prt = range[2] BY <1>1, <2>1, <3>1, <5>1 DEF After, Ports
            <6>2. QED BY <1>1, <2>1, <3>1, <3>5, <4>1, <6>1 DEF Scanned, Ports
          <5>2. CASE prt + 1 <= range[2]
            <6>1. prt' = prt + 1 BY <1>1, <2>1, <3>1, <5>2 DEF After, Ports
            <6>2. QED BY <1>1, <2>1, <3>1, <3>5, <4>1, <6>1 DEF Scanned, Ports
          <5>3. QED BY <1>1, <2>1, <5>1, <5>2 DEF Ports
        <4>2. Scanned' \subseteq tried'
          BY <1>1, <1>3, <3>4, <4>1 DEF PortInv, Searching
        <4>3. try2' = 2 * RangeSize + Distance' - 1
          BY <1>1, <1>3, <2>1, <3>1, <3>4, <3>5 DEF PortInv, Searching, Distance, After, Ports, RangeSize
        <4>4. Distance' \in Int /\ Distance' < RangeSize
          BY <1>1, <2>1, <3>1, <3>2, <3>5 DEF Distance, Ports, RangeSize
        <4>5. Searching'
          BY <1>1, <2>1, <3>1, <3>2, <3>4, <3>5, <4>2, <4>3, <1>3 DEF PortInv, Searching, Ports, RangeSize
        <4>6. PortSearch'
          BY <1>1, <3>1, <3>5, <4>3, <4>4 DEF PortSearch, FullMeansAllTried, AttemptsBounded, RangeSize
        <4>7. QED BY <3>3, <4>5, <4>6 DEF PortInv
      <3>6. CASE After(prt) = pstart
        <4>1. Ports \subseteq tried'
          BY <1>1, <1>3, <2>1, <3>4, <3>6 DEF PortInv, Searching, Scanned, After, Ports
        <4>2. try2' <= 3 * RangeSize
          BY <1>1, <1>3, <2>1, <3>4 DEF PortInv, Searching, Distance, Ports, RangeSize
        <4>3. QED BY <1>1, <2>2, <3>1, <3>3, <3>6, <4>1, <4>2, Zenon
              DEF PortInv, Searching, PortSearch, FullMeansAllTried, AttemptsBounded, Ports, RangeSize
      <3>7. QED BY <3>5, <3>6
    <2>5. QED BY <1>1, <2>3, <2>4 DEF RangeSize
  <1>4. QED BY <1>2, <1>3 DEF Bind

(* Other sockets change only which ports are in use. *)
LEMMA OthersKeep == ASSUME PortInv, NEW p \in Ports, OthersBind(p) PROVE PortInv'
  BY Zenon DEF PortInv, PortTypes, Searching, PortSearch, FullMeansAllTried, AttemptsBounded, OthersBind,
         Ports, RangeSize, Scanned, Distance

LEMMA PortInvNext == PortInv /\ [PNext]_pvars => PortInv'
  <1> SUFFICES ASSUME PortInv, [PNext]_pvars PROVE PortInv' OBVIOUS
  <1>1. CASE \E p \in Ports : OthersBind(p) BY <1>1, OthersKeep
  <1>2. CASE UNCHANGED pvars
    BY <1>2, Zenon DEF pvars, PortInv, PortTypes, Searching, PortSearch, FullMeansAllTried, AttemptsBounded,
                Ports, RangeSize, Scanned, Distance
  <1>3. QED BY <1>1, <1>2, DrawKeeps, BindKeeps DEF PNext

(* bind_socket says that it is out of ports only after it found every port of the
   range in use, binds only inside the range, and makes at most three attempts per port. *)
THEOREM PortSearchHolds == PSpec => []PortSearch
  <1>1. PortInv => PortSearch BY DEF PortInv
  <1>2. QED BY <1>1, PortInvInit, PortInvNext, PTL DEF PSpec

-------------------------------------------------------------------------------
(* The sizes of the data of an NXT record in its buffer. *)
NxtSizes == 1..1040

(* Where rrs2cent is in a record of type t: the parts p to come, and the bytes n
   that those before them have put into the buffer. *)
Stage(t, p, n) ==
    \/ p = Layout(t) /\ n = 0
    \/ t \in OneName /\ p = << >> /\ n \in 1..NameBuf
    \/ t \in TwoNames /\ p = <<NameField>> /\ n \in 1..NameBuf
    \/ t \in TwoNames /\ p = << >> /\ n \in 2..(NameBuf + NameBuf)
    \/ t \in Prefer /\ p = <<NameField>> /\ n = 2
    \/ t \in Prefer /\ p = << >> /\ n \in 3..(2 + NameBuf)
    \/ t = "SOA" /\ p = <<NameField, Field(20)>> /\ n \in 1..NameBuf
    \/ t = "SOA" /\ p = <<Field(20)>> /\ n \in 2..(NameBuf + NameBuf)
    \/ t = "SOA" /\ p = << >> /\ n \in 22..(NameBuf + NameBuf + 20)
    \/ t = "PX" /\ p = <<NameField, NameField>> /\ n = 2
    \/ t = "PX" /\ p = <<NameField>> /\ n \in 3..(2 + NameBuf)
    \/ t = "PX" /\ p = << >> /\ n \in 4..(2 + NameBuf + NameBuf)
    \/ t = "SRV" /\ p = <<NameField>> /\ n = 6
    \/ t = "SRV" /\ p = << >> /\ n \in 7..(6 + NameBuf)
    \/ t = "NXT" /\ p = <<Rest>> /\ n \in 1..NameBuf
    \/ t = "NXT" /\ p = << >> /\ n \in NxtSizes
    \/ t = "NAPTR" /\ p = <<NameField>> /\ n \in 7..TextsMax
    \/ t = "NAPTR" /\ p = << >> /\ n \in 8..(TextsMax + NameBuf)
    \/ t \notin Named /\ p = << >> /\ n \in Nat

(* The part at the head of p is put into the buffer and takes m bytes there. *)
Adds(t, p, n, m) == Stage(t, Tail(p), n + m)

StageStep(t, p, n) ==
    /\ p # << >> => Head(p).k \in {"field", "name", "texts", "rest"}
    /\ p # << >> /\ Head(p).k = "field" => Head(p).n \in Nat /\ Adds(t, p, n, Head(p).n)
    /\ p # << >> /\ Head(p).k = "name" => \A m \in 1..NameBuf : Adds(t, p, n, m)
    /\ p # << >> /\ Head(p).k = "texts" => \A m \in 7..TextsMax : Adds(t, p, n, m)
    /\ p # << >> /\ Head(p).k = "rest" =>
         \A m \in Nat : (t \in Named => n + m <= Room(t)) => Adds(t, p, n, m)

LEMMA TextsSize == TextsMax = 772 BY DEF TextsMax

(* What follows from what the part at the head is. *)
LEMMA NameAtHead ==
    ASSUME NEW t, NEW p, NEW n, p # << >>, Head(p) = NameField,
           \A m \in 1..NameBuf : Stage(t, Tail(p), n + m)
    PROVE  StageStep(t, p, n)
  BY DEF StageStep, Adds, NameField

LEMMA FieldAtHead ==
    ASSUME NEW t, NEW p, NEW n, NEW f \in Nat, p # << >>, Head(p) = Field(f),
           Stage(t, Tail(p), n + f)
    PROVE  StageStep(t, p, n)
  BY DEF StageStep, Adds, Field

LEMMA TextsAtHead ==
    ASSUME NEW t, NEW p, NEW n, p # << >>, Head(p) = Texts,
           \A m \in 7..TextsMax : Stage(t, Tail(p), n + m)
    PROVE  StageStep(t, p, n)
  BY DEF StageStep, Adds, Texts

LEMMA RestAtHead ==
    ASSUME NEW t, NEW p, NEW n, p # << >>, Head(p) = Rest,
           \A m \in Nat : (t \in Named => n + m <= Room(t)) => Stage(t, Tail(p), n + m)
    PROVE  StageStep(t, p, n)
  BY DEF StageStep, Adds, Rest

(* The parts of the different types, one lemma for each way a record is made up:
   each part leads from one stage to the next. *)
LEMMA StepOneName ==
    ASSUME NEW t \in OneName, NEW p, NEW n, Stage(t, p, n)
    PROVE  StageStep(t, p, n)
  <1>1. CASE p = <<NameField>> /\ n = 0
    <2>1. p # << >> /\ Head(p) = NameField /\ Tail(p) = << >> BY <1>1
    <2>2. \A m \in 1..NameBuf : n + m \in 1..NameBuf BY <1>1, NameBufAssumption
    <2>3. \A m \in 1..NameBuf : Stage(t, << >>, n + m) BY <2>2, Zenon DEF Stage
    <2>4. QED BY <1>1, <2>1, <2>3, NameAtHead, Zenon
  <1>2. CASE p = << >> BY <1>2 DEF StageStep
  <1>3. QED BY <1>1, <1>2 DEF Stage, Layout, OneName, TwoNames, Prefer, Named

LEMMA StepTwoNames ==
    ASSUME NEW t \in TwoNames, NEW p, NEW n, Stage(t, p, n)
    PROVE  StageStep(t, p, n)
  <1>1. CASE p = <<NameField, NameField>> /\ n = 0
    <2>1. p # << >> /\ Head(p) = NameField /\ Tail(p) = <<NameField>> BY <1>1
    <2>2. \A m \in 1..NameBuf : n + m \in 1..NameBuf BY <1>1, NameBufAssumption
    <2>3. \A m \in 1..NameBuf : Stage(t, <<NameField>>, n + m) BY <2>2, Zenon DEF Stage
    <2>4. QED BY <1>1, <2>1, <2>3, NameAtHead, Zenon
  <1>2. CASE p = <<NameField>> /\ n \in 1..NameBuf
    <2>1. p # << >> /\ Head(p) = NameField /\ Tail(p) = << >> BY <1>2
    <2>2. \A m \in 1..NameBuf : n + m \in 2..(NameBuf + NameBuf) BY <1>2, NameBufAssumption
    <2>3. \A m \in 1..NameBuf : Stage(t, << >>, n + m) BY <2>2, Zenon DEF Stage
    <2>4. QED BY <1>2, <2>1, <2>3, NameAtHead, Zenon
  <1>3. CASE p = << >> BY <1>3 DEF StageStep
  <1>4. QED BY <1>1, <1>2, <1>3 DEF Stage, Layout, OneName, TwoNames, Prefer, Named

LEMMA StepPrefer ==
    ASSUME NEW t \in Prefer, NEW p, NEW n, Stage(t, p, n)
    PROVE  StageStep(t, p, n)
  <1>1. CASE p = <<Field(2), NameField>> /\ n = 0
    <2>1. p # << >> /\ Head(p) = Field(2) /\ Tail(p) = <<NameField>> BY <1>1
    <2>2. n + 2 = 2 BY <1>1, NameBufAssumption
    <2>3. Stage(t, <<NameField>>, n + 2) BY <2>2, Zenon DEF Stage
    <2>4. QED BY <1>1, <2>1, <2>3, FieldAtHead, Zenon
  <1>2. CASE p = <<NameField>> /\ n = 2
    <2>1. p # << >> /\ Head(p) = NameField /\ Tail(p) = << >> BY <1>2
    <2>2. \A m \in 1..NameBuf : n + m \in 3..(2 + NameBuf) BY <1>2, NameBufAssumption
    <2>3. \A m \in 1..NameBuf : Stage(t, << >>, n + m) BY <2>2, Zenon DEF Stage
    <2>4. QED BY <1>2, <2>1, <2>3, NameAtHead, Zenon
  <1>3. CASE p = << >> BY <1>3 DEF StageStep
  <1>4. QED BY <1>1, <1>2, <1>3 DEF Stage, Layout, OneName, TwoNames, Prefer, Named

LEMMA StepSOA ==
    ASSUME NEW p, NEW n, Stage("SOA", p, n)
    PROVE  StageStep("SOA", p, n)
  <1>1. CASE p = <<NameField, NameField, Field(20)>> /\ n = 0
    <2>1. p # << >> /\ Head(p) = NameField /\ Tail(p) = <<NameField, Field(20)>> BY <1>1
    <2>2. \A m \in 1..NameBuf : n + m \in 1..NameBuf BY <1>1, NameBufAssumption
    <2>3. \A m \in 1..NameBuf : Stage("SOA", <<NameField, Field(20)>>, n + m) BY <2>2, Zenon DEF Stage
    <2>4. QED BY <1>1, <2>1, <2>3, NameAtHead, Zenon
  <1>2. CASE p = <<NameField, Field(20)>> /\ n \in 1..NameBuf
    <2>1. p # << >> /\ Head(p) = NameField /\ Tail(p) = <<Field(20)>> BY <1>2
    <2>2. \A m \in 1..NameBuf : n + m \in 2..(NameBuf + NameBuf) BY <1>2, NameBufAssumption
    <2>3. \A m \in 1..NameBuf : Stage("SOA", <<Field(20)>>, n + m) BY <2>2, Zenon DEF Stage
    <2>4. QED BY <1>2, <2>1, <2>3, NameAtHead, Zenon
  <1>3. CASE p = <<Field(20)>> /\ n \in 2..(NameBuf + NameBuf)
    <2>1. p # << >> /\ Head(p) = Field(20) /\ Tail(p) = << >> BY <1>3
    <2>2. n + 20 \in 22..(NameBuf + NameBuf + 20) BY <1>3, NameBufAssumption
    <2>3. Stage("SOA", << >>, n + 20) BY <2>2, Zenon DEF Stage
    <2>4. QED BY <1>3, <2>1, <2>3, FieldAtHead, Zenon
  <1>4. CASE p = << >> BY <1>4 DEF StageStep
  <1>5. QED BY <1>1, <1>2, <1>3, <1>4 DEF Stage, Layout, OneName, TwoNames, Prefer, Named

LEMMA StepPX ==
    ASSUME NEW p, NEW n, Stage("PX", p, n)
    PROVE  StageStep("PX", p, n)
  <1>1. CASE p = <<Field(2), NameField, NameField>> /\ n = 0
    <2>1. p # << >> /\ Head(p) = Field(2) /\ Tail(p) = <<NameField, NameField>> BY <1>1
    <2>2. n + 2 = 2 BY <1>1, NameBufAssumption
    <2>3. Stage("PX", <<NameField, NameField>>, n + 2) BY <2>2, Zenon DEF Stage
    <2>4. QED BY <1>1, <2>1, <2>3, FieldAtHead, Zenon
  <1>2. CASE p = <<NameField, NameField>> /\ n = 2
    <2>1. p # << >> /\ Head(p) = NameField /\ Tail(p) = <<NameField>> BY <1>2
    <2>2. \A m \in 1..NameBuf : n + m \in 3..(2 + NameBuf) BY <1>2, NameBufAssumption
    <2>3. \A m \in 1..NameBuf : Stage("PX", <<NameField>>, n + m) BY <2>2, Zenon DEF Stage
    <2>4. QED BY <1>2, <2>1, <2>3, NameAtHead, Zenon
  <1>3. CASE p = <<NameField>> /\ n \in 3..(2 + NameBuf)
    <2>1. p # << >> /\ Head(p) = NameField /\ Tail(p) = << >> BY <1>3
    <2>2. \A m \in 1..NameBuf : n + m \in 4..(2 + NameBuf + NameBuf) BY <1>3, NameBufAssumption
    <2>3. \A m \in 1..NameBuf : Stage("PX", << >>, n + m) BY <2>2, Zenon DEF Stage
    <2>4. QED BY <1>3, <2>1, <2>3, NameAtHead, Zenon
  <1>4. CASE p = << >> BY <1>4 DEF StageStep
  <1>5. QED BY <1>1, <1>2, <1>3, <1>4 DEF Stage, Layout, OneName, TwoNames, Prefer, Named

LEMMA StepSRV ==
    ASSUME NEW p, NEW n, Stage("SRV", p, n)
    PROVE  StageStep("SRV", p, n)
  <1>1. CASE p = <<Field(6), NameField>> /\ n = 0
    <2>1. p # << >> /\ Head(p) = Field(6) /\ Tail(p) = <<NameField>> BY <1>1
    <2>2. n + 6 = 6 BY <1>1, NameBufAssumption
    <2>3. Stage("SRV", <<NameField>>, n + 6) BY <2>2, Zenon DEF Stage
    <2>4. QED BY <1>1, <2>1, <2>3, FieldAtHead, Zenon
  <1>2. CASE p = <<NameField>> /\ n = 6
    <2>1. p # << >> /\ Head(p) = NameField /\ Tail(p) = << >> BY <1>2
    <2>2. \A m \in 1..NameBuf : n + m \in 7..(6 + NameBuf) BY <1>2, NameBufAssumption
    <2>3. \A m \in 1..NameBuf : Stage("SRV", << >>, n + m) BY <2>2, Zenon DEF Stage
    <2>4. QED BY <1>2, <2>1, <2>3, NameAtHead, Zenon
  <1>3. CASE p = << >> BY <1>3 DEF StageStep
  <1>4. QED BY <1>1, <1>2, <1>3 DEF Stage, Layout, OneName, TwoNames, Prefer, Named

LEMMA StepNXT ==
    ASSUME NEW p, NEW n, Stage("NXT", p, n)
    PROVE  StageStep("NXT", p, n)
  <1>1. CASE p = <<NameField, Rest>> /\ n = 0
    <2>1. p # << >> /\ Head(p) = NameField /\ Tail(p) = <<Rest>> BY <1>1
    <2>2. \A m \in 1..NameBuf : n + m \in 1..NameBuf BY <1>1, NameBufAssumption
    <2>3. \A m \in 1..NameBuf : Stage("NXT", <<Rest>>, n + m) BY <2>2, Zenon DEF Stage
    <2>4. QED BY <1>1, <2>1, <2>3, NameAtHead, Zenon
  <1>2. CASE p = <<Rest>> /\ n \in 1..NameBuf
    <2>1. p # << >> /\ Head(p) = Rest /\ Tail(p) = << >> BY <1>2
    <2>2. Room("NXT") = 1040 /\ "NXT" \in Named BY DEF Room, OneName, TwoNames, Prefer, Named
    <2>3. ASSUME NEW m \in Nat, "NXT" \in Named => n + m <= Room("NXT")
          PROVE  Stage("NXT", Tail(p), n + m)
      <3>1. n + m \in NxtSizes BY <1>2, <2>2, <2>3, NameBufAssumption DEF NxtSizes
      <3>2. Stage("NXT", << >>, n + m) BY <3>1, Zenon DEF Stage
      <3>3. QED BY <2>1, <3>2, Zenon
    <2>4. QED BY <2>1, <2>3, RestAtHead
  <1>3. CASE p = << >> BY <1>3 DEF StageStep
  <1>4. QED BY <1>1, <1>2, <1>3 DEF Stage, Layout, OneName, TwoNames, Prefer, Named

LEMMA StepNAPTR ==
    ASSUME NEW p, NEW n, Stage("NAPTR", p, n)
    PROVE  StageStep("NAPTR", p, n)
  <1>1. CASE p = <<Texts, NameField>> /\ n = 0
    <2>1. p # << >> /\ Head(p) = Texts /\ Tail(p) = <<NameField>> BY <1>1
    <2>2. \A m \in 7..TextsMax : n + m \in 7..TextsMax BY <1>1
    <2>3. \A m \in 7..TextsMax : Stage("NAPTR", <<NameField>>, n + m) BY <2>2, Zenon DEF Stage
    <2>4. QED BY <1>1, <2>1, <2>3, TextsAtHead, Zenon
  <1>2. CASE p = <<NameField>> /\ n \in 7..TextsMax
    <2>1. p # << >> /\ Head(p) = NameField /\ Tail(p) = << >> BY <1>2
    <2>2. \A m \in 1..NameBuf : n + m \in 8..(TextsMax + NameBuf) BY <1>2, NameBufAssumption, TextsSize
    <2>3. \A m \in 1..NameBuf : Stage("NAPTR", << >>, n + m) BY <2>2, Zenon DEF Stage
    <2>4. QED BY <1>2, <2>1, <2>3, NameAtHead, Zenon
  <1>3. CASE p = << >> BY <1>3 DEF StageStep
  <1>4. QED BY <1>1, <1>2, <1>3 DEF Stage, Layout, OneName, TwoNames, Prefer, Named

LEMMA StepOther ==
    ASSUME NEW t, t \notin Named, NEW p, NEW n, Stage(t, p, n)
    PROVE  StageStep(t, p, n)
  <1>1. CASE p = <<Rest>> /\ n = 0
    <2>1. p # << >> /\ Head(p) = Rest /\ Tail(p) = << >> BY <1>1
    <2>2. \A m \in Nat : n + m \in Nat BY <1>1
    <2>3. \A m \in Nat : Stage(t, << >>, n + m) BY <2>2, Zenon DEF Stage
    <2>4. QED BY <1>1, <2>1, <2>3, RestAtHead, Zenon
  <1>2. CASE p = << >> BY <1>2 DEF StageStep
  <1>3. QED BY <1>1, <1>2 DEF Stage, Layout, OneName, TwoNames, Prefer, Named

(* Every part of every type leads from a stage to a stage. *)
LEMMA EveryStep ==
    ASSUME NEW t, NEW p, NEW n, Stage(t, p, n)
    PROVE  StageStep(t, p, n)
  BY StepOneName, StepTwoNames, StepPrefer, StepSOA, StepPX, StepSRV, StepNXT, StepNAPTR,
     StepOther DEF Named

LEMMA NumbersUpTo ==
    ASSUME NEW n, n = 0 \/ n \in 1..NameBuf \/ n \in NxtSizes
    PROVE  n \in Nat /\ n <= Room("NXT")
  <1>1. Room("NXT") = 1040 BY DEF Room, OneName, TwoNames, Prefer
  <1>2. CASE n = 0 BY <1>1, <1>2
  <1>3. CASE n \in 1..NameBuf BY <1>1, <1>3, NameBufAssumption
  <1>4. CASE n \in NxtSizes BY <1>1, <1>4 DEF NxtSizes
  <1>5. QED BY <1>2, <1>3, <1>4, Zenon

(* At every stage the buffer is large enough, and a whole SOA record has its two
   names and 20 bytes. *)
LEMMA StageBounds ==
    ASSUME NEW t, NEW p, NEW n, Stage(t, p, n)
    PROVE  /\ n \in Nat
           /\ t \in Named => n <= Room(t)
           /\ t = "SOA" /\ p = << >> => n >= 22
  <1>1. CASE t \in OneName
    BY <1>1, NameBufAssumption DEF Stage, Room, OneName, TwoNames, Prefer, Named
  <1>2. CASE t \in TwoNames
    BY <1>2, NameBufAssumption DEF Stage, Room, OneName, TwoNames, Prefer, Named
  <1>3. CASE t \in Prefer
    BY <1>3, NameBufAssumption DEF Stage, Room, OneName, TwoNames, Prefer, Named
  <1>4. CASE t = "SOA"
    <2>1. t \notin OneName /\ t \notin TwoNames /\ t \notin Prefer BY <1>4 DEF OneName, TwoNames, Prefer
    <2>2. t # "NXT" /\ t # "PX" /\ t # "SRV" /\ t # "NAPTR" /\ t \in Named BY <1>4 DEF Named
    <2>3. p = << >> => n # 0
      BY <1>4, NameBufAssumption DEF Stage, Layout, OneName, TwoNames, Prefer, Named
    <2>4. n = 0 \/ n \in 1..NameBuf \/ n \in 2..(NameBuf + NameBuf) \/ n \in 22..(NameBuf + NameBuf + 20)
      BY <1>4, <2>1, <2>2, Zenon DEF Stage
    <2>5. p = << >> => n = 0 \/ n \in 22..(NameBuf + NameBuf + 20)
      BY <1>4 DEF Stage, OneName, TwoNames, Prefer, Named
    <2>6. Room(t) = NameBuf + NameBuf + 20 BY <1>4, <2>1 DEF Room
    <2>7. QED BY <2>3, <2>4, <2>5, <2>6, NameBufAssumption
  <1>5. CASE t = "PX"
    BY <1>5, NameBufAssumption DEF Stage, Room, OneName, TwoNames, Prefer, Named
  <1>6. CASE t = "SRV"
    BY <1>6, NameBufAssumption DEF Stage, Room, OneName, TwoNames, Prefer, Named
  <1>7. CASE t = "NXT"
    <2>1. t \notin OneName /\ t \notin TwoNames /\ t \notin Prefer BY <1>7 DEF OneName, TwoNames, Prefer
    <2>2. t # "SOA" /\ t # "PX" /\ t # "SRV" /\ t # "NAPTR" /\ t \in Named BY <1>7 DEF Named
    <2>3. n = 0 \/ n \in 1..NameBuf \/ n \in NxtSizes BY <1>7, <2>1, <2>2, Zenon DEF Stage
    <2>4. QED BY <1>7, <2>2, <2>3, NumbersUpTo, Zenon
  <1>8. CASE t = "NAPTR"
    <2>1. t \notin OneName /\ t \notin TwoNames /\ t \notin Prefer BY <1>8 DEF OneName, TwoNames, Prefer
    <2>2. t # "SOA" /\ t # "PX" /\ t # "SRV" /\ t # "NXT" /\ t \in Named BY <1>8 DEF Named
    <2>3. n = 0 \/ n \in 7..TextsMax \/ n \in 8..(TextsMax + NameBuf) BY <1>8, <2>1, <2>2, Zenon DEF Stage
    <2>4. Room(t) = TextsMax + NameBuf BY <1>8, <2>1, <2>2 DEF Room
    <2>5. n \in Nat /\ n <= TextsMax + NameBuf BY <2>3, NameBufAssumption, TextsSize
    <2>6. QED BY <2>2, <2>4, <2>5, Zenon
  <1>9. CASE t \notin Named
    <2>1. n = 0 \/ n \in Nat BY <1>9, Zenon DEF Stage, Named
    <2>2. t # "SOA" /\ n \in Nat BY <1>9, <2>1 DEF Named
    <2>3. QED BY <1>9, <2>2, Zenon
  <1>10. QED BY <1>1, <1>2, <1>3, <1>4, <1>5, <1>6, <1>7, <1>8, <1>9, Zenon DEF Named

(* The record in hand, and what is stored of one. *)
Parts  == [k : {"field", "name", "texts", "rest"}, n : Nat]
InHand == [t : Types, n : Owners, rdlength : Nat, blcnt : Nat, slen : Int, parts : Seq(Parts)]
Stored == [t : Types, len : Int, over : Int]
Entry  == [n : Owners, rrs : SUBSET Stored]

(* The bytes of an address. *)
AddressSize(t) == IF t = "A" THEN 4 ELSE 16
Address == {"A", "AAAA"}

(* What rrs2cent has established of the record in hand: it is at a stage, what
   is left of it lies inside the message, and an address was not begun or had
   the size of one. *)
HandOK(r, l) ==
    /\ r \in InHand
    /\ Stage(r.t, r.parts, r.slen)
    /\ r.blcnt <= r.rdlength /\ r.rdlength <= l
    /\ r.t \in Address /\ r.parts # << >> => r.blcnt = r.rdlength
    /\ r.t \in Address /\ r.parts = << >> => r.slen = AddressSize(r.t)

RTypeOK ==
    /\ lcnt \in Nat /\ sec \in 1..3
    /\ centas \in [1..3 -> Seq(Entry)]

(* WholeRecords and OneEntryPerName, of the entries of one section. *)
WholeEntries(c) ==
    \A j \in DOMAIN c : \A r \in c[j].rrs :
        /\ r.over = 0
        /\ r.t \in Address => r.len = AddressSize(r.t)
        /\ r.t = "SOA" => r.len >= 22
Distinct(c) == \A j, k \in DOMAIN c : j # k => c[j].n # c[k].n

RecordInv ==
    /\ RTypeOK
    /\ rec = NoRec \/ HandOK(rec, lcnt)
    /\ \A s \in 1..3 : WholeEntries(centas[s]) /\ Distinct(centas[s])

LEMMA LayoutType == ASSUME NEW t PROVE Layout(t) \in Seq(Parts) /\ Layout(t) # << >>
  <1>1. NameField \in Parts /\ Rest \in Parts /\ Texts \in Parts
    BY NameBufAssumption, TextsSize DEF NameField, Rest, Texts, Parts
  <1>2. Field(2) \in Parts /\ Field(6) \in Parts /\ Field(20) \in Parts BY DEF Field, Parts
  <1>3. QED BY <1>1, <1>2 DEF Layout

(* An entry more, or a record more in the entry of its owner. *)
LEMMA ToCache ==
    ASSUME NEW c \in Seq(Entry), NEW n \in Owners, NEW r \in Stored,
           WholeEntries(c), Distinct(c), r.over = 0,
           r.t \in Address => r.len = AddressSize(r.t), r.t = "SOA" => r.len >= 22
    PROVE  LET d == rr_to_cache(c, n, r)
           IN  d \in Seq(Entry) /\ WholeEntries(d) /\ Distinct(d)
  <1> DEFINE new == [n |-> n, rrs |-> {r}]
             put(e) == [e EXCEPT !.rrs = @ \union {r}]
  <1>1. CASE \E j \in DOMAIN c : c[j].n = n
    <2> DEFINE d == [j \in DOMAIN c |-> IF c[j].n = n THEN put(c[j]) ELSE c[j]]
    <2>1. rr_to_cache(c, n, r) = d BY <1>1 DEF rr_to_cache
    <2>2. ASSUME NEW j \in DOMAIN c
          PROVE  /\ d[j] \in Entry /\ d[j].n = c[j].n
                 /\ \A x \in d[j].rrs : x \in c[j].rrs \/ x = r
      <3>1. c[j] \in Entry OBVIOUS
      <3>2. QED BY <3>1 DEF Entry
    <2>3. d \in Seq(Entry) BY <2>2
    <2>4. WholeEntries(d) BY <2>2 DEF WholeEntries
    <2>5. Distinct(d) BY <2>2 DEF Distinct
    <2>6. QED BY <2>1, <2>3, <2>4, <2>5
  <1>2. CASE ~ \E j \in DOMAIN c : c[j].n = n
    <2> DEFINE d == Append(c, new)
    <2>1. rr_to_cache(c, n, r) = d BY <1>2 DEF rr_to_cache
    <2>2. new \in Entry BY DEF Entry
    <2>3. d \in Seq(Entry) /\ DOMAIN c = 1..Len(c) /\ DOMAIN d = 1..(Len(c) + 1) BY <2>2
    <2>4. \A j \in DOMAIN d : IF j \in DOMAIN c THEN d[j] = c[j] ELSE d[j] = new BY <2>2, <2>3
    <2>5. new.n = n /\ new.rrs = {r} OBVIOUS
    <2> HIDE DEF d, new
    <2>6. WholeEntries(d) BY <2>4, <2>5 DEF WholeEntries
    <2>7. \A j \in DOMAIN d, k \in DOMAIN d : j \notin DOMAIN c /\ k \notin DOMAIN c => j = k
      BY <2>3
    <2>8. ASSUME NEW j \in DOMAIN d, NEW k \in DOMAIN d, j # k PROVE d[j].n # d[k].n
      <3>1. CASE j \in DOMAIN c /\ k \in DOMAIN c BY <2>4, <2>8, <3>1, Zenon DEF Distinct
      <3>2. CASE j \in DOMAIN c /\ k \notin DOMAIN c BY <1>2, <2>4, <2>5, <3>2, Zenon
      <3>3. CASE j \notin DOMAIN c /\ k \in DOMAIN c BY <1>2, <2>4, <2>5, <3>3, Zenon
      <3>4. CASE j \notin DOMAIN c /\ k \notin DOMAIN c BY <2>7, <2>8, <3>4, Zenon
      <3>5. QED BY <3>1, <3>2, <3>3, <3>4, Zenon
    <2>9. Distinct(d) BY <2>8, Zenon DEF Distinct
    <2>10. QED BY <2>1, <2>3, <2>6, <2>9
  <1>3. QED BY <1>1, <1>2

(* Nothing changes but the record in hand, which is dropped. *)
LEMMA DoneKeeps ==
    ASSUME RecordInv, NEW res, Done(res)
    PROVE  RecordInv'
  BY DEF RecordInv, RTypeOK, Done

LEMMA LessLeft == ASSUME NEW a \in Nat, NEW b \in Nat, NEW n \in Nat, a <= b PROVE a - n <= b
  OBVIOUS

(* A part of the record in hand is taken. *)
LEMMA TakeKeeps ==
    ASSUME RecordInv, rec # NoRec, NEW n \in Nat, NEW m \in Int, Take(n, m), rec.parts # << >>,
           n <= rec.blcnt, Stage(rec.t, Tail(rec.parts), rec.slen + m),
           rec.t \in Address => Tail(rec.parts) = << >> /\ rec.slen + m = AddressSize(rec.t)
    PROVE  RecordInv'
  <1>1. HandOK(rec, lcnt) BY Zenon DEF RecordInv
  <1>2. rec \in InHand BY <1>1, Zenon DEF HandOK
  <1>3. /\ rec' \in InHand /\ rec'.t = rec.t /\ rec'.rdlength = rec.rdlength
        /\ rec'.blcnt = rec.blcnt - n /\ rec'.slen = rec.slen + m /\ rec'.parts = Tail(rec.parts)
    <2>1. rec.blcnt \in Nat /\ rec.slen \in Int /\ rec.parts \in Seq(Parts) BY <1>2 DEF InHand
    <2>2. rec.blcnt - n \in Nat /\ rec.slen + m \in Int BY <2>1
    <2>3. Tail(rec.parts) \in Seq(Parts) BY <2>1
    <2>4. rec' = [rec EXCEPT !.blcnt = @ - n, !.slen = @ + m, !.parts = Tail(@)] BY DEF Take
    <2>5. QED BY <1>2, <2>2, <2>3, <2>4, Zenon DEF InHand
  <1>4. lcnt' = lcnt /\ sec' = sec /\ centas' = centas BY DEF Take
  <1>5. lcnt \in Nat /\ rec.blcnt \in Nat /\ rec.rdlength \in Nat /\ rec.blcnt <= rec.rdlength
        /\ rec.rdlength <= lcnt
    BY <1>1, <1>2, Zenon DEF RecordInv, RTypeOK, HandOK, InHand
  <1>6. rec'.blcnt <= rec'.rdlength /\ rec'.rdlength <= lcnt' BY <1>3, <1>4, <1>5, LessLeft, Zenon
  <1>7. HandOK(rec', lcnt') BY <1>3, <1>6, Zenon DEF HandOK
  <1>8. QED BY <1>4, <1>7, Zenon DEF RecordInv, RTypeOK

LEMMA HeaderKeeps == ASSUME RecordInv, Header PROVE RecordInv'
  <1>1. CASE \E res \in {"TRUNC", "FORMAT"} : Done(res) BY <1>1, DoneKeeps
  <1>2. ASSUME NEW n \in Owners, NEW t \in Types, NEW s \in NameSizes, NEW len \in RdLengths,
               s[1] <= lcnt,
               LET rest == lcnt - s[1] - sizeof_rr_hdr_t
               IN  IF TooShort(rest, len) THEN Done("TRUNC")
                   ELSE /\ rec' = [t |-> t, n |-> n, rdlength |-> len, blcnt |-> len, slen |-> 0,
                                   parts |-> Layout(t)]
                        /\ lcnt' = rest
                        /\ UNCHANGED <<claims, tc, sec, i, centas, numopt, rv>>
        PROVE  RecordInv'
    <2> DEFINE rest == lcnt - s[1] - sizeof_rr_hdr_t
    <2>1. CASE TooShort(rest, len) BY <1>2, <2>1, DoneKeeps
    <2>2. CASE ~ TooShort(rest, len)
      <3>1. lcnt \in Nat /\ s[1] \in Nat /\ len \in Nat
        BY NamesAssumption DEF RecordInv, RTypeOK
      <3>2. rest \in Nat /\ len <= rest BY <2>2, <3>1 DEF TooShort, sizeof_rr_hdr_t
      <3>3. /\ rec' = [t |-> t, n |-> n, rdlength |-> len, blcnt |-> len, slen |-> 0,
                       parts |-> Layout(t)]
            /\ lcnt' = rest /\ sec' = sec /\ centas' = centas
        BY <1>2, <2>2, Zenon
      <3> HIDE DEF rest
      <3>4. Layout(t) \in Seq(Parts) /\ Layout(t) # << >> BY LayoutType
      <3>5. 0 \in Int /\ len <= len BY <3>1
      <3>6. rec' \in InHand BY <3>1, <3>3, <3>4, <3>5, Zenon DEF InHand
      <3>7. rec'.t = t /\ rec'.parts = Layout(t) /\ rec'.slen = 0 /\ rec'.blcnt = len
            /\ rec'.rdlength = len BY <3>3
      <3>8. Stage(t, Layout(t), 0) BY Zenon DEF Stage
      <3>9. HandOK(rec', lcnt')
        BY <3>2, <3>3, <3>4, <3>5, <3>6, <3>7, <3>8, Zenon DEF HandOK
      <3>10. QED BY <3>2, <3>3, <3>9 DEF RecordInv, RTypeOK
    <2>3. QED BY <2>1, <2>2
  <1>3. QED BY <1>1, <1>2, Zenon DEF Header

LEMMA SkipKeeps == ASSUME RecordInv, Skip PROVE RecordInv'
  <1>1. rec # NoRec /\ HandOK(rec, lcnt) BY DEF RecordInv, Skip
  <1>2. lcnt \in Nat /\ rec.rdlength \in Nat /\ rec.rdlength <= lcnt
    BY <1>1, Zenon DEF RecordInv, RTypeOK, HandOK, InHand
  <1>3. lcnt' = lcnt - rec.rdlength /\ rec' = NoRec /\ sec' = sec /\ centas' = centas BY DEF Skip
  <1>4. lcnt' \in Nat BY <1>2, <1>3
  <1>5. QED BY <1>3, <1>4 DEF RecordInv, RTypeOK

LEMMA StoreKeeps == ASSUME RecordInv, Store PROVE RecordInv'
  <1>1. rec # NoRec /\ HandOK(rec, lcnt) /\ rec.parts = << >> BY Zenon DEF RecordInv, Store
  <1>2. rec \in InHand BY <1>1 DEF HandOK
  <1>3. CASE rec.blcnt # 0 BY <1>3, DoneKeeps, Zenon DEF Store
  <1>4. CASE rec.blcnt = 0
    <2>1. lcnt' = lcnt - rec.rdlength /\ rec' = NoRec /\ sec' = sec
          /\ centas' = [centas EXCEPT ![sec] = rr_to_cache(@, rec.n, Whole)]
      BY <1>4 DEF Store
    <2>2. lcnt' \in Nat
      <3>1. lcnt \in Nat BY DEF RecordInv, RTypeOK
      <3>2. rec.rdlength \in Nat BY <1>2 DEF InHand
      <3>3. rec.rdlength <= lcnt BY <1>1 DEF HandOK
      <3>4. QED BY <2>1, <3>1, <3>2, <3>3
    <2>3. Whole \in Stored /\ Whole.t = rec.t /\ Whole.over = 0 /\ Whole.len = rec.slen
      BY <1>2, <1>4 DEF Whole, Stored, InHand
    <2>4. rec.t \in Address => rec.slen = AddressSize(rec.t) BY <1>1 DEF HandOK
    <2>5. rec.t = "SOA" => rec.slen >= 22 BY <1>1, StageBounds DEF HandOK
    <2>6. sec \in 1..3 /\ centas \in [1..3 -> Seq(Entry)] /\ rec.n \in Owners
          /\ \A s \in 1..3 : WholeEntries(centas[s]) /\ Distinct(centas[s])
      BY <1>2 DEF RecordInv, RTypeOK, InHand
    <2> DEFINE d == rr_to_cache(centas[sec], rec.n, Whole)
    <2>7. d \in Seq(Entry) /\ WholeEntries(d) /\ Distinct(d)
      <3>1. centas[sec] \in Seq(Entry) /\ WholeEntries(centas[sec]) /\ Distinct(centas[sec]) BY <2>6
      <3>2. QED BY <2>3, <2>4, <2>5, <2>6, <3>1, ToCache
    <2>8. centas' = [centas EXCEPT ![sec] = d] BY <2>1
    <2> HIDE DEF d
    <2>9. centas' \in [1..3 -> Seq(Entry)] BY <2>6, <2>7, <2>8
    <2>10. \A s \in 1..3 : centas'[s] = IF s = sec THEN d ELSE centas[s] BY <2>6, <2>8
    <2>11. \A s \in 1..3 : WholeEntries(centas'[s]) /\ Distinct(centas'[s])
      BY <2>6, <2>7, <2>10
    <2>12. QED BY <2>1, <2>2, <2>6, <2>9, <2>11, Zenon DEF RecordInv, RTypeOK
  <1>5. QED BY <1>3, <1>4

LEMMA PartKeeps == ASSUME RecordInv, Part PROVE RecordInv'
  <1>1. rec # NoRec /\ HandOK(rec, lcnt) /\ rec.parts # << >> /\ rec.t \notin Address
    BY DEF RecordInv, Part, Address
  <1>2. rec.blcnt \in Nat /\ rec.slen \in Int BY <1>1 DEF HandOK, InHand
  <1>3. Stage(rec.t, rec.parts, rec.slen) BY <1>1 DEF HandOK
  <1>4. StageStep(rec.t, rec.parts, rec.slen) BY <1>3, EveryStep, Zenon
  <1> DEFINE p == Head(rec.parts)
  <1>5. ASSUME NEW n \in Nat, NEW m \in Nat, Take(n, m), n <= rec.blcnt,
               Adds(rec.t, rec.parts, rec.slen, m)
        PROVE  RecordInv'
    <2>1. m \in Int OBVIOUS
    <2>2. QED BY <1>1, <1>5, <2>1, TakeKeeps, Zenon DEF Adds
  <1>6. CASE p.k = "field"
    <2>1. IF rec.blcnt < p.n THEN Done("FORMAT") ELSE Take(p.n, p.n) BY <1>6, Zenon DEF Part
    <2>2. p.n \in Nat /\ Adds(rec.t, rec.parts, rec.slen, p.n) BY <1>1, <1>4, <1>6, Zenon DEF StageStep
    <2>3. ~(rec.blcnt < p.n) => p.n <= rec.blcnt BY <1>2, <2>2
    <2>4. QED BY <1>5, <2>1, <2>2, <2>3, DoneKeeps, Zenon
  <1>7. CASE p.k = "name"
    <2>1. \/ Done("FORMAT")
          \/ \E s \in NameSizes : s[1] <= rec.blcnt /\ Take(s[1], s[2])
      BY <1>7, Zenon DEF Part
    <2>2. ASSUME NEW s \in NameSizes, s[1] <= rec.blcnt, Take(s[1], s[2]) PROVE RecordInv'
      <3>1. s[1] \in Nat /\ s[2] \in Nat /\ s[2] \in 1..NameBuf BY NamesAssumption, NameBufAssumption
      <3>2. Adds(rec.t, rec.parts, rec.slen, s[2]) BY <1>1, <1>4, <1>7, <3>1, Zenon DEF StageStep
      <3>3. QED BY <1>5, <2>2, <3>1, <3>2, Zenon
    <2>3. QED BY <2>1, <2>2, DoneKeeps
  <1>8. CASE p.k = "texts"
    <2>1. PICK n \in TextSizes : IF n > rec.blcnt THEN Done("FORMAT") ELSE Take(n, n)
      BY <1>8, Zenon DEF Part
    <2>2. n \in 7..TextsMax BY NamesAssumption
    <2>3. n \in Nat /\ (~(n > rec.blcnt) => n <= rec.blcnt) BY <1>2, <2>2, TextsSize
    <2>4. Adds(rec.t, rec.parts, rec.slen, n) BY <1>1, <1>4, <1>8, <2>2, Zenon DEF StageStep
    <2>5. QED BY <1>5, <2>1, <2>3, <2>4, DoneKeeps, Zenon
  <1>9. CASE p.k = "rest"
    <2>1. TakeRest BY <1>9, Zenon DEF Part
    <2>2. CASE rec.t \in Named /\ rec.slen + rec.blcnt > Room(rec.t)
      BY <2>1, <2>2, DoneKeeps DEF TakeRest
    <2>3. CASE ~(rec.t \in Named /\ rec.slen + rec.blcnt > Room(rec.t))
      <3>1. Take(rec.blcnt, rec.blcnt) BY <2>1, <2>3 DEF TakeRest
      <3>2. rec.t \in Named => Room(rec.t) \in Int
        BY NameBufAssumption, TextsSize DEF Room, Named
      <3>3. rec.t \in Named => rec.slen + rec.blcnt <= Room(rec.t) BY <1>2, <2>3, <3>2
      <3>4. Adds(rec.t, rec.parts, rec.slen, rec.blcnt)
        BY <1>1, <1>2, <1>4, <1>9, <3>3, Zenon DEF StageStep
      <3>5. rec.blcnt <= rec.blcnt BY <1>2
      <3>6. QED BY <1>2, <1>5, <3>1, <3>4, <3>5, Zenon
    <2>4. QED BY <2>2, <2>3
  <1>10. p.k \in {"field", "name", "texts", "rest"} BY <1>1, <1>4, Zenon DEF StageStep
  <1>11. QED BY <1>6, <1>7, <1>8, <1>9, <1>10

LEMMA CheckedKeeps == ASSUME RecordInv, Checked PROVE RecordInv'
  <1>1. rec # NoRec /\ HandOK(rec, lcnt) /\ rec.parts # << >> BY DEF RecordInv, Checked
  <1>2. rec.t \notin Named BY DEF Checked, Named, OneName, TwoNames, Prefer
  <1>3. rec.blcnt \in Nat /\ rec.slen \in Int BY <1>1 DEF HandOK, InHand
  <1>4. rec.parts = <<Rest>> /\ rec.slen = 0
    <2>1. rec.parts = Layout(rec.t) /\ rec.slen = 0
      BY <1>1, <1>2, Zenon DEF HandOK, Stage, Named
    <2>2. QED BY <1>2, <2>1 DEF Layout, Named
  <1>5. Tail(rec.parts) = << >> BY <1>4
  <1>6. ASSUME NEW m \in Nat PROVE Stage(rec.t, Tail(rec.parts), rec.slen + m)
    <2>1. rec.slen + m \in Nat BY <1>4
    <2>2. QED BY <1>2, <1>5, <2>1, Zenon DEF Stage
  <1>7. ASSUME NEW n \in Nat, NEW m \in Nat, Take(n, m), n <= rec.blcnt,
               rec.t \in Address => m = AddressSize(rec.t)
        PROVE  RecordInv'
    <2>1. rec.t \in Address => rec.slen + m = AddressSize(rec.t) BY <1>4, <1>7
    <2>2. m \in Int OBVIOUS
    <2>3. QED BY <1>1, <1>5, <1>6, <1>7, <2>1, <2>2, TakeKeeps, Zenon
  <1>8. CASE rec.t \in Address
    <2>1. rec.blcnt = rec.rdlength BY <1>1, <1>8 DEF HandOK
    <2>2. Done("FORMAT") \/ (rec.rdlength = AddressSize(rec.t) /\ Take(AddressSize(rec.t), AddressSize(rec.t)))
      BY <1>8 DEF Checked, Address, AddressSize
    <2>3. AddressSize(rec.t) \in Nat /\ AddressSize(rec.t) <= AddressSize(rec.t) BY DEF AddressSize
    <2>4. QED BY <1>7, <2>1, <2>2, <2>3, DoneKeeps, Zenon
  <1>9. CASE rec.t \notin Address
    <2> DEFINE rest == rec.blcnt - Before(rec.t)
    <2>1. rest \in Int /\ rest <= rec.blcnt BY <1>3 DEF Before
    <2>2. \/ Done("FORMAT")
          \/ rest >= 0 /\ Take(rec.blcnt, rec.blcnt)
          \/ \E s \in NameSizes : s[1] <= rest /\ Take(rec.blcnt, rec.blcnt - s[1] + s[2])
      BY <1>9 DEF Checked, Address
    <2>3. rec.blcnt <= rec.blcnt BY <1>3
    <2> HIDE DEF rest
    <2>4. ASSUME NEW s \in NameSizes, s[1] <= rest, Take(rec.blcnt, rec.blcnt - s[1] + s[2])
          PROVE  RecordInv'
      <3>1. s[1] \in Nat /\ s[2] \in Nat BY NamesAssumption, NameBufAssumption
      <3>2. rec.blcnt - s[1] + s[2] \in Nat BY <1>3, <2>1, <2>4, <3>1
      <3>3. QED BY <1>3, <1>7, <1>9, <2>3, <2>4, <3>2, Zenon
    <2>5. CASE Take(rec.blcnt, rec.blcnt) BY <1>3, <1>7, <1>9, <2>3, <2>5, Zenon
    <2>6. QED BY <2>2, <2>4, <2>5, DoneKeeps
  <1>10. QED BY <1>8, <1>9

LEMMA Triple ==
    ASSUME NEW S, NEW a \in S, NEW b \in S, NEW c \in S
    PROVE  /\ <<a, b, c>> \in [1..3 -> S]
           /\ \A s \in 1..3 : <<a, b, c>>[s] = a \/ <<a, b, c>>[s] = b \/ <<a, b, c>>[s] = c
  OBVIOUS

LEMMA EmptyList == WholeEntries(<< >>) /\ Distinct(<< >>)
  <1>1. DOMAIN << >> = {} OBVIOUS
  <1>2. QED BY <1>1, Zenon DEF WholeEntries, Distinct

LEMMA InvStart == ASSUME RInit PROVE RecordInv
  <1>1. PICK n \in Owners : centas = <<<<[n |-> n, rrs |-> {}]>>, << >>, << >>>> BY Zenon DEF RInit
  <1>2. [n |-> n, rrs |-> {}] \in Entry BY Zenon DEF Entry
  <1> DEFINE e == <<[n |-> n, rrs |-> {}]>>
  <1>3. e \in Seq(Entry) /\ << >> \in Seq(Entry) BY <1>2
  <1>4. centas = <<e, << >>, << >>>> BY <1>1, Zenon
  <1>5. WholeEntries(e) /\ Distinct(e) BY DEF WholeEntries, Distinct
  <1> DEFINE o == << >>
  <1> HIDE DEF e
  <1>6. /\ <<e, o, o>> \in [1..3 -> Seq(Entry)]
        /\ \A s \in 1..3 : <<e, o, o>>[s] = e \/ <<e, o, o>>[s] = o
    <2> SUFFICES ASSUME o \in Seq(Entry)
                 PROVE  /\ <<e, o, o>> \in [1..3 -> Seq(Entry)]
                        /\ \A s \in 1..3 : <<e, o, o>>[s] = e \/ <<e, o, o>>[s] = o
      BY <1>3
    <2> HIDE DEF o
    <2>1. QED BY <1>3, Triple
  <1>7. centas \in [1..3 -> Seq(Entry)] BY <1>4, <1>6, Zenon
  <1>8. \A s \in 1..3 : WholeEntries(centas[s]) /\ Distinct(centas[s])
    <2>1. \A s \in 1..3 : centas[s] = e \/ centas[s] = << >> BY <1>4, <1>6, Zenon
    <2>2. WholeEntries(<< >>) /\ Distinct(<< >>) BY EmptyList
    <2>3. QED BY <1>5, <2>1, <2>2, Zenon
  <1>9. lcnt \in Nat /\ sec \in 1..3 /\ rec = NoRec BY NamesAssumption DEF RInit
  <1>10. QED BY <1>7, <1>8, <1>9 DEF RecordInv, RTypeOK

(* What the invariant says is what RecordsSound says. *)
LEMMA InvSound == ASSUME RecordInv PROVE RecordsSound
  <1>1. RecordsFit
    BY StageBounds, Zenon DEF RecordInv, HandOK, RecordsFit
  <1>2. ReadsInside BY DEF RecordInv, RTypeOK, HandOK, InHand, ReadsInside
  <1>3. WholeRecords BY Zenon DEF RecordInv, WholeEntries, WholeRecords, Address, AddressSize
  <1>4. OneEntryPerName BY DEF RecordInv, Distinct, OneEntryPerName
  <1>5. QED BY <1>1, <1>2, <1>3, <1>4 DEF RecordsSound

(* RecordsSound holds of every reply, whatever its sizes: rrs2cent reads inside
   the message, no record outgrows its buffer, every record stored is whole, and
   rr_to_cache keeps one entry for each name. *)
THEOREM RecordsSoundHolds == RSpec => []RecordsSound
  <1>1. RecordInv /\ [RNext]_rvars => RecordInv'
    <2> SUFFICES ASSUME RecordInv, [RNext]_rvars PROVE RecordInv' OBVIOUS
    <2>1. CASE NextSection
      <3>1. CASE sec = 3 BY <2>1, <3>1, DoneKeeps DEF NextSection
      <3>2. CASE sec # 3 BY <2>1, <3>2 DEF NextSection, RecordInv, RTypeOK
      <3>3. QED BY <3>1, <3>2
    <2>2. CASE Verdict \/ UNCHANGED rvars BY <2>2 DEF Verdict, rvars, RecordInv, RTypeOK
    <2>3. QED BY <2>1, <2>2, HeaderKeeps, SkipKeeps, PartKeeps, CheckedKeeps, StoreKeeps DEF RNext
  <1>2. QED BY <1>1, InvStart, InvSound, PTL DEF RSpec

===============================================================================
