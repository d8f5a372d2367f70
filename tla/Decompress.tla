----------------------------- MODULE Decompress -----------------------------
(***************************************************************************)
(* decompress_name (dns.c): a name is read from a message of bytes, through*)
(* the offsets that replace its end, into a buffer of BufSize bytes.  The  *)
(* data field that holds the name is sz bytes from offset start on; labels *)
(* that offsets lead to may lie anywhere in the message.  A step is one    *)
(* turn of a loop, that is one label or one offset:                        *)
(*   at      lptr, as an offset          left    newsz                     *)
(*   tgt     what was written            hops    offsets followed          *)
(*   pc      start, data (first loop), jumped (second loop), or the result *)
(* end is the offset after the last byte read so far.                      *)
(***************************************************************************)
EXTENDS Integers, Sequences

CONSTANTS
    Bytes,      \* byte values that occur
    BufSize,    \* DNSNAMEBUFSIZE
    MaxJumps,   \* offsets that are followed, 255
    Msgs        \* messages

ASSUME SizesAssumption ==
    /\ Bytes \subseteq 0..255 /\ Msgs \subseteq Seq(Bytes)
    /\ BufSize \in Nat \ {0} /\ MaxJumps \in Nat \ {0}

VARIABLES msg, start, sz, pc, at, left, tgt, hops, end

vars == <<msg, start, sz, pc, at, left, tgt, hops, end>>
input == <<msg, start, sz>>

Results == {"OK", "TRUNC", "FORMAT"}

(* The byte at offset o; past the end of the message there may be anything. *)
Byte(o) == IF o < Len(msg) THEN msg[o + 1] ELSE 0

(* The n bytes from offset o on. *)
Copy(o, n) == [i \in 1..n |-> Byte(o + i - 1)]

Offset(lb, o) == (lb % 64) * 256 + Byte(o)

Fail(res) == pc' = res /\ UNCHANGED <<input, at, left, tgt, hops>>

(* The length byte of a label was stored before the label is refused. *)
Refuse(lb, res) ==
    /\ pc' = res /\ tgt' = Append(tgt, lb) /\ end' = at + 1
    /\ UNCHANGED <<input, at, left, hops>>

Begin ==
    /\ pc = "start"
    /\ IF left = 0 THEN Fail("TRUNC")
       ELSE IF start >= Len(msg) THEN Fail("FORMAT")
       ELSE pc' = "data" /\ UNCHANGED <<input, at, left, tgt, hops>>
    /\ UNCHANGED end

(* The last byte of a name. *)
Last ==
    /\ tgt' = Append(tgt, 0) /\ pc' = "OK"
    /\ left' = IF pc = "data" THEN left - 1 ELSE left
    /\ end' = at + 1
    /\ UNCHANGED <<input, at, hops>>

(* A label of lb bytes, in the data field or after a jump. *)
DataLabel(lb) ==
    IF left - 1 <= lb THEN Refuse(lb, "TRUNC")
    ELSE IF at + 1 + lb >= Len(msg) \/ Len(tgt) + 1 + lb > BufSize - 1
    THEN Refuse(lb, "FORMAT")
    ELSE /\ tgt' = tgt \o Copy(at, lb + 1)
         /\ at' = at + lb + 1 /\ left' = left - lb - 1
         /\ end' = at + lb + 1
         /\ UNCHANGED <<input, pc, hops>>

(* Mutant: the byte after the label is not looked at. *)
mut_label_at_end(lb) ==
    IF at + lb >= Len(msg) \/ Len(tgt) + 1 + lb > BufSize - 1
    THEN Refuse(lb, "FORMAT")
    ELSE /\ tgt' = tgt \o Copy(at, lb + 1)
         /\ at' = at + lb + 1 /\ end' = at + lb + 1
         /\ UNCHANGED <<input, pc, left, hops>>

JumpedLabel(lb) ==
    IF at + 1 + lb >= Len(msg) \/ Len(tgt) + 1 + lb > BufSize - 1
    THEN Refuse(lb, "FORMAT")
    ELSE /\ tgt' = tgt \o Copy(at, lb + 1)
         /\ at' = at + lb + 1 /\ end' = at + lb + 1
         /\ UNCHANGED <<input, pc, left, hops>>

(* Two bytes with an offset, in the data field or after a jump. *)
DataOffset(lb) ==
    IF lb < 192 THEN Fail("FORMAT") /\ end' = at + 1
    ELSE IF left = 1 THEN Fail("TRUNC") /\ end' = at + 1
    ELSE IF at + 1 >= Len(msg) THEN Fail("FORMAT") /\ end' = at + 1
    ELSE /\ end' = at + 2
         /\ IF Offset(lb, at + 1) >= Len(msg) THEN Fail("FORMAT")
            ELSE /\ at' = Offset(lb, at + 1) /\ left' = left - 2
                 /\ hops' = 1 /\ pc' = "jumped"
                 /\ UNCHANGED <<input, tgt>>

JumpedOffset(lb) ==
    IF lb < 192 \/ at + 1 >= Len(msg) \/ hops + 1 > MaxJumps
    THEN Fail("FORMAT") /\ end' = at + 1
    ELSE /\ end' = at + 2
         /\ IF Offset(lb, at + 1) >= Len(msg) THEN Fail("FORMAT")
            ELSE /\ at' = Offset(lb, at + 1) /\ hops' = hops + 1
                 /\ UNCHANGED <<input, pc, left, tgt>>

(* Mutant: the length byte is stored before its high bits are looked at. *)
mut_store_first ==
    /\ pc = "data"
    /\ LET lb == Byte(at)
       IN  CASE lb > 191 /\ left > 1 /\ at + 1 < Len(msg) /\ Offset(lb, at + 1) < Len(msg) ->
                    /\ tgt' = Append(tgt, lb) /\ at' = Offset(lb, at + 1) /\ left' = left - 2
                    /\ hops' = 1 /\ pc' = "jumped" /\ end' = at + 2
                    /\ UNCHANGED input
             [] lb = 0 -> Last
             [] lb \in 1..63 -> DataLabel(lb)
             [] OTHER -> Fail("FORMAT") /\ end' = at + 1

InData ==
    /\ pc = "data"
    /\ LET lb == Byte(at)
       IN  CASE lb > 63 -> DataOffset(lb)
             [] lb = 0  -> Last
             [] OTHER   -> DataLabel(lb)

Jumped ==
    /\ pc = "jumped"
    /\ LET lb == Byte(at)
       IN  CASE lb > 63 -> JumpedOffset(lb)
             [] lb = 0  -> Last
             [] OTHER   -> JumpedLabel(lb)

(* The caller's field lies in the message. *)
Init ==
    /\ msg \in Msgs
    /\ start \in 0..Len(msg) /\ sz \in 0..(Len(msg) - start)
    /\ pc = "start" /\ at = start /\ left = sz
    /\ tgt = << >> /\ hops = 0 /\ end = 0

Next == Begin \/ InData \/ Jumped
Spec == Init /\ [][Next]_vars

------------------------------------------------------------------------------
(* Properties *)

TypeOK ==
    /\ msg \in Msgs /\ start \in Nat /\ sz \in Nat
    /\ pc \in {"start", "data", "jumped"} \union Results
    /\ at \in Nat /\ left \in Nat /\ hops \in 0..MaxJumps /\ end \in Nat
    /\ tgt \in Seq(Bytes \union {0})

(* Nothing outside the message is read, nothing is written past the buffer,
   and no more is taken from the data field than it holds, whatever the bytes
   say.  (the goto's to name_outside_msg and name_buf_full) *)
InBounds ==
    /\ end <= Len(msg)
    /\ Len(tgt) <= BufSize
    /\ left <= sz
    /\ pc = "data" => end <= start + sz

(* A walk through t that starts at its first byte and goes from each length
   byte to the next stops at the places heads and then at n, which is no head:
   it cannot miss n, for every stop is behind the one before. *)
Walk(t, heads, n) ==
    /\ 1 \in heads \union {n}
    /\ \A i \in heads : t[i] \in 1..63 /\ i + t[i] + 1 \in heads \union {n}

(* A name that is accepted can be walked from label to label, as rhnlen does:
   no label is empty or longer than 63 bytes, and the walk ends at the last
   byte written, which is 0.  (what is stored of labels and offsets) *)
Walkable ==
    pc = "OK" => /\ tgt # << >> /\ tgt[Len(tgt)] = 0
                 /\ \E heads \in SUBSET (1..(Len(tgt) - 1)) : Walk(tgt, heads, Len(tgt))

(* Every turn of a loop writes a label or follows one more offset, or it is
   the last one; so offsets that lead in a circle come to an end. *)
Advances ==
    [][(pc \in {"data", "jumped"} /\ pc' \notin Results)
         => Len(tgt') + hops' > Len(tgt) + hops]_vars

==============================================================================
