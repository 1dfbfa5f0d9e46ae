------------------------------- MODULE VarInts -------------------------------
(***************************************************************************)
(* Bytes, variable-length integers (lib/varint.go) and truncated packet    *)
(* numbers (common.go).  A buffer is a sequence of bytes; a reader returns *)
(* what it read and the rest of the buffer.                                *)
(*                                                                         *)
(* A uint64 is a natural number below 2^31, so the upper four bytes of the *)
(* eight-byte form are zero and the panic over 62 bits is out of range.    *)
(***************************************************************************)
EXTENDS Integers, Sequences, SequencesExt

Byte == 0 .. 255

MaxVarInt1 == 63
MaxVarInt2 == 16383
MaxVarInt4 == 1073741823

\* The low n bytes of a number, most significant first.
BigEndian(i, n) == [k \in 1 .. n |-> IF n - k > 3 THEN 0 ELSE (i \div 256 ^ (n - k)) % 256]

FromBigEndian(b) == FoldLeft(LAMBDA acc, byte : acc * 256 + byte, 0, b)

-----------------------------------------------------------------------------
VarIntLen(i) == IF i <= MaxVarInt1 THEN 1 ELSE IF i <= MaxVarInt2 THEN 2
                ELSE IF i <= MaxVarInt4 THEN 4 ELSE 8

\* The two top bits of the first byte are the logarithm of the length.
EncodeVarInt(i) ==
    LET Tagged(n, tag) == <<BigEndian(i, n)[1] + 64 * tag>> \o Tail(BigEndian(i, n))
    IN  IF i <= MaxVarInt1 THEN <<i>>
        ELSE IF i <= MaxVarInt2 THEN Tagged(2, 1)
        ELSE IF i <= MaxVarInt4 THEN Tagged(4, 2) ELSE Tagged(8, 3)

\* A buffer that ends too early has been read to its end when the error is found.
ReadVarInt[b \in Seq(Byte)] ==
    LET len == IF b = <<>> THEN 1 ELSE 2 ^ (b[1] \div 64)
    IN  IF Len(b) < len
        THEN [Value |-> 0, Length |-> 0, rest |-> <<>>, err |-> TRUE]
        ELSE [Value |-> IF len = 1 THEN b[1] ELSE FromBigEndian(<<b[1] % 64>> \o SubSeq(b, 2, len)), Length |-> len,
              rest |-> SubSeq(b, len + 1, Len(b)), err |-> FALSE]
ReadVarIntValue(b) == ReadVarInt[b]

\* Several variable-length integers in a row.
EncodeVarInts(is) == FlattenSeq([k \in DOMAIN is |-> EncodeVarInt(is[k])])
VarIntLens(is) == FoldLeft(LAMBDA n, i : n + VarIntLen(i), 0, is)
ReadVarIntValues(b, n) ==
    FoldLeft(LAMBDA r, k : LET v == ReadVarIntValue(r.rest)
                           IN  [values |-> Append(r.values, v.Value), rest |-> v.rest],
             [values |-> <<>>, rest |-> b], [k \in 1 .. n |-> k])

\* bytes.Reader.Read into a slice of n zero bytes.
ReadBytes(b, n) == [data |-> [k \in 1 .. n |-> IF k <= Len(b) THEN b[k] ELSE 0],
                    rest |-> SubSeq(b, n + 1, Len(b))]

-----------------------------------------------------------------------------
(* Truncated packet numbers: records [Value, Length].                      *)

Log2(n) == CHOOSE k \in 0 .. 30 : 2 ^ k <= n /\ (k < 30 => n < 2 ^ (k + 1))

\* Truncate panics below the largest acknowledged number, and over four bytes.
TruncatePanics(p, largestAcknowledged) == p < largestAcknowledged

\* Mutant: one byte whatever the distance.
TruncateToOneByte(p, largestAcknowledged) == [Value |-> p % 256, Length |-> 1]
Truncate(p, largestAcknowledged) ==
    LET length == Log2(p - largestAcknowledged + 1) \div 8 + 1
    IN  [Value |-> IF length = 4 THEN p ELSE p % 256 ^ length, Length |-> length]

EncodeTruncatedPN(t) == BigEndian(t.Value, t.Length)

ReadTruncatedPN(b, length) ==
    LET r == ReadBytes(b, length)
    IN  [pn |-> [Value |-> FromBigEndian(r.data), Length |-> length], rest |-> r.rest]

\* The missing bytes are those of the largest number received.
Join(t, p) == (IF t.Length = 4 THEN 0 ELSE p - (p % 256 ^ t.Length)) + t.Value
=============================================================================
