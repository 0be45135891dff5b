------------------------------- MODULE Codec -------------------------------
(***************************************************************************)
(* How a message becomes bytes and is read back: what the generated        *)
(* Marshal and Unmarshal methods of every defs.go do, and the hand-written *)
(* ones of state/state.go and replica/defs/defs.go.                        *)
(*                                                                         *)
(* A message type is a LAYOUT, the sequence of its fields' kinds in the    *)
(* order in which they are written; a message is the sequence of the       *)
(* fields' values.  A byte is a digit of base Radix (256 in the code; TLC  *)
(* uses a smaller one, so that counts and lengths reach their limits).     *)
(***************************************************************************)
EXTENDS Integers, Sequences, SequencesExt

CONSTANTS
    Radix,    \* number of values of a byte
    HashSize  \* number of bytes of a hash (32 in the code)

ASSUME RadixAssumption == Radix \in Nat /\ Radix >= 4 /\ Radix % 2 = 0

(***************************************************************************)
(* The kinds of fields.  A Lost field belongs to the Go structure but      *)
(* neither Marshal nor Unmarshal mentions it.  A Struct is a field whose   *)
(* own Unmarshal is called and whose error is not looked at.               *)
(***************************************************************************)
Fixed(w) == [kind |-> "int", width |-> w]
Int8 == Fixed(1)
Int32 == Fixed(4)
Int64 == Fixed(8)
Lost == [kind |-> "lost"]
Value == [kind |-> "value"]
Inline(layout) == [kind |-> "inline", of |-> layout]
Struct(layout) == [kind |-> "struct", of |-> layout]
Array(n, layout) == [kind |-> "list", of |-> layout, size |-> n]
List(layout) == Array(0, layout)
List32(layout) == [kind |-> "list32", of |-> layout]

(***************************************************************************)
(* Two's complement, least significant byte first.                         *)
(***************************************************************************)
IntBytes(v, w) == [i \in 1..w |-> (v \div (Radix^(i - 1))) % Radix]

RECURSIVE Unsigned(_)
Unsigned(b) == IF b = <<>> THEN 0 ELSE Head(b) + Radix * Unsigned(Tail(b))

\* A mistake: the sign is forgotten.
BytesIntUnsigned(b) == Unsigned(b)

BytesInt(b) ==
    LET u == Unsigned(b)
    IN  IF 2 * u >= Radix^Len(b) THEN u - Radix^Len(b) ELSE u

(***************************************************************************)
(* binary.PutVarint of a count: zig-zag (twice the count), then digits of  *)
(* seven bits, all but the last one marked by the highest bit.             *)
(***************************************************************************)
Half == Radix \div 2

RECURSIVE Digits(_)
Digits(u) == IF u < Half THEN <<u>> ELSE <<Half + (u % Half)>> \o Digits(u \div Half)

Varint(n) == Digits(2 * n)

(***************************************************************************)
(* Marshal of one field and of a whole message.  A Value is preceded by    *)
(* four bytes of which only two hold its length, a uint16 (state.go).      *)
(***************************************************************************)
\* A mistake: one byte of the length is written.
ValueLengthByte(v) == IntBytes(Len(v) % Radix, 1) \o <<0, 0, 0>>

ValueLength(v) == IntBytes(Len(v) % (Radix^2), 2) \o <<0, 0>>

RECURSIVE Bytes(_, _)
Marshal(layout, msg) == FlattenSeq([i \in DOMAIN layout |-> Bytes(layout[i], msg[i])])

Elements(layout, list) == FlattenSeq([i \in DOMAIN list |-> Marshal(layout, list[i])])

Bytes(k, v) ==
    CASE k.kind = "int"    -> IntBytes(v, k.width)
      [] k.kind = "lost"   -> <<>>
      [] k.kind = "value"  -> ValueLength(v) \o v
      [] k.kind \in {"inline", "struct"} -> Marshal(k.of, v)
      [] k.kind = "list"   -> Varint(Len(v)) \o Elements(k.of, v)
      [] k.kind = "list32" -> IntBytes(Len(v), 4) \o Elements(k.of, v)

(***************************************************************************)
(* What New() leaves in a field.                                           *)
(***************************************************************************)
RECURSIVE Zero(_)
New(layout) == [i \in DOMAIN layout |-> Zero(layout[i])]

Zero(k) ==
    CASE k.kind \in {"int", "lost"} -> 0
      [] k.kind \in {"inline", "struct"} -> New(k.of)
      [] k.kind = "list" -> [i \in 1..k.size |-> New(k.of)]
      [] k.kind \in {"value", "list32"} -> <<>>

(***************************************************************************)
(* Reading.  A reader holds the bytes not read yet, the value read last,   *)
(* whether the call returned an error and whether it met the end of the    *)
(* bytes.  io.ReadAtLeast and io.ReadFull consume what is left when there  *)
(* is too little of it, so after one short read nothing is left.           *)
(***************************************************************************)
Reader(bytes, val) == [rest |-> bytes, val |-> val, err |-> FALSE, short |-> FALSE]

Short(val) == [rest |-> <<>>, val |-> val, err |-> TRUE, short |-> TRUE]

ReadFull(bytes, n) ==
    IF Len(bytes) < n THEN Short(<<>>)
    ELSE Reader(SubSeq(bytes, n + 1, Len(bytes)), SubSeq(bytes, 1, n))

RECURSIVE ReadDigits(_)
ReadDigits(bytes) ==
    IF bytes = <<>> THEN Short(0)
    ELSE IF Head(bytes) < Half THEN Reader(Tail(bytes), Head(bytes))
    ELSE LET r == ReadDigits(Tail(bytes)) IN [r EXCEPT !.val = (Head(bytes) - Half) + Half * @]

ReadVarint(bytes) == LET r == ReadDigits(bytes) IN [r EXCEPT !.val = @ \div 2]

(***************************************************************************)
(* Unmarshal stops at the first error, leaving the later fields as they    *)
(* were in the new object.                                                 *)
(***************************************************************************)
RECURSIVE Read(_, _), Unmarshal(_, _)
Unmarshal(layout, bytes) ==
    IF layout = <<>> THEN Reader(bytes, <<>>)
    ELSE LET f == Read(Head(layout), bytes)
             r == Unmarshal(Tail(layout), f.rest)
         IN  IF f.err THEN [f EXCEPT !.val = <<@>> \o New(Tail(layout))]
             ELSE [r EXCEPT !.val = <<f.val>> \o @, !.short = @ \/ f.short]

\* A count and as many elements; a failed count or element ends the call.
ReadElements(layout, n) ==
    IF n.err THEN Short(<<>>) ELSE Unmarshal([i \in 1..n.val |-> Inline(layout)], n.rest)

ReadInt(bytes, w) ==
    LET r == ReadFull(bytes, w)
    IN  [r EXCEPT !.val = IF r.err THEN 0 ELSE BytesInt(@)]

ReadValue(bytes) ==
    LET n == ReadFull(bytes, 4)
    IN  IF n.err THEN n ELSE ReadFull(n.rest, n.val[1] + Radix * n.val[2])

Read(k, bytes) ==
    CASE k.kind = "int"    -> ReadInt(bytes, k.width)
      [] k.kind = "lost"   -> Reader(bytes, 0)
      [] k.kind = "value"  -> ReadValue(bytes)
      [] k.kind = "inline" -> Unmarshal(k.of, bytes)
      [] k.kind = "struct" -> [Unmarshal(k.of, bytes) EXCEPT !.err = FALSE]
      [] k.kind = "list"   -> ReadElements(k.of, ReadVarint(bytes))
      [] k.kind = "list32" -> ReadElements(k.of, ReadInt(bytes, 4))
=============================================================================
