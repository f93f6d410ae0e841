-------------------------------- MODULE Utf --------------------------------
(***************************************************************************)
(* Names between the card and the host (esp_mtp_utf8_to_utf16 and          *)
(* esp_mtp_utf16_to_utf8 in esp_mtp_helper.c).                             *)
(*                                                                         *)
(* A C string is the sequence of its bytes and a UTF-16 string that of its *)
(* units, both without the terminator.  Either conversion is given the     *)
(* room for its result, in bytes, and leaves out what does not fit.        *)
(***************************************************************************)
EXTENDS Integers, Sequences

\* What n rounds of a loop make of a state of it; round[k] takes a state to the next.
Rounds(round, start, n) ==
  LET after[k \in 0 .. n] == IF k = 0 THEN start ELSE round[k][after[k - 1]]
  IN  after[n]

\* The sequences of a sequence of them, one after the other.
Concat(parts) ==
  Rounds([k \in DOMAIN parts |-> [joined \in Seq(Nat) |-> joined \o parts[k]]], <<>>, Len(parts))

\* The byte at place p of a C string; the terminator follows the last one.
CharAt(s, p) == IF p <= Len(s) THEN s[p] ELSE 0

IsLater(byte) == byte \div 64 = 2
Continues(s, p) == IsLater(CharAt(s, p))
Low(s, p) == s[p] % 64

Unit(unit, size) == [unit |-> unit, size |-> size]
NoUnit == Unit(0, 0)

\* The unit that starts at byte p, and how many bytes it takes.  There is none
\* at the end of the string, in a malformed sequence and in one of four bytes.
UnitAt(s, p) ==
  CASE CharAt(s, p) = 0 -> NoUnit
    [] CharAt(s, p) # 0 /\ CharAt(s, p) < 128 -> Unit(s[p], 1)
    [] CharAt(s, p) \div 32 = 6 /\ Continues(s, p + 1) ->
         Unit((s[p] % 32) * 64 + Low(s, p + 1), 2)
    [] CharAt(s, p) \div 16 = 14 /\ Continues(s, p + 1) /\ Continues(s, p + 2) ->
         Unit((s[p] % 16) * 4096 + Low(s, p + 1) * 64 + Low(s, p + 2), 3)
    [] OTHER -> NoUnit

\* Units that fit in so many bytes before a terminator.  Mutated form: the
\* terminator gets no room.
CapacityWithoutEnd(room) == room \div 2
Capacity(room) == IF room < 2 THEN 0 ELSE (room \div 2) - 1

\* One round of the loop at byte at; it ends at the first character without a unit.
Take(loop, s) ==
  LET next == UnitAt(s, loop.at)
  IN  IF next = NoUnit THEN loop
      ELSE [at |-> loop.at + next.size, units |-> Append(loop.units, next.unit)]

\* esp_mtp_utf8_to_utf16: as many rounds as there is room for units.
Utf16(s, room) ==
  LET loops == [at : 1 .. Len(s) + 1, units : Seq(Nat)]
  IN  Rounds([k \in 1 .. Capacity(room) |-> [loop \in loops |-> Take(loop, s)]],
             [at |-> 1, units |-> <<>>], Capacity(room)).units

\* A unit's bytes; a surrogate is no different from any other unit.
BytesOf(u) ==
  IF u < 128 THEN <<u>>
  ELSE IF u < 2048 THEN <<192 + (u \div 64), 128 + (u % 64)>>
  ELSE <<224 + (u \div 4096), 128 + ((u \div 64) % 64), 128 + (u % 64)>>

\* The bytes of one more unit fit, and the terminator after them.
Fits(used, u, room) == used + Len(BytesOf(u)) <= room - 1

\* One round of the loop; it ends at the first unit that does not fit.
Put(loop, u, room) ==
  IF loop.ended \/ ~Fits(Len(loop.bytes), u, room) THEN [loop EXCEPT !.ended = TRUE]
  ELSE [loop EXCEPT !.bytes = @ \o BytesOf(u)]

\* esp_mtp_utf16_to_utf8: characters are left out as a whole.
Utf8(units, room) ==
  LET loops == [bytes : Seq(Nat), ended : BOOLEAN]
  IN  Rounds([k \in DOMAIN units |-> [loop \in loops |-> Put(loop, units[k], room)]],
             [bytes |-> <<>>, ended |-> FALSE], Len(units)).bytes
=============================================================================
