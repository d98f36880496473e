------------------------------ MODULE Bitfield ------------------------------
(***************************************************************************)
(* class Bitfield: bits in an array of bytes, the first bit being the most *)
(* significant one of the first byte.  An index is always tested against   *)
(* len; the callers of this project stay within it.                        *)
(*                                                                         *)
(* A byte is the set of its one bits, numbered by significance: bit n is   *)
(* worth 2^n.  So | is the union and & the intersection.                   *)
(***************************************************************************)
EXTENDS Integers, Sequences

CONSTANT ByteSize      \* bits of a byte (8)

byte_index(bit_index) == bit_index \div ByteSize

byte_offset(bit_index) == bit_index % ByteSize

\* byte >> n: the bits that fall out at the right are lost.
ShiftRight(byte, n) == {bit - n : bit \in byte} \cap Nat

INDEX_ZERO == {ByteSize - 1}

\* Fault: bits are counted from the least significant one.
MaskFromRight(index) == {byte_offset(index)}

Mask(index) == ShiftRight(INDEX_ZERO, byte_offset(index))

\* The bitfield over bytes that have been received.
BitfieldOf(storage, len) == [storage |-> storage, len |-> len]

BitfieldGet(b, index) == b.storage[byte_index(index) + 1] \cap Mask(index) # {}

\* set(index): the byte is or-ed with the mask.
BitfieldSet(b, index) ==
  BitfieldOf([b.storage EXCEPT ![byte_index(index) + 1] = @ \union Mask(index)], b.len)
=============================================================================
