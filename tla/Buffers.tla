------------------------------- MODULE Buffers -------------------------------
(* Types, values and buffers of Serializer<T> (mechanism/serialization.hpp).  *)
(* A byte is the pair of the number it is a part of and its place in it.      *)
LOCAL INSTANCE Integers
LOCAL INSTANCE Sequences

(* Types.  A bool and a char are numbers of width 1.  Values: an integer for *)
(* a number; a sequence of characters, of elements, of members for a string, *)
(* range or struct; of no or one value for a pointer; <<TRUE, value>> or     *)
(* <<FALSE, error number>> for an Expected.                                  *)
Number(w)    == [kind |-> "number", width |-> w]
Text         == [kind |-> "string"]
PointerTo(T) == [kind |-> "pointer", to |-> T]
RangeOf(T)   == [kind |-> "range", of |-> T]
Struct(Ts)   == [kind |-> "struct", members |-> Ts]
Expect(T)    == [kind |-> "expected", of |-> T]
Bool  == Number(1)
Int32 == Number(4)
Int64 == Number(8)

(* What is read from bytes that are no number that was written. *)
Garbage == -1
BytesOf(number, w) == [i \in 1..w |-> <<number, i>>]
Bytes == Seq(Int \X Nat)

(* What comes one after the other. *)
Concatenation(pieces) ==
  LET upto[i \in 0..Len(pieces)] == IF i = 0 THEN <<>> ELSE upto[i - 1] \o pieces[i]
  IN  upto[Len(pieces)]

(* The test that serialize makes before every memcpy: there is room for all  *)
(* of it.  Otherwise the last one throws.                                    *)
Fits(buffer_len, bytes) == Len(bytes) <= buffer_len
==============================================================================
