---------------------------- MODULE Serialization ----------------------------
(* Serializer<T> (mechanism/serialization.hpp) and its specialisations for   *)
(* Expected and Error (error_struct.h): writing a value into a buffer,       *)
(* reading it back, and how many bytes that takes.  Like the templates, the  *)
(* functions below recur on the parts of a type.                             *)
EXTENDS Buffers
LOCAL INSTANCE Integers
LOCAL INSTANCE Sequences

CONSTANTS
  Types,   \* the types that are serialized, and those they are made of
  Values,  \* their values and the parts of these, as pairs <<type, value>>
  Depth    \* Depth[T]: how deep the parts of T are nested

-----------------------------------------------------------------------------
(* An Expected: whether it has a value, a bool, and the value or the number   *)
(* of the error.  get_serialize_size looks at a local flag which is false,    *)
(* and counts the bytes of an error whatever the Expected holds.              *)
ExpectedFlag(value) == IF value[1] THEN 1 ELSE 0
ExpectedContent(T, flag) == IF flag = 0 THEN Int32 ELSE T.of
ExpectedSize == Bool.width + Int32.width

(* deserialize starts from an Expected that holds a default value.  error()   *)
(* of it is undefined: the number of the error goes into the storage of the   *)
(* value, and the Expected still holds one, which nobody wrote.               *)
ExpectedRead(flag, content) == <<TRUE, IF flag = 0 THEN Garbage ELSE content>>

-----------------------------------------------------------------------------
(* A value is a number and what it contains.  The number is that of a number, *)
(* the length of a string or range, whether a pointer is null, or whether an  *)
(* Expected has a value.                                                      *)
Leading(T, value) ==
  CASE T.kind = "number" -> value
    [] T.kind \in {"string", "range"} -> Len(value)
    [] T.kind = "pointer"  -> IF value = <<>> THEN 1 ELSE 0
    [] T.kind = "expected" -> ExpectedFlag(value)
    [] T.kind = "struct"   -> 0
LeadingSize(T) ==
  CASE T.kind = "number" -> T.width
    [] T.kind \in {"string", "range"} -> 8
    [] T.kind \in {"pointer", "expected"} -> 1
    [] T.kind = "struct"   -> 0

Contents(T, value) ==
  CASE T.kind = "number"   -> <<>>
    [] T.kind = "expected" -> <<value[2]>>
    [] T.kind \in {"string", "range", "pointer", "struct"} -> value
ContentType(T, leading, i) ==
  CASE T.kind = "string"   -> Number(1)
    [] T.kind = "range"    -> T.of
    [] T.kind = "pointer"  -> T.to
    [] T.kind = "expected" -> ExpectedContent(T, leading)
    [] T.kind = "struct"   -> T.members[i]
Part(T, value, i) == <<ContentType(T, Leading(T, value), i), Contents(T, value)[i]>>
Parts(T, value) == {Part(T, value, i) : i \in DOMAIN Contents(T, value)}

Inner(T) ==
  CASE T.kind = "number"   -> {}
    [] T.kind = "string"   -> {Number(1)}
    [] T.kind = "range"    -> {T.of}
    [] T.kind = "pointer"  -> {T.to}
    [] T.kind = "expected" -> {Int32, T.of}
    [] T.kind = "struct"   -> {T.members[i] : i \in DOMAIN T.members}

IsSequence(s) == Len(s) \in Nat /\ s = [i \in 1..Len(s) |-> s[i]]
IsType(T) ==
  \/ T.kind = "number" /\ T.width \in Nat \ {0}
  \/ T.kind \in {"string", "range", "pointer", "expected"}
  \/ T.kind = "struct" /\ IsSequence(T.members)
IsValue(T, value) ==
  CASE T.kind = "number"   -> value \in Int
    [] T.kind = "expected" -> value = <<value[1], value[2]>> /\ value[1] \in BOOLEAN
    [] T.kind = "pointer"  -> IsSequence(value) /\ Len(value) <= 1
    [] T.kind = "struct"   -> IsSequence(value) /\ Len(value) = Len(T.members)
    [] T.kind \in {"string", "range"} -> IsSequence(value)

(* Serializer is instantiated for finitely many types, none a part of itself. *)
ASSUME SerializationAssumption ==
  /\ \A T \in Types : IsType(T)
  /\ UNION {Inner(T) : T \in Types} \subseteq Types
  /\ Depth \in [Types -> Nat]
  /\ \A T \in Types : \A U \in Inner(T) : Depth[U] < Depth[T]
  /\ \E deepest \in Types : \A T \in Types : Depth[T] <= Depth[deepest]
  /\ \A x \in Values : x = <<x[1], x[2]>> /\ x[1] \in Types /\ IsValue(x[1], x[2])
  /\ UNION {Parts(x[1], x[2]) : x \in Values} \subseteq Values

-----------------------------------------------------------------------------
(* The bytes that serialize puts into the buffer, one after the other.       *)
Write(written, T, value) ==
  BytesOf(Leading(T, value), LeadingSize(T))
    \o Concatenation([i \in DOMAIN Contents(T, value) |-> written[Part(T, value, i)]])

Serialized[x \in Values] == Write(Serialized, x[1], x[2])
Serialize(T, value) == Serialized[<<T, value>>]

-----------------------------------------------------------------------------
(* What deserialize returns: the value, the bytes behind it, and whether     *)
(* there were enough of them: ok is FALSE after an exception.                 *)
NumberIn(bytes) ==
  CASE bytes = <<>> -> 0
    [] bytes # <<>> /\ bytes = BytesOf(bytes[1][1], Len(bytes)) -> bytes[1][1]
    [] OTHER -> Garbage
ReadNumber(w, bytes) ==
  IF w <= Len(bytes)
  THEN [val |-> NumberIn(SubSeq(bytes, 1, w)),
        rest |-> SubSeq(bytes, w + 1, Len(bytes)), ok |-> TRUE]
  ELSE [val |-> Garbage, rest |-> bytes, ok |-> FALSE]

\* Mutant: the loop ends one element early.
Elements_ButLast(size) == IF size > 1 THEN size - 1 ELSE 0

(* The iterations of the loop over the elements of a range. *)
Elements(size) == IF size > 0 THEN size ELSE 0

Count(T, leading) ==
  CASE T.kind = "number"   -> 0
    [] T.kind \in {"string", "range"} -> Elements(leading)
    [] T.kind = "pointer"  -> IF leading = 0 THEN 1 ELSE 0
    [] T.kind = "expected" -> 1
    [] T.kind = "struct"   -> Len(T.members)

(* reserve and resize throw when they are asked for less than nothing. *)
Accepted(T, size) == T.kind \in {"string", "range"} => size >= 0

(* Before the first part, and after the i-th. *)
NoParts(T, r) ==
  [val |-> <<>>, rest |-> r.rest, ok |-> r.ok /\ Accepted(T, r.val)]
ReadPart(reader, T, leading, sofar, i) ==
  LET x == reader[<<ContentType(T, leading, i), sofar.rest>>]
  IN  IF sofar.ok
      THEN [val |-> Append(sofar.val, x.val), rest |-> x.rest, ok |-> x.ok]
      ELSE sofar
ReadParts(reader, T, r) ==
  LET upto[i \in 0..Count(T, r.val)] ==
        IF i = 0 THEN NoParts(T, r)
        ELSE ReadPart(reader, T, r.val, upto[i - 1], i)
  IN  upto[Count(T, r.val)]

ValueOf(T, leading, contents) ==
  CASE T.kind = "number"   -> leading
    [] T.kind = "expected" -> ExpectedRead(leading, contents[1])
    [] T.kind \in {"string", "range", "pointer", "struct"} -> contents

Read(reader, T, bytes) ==
  LET r == ReadNumber(LeadingSize(T), bytes)
      parts == ReadParts(reader, T, r)
  IN  [val |-> IF parts.ok THEN ValueOf(T, r.val, parts.val) ELSE Garbage,
       rest |-> parts.rest, ok |-> parts.ok]

Deserialized[x \in Types \X Bytes] == Read(Deserialized, x[1], x[2])
Deserialize(T, bytes) == Deserialized[<<T, bytes>>]

-----------------------------------------------------------------------------
\* Mutant: the length is taken for an int32_t.
LengthSize_Int32 == 4

(* The bytes of the length of a string or range, an int64_t. *)
LengthSize == 8

Total(sizes) ==
  LET upto[i \in 0..Len(sizes)] == IF i = 0 THEN 0 ELSE upto[i - 1] + sizes[i]
  IN  upto[Len(sizes)]

(* get_serialize_size. *)
Size(sized, T, value) ==
  LET contents == Total([i \in DOMAIN Contents(T, value) |-> sized[Part(T, value, i)]])
  IN  CASE T.kind = "expected" -> ExpectedSize
        [] T.kind \in {"string", "range"} -> LengthSize + contents
        [] T.kind \in {"number", "pointer", "struct"} -> LeadingSize(T) + contents

Sized[x \in Values] == Size(Sized, x[1], x[2])
SizeOf(T, value) == Sized[<<T, value>>]

-----------------------------------------------------------------------------
(* There is an Expected without a value, in whatever depth: what deserialize  *)
(* does not give back (ExpectedRead).                                         *)
Erring(holds, x) ==
  \/ x[1].kind = "expected" /\ ~x[2][1]
  \/ \E p \in Parts(x[1], x[2]) : holds[p]
HoldsError[x \in Values] == Erring(HoldsError, x)
=============================================================================
