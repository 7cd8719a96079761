-------------------------- MODULE Stringification --------------------------
(* value_to_string and kv_to_string (mechanism/stringification.hpp) as the    *)
(* log macros use them (logger.h): the arguments of one statement are written *)
(* behind one another into one buffer, and each is shown through a view of    *)
(* its part.  A text is a sequence of characters.                             *)
EXTENDS Buffers
LOCAL INSTANCE Integers
LOCAL INSTANCE Sequences
LOCAL INSTANCE TLC

CONSTANTS
  Chars,       \* the characters that texts are made of
  Loggable,    \* the values that are logged, and those inside them
  Nesting,     \* Nesting[v]: how deep the values inside v are nested
  Statements   \* records of args, the arguments of a log statement, and len,
               \* its buffer_len: 1_KiB in the code

VARIABLES
  statement,    \* the last statement
  views         \* its __to_string_arg__ views

logVars == <<statement, views>>

-----------------------------------------------------------------------------
(* Values: a string, number, null pointer or other text that is written in    *)
(* one go; an EndPoint or something else with its own format or to_string;    *)
(* a pointer; a range; a struct of keys and values.                           *)
Plain(text)     == [kind |-> "plain", text |-> text]
Custom(text)    == [kind |-> "custom", text |-> text]
Pointer(a, v)   == [kind |-> "pointer", address |-> a, to |-> v]
List(vs)        == [kind |-> "range", of |-> vs]
Members(ks, vs) == [kind |-> "struct", keys |-> ks, of |-> vs]

Inside(v) ==
  CASE v.kind \in {"plain", "custom"} -> <<>>
    [] v.kind = "pointer" -> <<v.to>>
    [] v.kind \in {"range", "struct"} -> v.of

MAX_PRINT_SIZE == 8
Comma == <<",", " ">>
More(n) == <<".", ".", "(", ToString(n), " ", "more", ")">>
Least(a, b) == IF a <= b THEN a ELSE b

Texts == Seq(Chars)
IsLoggable(v) ==
  CASE v.kind \in {"plain", "custom"} -> v.text \in Texts
    [] v.kind = "pointer" -> v.address \in Texts
    [] v.kind = "range" ->
         Len(v.of) > MAX_PRINT_SIZE => More(Len(v.of) - MAX_PRINT_SIZE) \in Texts
    [] v.kind = "struct" -> v.keys \in Seq(Texts) /\ Len(v.keys) = Len(v.of)

(* No value is inside itself: value_to_string would not come to an end.      *)
ASSUME LogAssumption ==
  /\ {",", " ", "{", "}", "[", "]", ":", "?"} \subseteq Chars
  /\ \A v \in Loggable :
       /\ v.kind \in {"plain", "custom", "pointer", "range", "struct"}
       /\ IsLoggable(v)
       /\ Inside(v) \in Seq(Loggable)
       /\ \A i \in DOMAIN Inside(v) : Nesting[Inside(v)[i]] < Nesting[v]
  /\ Nesting \in [Loggable -> Nat]
  /\ \E deepest \in Loggable : \A v \in Loggable : Nesting[v] <= Nesting[deepest]
  /\ \A s \in Statements : s.args \in Seq(Loggable) /\ s.len \in Nat

(* buffer and pos.  What lies behind pos stays in the buffer.                 *)
LogBuffers == [buffer : Texts, pos : Int]
EmptyBuffer(size) == [buffer |-> [i \in 1..size |-> "?"], pos |-> 0]

(* The first n characters of text at pos, as far as the buffer reaches. *)
WriteN(w, text, n) ==
  LET size == Len(w.buffer)
      at   == Least(w.pos, size)
      m    == Least(n, size - at)
  IN  [w EXCEPT !.buffer = SubSeq(w.buffer, 1, at) \o SubSeq(text, 1, m)
                             \o SubSeq(w.buffer, at + m + 1, size)]

\* Mutant: no else branch, pos stays where it was when the text is cut.
FormatTo_NoElse(w, text) ==
  LET n == Least(Len(text), Len(w.buffer) - w.pos)
  IN  IF w.pos < Len(w.buffer)
      THEN [WriteN(w, text, n) EXCEPT !.pos = IF n = Len(text) THEN w.pos + n ELSE w.pos]
      ELSE w

(* FORMAT_TO of value_to_string *)
FormatTo(w, text) ==
  LET n == Least(Len(text), Len(w.buffer) - w.pos)
  IN  IF w.pos < Len(w.buffer) THEN [WriteN(w, text, n) EXCEPT !.pos = w.pos + n]
                               ELSE w

(* FORMAT_TO of kv_to_string: bounded by the whole length, and pos goes on by *)
(* the length of the text.                                                    *)
FormatKeyTo(w, text) ==
  [WriteN(w, text, Least(Len(text), Len(w.buffer))) EXCEPT !.pos = w.pos + Len(text)]

Braced(w, with_key, brace) == IF with_key THEN FormatTo(w, <<brace>>) ELSE w

(* Writers are functions from buffers to buffers: what the buffer is after    *)
(* none, one, two, ... of them.                                               *)
InTurn(writers, w) ==
  LET after[i \in 0..Len(writers)] ==
        IF i = 0 THEN w ELSE writers[i][after[i - 1]]
  IN  after

(* The loops over the elements of a range and over the members of a struct;   *)
(* parts[i] is value_to_string for the i-th of them.                          *)
Element(parts, i) ==
  [w \in LogBuffers |->
     LET x == parts[i][<<TRUE, w>>]
     IN  IF i < MAX_PRINT_SIZE /\ i < Len(parts) THEN FormatTo(x, Comma) ELSE x]
RangeToString(parts, w) ==
  LET n == Least(Len(parts), MAX_PRINT_SIZE)
  IN  InTurn([i \in 1..n |-> Element(parts, i)], w)[n]

Member(keys, parts, i) ==
  [w \in LogBuffers |->
     FormatTo(parts[i][<<TRUE, FormatKeyTo(w, Append(keys[i], ":"))>>], Comma)]
FieldsToString(keys, parts, w) ==
  InTurn([i \in DOMAIN parts |-> Member(keys, parts, i)], w)[Len(parts)]

Stringify(v, parts, with_key, w) ==
  CASE v.kind = "plain" -> FormatTo(w, v.text)
    [] v.kind = "custom" ->
         Braced(FormatTo(Braced(w, with_key, "{"), v.text), with_key, "}")
    [] v.kind = "pointer" -> parts[1][<<with_key, FormatTo(w, v.address)>>]
    [] v.kind = "range" ->
         LET x == RangeToString(parts, FormatTo(Braced(w, with_key, "{"), <<"[">>))
             more == Len(parts) - MAX_PRINT_SIZE
             y == IF more > 0 THEN FormatTo(x, More(more)) ELSE x
         IN  Braced(FormatTo(y, <<"]">>), with_key, "}")
    [] v.kind = "struct" ->
         LET x == FieldsToString(v.keys, parts, Braced(w, with_key, "{"))
         IN  Braced(IF parts = <<>> THEN x ELSE [x EXCEPT !.pos = x.pos - 2],
                    with_key, "}")

(* value_to_string of each value, from with_key and a buffer to a buffer.     *)
Writer(v, parts) ==
  [x \in BOOLEAN \X LogBuffers |-> Stringify(v, parts, x[1], x[2])]
ValueToString[v \in Loggable] ==
  Writer(v, [i \in DOMAIN Inside(v) |-> ValueToString[Inside(v)[i]]])

-----------------------------------------------------------------------------
(* The buffer before the first argument and behind each of them. *)
ToStringArgs(args, w) ==
  InTurn([i \in DOMAIN args |->
            [x \in LogBuffers |-> ValueToString[args[i]][<<FALSE, x>>]]], w)

NoStatement == [args |-> <<>>, len |-> 0]
LogInit == statement = NoStatement /\ views = <<>>

(* INFO_LOG: the views are read when all of them are made.  One statement is  *)
(* enough, each has a buffer of its own.                                      *)
Log(s) ==
  LET after == ToStringArgs(s.args, EmptyBuffer(s.len))
      buffer == after[Len(s.args)].buffer
  IN  /\ statement = NoStatement
      /\ statement' = s
      /\ views' = [i \in DOMAIN s.args |->
                     SubSeq(buffer, after[i - 1].pos + 1, after[i].pos)]

LogNext == \E s \in Statements : Log(s)
LogSpec == LogInit /\ [][LogNext]_logVars

-----------------------------------------------------------------------------
(* What a value is shown as, by its structure. *)
Joined(texts) == Concatenation([i \in DOMAIN texts |->
                   IF i < Len(texts) THEN texts[i] \o Comma ELSE texts[i]])
InBraces(text, with_key) == IF with_key THEN <<"{">> \o text \o <<"}">> ELSE text

Show(v, parts, with_key) ==
  CASE v.kind = "plain" -> v.text
    [] v.kind = "custom" -> InBraces(v.text, with_key)
    [] v.kind = "pointer" -> v.address \o parts[1][with_key]
    [] v.kind = "range" ->
         LET shown == Joined([i \in 1..Least(Len(parts), MAX_PRINT_SIZE) |->
                                parts[i][TRUE]])
             rest == IF Len(parts) > MAX_PRINT_SIZE
                     THEN More(Len(parts) - MAX_PRINT_SIZE) ELSE <<>>
         IN  InBraces(<<"[">> \o shown \o rest \o <<"]">>, with_key)
    [] v.kind = "struct" ->
         InBraces(Joined([i \in DOMAIN parts |->
                    v.keys[i] \o <<":">> \o parts[i][TRUE]]), with_key)
TextOf(v, parts) == [with_key \in BOOLEAN |-> Show(v, parts, with_key)]
Shown[v \in Loggable] ==
  TextOf(v, [i \in DOMAIN Inside(v) |-> Shown[Inside(v)[i]]])

AnyStruct(v, parts) == v.kind = "struct" \/ \E i \in DOMAIN parts : parts[i]
HasStruct[v \in Loggable] ==
  AnyStruct(v, [i \in DOMAIN Inside(v) |-> HasStruct[Inside(v)[i]]])

(* Every view shows its argument, whatever comes before it in the buffer.     *)
(* The text is cut at the end of the buffer, except that of a struct: for     *)
(* those there has to be room for all of it and one more ", ".                *)
ViewsShowArguments ==
  LET texts == [i \in DOMAIN statement.args |-> Shown[statement.args[i]][FALSE]]
      line  == Concatenation(texts)
      room  == Len(line) + 2 <= statement.len
  IN  /\ room => views = texts
      /\ (\A i \in DOMAIN texts : ~HasStruct[statement.args[i]]) =>
           Concatenation(views) = SubSeq(line, 1, Least(Len(line), statement.len))
=============================================================================
