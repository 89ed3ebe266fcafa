------------------------------- MODULE StateText -------------------------------
(***************************************************************************)
(* Values of persistent variables as text: the functions of the table      *)
(* persistent_actions, which write a value to the state file and read it   *)
(* back from a line of it.                                                 *)
(*                                                                         *)
(* A text is a sequence of tokens.  A number is one token, and so is the   *)
(* name of a variable; in strings a token is a character.                  *)
(***************************************************************************)
EXTENDS Naturals, Sequences, SequencesExt

CONSTANTS
  Tokens,       \* What texts are made of
  Printed,      \* What fprintf() makes of a number: a function, value to text
  Scanned,      \* What strtol(), strtof() and strtod() make of a text: a function, text to
                \* value, of the texts that set no errno
  Octal,        \* The characters that are escaped, each with its octal digits
  Decoded,      \* The characters that the sequences of three octal digits stand for
  Nul,          \* The character that ends a string, which a text has as \000 only
  StringLength  \* EPICS_STRING_LENGTH, 40 in the code

Types == {"number", "bool", "string"}
Digits == {"0", "1", "2", "3", "4", "5", "6", "7"}

Quote == "\""
Space == " "

\* What means something to the parser, wherever it is outside of a string.
Special == {Space, "\\", "\n", "=", Quote, "#"}

\* No number is printed as, or read from, one of the special tokens; the digits of a
\* character stand for it.
ASSUME StateTextAssumption ==
  /\ StringLength \in Nat
  /\ Special \union Digits \union {"Y", "N", Nul} \union DOMAIN Octal \subseteq Tokens
  /\ Printed \in [DOMAIN Printed -> Tokens \ Special]
  /\ Scanned \in [DOMAIN Scanned -> DOMAIN Printed] /\ DOMAIN Scanned \intersect Special = {}
  /\ \A c \in DOMAIN Octal : Octal[c] \in Seq(Digits) /\ Len(Octal[c]) = 3
  /\ Decoded \in [[1 .. 3 -> Digits] -> Tokens]
  /\ \A c \in DOMAIN Octal : Decoded[Octal[c]] = c
  /\ {Quote, "\\", "\n"} \subseteq DOMAIN Octal

Escaped == DOMAIN Octal
Unprintable == Escaped \ {Quote, "\\"}

\* Seeded fault: the quote is not escaped.
EscapeUnquoted(c) == IF c \in Escaped \ {Quote} THEN <<"\\">> \o Octal[c] ELSE <<c>>

Escape(c) == IF c \in Escaped THEN <<"\\">> \o Octal[c] ELSE <<c>>

\* A string is written up to its end or to the end of its buffer; numbers and booleans
\* are one token.  Two floats that agree in eight digits have the same text.
WriteValue(type, value) ==
  CASE type = "number" -> <<Printed[value]>>
    [] type = "bool"   -> <<value>>
    [] type = "string" ->
         <<Quote>> \o FlattenSeq([i \in DOMAIN value |-> Escape(value[i])]) \o <<Quote>>

\* The values that a variable can have: a string ends within its buffer.
ValuesOf(type) ==
  CASE type = "number" -> DOMAIN Printed
    [] type = "bool"   -> {"Y", "N"}
    [] type = "string" -> {s \in Seq(Tokens \ {Nul}) : Len(s) <= StringLength}

-------------------------------------------------------------------------------
(* Readers.  Each gives its result: the value, and the text that is left.  *)

Rejected == [ok |-> FALSE, value |-> <<>>, rest |-> <<>>]
Taken(value, rest) == [ok |-> TRUE, value |-> value, rest |-> rest]

\* A conversion that sets errno is an error, whatever it has converted: strtod() does so
\* for a denormal number.
ReadNumber(text) ==
  IF text # <<>> /\ Head(text) \in DOMAIN Scanned
  THEN Taken(Scanned[Head(text)], Tail(text))
  ELSE Rejected

\* strchr() finds the end of the text in "YN10" as well: nothing is then taken as N.  What
\* comes after it is the second 0 that fgets() and read_line() have put there.
ReadBool(text) ==
  IF text = <<>>
  THEN Taken("N", <<>>)
  ELSE IF Head(text) \in {"Y", "N", "1", "0"}
       THEN Taken(IF Head(text) \in {"Y", "1"} THEN "Y" ELSE "N", Tail(text))
       ELSE Rejected

\* Any three octal digits.
ParseOctal(text) ==
  IF Len(text) >= 3 /\ SubSeq(text, 1, 3) \in DOMAIN Decoded
  THEN Taken(Decoded[SubSeq(text, 1, 3)], SubSeq(text, 4, Len(text)))
  ELSE Rejected

\* One character of a string, escaped or not.
ReadChar(text) ==
  IF text = <<>> \/ Head(text) \in Unprintable
  THEN Rejected
  ELSE IF Head(text) = "\\" THEN ParseOctal(Tail(text)) ELSE Taken(Head(text), Tail(text))

AtQuote(s) == s.rest # <<>> /\ Head(s.rest) = Quote

\* A round of the loop of read_string().
NextChar(s) ==
  LET c == ReadChar(s.rest)
  IN [c EXCEPT !.value = Append(s.value, c.value)]

\* A string up to its end.
Terminated(s) ==
  LET end == SelectInSeq(s, LAMBDA c : c = Nul)
  IN IF end = 0 THEN s ELSE SubSeq(s, 1, end - 1)

\* The loop after n rounds; it ends with the closing quote, with an error, or with a full
\* buffer, after which the quote is still to come.
ReadString(text) ==
  LET loop[n \in 0 .. StringLength] ==
        IF n = 0
        THEN IF text # <<>> /\ Head(text) = Quote THEN Taken(<<>>, Tail(text)) ELSE Rejected
        ELSE IF ~loop[n - 1].ok \/ AtQuote(loop[n - 1]) THEN loop[n - 1] ELSE NextChar(loop[n - 1])
      end == loop[StringLength]
  IN IF end.ok /\ AtQuote(end) THEN Taken(Terminated(end.value), Tail(end.rest)) ELSE Rejected

ReadValue(type, text) ==
  CASE type = "number" -> ReadNumber(text)
    [] type = "bool"   -> ReadBool(text)
    [] type = "string" -> ReadString(text)

\* What write() prints of the value is accepted by read(), and what comes back.
Readable(type, value) ==
  CASE type = "number" -> Printed[value] \in DOMAIN Scanned
    [] type = "bool"   -> value \in {"Y", "N"}
    [] type = "string" -> Len(value) <= StringLength

ReadBack(type, value) == IF type = "number" THEN Scanned[Printed[value]] ELSE value
===============================================================================
