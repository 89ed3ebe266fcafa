----------------------------- MODULE MCStateFile -----------------------------
(* The instances of StateFile for TLC: a waveform of numbers that needs         *)
(* continuation lines, one of strings with every character that is escaped or   *)
(* means something to the parser, and a boolean.                                *)
EXTENDS StateFile

MCTokens == {" ", "\\", "\n", "=", "\"", "#", "?", "Y", "N", "0", "1", "2", "3", "4", "5", "6", "7",
             "tiny", "a", "b", "s", "x", "BEL", "NUL"}

MCOctal == [c \in {"\"", "\\", "\n", "BEL"} |->
              CASE c = "\"" -> <<"0", "4", "2">>
                [] c = "\\" -> <<"1", "3", "4">>
                [] c = "\n" -> <<"0", "1", "2">>
                [] c = "BEL" -> <<"0", "0", "7">>]

MCDecoded == [o \in [1 .. 3 -> Digits] |->
                IF \E c \in DOMAIN MCOctal : MCOctal[c] = o
                THEN CHOOSE c \in DOMAIN MCOctal : MCOctal[c] = o
                ELSE IF o = <<"0", "0", "0">> THEN "NUL" ELSE "?"]

\* Two numbers have the same text; one has a text that is read with an error.
MCPrinted == [v \in {"1", "7", "7+", "tiny"} |-> IF v = "7+" THEN "7" ELSE v]
MCScanned == [t \in {"1", "7"} |-> t]

Variable(type, max) == [type |-> type, max |-> max]

MCFirst == [k \in {"a", "b", "s"} |->
              CASE k = "a" -> Variable("number", 3)
                [] k = "b" -> Variable("bool", 1)
                [] k = "s" -> Variable("string", 2)]

Table(a, b, s) == [k \in {"a", "b", "s"} |-> CASE k = "a" -> a [] k = "b" -> b [] k = "s" -> s]

MCTables ==
  { Table(<<"1", "7+", "1">>, <<"Y">>, << <<>> >>),
    Table(<<"7">>, <<>>, << <<"x", "\"">>, <<"=">> >>),
    Table(<<"7", "tiny">>, <<>>, << <<"BEL">> >>),
    Table(<<>>, <<"N">>, << <<"\\", "\n">>, <<"#">> >>) }

MCInserts == {"\n", "\\", " ", "0", "\"", "="}

MCDeclarations ==
  { MCFirst,
    [MCFirst EXCEPT !["a"].max = 1],
    [MCFirst EXCEPT !["a"].type = "string"],
    [k \in {"b", "s"} |-> MCFirst[k]],
    [k \in {"a", "b"} |-> MCFirst[k]] }
===============================================================================
