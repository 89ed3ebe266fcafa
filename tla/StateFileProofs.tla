---------------------------- MODULE StateFileProofs ----------------------------
(***************************************************************************)
(* A load brings back what a save has written, next to whatever an editor  *)
(* has broken, and without an error if there is no reason for one.         *)
(*                                                                         *)
(* The proof goes from the tokens to the file.  What write() prints of a   *)
(* value is read back by read() (ReadWritten); what write_lines() prints   *)
(* of the values that are left is again one line and the lines that        *)
(* continue it (LineOf), which fill_line_buffer() follows (FillWritten);   *)
(* a file is paragraphs, and the parser is always at one of five places    *)
(* of one of them (Phases).                                                *)
(***************************************************************************)
EXTENDS StateFile, SequenceTheorems, FiniteSetTheorems, TLAPS

\* Every set of natural numbers that is not empty has a least element.
LEMMA LeastNat ==
  ASSUME NEW T \in SUBSET Nat, T # {}
  PROVE  \E n \in T : \A m \in T : n <= m
<1> DEFINE R == OpToRel(<, Nat)
<1>1. IsWellFoundedOn(R, Nat)
  BY NatLessThanWellFounded
<1>2. \A m, n \in Nat : m < n => <<m, n>> \in R
  BY DEF OpToRel
<1> HIDE DEF R
<1>3. PICK n \in T : \A m \in T : <<m, n>> \notin R
  BY <1>1, WFMin
<1>4. \A m \in T : n <= m
  <2> SUFFICES ASSUME NEW m \in T PROVE n <= m
    OBVIOUS
  <2>1. ~ (m < n)
    BY <1>2, <1>3
  <2> QED
    BY <2>1
<1> QED
  BY <1>4

\* A set with 0, and with the successor of each of its elements up to n, has all of them.
LEMMA UpTo ==
  ASSUME NEW n \in Nat, NEW S, 0 \in S, \A i \in 0 .. n - 1 : i \in S => i + 1 \in S
  PROVE  \A i \in 0 .. n : i \in S
<1> DEFINE T == {i \in 0 .. n : i \notin S}
<1> SUFFICES ASSUME T # {} PROVE FALSE
  OBVIOUS
<1>1. PICK i \in T : \A j \in T : i <= j
  <2>1. T \in SUBSET Nat
    OBVIOUS
  <2> HIDE DEF T
  <2> QED
    BY <2>1, LeastNat
<1>2. i # 0 /\ i - 1 \in 0 .. n - 1 /\ i - 1 \notin T
  BY <1>1
<1> QED
  BY <1>1, <1>2

-------------------------------------------------------------------------------
(* Texts and their lines.                                                  *)

Text == Seq(Tokens)

NoNewline(text) == \A i \in DOMAIN text : text[i] # "\n"

\* The first line of the text, and what comes after its end.
Line(l, w, text) ==
  l \in Text /\ w \in Text /\ NoNewline(l) /\ text = l \o <<"\n">> \o w

\* The constants of the code are tokens.
LEMMA TokenFacts ==
  /\ Special \subseteq Tokens /\ Digits \subseteq Tokens /\ DOMAIN Octal \subseteq Tokens
  /\ "Y" \in Tokens /\ "N" \in Tokens /\ "\n" \in Tokens
  /\ "\\" \in Tokens /\ Space \in Tokens /\ Quote \in Tokens /\ "=" \in Tokens /\ "#" \in Tokens
BY StateTextAssumption DEF Special

\* The quote is none of the other tokens that the code names.
LEMMA QuoteFacts ==
  /\ Quote # "\\" /\ Quote # "\n" /\ Quote # Space /\ Quote # "=" /\ Quote # "#"
  /\ Quote # "Y" /\ Quote # "N" /\ Quote # "1" /\ Quote # "0"
  /\ Quote \notin Digits
  /\ Space # "\\" /\ Space # "\n" /\ Space # "=" /\ Space # "#" /\ Space # "Y" /\ Space # "N"
BY Zenon DEF Quote, Space, Digits

\* A sequence of one element.
LEMMA OneElement ==
  ASSUME NEW T, NEW x \in T
  PROVE  <<x>> \in Seq(T) /\ Len(<<x>>) = 1 /\ <<x>>[1] = x
OBVIOUS

\* The elements of two sequences with one more between them, one by one.
LEMMA ThreeParts ==
  ASSUME NEW T, NEW l \in Seq(T), NEW x \in T, NEW w \in Seq(T)
  PROVE  /\ l \o <<x>> \o w \in Seq(T)
         /\ Len(l \o <<x>> \o w) = Len(l) + 1 + Len(w)
         /\ \A i \in 1 .. Len(l) : (l \o <<x>> \o w)[i] = l[i]
         /\ (l \o <<x>> \o w)[Len(l) + 1] = x
         /\ \A i \in 1 .. Len(w) : (l \o <<x>> \o w)[Len(l) + 1 + i] = w[i]
<1> DEFINE s == l \o <<x>>
<1>1. /\ s \in Seq(T) /\ Len(s) = Len(l) + 1
      /\ \A i \in 1 .. Len(l) : s[i] = l[i]
      /\ s[Len(l) + 1] = x
  OBVIOUS
<1> HIDE DEF s
<1>2. /\ s \o w \in Seq(T) /\ Len(s \o w) = Len(s) + Len(w)
      /\ \A i \in 1 .. Len(s) : (s \o w)[i] = s[i]
      /\ \A i \in 1 .. Len(w) : (s \o w)[Len(s) + i] = w[i]
  BY <1>1
<1>3. /\ \A i \in 1 .. Len(l) : (s \o w)[i] = l[i]
      /\ (s \o w)[Len(l) + 1] = x
  BY <1>1, <1>2
<1> QED
  BY <1>1, <1>2, <1>3 DEF s

\* An element before a text.
LEMMA OneBefore ==
  ASSUME NEW x \in Tokens, NEW w \in Text
  PROVE  /\ <<x>> \o w \in Text /\ <<x>> \o w # <<>> /\ Len(<<x>> \o w) = Len(w) + 1
         /\ Head(<<x>> \o w) = x /\ Tail(<<x>> \o w) = w /\ (<<x>> \o w)[1] = x
         /\ <<x>> \in Text
<1> DEFINE e == <<x>>  s == e \o w
<1>0. w \in Seq(Tokens) /\ Len(w) \in Nat
  BY DEF Text
<1>1. e \in Seq(Tokens) /\ Len(e) = 1 /\ e[1] = x
  BY OneElement
<1> HIDE DEF e
<1>2. /\ s \in Seq(Tokens) /\ Len(s) = Len(e) + Len(w)
      /\ \A i \in 1 .. Len(e) : s[i] = e[i]
      /\ \A i \in 1 .. Len(w) : s[Len(e) + i] = w[i]
  <2>1. e \in Seq(Tokens)
    BY <1>1
  <2> QED
    BY <1>0, <2>1
<1> HIDE DEF s
<1>3. s # <<>> /\ Head(s) = x /\ s[1] = x
  BY <1>0, <1>1, <1>2
<1>4. Tail(s) \in Seq(Tokens) /\ Len(Tail(s)) = Len(w) /\ \A i \in 1 .. Len(w) : Tail(s)[i] = s[i + 1]
  BY <1>0, <1>1, <1>2, <1>3, HeadTailProperties
<1> DEFINE t == Tail(s)
<1>5. \A i \in 1 .. Len(w) : t[i] = w[i]
  <2>1. \A i \in 1 .. Len(w) : Len(e) + i = i + 1
    BY <1>0, <1>1
  <2> QED
    BY <1>2, <1>4, <2>1
<1>6. t \in Seq(Tokens) /\ Len(t) = Len(w)
  BY <1>4
<1> HIDE DEF t
<1>7. t = w
  BY <1>0, <1>5, <1>6
<1>8. Len(s) = Len(w) + 1
  BY <1>0, <1>1, <1>2
<1> QED
  BY <1>1, <1>2, <1>3, <1>7, <1>8 DEF s, e, t, Text

\* Texts are joined in any order,
LEMMA TextAssociative ==
  ASSUME NEW a \in Text, NEW w \in Text, NEW m \in Text
  PROVE  (a \o w) \o m = a \o (w \o m)
BY ConcatAssociative DEF Text

\* and joined texts are a text.
LEMMA TextConcat ==
  ASSUME NEW a \in Text, NEW b \in Text
  PROVE  a \o b \in Text
BY DEF Text

\* The same, of one token.
LEMMA OneBeforeMore ==
  ASSUME NEW x \in Tokens, NEW w \in Text, NEW m \in Text
  PROVE  (<<x>> \o w) \o m = <<x>> \o (w \o m)
<1> DEFINE e == <<x>>
<1>1. e \in Text
  BY OneBefore
<1> HIDE DEF e
<1>2. (e \o w) \o m = e \o (w \o m)
  BY <1>1, TextAssociative
<1> QED
  BY <1>2 DEF e

\* The two parts of a text.
LEMMA TwoParts ==
  ASSUME NEW a \in Text, NEW b \in Text
  PROVE  /\ a \o b \in Text /\ Len(a \o b) = Len(a) + Len(b)
         /\ \A i \in 1 .. Len(a) : (a \o b)[i] = a[i]
         /\ \A i \in 1 .. Len(b) : (a \o b)[Len(a) + i] = b[i]
         /\ SubSeq(a \o b, 1, Len(a)) = a
         /\ SubSeq(a \o b, Len(a) + 1, Len(a \o b)) = b
<1> DEFINE s == a \o b  n == Len(a)
<1>1. /\ s \in Seq(Tokens) /\ Len(s) = n + Len(b) /\ n \in Nat /\ Len(b) \in Nat
      /\ a \in Seq(Tokens) /\ b \in Seq(Tokens)
      /\ \A i \in 1 .. n : s[i] = a[i]
  BY DEF Text
<1>2. \A i \in 1 .. Len(b) : s[n + i] = b[i]
  BY DEF Text
<1> HIDE DEF s
<1> DEFINE u == SubSeq(s, 1, n)  v == SubSeq(s, n + 1, Len(s))
<1>3. u = a
  <2>1. u \in Seq(Tokens) /\ Len(u) = n /\ \A i \in 1 .. n : u[i] = s[i]
    BY <1>1
  <2> HIDE DEF u
  <2> QED
    BY <1>1, <2>1
<1>4. v = b
  <2>1. v \in Seq(Tokens) /\ Len(v) = Len(b) /\ \A i \in 1 .. Len(b) : v[i] = s[n + i]
    BY <1>1
  <2> HIDE DEF v, n
  <2>2. \A i \in 1 .. Len(b) : v[i] = b[i]
    BY <1>2, <2>1
  <2> QED
    BY <1>1, <2>1, <2>2
<1> QED
  BY <1>1, <1>2, <1>3, <1>4 DEF s, Text

\* What stands between values.
LEMMA Spaces ==
  /\ <<>> \in Text /\ <<Space>> \in Text /\ <<"\n">> \in Text
  /\ <<Space, "\\">> \in Text /\ <<Space, "\\", "\n", Space>> \in Text
  /\ NoNewline(<<>>) /\ NoNewline(<<Space, "\\">>)
<1>1. Space \in Tokens /\ "\\" \in Tokens /\ "\n" \in Tokens
  BY TokenFacts
<1>2. \A x, y, z \in Tokens : /\ <<x>> \in Seq(Tokens) /\ <<x, y>> \in Seq(Tokens)
                              /\ <<x, y, z, x>> \in Seq(Tokens)
  OBVIOUS
<1>3. <<>> \in Seq(Tokens)
  OBVIOUS
<1>4. NoNewline(<<>>)
  <2>1. DOMAIN <<>> = {}
    OBVIOUS
  <2> QED
    BY <2>1 DEF NoNewline
<1>5. NoNewline(<<Space, "\\">>)
  <2> DEFINE a == <<Space, "\\">>
  <2>1. DOMAIN a = 1 .. 2 /\ a[1] = Space /\ a[2] = "\\"
    OBVIOUS
  <2> HIDE DEF a
  <2>2. ASSUME NEW i \in DOMAIN a PROVE a[i] # "\n"
    <3>1. \A j \in 1 .. 2 : j = 1 \/ j = 2
      OBVIOUS
    <3>2. i = 1 \/ i = 2
      BY <2>1, <3>1
    <3> QED
      BY <2>1, <3>2, QuoteFacts
  <2> QED
    BY <2>2 DEF NoNewline, a
<1> QED
  BY <1>1, <1>2, <1>3, <1>4, <1>5, Zenon DEF Text

\* The tokens of a line, one by one.
LEMMA LineTokens ==
  ASSUME NEW l, NEW w, NEW text, Line(l, w, text)
  PROVE  /\ text \in Text
         /\ Len(text) = Len(l) + 1 + Len(w)
         /\ \A i \in 1 .. Len(l) : text[i] = l[i] /\ text[i] # "\n"
         /\ text[Len(l) + 1] = "\n"
         /\ \A i \in 1 .. Len(w) : text[Len(l) + 1 + i] = w[i]
<1>1. l \in Seq(Tokens) /\ w \in Seq(Tokens) /\ "\n" \in Tokens
  BY TokenFacts DEF Line, Text
<1>2. text = l \o <<"\n">> \o w /\ \A i \in 1 .. Len(l) : l[i] # "\n"
  BY <1>1 DEF Line, NoNewline
<1> QED
  BY <1>1, <1>2, ThreeParts DEF Text

\* They say where the line ends.
LEMMA LineIs ==
  ASSUME NEW l \in Text, NEW w \in Text, NEW text \in Text,
         Len(text) = Len(l) + 1 + Len(w),
         \A i \in 1 .. Len(l) : text[i] = l[i] /\ l[i] # "\n",
         text[Len(l) + 1] = "\n",
         \A i \in 1 .. Len(w) : text[Len(l) + 1 + i] = w[i]
  PROVE  Line(l, w, text)
<1> DEFINE s == l \o <<"\n">> \o w
<1>1. /\ s \in Text /\ Len(s) = Len(l) + 1 + Len(w)
      /\ \A j \in 1 .. Len(l) : s[j] = l[j]
      /\ s[Len(l) + 1] = "\n"
      /\ \A j \in 1 .. Len(w) : s[Len(l) + 1 + j] = w[j]
  <2>1. l \in Seq(Tokens) /\ w \in Seq(Tokens) /\ "\n" \in Tokens
    BY TokenFacts DEF Text
  <2> QED
    BY <2>1, ThreeParts DEF Text
<1> HIDE DEF s
<1>2. Len(l) \in Nat /\ Len(w) \in Nat
  BY DEF Text
<1>3. ASSUME NEW j \in 1 .. Len(text) PROVE text[j] = s[j]
  <2>1. CASE j <= Len(l)
    BY <1>1, <1>2, <2>1
  <2>2. CASE j = Len(l) + 1
    BY <1>1, <2>2
  <2>3. CASE j > Len(l) + 1
    <3>1. j - (Len(l) + 1) \in 1 .. Len(w) /\ j = Len(l) + 1 + (j - (Len(l) + 1))
      BY <1>2, <2>3
    <3> QED
      BY <1>1, <3>1
  <2> QED
    BY <1>2, <2>1, <2>2, <2>3
<1>4. text = s
  BY <1>1, <1>3, SeqEqual DEF Text
<1>5. NoNewline(l)
  BY DEF NoNewline, Text
<1> QED
  BY <1>4, <1>5 DEF Line, s

\* A text has one first line,
LEMMA LineUnique ==
  ASSUME NEW l, NEW w, NEW m, NEW v, NEW text, Line(l, w, text), Line(m, v, text)
  PROVE  l = m /\ w = v
<1>1. l \in Text /\ m \in Text /\ w \in Text /\ v \in Text
  BY DEF Line
<1>2. Len(l) = Len(m)
  <2>1. Len(l) \in Nat /\ Len(m) \in Nat
    BY <1>1 DEF Text
  <2>2. text[Len(l) + 1] = "\n" /\ \A i \in 1 .. Len(l) : text[i] # "\n"
    BY LineTokens
  <2>3. text[Len(m) + 1] = "\n" /\ \A i \in 1 .. Len(m) : text[i] # "\n"
    BY LineTokens
  <2> QED
    BY <2>1, <2>2, <2>3
<1>3. Len(w) = Len(v)
  BY <1>1, <1>2, LineTokens DEF Text
<1>4. \A i \in 1 .. Len(l) : l[i] = m[i]
  BY <1>2, LineTokens
<1>5. \A i \in 1 .. Len(w) : w[i] = v[i]
  <2>1. \A i \in 1 .. Len(w) : text[Len(l) + 1 + i] = w[i]
    BY LineTokens
  <2>2. \A i \in 1 .. Len(v) : text[Len(m) + 1 + i] = v[i]
    BY LineTokens
  <2> QED
    BY <1>2, <1>3, <2>1, <2>2
<1>6. l = m
  BY <1>1, <1>2, <1>4, SeqEqual DEF Text
<1> QED
  BY <1>1, <1>3, <1>5, <1>6, SeqEqual DEF Text

\* if it has a newline.
LEMMA LineExists ==
  ASSUME NEW text \in Text, "\n" \in Range(text)
  PROVE  \E l, w : Line(l, w, text)
<1> DEFINE Ends == {i \in 1 .. Len(text) : text[i] = "\n"}
<1>1. Ends \in SUBSET Nat /\ Ends # {}
  BY DEF Range, Text
<1>2. PICK i \in Ends : \A j \in Ends : i <= j
  BY <1>1, LeastNat
<1> DEFINE l == SubSeq(text, 1, i - 1)  w == SubSeq(text, i + 1, Len(text))
<1>3. /\ l \in Text /\ Len(l) = i - 1 /\ \A j \in 1 .. i - 1 : l[j] = text[j]
      /\ w \in Text /\ Len(w) = Len(text) - i /\ \A j \in 1 .. Len(w) : w[j] = text[i + j]
  BY DEF Text
<1> HIDE DEF l, w
<1>4. /\ Len(text) = Len(l) + 1 + Len(w)
      /\ \A j \in 1 .. Len(l) : text[j] = l[j] /\ l[j] # "\n"
      /\ text[Len(l) + 1] = "\n"
      /\ \A j \in 1 .. Len(w) : text[Len(l) + 1 + j] = w[j]
  BY <1>2, <1>3 DEF Text
<1>5. Line(l, w, text)
  BY <1>3, <1>4, LineIs
<1> QED
  BY <1>5

\* What comes before its first newline can be taken off a text,
LEMMA LineWithout ==
  ASSUME NEW a \in Text, NoNewline(a), NEW text \in Text, NEW l, NEW w, Line(l, w, a \o text)
  PROVE  \E m \in Text : l = a \o m /\ Line(m, w, text)
<1>1. l \in Text /\ w \in Text /\ Len(a) \in Nat /\ Len(l) \in Nat /\ Len(w) \in Nat
  BY DEF Line, Text
<1> DEFINE t == a \o text
<1>2. /\ t \in Text /\ Len(t) = Len(a) + Len(text)
      /\ \A i \in 1 .. Len(a) : t[i] = a[i]
      /\ \A i \in 1 .. Len(text) : t[Len(a) + i] = text[i]
  BY DEF Text
<1> HIDE DEF t
<1>3. /\ Len(t) = Len(l) + 1 + Len(w)
      /\ \A i \in 1 .. Len(l) : t[i] = l[i] /\ t[i] # "\n"
      /\ t[Len(l) + 1] = "\n"
      /\ \A i \in 1 .. Len(w) : t[Len(l) + 1 + i] = w[i]
  <2>1. Line(l, w, t)
    BY DEF t
  <2> QED
    BY <2>1, LineTokens
<1>4. Len(a) <= Len(l)
  <2> SUFFICES ASSUME Len(l) + 1 \in 1 .. Len(a) PROVE FALSE
    BY <1>1
  <2>1. a[Len(l) + 1] = "\n"
    BY <1>2, <1>3
  <2> QED
    BY <2>1 DEF NoNewline, Text
<1> DEFINE m == SubSeq(l, Len(a) + 1, Len(l))
<1>5. /\ m \in Text /\ Len(m) = Len(l) - Len(a)
      /\ \A i \in 1 .. Len(m) : m[i] = l[Len(a) + i]
  BY <1>1, <1>4 DEF Text
<1> HIDE DEF m
<1>6. l = a \o m
  <2> DEFINE s == a \o m
  <2>1. /\ s \in Text /\ Len(s) = Len(a) + Len(m)
        /\ \A i \in 1 .. Len(a) : s[i] = a[i]
        /\ \A i \in 1 .. Len(m) : s[Len(a) + i] = m[i]
    BY <1>1, <1>5 DEF Text
  <2> HIDE DEF s
  <2>2. ASSUME NEW i \in 1 .. Len(l) PROVE l[i] = s[i]
    <3>1. CASE i <= Len(a)
      <4>1. i \in 1 .. Len(a)
        BY <1>1, <3>1
      <4> QED
        BY <1>2, <1>3, <2>1, <4>1
    <3>2. CASE i > Len(a)
      <4>1. i - Len(a) \in 1 .. Len(m) /\ i = Len(a) + (i - Len(a))
        BY <1>1, <1>5, <3>2
      <4>2. s[Len(a) + (i - Len(a))] = m[i - Len(a)] /\ m[i - Len(a)] = l[Len(a) + (i - Len(a))]
        BY <1>5, <2>1, <4>1
      <4> QED
        BY <4>1, <4>2
    <3> QED
      BY <1>1, <3>1, <3>2
  <2>3. Len(s) = Len(l)
    BY <1>1, <1>5, <2>1
  <2> QED
    BY <1>1, <2>1, <2>2, <2>3, SeqEqual DEF Text, s
<1>7. /\ text \in Text /\ Len(text) = Len(m) + 1 + Len(w)
      /\ \A i \in 1 .. Len(m) : text[i] = m[i] /\ m[i] # "\n"
      /\ text[Len(m) + 1] = "\n"
      /\ \A i \in 1 .. Len(w) : text[Len(m) + 1 + i] = w[i]
  <2>1. Len(text) \in Nat /\ Len(m) \in Nat /\ Len(l) = Len(a) + Len(m)
    BY <1>1, <1>5 DEF Text
  <2>2. Len(text) = Len(m) + 1 + Len(w)
    BY <1>1, <1>2, <1>3, <2>1
  <2>3. ASSUME NEW i \in 1 .. Len(m) PROVE text[i] = m[i] /\ m[i] # "\n"
    <3>1. Len(a) + i \in 1 .. Len(l) /\ i \in 1 .. Len(text)
      BY <1>1, <2>1, <2>2
    <3> QED
      BY <1>2, <1>3, <1>5, <3>1
  <2>4. text[Len(m) + 1] = "\n"
    <3>1. Len(m) + 1 \in 1 .. Len(text) /\ Len(a) + (Len(m) + 1) = Len(l) + 1
      BY <1>1, <2>1, <2>2
    <3> QED
      BY <1>2, <1>3, <3>1
  <2>5. ASSUME NEW i \in 1 .. Len(w) PROVE text[Len(m) + 1 + i] = w[i]
    <3>1. Len(m) + 1 + i \in 1 .. Len(text) /\ Len(a) + (Len(m) + 1 + i) = Len(l) + 1 + i
      BY <1>1, <2>1, <2>2
    <3> QED
      BY <1>2, <1>3, <3>1
  <2> QED
    BY <2>2, <2>3, <2>4, <2>5
<1>8. Line(m, w, text)
  BY <1>1, <1>5, <1>7, LineIs
<1> QED
  BY <1>5, <1>6, <1>8

\* and put before it;
LEMMA LineWith ==
  ASSUME NEW a \in Text, NoNewline(a), NEW text, NEW l, NEW w, Line(l, w, text)
  PROVE  Line(a \o l, w, a \o text)
<1>1. l \in Text /\ w \in Text
  BY DEF Line
<1>2. a \o l \in Text
  BY <1>1 DEF Text
<1>3. NoNewline(a \o l)
  BY <1>1 DEF NoNewline, Line, Text
<1>4. l \o <<"\n">> \in Text /\ <<"\n">> \in Text
  <2>1. <<"\n">> \in Text
    BY TokenFacts, OneElement DEF Text
  <2> QED
    BY <1>1, <2>1, ConcatProperties DEF Text
<1>5. a \o (l \o <<"\n">> \o w) = a \o (l \o <<"\n">>) \o w
  <2> DEFINE p == l \o <<"\n">>
  <2>1. p \in Text
    BY <1>4
  <2> HIDE DEF p
  <2>2. a \o (p \o w) = a \o p \o w
    BY <1>1, <2>1, ConcatAssociative DEF Text
  <2> QED
    BY <2>2 DEF p
<1>6. a \o (l \o <<"\n">>) = a \o l \o <<"\n">>
  BY <1>1, <1>4, ConcatAssociative DEF Text
<1> QED
  BY <1>1, <1>2, <1>3, <1>5, <1>6 DEF Line

\* and more may come after it.
LEMMA LineMore ==
  ASSUME NEW text, NEW l, NEW w, Line(l, w, text), NEW v \in Text
  PROVE  Line(l, w \o v, text \o v)
<1>1. l \in Text /\ w \in Text
  BY DEF Line
<1>3. <<"\n">> \in Text
  BY TokenFacts, OneElement DEF Text
<1>4. w \o v \in Text /\ l \o <<"\n">> \in Text
  BY <1>1, <1>3, ConcatProperties DEF Text
<1>2. l \o <<"\n">> \o w \o v = l \o <<"\n">> \o (w \o v)
  BY <1>1, <1>4, ConcatAssociative DEF Text
<1> QED
  BY <1>1, <1>2, <1>4 DEF Line
-------------------------------------------------------------------------------
(* Recursion, and FlattenSeq.                                              *)

\* f holds a, and then n times the value that the one before leads to.
Recursion(f, S, a, n, next) ==
  f \in [0 .. n -> S] /\ f[0] = a /\ \A i \in 0 .. n - 1 : f[i + 1] = next[i + 1][f[i]]

\* There is such a function.
LEMMA RecursionExists ==
  ASSUME NEW S, NEW a \in S, NEW n \in Nat, NEW next, next \in [1 .. n -> [S -> S]]
  PROVE  \E f : Recursion(f, S, a, n, next)
<1> DEFINE Upto(k, f) == f[0] = a /\ \A i \in 0 .. k - 1 : f[i + 1] = next[i + 1][f[i]]
           T == {k \in 0 .. n : \E f \in [0 .. k -> S] : Upto(k, f)}
<1>1. 0 \in T
  <2> DEFINE f == [i \in 0 .. 0 |-> a]
  <2>1. f \in [0 .. 0 -> S] /\ Upto(0, f)
    OBVIOUS
  <2> HIDE DEF f, Upto
  <2>2. 0 \in 0 .. n
    OBVIOUS
  <2> QED
    BY <2>1, <2>2
<1>2. ASSUME NEW k \in 0 .. n - 1, k \in T PROVE k + 1 \in T
  <2>1. PICK f \in [0 .. k -> S] : Upto(k, f)
    BY <1>2
  <2>2. f[k] \in S /\ k + 1 \in 1 .. n
    OBVIOUS
  <2>3. next[k + 1][f[k]] \in S
    BY <2>2
  <2> DEFINE h == [i \in 0 .. k + 1 |-> IF i <= k THEN f[i] ELSE next[k + 1][f[k]]]
  <2>4. h \in [0 .. k + 1 -> S]
    BY <2>3
  <2>5. h[0] = a
    BY <2>1
  <2>6. ASSUME NEW i \in 0 .. k PROVE h[i + 1] = next[i + 1][h[i]]
    <3>1. CASE i < k
      BY <2>1, <3>1
    <3>2. CASE i = k
      BY <3>2
    <3> QED
      BY <3>1, <3>2
  <2> HIDE DEF h
  <2>7. (k + 1) - 1 = k /\ k + 1 \in 0 .. n
    OBVIOUS
  <2>8. Upto(k + 1, h)
    BY <2>5, <2>6, <2>7
  <2> HIDE DEF Upto
  <2> QED
    BY <2>4, <2>7, <2>8
<1>3. n \in T
  <2> HIDE DEF T
  <2>1. \A k \in 0 .. n - 1 : k \in T => k + 1 \in T
    BY <1>2
  <2>2. \A k \in 0 .. n : k \in T
    BY <1>1, <2>1, UpTo
  <2> QED
    BY <2>2
<1> QED
  BY <1>3 DEF Recursion

\* How FlattenSeq joins some sequences, up to each of them.
LEMMA FlattenFunction ==
  ASSUME NEW T, NEW s \in Seq(Seq(T)), Len(s) # 0
  PROVE  \E g \in [1 .. Len(s) -> Seq(T)] :
           /\ g[1] = s[1] /\ FlattenSeq(s) = g[Len(s)]
           /\ \A i \in 1 .. Len(s) - 1 : g[i + 1] = g[i] \o s[i + 1]
<1> DEFINE n == Len(s)
<1>1. n \in Nat /\ 1 \in 1 .. n /\ \A i \in 1 .. n : s[i] \in Seq(T)
  OBVIOUS
<1>2. FlattenSeq(s) = LET c == CHOOSE h : h = [i \in 1 .. n |-> IF i = 1 THEN s[i] ELSE h[i - 1] \o s[i]]
                      IN  c[n]
  BY DEF FlattenSeq
<1> HIDE DEF n
<1> DEFINE next == [i \in 1 .. n |-> [x \in Seq(T) |-> x \o s[i]]]
<1>3. PICK f : Recursion(f, Seq(T), <<>>, n, next)
  <2>1. <<>> \in Seq(T)
    OBVIOUS
  <2>2. next \in [1 .. n -> [Seq(T) -> Seq(T)]]
    BY <1>1
  <2> HIDE DEF next
  <2> QED
    BY <1>1, <2>1, <2>2, RecursionExists
<1>4. f \in [0 .. n -> Seq(T)] /\ f[0] = <<>> /\ \A i \in 0 .. n - 1 : f[i + 1] = f[i] \o s[i + 1]
  <2>1. /\ f \in [0 .. n -> Seq(T)] /\ f[0] = <<>>
        /\ \A i \in 0 .. n - 1 : f[i + 1] = next[i + 1][f[i]]
    BY <1>3 DEF Recursion
  <2>2. ASSUME NEW i \in 0 .. n - 1 PROVE f[i + 1] = f[i] \o s[i + 1]
    <3>1. i \in 0 .. n /\ i + 1 \in 1 .. n
      BY <1>1
    <3>2. f[i] \in Seq(T)
      BY <2>1, <3>1
    <3> QED
      BY <2>1, <3>1, <3>2
  <2> QED
    BY <2>1, <2>2
<1> DEFINE g == [i \in 1 .. n |-> f[i]]
<1>5. g = [i \in 1 .. n |-> IF i = 1 THEN s[i] ELSE g[i - 1] \o s[i]]
  <2>1. ASSUME NEW i \in 1 .. n PROVE f[i] = IF i = 1 THEN s[i] ELSE g[i - 1] \o s[i]
    <3> DEFINE j == i - 1
    <3>1. j \in 0 .. n - 1 /\ j + 1 = i
      BY <1>1
    <3> HIDE DEF j
    <3>2. f[i] = f[j] \o s[i]
      BY <1>4, <3>1
    <3>3. CASE i = 1
      <4>1. j = 0
        BY <3>1, <3>3
      <4>2. \A x \in Seq(T) : <<>> \o x = x
        BY ConcatEmptySeq
      <4> QED
        BY <1>1, <1>4, <3>2, <3>3, <4>1, <4>2
    <3>4. CASE i # 1
      <4>1. j \in 1 .. n
        BY <1>1, <3>1, <3>4
      <4>2. g[j] = f[j]
        BY <4>1
      <4> QED
        BY <3>2, <3>4, <4>2 DEF j
    <3> QED
      BY <3>3, <3>4
  <2> QED
    BY <2>1
<1> HIDE DEF g
<1> DEFINE c == CHOOSE h : h = [i \in 1 .. n |-> IF i = 1 THEN s[i] ELSE h[i - 1] \o s[i]]
<1>6. c = [i \in 1 .. n |-> IF i = 1 THEN s[i] ELSE c[i - 1] \o s[i]]
  BY <1>5
<1>7. FlattenSeq(s) = c[n]
  BY <1>2
<1> HIDE DEF c
<1>8. c[1] = s[1] /\ \A i \in 1 .. n - 1 : c[i + 1] = c[i] \o s[i + 1]
  <2> DEFINE h == [i \in 1 .. n |-> IF i = 1 THEN s[i] ELSE c[i - 1] \o s[i]]
  <2>1. h[1] = s[1]
    BY <1>1
  <2>2. ASSUME NEW i \in 1 .. n - 1 PROVE h[i + 1] = c[i] \o s[i + 1]
    <3> DEFINE j == i + 1
    <3>1. j \in 1 .. n /\ j # 1 /\ j - 1 = i
      BY <1>1
    <3> HIDE DEF j
    <3>2. h[j] = c[j - 1] \o s[j]
      BY <3>1
    <3> QED
      BY <3>1, <3>2 DEF j
  <2>3. c = h
    BY <1>6
  <2> HIDE DEF h
  <2> QED
    BY <2>1, <2>2, <2>3
<1> DEFINE S == {i \in 0 .. n : i = 0 \/ c[i] \in Seq(T)}
<1>9. \A i \in 0 .. n : i \in S
  <2>1. 0 \in S
    BY <1>1
  <2>2. ASSUME NEW i \in 0 .. n - 1, i \in S PROVE i + 1 \in S
    <3>1. CASE i = 0
      BY <1>1, <1>8, <3>1
    <3>2. CASE i # 0
      <4>1. i \in 1 .. n - 1 /\ i + 1 \in 1 .. n /\ i + 1 \in 0 .. n
        BY <1>1, <3>2
      <4>2. c[i + 1] = c[i] \o s[i + 1]
        BY <1>1, <1>8, <4>1
      <4>4. c[i] \in Seq(T) /\ s[i + 1] \in Seq(T)
        BY <1>1, <2>2, <3>2, <4>1
      <4>3. c[i] \o s[i + 1] \in Seq(T)
        BY <4>4, ConcatProperties
      <4> QED
        BY <4>1, <4>2, <4>3
    <3> QED
      BY <3>1, <3>2
  <2> HIDE DEF S
  <2> QED
    BY <1>1, <2>1, <2>2, UpTo
<1>10. c \in [1 .. n -> Seq(T)]
  <2>1. ASSUME NEW i \in 1 .. n PROVE c[i] \in Seq(T)
    <3>1. i \in S /\ i # 0
      BY <1>1, <1>9
    <3> QED
      BY <3>1
  <2> DEFINE h == [i \in 1 .. n |-> IF i = 1 THEN s[i] ELSE c[i - 1] \o s[i]]
  <2>2. c = h /\ h = [i \in 1 .. n |-> h[i]]
    BY <1>6
  <2> HIDE DEF h
  <2> QED
    BY <2>1, <2>2
<1>11. \E h \in [1 .. n -> Seq(T)] :
         /\ h[1] = s[1] /\ FlattenSeq(s) = h[n]
         /\ \A i \in 1 .. n - 1 : h[i + 1] = h[i] \o s[i + 1]
  BY <1>7, <1>8, <1>10
<1> QED
  BY <1>11 DEF n

\* No sequence, one sequence, and one sequence more.
LEMMA FlattenNone == FlattenSeq(<<>>) = <<>>
BY DEF FlattenSeq

\* The texts of a sequence, joined, are a text.
LEMMA FlattenType ==
  ASSUME NEW T, NEW s \in Seq(Seq(T))
  PROVE  FlattenSeq(s) \in Seq(T)
<1>1. CASE Len(s) = 0
  <2>1. s = <<>> /\ <<>> \in Seq(T)
    BY <1>1
  <2> QED
    BY <2>1, FlattenNone
<1>2. CASE Len(s) # 0
  <2>1. PICK g \in [1 .. Len(s) -> Seq(T)] : FlattenSeq(s) = g[Len(s)]
    BY <1>2, FlattenFunction
  <2>2. Len(s) \in 1 .. Len(s)
    BY <1>2
  <2> QED
    BY <2>1, <2>2
<1> QED
  BY <1>1, <1>2

\* One text more comes after those that have been joined.
LEMMA FlattenAppend ==
  ASSUME NEW T, NEW s \in Seq(Seq(T)), NEW e \in Seq(T)
  PROVE  FlattenSeq(Append(s, e)) = FlattenSeq(s) \o e
<1> DEFINE a == Append(s, e)  n == Len(s)
<1>1. n \in Nat /\ a \in Seq(Seq(T)) /\ Len(a) = n + 1 /\ a[n + 1] = e
      /\ \A i \in 1 .. n : s[i] = a[i]
  OBVIOUS
<1> HIDE DEF a
<1>2. PICK h \in [1 .. n + 1 -> Seq(T)] :
        /\ h[1] = a[1] /\ FlattenSeq(a) = h[n + 1]
        /\ \A i \in 1 .. n : h[i + 1] = h[i] \o a[i + 1]
  <2>1. a \in Seq(Seq(T)) /\ Len(a) # 0
    BY <1>1
  <2>2. \E h \in [1 .. Len(a) -> Seq(T)] :
          /\ h[1] = a[1] /\ FlattenSeq(a) = h[Len(a)]
          /\ \A i \in 1 .. Len(a) - 1 : h[i + 1] = h[i] \o a[i + 1]
    BY <2>1, FlattenFunction
  <2>3. Len(a) = n + 1 /\ Len(a) - 1 = n
    BY <1>1
  <2> HIDE DEF n
  <2> QED
    BY <2>2, <2>3
<1>3. CASE n = 0
  <2>1. s = <<>> /\ <<>> \o e = e
    BY <1>3
  <2> QED
    BY <1>1, <1>2, <1>3, <2>1, FlattenNone DEF a
<1>4. CASE n # 0
  <2>1. PICK g \in [1 .. n -> Seq(T)] :
        /\ g[1] = s[1] /\ FlattenSeq(s) = g[n]
        /\ \A i \in 1 .. n - 1 : g[i + 1] = g[i] \o s[i + 1]
    BY <1>4, FlattenFunction
  <2> HIDE DEF n
  <2> DEFINE S == {i \in 0 .. n : i = 0 \/ g[i] = h[i]}
  <2>2. 0 \in S
    BY <1>1
  <2>3. ASSUME NEW i \in 0 .. n - 1, i \in S PROVE i + 1 \in S
    <3>1. CASE i = 0
      BY <1>1, <1>2, <2>1, <3>1
    <3>2. CASE i # 0
      <4>1. i \in 1 .. n - 1 /\ i \in 1 .. n /\ i + 1 \in 1 .. n
        BY <1>1, <3>2
      <4>2. g[i] = h[i] /\ s[i + 1] = a[i + 1]
        BY <1>1, <2>3, <3>2, <4>1
      <4>3. g[i + 1] = g[i] \o s[i + 1]
        BY <1>1, <2>1, <4>1
      <4>4. h[i + 1] = h[i] \o a[i + 1]
        BY <1>1, <1>2, <4>1
      <4>5. i + 1 \in 0 .. n
        BY <4>1
      <4> QED
        BY <4>2, <4>3, <4>4, <4>5
    <3> QED
      BY <3>1, <3>2
  <2>4. \A i \in 0 .. n : i \in S
    <3> HIDE DEF S
    <3> QED
      BY <1>1, <2>2, <2>3, UpTo
  <2>5. g[n] = h[n] /\ n \in 1 .. n
    BY <1>1, <1>4, <2>4
  <2>6. h[n + 1] = h[n] \o a[n + 1]
    BY <1>2, <2>5
  <2> QED
    BY <1>1, <1>2, <2>1, <2>5, <2>6 DEF a
<1> QED
  BY <1>3, <1>4

\* Appending to the second of two sequences.
LEMMA ConcatAppend ==
  ASSUME NEW T, NEW s \in Seq(T), NEW x \in Seq(T), NEW e \in T
  PROVE  s \o Append(x, e) = Append(s \o x, e) /\ s \o x \in Seq(T)
<1>1. /\ Append(x, e) = x \o <<e>> /\ Append(s \o x, e) = s \o x \o <<e>>
      /\ <<e>> \in Seq(T) /\ s \o x \in Seq(T)
  BY AppendIsConcat, ConcatProperties, OneElement
<1> QED
  BY <1>1, ConcatAssociative

\* One text, joined, is itself.
LEMMA FlattenOne ==
  ASSUME NEW T, NEW e \in Seq(T)
  PROVE  FlattenSeq(<<e>>) = e
<1>1. <<e>> = Append(<<>>, e) /\ <<>> \o e = e /\ <<>> \in Seq(Seq(T))
  OBVIOUS
<1> QED
  BY <1>1, FlattenAppend, FlattenNone

\* One more at the end of two sequences of sequences.
LEMMA FlattenMore ==
  ASSUME NEW T, NEW r \in Seq(Seq(T)), NEW x \in Seq(Seq(T)), NEW e \in Seq(T),
         FlattenSeq(r \o x) = FlattenSeq(r) \o FlattenSeq(x)
  PROVE  FlattenSeq(r \o Append(x, e)) = FlattenSeq(r) \o FlattenSeq(Append(x, e))
<1>1. r \o Append(x, e) = Append(r \o x, e) /\ r \o x \in Seq(Seq(T))
  BY ConcatAppend
<1>2. FlattenSeq(Append(r \o x, e)) = FlattenSeq(r \o x) \o e
  BY <1>1, FlattenAppend
<1>3. FlattenSeq(Append(x, e)) = FlattenSeq(x) \o e
  BY FlattenAppend
<1> DEFINE p == FlattenSeq(r)  q == FlattenSeq(x)
<1>4. p \in Seq(T) /\ q \in Seq(T)
  BY FlattenType
<1> HIDE DEF p, q
<1>5. p \o q \o e = p \o (q \o e)
  BY <1>4, ConcatAssociative, SMTT(30)
<1> QED
  BY <1>1, <1>2, <1>3, <1>5 DEF p, q

\* What comes first and what comes after it are joined separately,
LEMMA FlattenConcat ==
  ASSUME NEW T, NEW s \in Seq(Seq(T)), NEW t \in Seq(Seq(T))
  PROVE  FlattenSeq(s \o t) = FlattenSeq(s) \o FlattenSeq(t)
<1> DEFINE u(i) == SubSeq(t, 1, i)
           S == {i \in 0 .. Len(t) : FlattenSeq(s \o u(i)) = FlattenSeq(s) \o FlattenSeq(u(i))}
<1>1. FlattenSeq(s) \in Seq(T)
  BY FlattenType
<1>2. 0 \in S
  <2>1. u(0) = <<>> /\ s \o u(0) = s /\ FlattenSeq(s) \o <<>> = FlattenSeq(s)
    BY <1>1
  <2>2. 0 \in 0 .. Len(t)
    OBVIOUS
  <2> HIDE DEF u
  <2> QED
    BY <2>1, <2>2, FlattenNone
<1>3. ASSUME NEW i \in 0 .. Len(t) - 1, i \in S PROVE i + 1 \in S
  <2> DEFINE x == u(i)  e == t[i + 1]
  <2>1. /\ u(i + 1) = Append(x, e) /\ x \in Seq(Seq(T)) /\ e \in Seq(T)
    OBVIOUS
  <2>2. FlattenSeq(s \o x) = FlattenSeq(s) \o FlattenSeq(x)
    BY <1>3
  <2>3. i + 1 \in 0 .. Len(t)
    OBVIOUS
  <2> HIDE DEF u, x, e
  <2>4. FlattenSeq(s \o Append(x, e)) = FlattenSeq(s) \o FlattenSeq(Append(x, e))
    BY <2>1, <2>2, FlattenMore
  <2> QED
    BY <2>1, <2>3, <2>4
<1>4. Len(t) \in Nat /\ u(Len(t)) = t
  OBVIOUS
<1>5. Len(t) \in S
  <2>1. Len(t) \in 0 .. Len(t)
    BY <1>4
  <2> HIDE DEF S
  <2> QED
    BY <1>2, <1>3, <1>4, <2>1, UpTo
<1> QED
  BY <1>4, <1>5

\* so that the rest of some sequences can be split anywhere.
Rest(s, i) == FlattenSeq(SubSeq(s, i + 1, Len(s)))

\* What is left of the texts after i of them goes on after j of them.
LEMMA RestSplit ==
  ASSUME NEW T, NEW s \in Seq(Seq(T)), NEW i \in 0 .. Len(s), NEW j \in i .. Len(s)
  PROVE  /\ Rest(s, i) = FlattenSeq(SubSeq(s, i + 1, j)) \o Rest(s, j)
         /\ Rest(s, i) \in Seq(T) /\ Rest(s, j) \in Seq(T)
         /\ SubSeq(s, i + 1, j) \in Seq(Seq(T)) /\ FlattenSeq(SubSeq(s, i + 1, j)) \in Seq(T)
<1> DEFINE x == SubSeq(s, i + 1, j)  y == SubSeq(s, j + 1, Len(s))  z == SubSeq(s, i + 1, Len(s))
<1>1. x \in Seq(Seq(T)) /\ y \in Seq(Seq(T)) /\ z \in Seq(Seq(T))
  OBVIOUS
<1>2. x \o y = z
  <2> DEFINE m == i + 1  n == Len(s)
  <2>1. m \in 1 .. Len(s) + 1 /\ j \in m - 1 .. Len(s) /\ n \in j .. Len(s)
    OBVIOUS
  <2> HIDE DEF m, n
  <2>2. SubSeq(s, m, j) \o SubSeq(s, j + 1, n) = SubSeq(s, m, n)
    BY <2>1, ConcatAdjacentSubSeq, Zenon
  <2> QED
    BY <2>2 DEF m, n
<1> HIDE DEF x, y, z
<1> QED
  BY <1>1, <1>2, FlattenConcat, FlattenType DEF Rest, x, y, z

\* What is left begins with the next text.
LEMMA RestStep ==
  ASSUME NEW T, NEW s \in Seq(Seq(T)), NEW i \in 0 .. Len(s) - 1
  PROVE  Rest(s, i) = s[i + 1] \o Rest(s, i + 1)
<1>1. s[i + 1] \in Seq(T) /\ i + 1 \in i .. Len(s) /\ i \in 0 .. Len(s)
  OBVIOUS
<1>2. SubSeq(s, i + 1, i + 1) = <<s[i + 1]>>
  <2> DEFINE x == SubSeq(s, i + 1, i + 1)  y == <<s[i + 1]>>
  <2>1. x \in Seq(Seq(T)) /\ Len(x) = 1 /\ x[1] = s[i + 1]
    <3>1. i + 1 \in Int /\ \A j \in i + 1 .. i + 1 : s[j] \in Seq(T)
      BY <1>1
    <3> HIDE DEF x
    <3>2. /\ x \in Seq(Seq(T))
          /\ Len(x) = IF i + 1 <= i + 1 THEN (i + 1) - (i + 1) + 1 ELSE 0
          /\ \A j \in 1 .. (i + 1) - (i + 1) + 1 : x[j] = s[(i + 1) + j - 1]
      BY <3>1, SubSeqProperties DEF x
    <3> QED
      BY <3>1, <3>2
  <2>2. y \in Seq(Seq(T)) /\ Len(y) = 1 /\ y[1] = s[i + 1]
    BY <1>1, OneElement
  <2> HIDE DEF x, y
  <2>3. x = y
    BY <2>1, <2>2, SeqEqual
  <2> QED
    BY <2>3 DEF x, y
<1>3. FlattenSeq(<<s[i + 1]>>) = s[i + 1]
  BY <1>1, FlattenOne
<1>4. Rest(s, i) = FlattenSeq(SubSeq(s, i + 1, i + 1)) \o Rest(s, i + 1)
  BY <1>1, RestSplit
<1> QED
  BY <1>2, <1>3, <1>4

\* At first all of them are left, in the end none is.
LEMMA RestEnds ==
  ASSUME NEW T, NEW s \in Seq(Seq(T))
  PROVE  Rest(s, 0) = FlattenSeq(s) /\ Rest(s, Len(s)) = <<>>
<1>1. SubSeq(s, 1, Len(s)) = s /\ SubSeq(s, Len(s) + 1, Len(s)) = <<>> /\ 0 + 1 = 1
  OBVIOUS
<1>2. Rest(s, 0) = FlattenSeq(SubSeq(s, 0 + 1, Len(s)))
  BY DEF Rest
<1> QED
  BY <1>1, <1>2, FlattenNone DEF Rest
\* The rest ends at the last of some sequences, so that what holds of it is shown backwards.
LEMMA DownTo ==
  ASSUME NEW n \in Nat, NEW S, n \in S, \A i \in 0 .. n - 1 : i + 1 \in S => i \in S
  PROVE  \A i \in 0 .. n : i \in S
<1> DEFINE T == {i \in 0 .. n : n - i \in S}
<1>1. 0 \in T
  OBVIOUS
<1>2. ASSUME NEW i \in 0 .. n - 1, i \in T PROVE i + 1 \in T
  <2>1. n - (i + 1) \in 0 .. n - 1 /\ n - (i + 1) + 1 = n - i /\ i + 1 \in 0 .. n
    OBVIOUS
  <2> QED
    BY <1>2, <2>1
<1>3. \A i \in 0 .. n : i \in T
  <2> HIDE DEF T
  <2> QED
    BY <1>1, <1>2, UpTo
<1>4. ASSUME NEW i \in 0 .. n PROVE i \in S
  <2>1. n - i \in 0 .. n /\ n - (n - i) = i
    OBVIOUS
  <2> QED
    BY <1>3, <2>1
<1> QED
  BY <1>4

-------------------------------------------------------------------------------
(* Values as text.                                                         *)

\* A text without a newline, where a backslash begins the digits of a character.
Plain(text) ==
  /\ text \in Text /\ NoNewline(text)
  /\ \A i \in 1 .. Len(text) : text[i] = "\\" => i < Len(text) /\ text[i + 1] \in Digits

\* Two plain texts make one.
LEMMA PlainConcat ==
  ASSUME NEW a, NEW b, Plain(a), Plain(b)
  PROVE  Plain(a \o b)
<1>1. a \in Seq(Tokens) /\ b \in Seq(Tokens) /\ Len(a) \in Nat /\ Len(b) \in Nat
  BY DEF Plain, Text
<1> DEFINE c == a \o b
<1>2. /\ c \in Seq(Tokens) /\ Len(c) = Len(a) + Len(b)
      /\ \A i \in 1 .. Len(a) : c[i] = a[i]
      /\ \A i \in 1 .. Len(b) : c[Len(a) + i] = b[i]
  BY <1>1
<1> HIDE DEF c
<1>3. /\ \A i \in 1 .. Len(a) : a[i] # "\n" /\ (a[i] = "\\" => i < Len(a) /\ a[i + 1] \in Digits)
      /\ \A i \in 1 .. Len(b) : b[i] # "\n" /\ (b[i] = "\\" => i < Len(b) /\ b[i + 1] \in Digits)
  BY <1>1 DEF Plain, NoNewline
<1>4. ASSUME NEW i \in 1 .. Len(c)
      PROVE  c[i] # "\n" /\ (c[i] = "\\" => i < Len(c) /\ c[i + 1] \in Digits)
  <2>1. CASE i <= Len(a)
    <3>1. i \in 1 .. Len(a) /\ c[i] = a[i]
      BY <1>1, <1>2, <2>1
    <3>2. i < Len(a) => i + 1 \in 1 .. Len(a) /\ i < Len(c) /\ c[i + 1] = a[i + 1]
      BY <1>1, <1>2, <2>1
    <3> QED
      BY <1>3, <3>1, <3>2
  <2>2. CASE i > Len(a)
    <3> DEFINE j == i - Len(a)
    <3>1. j \in 1 .. Len(b) /\ i = Len(a) + j
      BY <1>1, <1>2, <2>2
    <3> HIDE DEF j
    <3>2. c[i] = b[j]
      BY <1>2, <3>1
    <3>3. j < Len(b) => j + 1 \in 1 .. Len(b) /\ i < Len(c) /\ i + 1 = Len(a) + (j + 1)
      BY <1>1, <1>2, <3>1
    <3>4. j < Len(b) => c[i + 1] = b[j + 1]
      BY <1>2, <3>3
    <3> QED
      BY <1>3, <3>1, <3>2, <3>3, <3>4
  <2> QED
    BY <1>1, <2>1, <2>2
<1>5. Plain(c)
  BY <1>2, <1>4 DEF Plain, NoNewline, Text
<1> QED
  BY <1>5 DEF c

\* A token that is neither a newline nor a backslash is a plain text.
LEMMA PlainOne ==
  ASSUME NEW c \in Tokens, c # "\n", c # "\\"
  PROVE  Plain(<<c>>) /\ Len(<<c>>) = 1 /\ <<c>>[1] = c
<1>1. <<c>> \in Seq(Tokens) /\ Len(<<c>>) = 1 /\ <<c>>[1] = c
  BY OneElement
<1> QED
  BY <1>1 DEF Plain, NoNewline, Text

\* What an escaped character looks like.
LEMMA EscapeFacts ==
  ASSUME NEW c \in Tokens
  PROVE  /\ Plain(Escape(c)) /\ Len(Escape(c)) \in 1 .. 4
         /\ Escape(c)[1] # Quote
<1>1. CASE c \in Escaped
  <2> DEFINE o == Octal[c]  e == Escape(c)
  <2>1. o \in Seq(Digits) /\ Len(o) = 3
    BY <1>1, StateTextAssumption DEF Escaped
  <2>2. e = <<"\\">> \o o
    BY <1>1 DEF Escape
  <2>3. \A i \in 1 .. 3 : o[i] \in Digits
    BY <2>1
  <2>4. \A d \in Digits : d \in Tokens /\ d # "\n" /\ d # "\\" /\ d # Quote
    BY TokenFacts, QuoteFacts DEF Digits
  <2>5. o \in Seq(Tokens) /\ "\\" \in Tokens
    BY <2>1, <2>4, TokenFacts, SeqMonotonic
  <2> HIDE DEF o, e
  <2>6. <<"\\">> \in Seq(Tokens) /\ Len(<<"\\">>) = 1 /\ <<"\\">>[1] = "\\"
    BY <2>5, OneElement
  <2>7. /\ e \in Seq(Tokens) /\ Len(e) = 4 /\ e[1] = "\\"
        /\ e[2] = o[1] /\ e[3] = o[2] /\ e[4] = o[3]
    <3> DEFINE b == <<"\\">>
    <3> HIDE DEF b
    <3>1. b \in Seq(Tokens) /\ Len(b) = 1 /\ b[1] = "\\"
      BY <2>6 DEF b
    <3> DEFINE c4 == b \o o
    <3>2. /\ c4 \in Seq(Tokens) /\ Len(c4) = Len(b) + Len(o)
          /\ \A i \in 1 .. Len(b) + Len(o) :
               c4[i] = IF i <= Len(b) THEN b[i] ELSE o[i - Len(b)]
      BY <2>5, <3>1, ConcatProperties
    <3> HIDE DEF c4
    <3>3. Len(c4) = 4 /\ \A i \in 1 .. 4 : c4[i] = IF i <= 1 THEN b[i] ELSE o[i - 1]
      BY <2>1, <3>1, <3>2
    <3>4. c4[1] = b[1] /\ c4[2] = o[1] /\ c4[3] = o[2] /\ c4[4] = o[3]
      BY <3>3
    <3> QED
      BY <2>2, <3>1, <3>2, <3>3, <3>4 DEF b, c4
  <2>8. /\ e[2] \in Digits /\ e[3] \in Digits /\ e[4] \in Digits
    BY <2>3, <2>7
  <2>9. ASSUME NEW i \in 1 .. 4 PROVE e[i] # "\n" /\ (e[i] = "\\" => i < 4 /\ e[i + 1] \in Digits)
    <3>1. CASE i = 1
      BY <2>7, <2>8, <3>1
    <3>2. CASE i # 1
      <4>1. e[i] \in Digits
        BY <2>8, <3>2
      <4> QED
        BY <2>4, <4>1
    <3> QED
      BY <3>1, <3>2
  <2>10. Plain(e)
    BY <2>7, <2>9 DEF Plain, NoNewline, Text
  <2>11. Len(e) \in 1 .. 4
    BY <2>7
  <2>12. e[1] # Quote
    <3>1. e[1] = "\\"
      BY <2>7
    <3> QED
      BY <3>1, QuoteFacts, Zenon
  <2> QED
    BY <2>10, <2>11, <2>12 DEF e
<1>2. CASE c \notin Escaped
  <2>1. Escape(c) = <<c>> /\ c # "\n" /\ c # "\\" /\ c # Quote
    BY <1>2, StateTextAssumption DEF Escape, Escaped
  <2> DEFINE p == <<c>>
  <2>2. Plain(p) /\ Len(p) = 1 /\ p[1] = c
    BY <2>1, PlainOne
  <2> HIDE DEF p
  <2>3. p \in Seq(Tokens)
    BY <2>2 DEF Plain, Text
  <2>4. Escape(c) = p
    BY <2>1 DEF p
  <2> QED
    BY <2>1, <2>2, <2>3, <2>4
<1> QED
  BY <1>1, <1>2

\* What is not yet written of a string, with the quote.
Quoted(s, i) == Rest([j \in DOMAIN s |-> Escape(s[j])], i) \o <<Quote>>

\* What write_string() makes of the characters of a string.
LEMMA Escapes ==
  ASSUME NEW s \in Seq(Tokens)
  PROVE  /\ [j \in DOMAIN s |-> Escape(s[j])] \in Seq(Seq(Tokens))
         /\ Len([j \in DOMAIN s |-> Escape(s[j])]) = Len(s)
         /\ \A j \in 1 .. Len(s) : [m \in DOMAIN s |-> Escape(s[m])][j] = Escape(s[j])
<1>1. DOMAIN s = 1 .. Len(s) /\ Len(s) \in Nat
  OBVIOUS
<1>2. ASSUME NEW j \in 1 .. Len(s) PROVE Escape(s[j]) \in Seq(Tokens)
  <2>1. s[j] \in Tokens
    OBVIOUS
  <2> QED
    BY <2>1, EscapeFacts DEF Plain, Text
<1> QED
  BY <1>1, <1>2

\* What is left to write of a string: its next character, and the closing quote at last.
LEMMA QuotedStep ==
  ASSUME NEW s \in Seq(Tokens), NEW i \in 0 .. Len(s)
  PROVE  /\ Quoted(s, i) \in Seq(Tokens)
         /\ i = Len(s) => Quoted(s, i) = <<Quote>>
         /\ i < Len(s) => Quoted(s, i) = Escape(s[i + 1]) \o Quoted(s, i + 1)
<1> DEFINE e == [j \in DOMAIN s |-> Escape(s[j])]
<1>1. e \in Seq(Seq(Tokens)) /\ Len(e) = Len(s) /\ \A j \in 1 .. Len(s) : e[j] = Escape(s[j])
  BY Escapes
<1> HIDE DEF e
<1>2. <<Quote>> \in Seq(Tokens)
  BY TokenFacts, OneElement
<1>3. \A j \in 0 .. Len(s) : Rest(e, j) \in Seq(Tokens)
  BY <1>1, RestSplit
<1>4. Quoted(s, i) \in Seq(Tokens)
  BY <1>2, <1>3, ConcatProperties DEF Quoted, e
<1>5. ASSUME i = Len(s) PROVE Quoted(s, i) = <<Quote>>
  <2>1. Rest(e, i) = <<>>
    BY <1>1, <1>5, RestEnds
  <2> QED
    BY <1>2, <2>1, ConcatEmptySeq DEF Quoted, e
<1>6. ASSUME i < Len(s) PROVE Quoted(s, i) = Escape(s[i + 1]) \o Quoted(s, i + 1)
  <2> DEFINE q == <<Quote>>  r == Rest(e, i + 1)  f == Escape(s[i + 1])
  <2>1. i \in 0 .. Len(e) - 1 /\ i + 1 \in 1 .. Len(s) /\ i + 1 \in 0 .. Len(s)
    BY <1>1, <1>6
  <2>2. Rest(e, i) = f \o r
    BY <1>1, <2>1, RestStep
  <2>5. s[i + 1] \in Tokens
    BY <2>1
  <2>3. q \in Seq(Tokens) /\ r \in Seq(Tokens) /\ f \in Seq(Tokens)
    BY <1>2, <1>3, <2>1, <2>5, EscapeFacts DEF Plain, Text
  <2> HIDE DEF q, r, f
  <2>4. f \o r \o q = f \o (r \o q)
    BY <2>3, ConcatAssociative
  <2> QED
    BY <2>2, <2>4 DEF Quoted, q, r, f, e
<1> QED
  BY <1>4, <1>5, <1>6

\* A string is written up to its end.
LEMMA WriteString ==
  ASSUME NEW v \in Seq(Tokens)
  PROVE  WriteValue("string", v) = <<Quote>> \o Quoted(v, 0)
<1> DEFINE e == [j \in DOMAIN v |-> Escape(v[j])]  q == <<Quote>>  f == FlattenSeq(e)
<1>1. e \in Seq(Seq(Tokens))
  BY Escapes
<1>2. q \in Seq(Tokens) /\ f \in Seq(Tokens) /\ Rest(e, 0) = f
  BY <1>1, TokenFacts, OneElement, FlattenType, RestEnds
<1>3. WriteValue("string", v) = q \o f \o q
  BY DEF WriteValue
<1>4. Quoted(v, 0) = f \o q
  BY <1>2 DEF Quoted
<1> HIDE DEF e, q, f
<1>5. q \o f \o q = q \o (f \o q)
  BY <1>2, ConcatAssociative
<1> QED
  BY <1>3, <1>4, <1>5 DEF q

\* A string is a text, and has no character that ends it.
LEMMA StringsAreTexts ==
  ASSUME NEW v \in ValuesOf("string")
  PROVE  v \in Seq(Tokens) /\ v \in Seq(Tokens \ {Nul}) /\ Len(v) <= StringLength
<1>1. v \in Seq(Tokens \ {Nul}) /\ Len(v) <= StringLength
  BY DEF ValuesOf
<1>2. v \in Seq(Tokens)
  BY <1>1
<1> QED
  BY <1>1, <1>2

\* What a value looks like that is written.
LEMMA WriteValueFacts ==
  ASSUME NEW type \in Types, NEW v \in ValuesOf(type)
  PROVE  /\ Plain(WriteValue(type, v))
         /\ Len(WriteValue(type, v)) \in 1 .. 4 * StringLength + 2
         /\ WriteValue(type, v)[1] \notin {Space, "\\"}
<1>0. StringLength \in Nat
  BY StateTextAssumption
<1>1. CASE type = "number"
  <2>1. WriteValue(type, v) = <<Printed[v]>> /\ Printed[v] \in Tokens \ Special
    BY <1>1, StateTextAssumption DEF WriteValue, ValuesOf
  <2>2. Printed[v] \notin {Space, "\\", "\n"}
    BY <2>1 DEF Special
  <2> DEFINE p == Printed[v]
  <2>3. Plain(<<p>>) /\ Len(<<p>>) = 1 /\ <<p>>[1] = p
    BY <2>1, <2>2, PlainOne
  <2>4. 1 \in 1 .. 4 * StringLength + 2
    BY <1>0
  <2> QED
    BY <2>1, <2>2, <2>3, <2>4
<1>2. CASE type = "bool"
  <2>1. WriteValue(type, v) = <<v>> /\ v \in {"Y", "N"} /\ v \in Tokens
    BY <1>2, TokenFacts DEF WriteValue, ValuesOf
  <2>3. Plain(<<v>>) /\ Len(<<v>>) = 1 /\ <<v>>[1] = v
    BY <2>1, PlainOne
  <2>4. 1 \in 1 .. 4 * StringLength + 2
    BY <1>0
  <2> QED
    BY <2>1, <2>3, <2>4, QuoteFacts
<1>3. CASE type = "string"
  <2> DEFINE n == Len(v)
             S == {i \in 0 .. n : Plain(Quoted(v, i)) /\ Len(Quoted(v, i)) <= 4 * (n - i) + 1}
  <2>0. v \in Seq(Tokens) /\ Len(v) <= StringLength
    <3>1. v \in ValuesOf("string")
      BY <1>3
    <3> QED
      BY <3>1, StringsAreTexts
  <2>1. v \in Seq(Tokens) /\ n \in Nat /\ n <= StringLength
    BY <2>0
  <2>2. n \in S
    <3>1. n \in 0 .. Len(v)
      BY <2>1
    <3>2. Quoted(v, n) = <<Quote>>
      BY <2>1, <3>1, QuotedStep
    <3> DEFINE q == <<Quote>>
    <3>3. Plain(q) /\ Len(q) = 1
      BY PlainOne, TokenFacts, QuoteFacts
    <3> HIDE DEF q
    <3>4. n \in 0 .. n /\ 4 * (n - n) + 1 = 1
      BY <2>1
    <3>5. q \in Seq(Tokens)
      BY <3>3 DEF Plain, Text
    <3>6. Quoted(v, n) = q
      BY <3>2 DEF q
    <3> QED
      BY <3>3, <3>4, <3>5, <3>6
  <2>3. ASSUME NEW i \in 0 .. n - 1, i + 1 \in S PROVE i \in S
    <3> DEFINE e == Escape(v[i + 1])  q == Quoted(v, i + 1)
    <3>0. i \in 0 .. Len(v) /\ i < Len(v) /\ v[i + 1] \in Tokens
      BY <2>1
    <3>1. Quoted(v, i) = e \o q
      BY <2>1, <3>0, QuotedStep
    <3>2. Plain(e) /\ Len(e) \in 1 .. 4
      BY <3>0, EscapeFacts
    <3>3. Plain(q) /\ Len(q) <= 4 * (n - (i + 1)) + 1
      BY <2>3
    <3> HIDE DEF e, q
    <3>4. Plain(e \o q)
      BY <3>2, <3>3, PlainConcat
    <3>5. Len(e \o q) = Len(e) + Len(q) /\ Len(q) \in Nat
      BY <3>2, <3>3 DEF Plain, Text
    <3>6. Len(e) + Len(q) <= 4 * (n - i) + 1
      <4>1. \A l \in Nat, m \in Nat :
              l <= 4 /\ m <= 4 * (n - (i + 1)) + 1 => l + m <= 4 * (n - i) + 1
        BY <2>1
      <4>2. Len(e) \in Nat /\ Len(e) <= 4
        BY <3>2 DEF Plain, Text
      <4> QED
        BY <3>3, <3>5, <4>1, <4>2
    <3>7. i \in 0 .. n
      BY <2>1
    <3> HIDE DEF n
    <3> QED
      BY <3>1, <3>4, <3>5, <3>6, <3>7
  <2>4. 0 \in S
    <3> HIDE DEF S
    <3> QED
      BY <2>1, <2>2, <2>3, DownTo
  <2> DEFINE q == Quoted(v, 0)
  <2>5. WriteValue(type, v) = <<Quote>> \o q
    BY <1>3, <2>1, WriteString
  <2>6. Plain(q) /\ Len(q) <= 4 * n + 1
    BY <2>1, <2>4
  <2>7. Plain(<<Quote>>) /\ Len(<<Quote>>) = 1 /\ <<Quote>>[1] = Quote /\ <<Quote>> \in Seq(Tokens)
    BY PlainOne, OneElement, TokenFacts, QuoteFacts
  <2> DEFINE b == <<Quote>>
  <2> HIDE DEF q, b
  <2>8. Plain(b \o q)
    BY <2>6, <2>7, PlainConcat DEF b
  <2>9. Len(b \o q) = 1 + Len(q) /\ Len(q) \in Nat /\ (b \o q)[1] = Quote
    <3>1. b \in Seq(Tokens) /\ Len(b) = 1 /\ b[1] = Quote /\ q \in Seq(Tokens)
      BY <2>6, <2>7 DEF b, Plain, Text
    <3> DEFINE c == b \o q
    <3>2. /\ c \in Seq(Tokens) /\ Len(c) = Len(b) + Len(q)
          /\ \A i \in 1 .. Len(b) + Len(q) :
               c[i] = IF i <= Len(b) THEN b[i] ELSE q[i - Len(b)]
      BY <3>1, ConcatProperties
    <3>4. Len(q) \in Nat
      BY <3>1
    <3> HIDE DEF c
    <3>3. Len(c) = 1 + Len(q) /\ c[1] = Quote
      BY <3>1, <3>2, <3>4
    <3> QED
      BY <3>2, <3>3 DEF c
  <2>10. Len(b \o q) \in 1 .. 4 * StringLength + 2
    <3>1. \A l \in Nat : l <= 4 * n + 1 => 1 + l \in 1 .. 4 * StringLength + 2
      BY <1>0, <2>1
    <3> QED
      BY <2>6, <2>9, <3>1
  <2>11. WriteValue(type, v) = b \o q
    BY <2>5 DEF b
  <2> QED
    BY <2>8, <2>9, <2>10, <2>11, QuoteFacts
<1> QED
  BY <1>1, <1>2, <1>3 DEF Types

-------------------------------------------------------------------------------
(* The readers.                                                            *)

\* A part of a text.
Within(part, text) == part \in Text /\ Range(part) \subseteq Range(text) /\ Len(part) <= Len(text)

\* What is cut out of a text is part of it.
LEMMA SubSeqWithin ==
  ASSUME NEW text \in Text, NEW m \in Nat \ {0}, NEW n \in Nat, n <= Len(text)
  PROVE  Within(SubSeq(text, m, n), text)
<1> DEFINE r == SubSeq(text, m, n)
<1>1. \A i \in m .. n : i \in 1 .. Len(text) /\ text[i] \in Tokens
  BY DEF Text
<1>2. /\ r \in Seq(Tokens) /\ Len(r) = IF m <= n THEN n - m + 1 ELSE 0
      /\ \A i \in 1 .. n - m + 1 : r[i] = text[m + i - 1]
  BY <1>1, SubSeqProperties
<1> HIDE DEF r
<1>3. Len(r) <= Len(text)
  BY <1>2 DEF Text
<1>4. ASSUME NEW i \in DOMAIN r PROVE r[i] \in Range(text)
  <2>1. i \in 1 .. n - m + 1
    BY <1>2
  <2> DEFINE j == m + i - 1
  <2>2. j \in DOMAIN text
    BY <2>1 DEF Text
  <2>3. r[i] = text[j]
    BY <1>2, <2>1
  <2> QED
    BY <2>2, <2>3 DEF Range
<1>5. Within(r, text)
  BY <1>2, <1>3, <1>4 DEF Within, Range, Text
<1> QED
  BY <1>5 DEF r

\* So is what comes after its first token.
LEMMA TailWithin ==
  ASSUME NEW text \in Text, text # <<>>
  PROVE  Within(Tail(text), text) /\ Head(text) \in Tokens /\ Head(text) = text[1]
<1>1. Tail(text) = SubSeq(text, 2, Len(text)) /\ Len(text) \in Nat
  BY TailIsSubSeq DEF Text
<1>2. Within(SubSeq(text, 2, Len(text)), text)
  BY <1>1, SubSeqWithin
<1>3. Head(text) \in Tokens /\ Head(text) = text[1]
  BY HeadTailProperties DEF Text
<1> QED
  BY <1>1, <1>2, <1>3

\* A part of a part is a part.
LEMMA WithinTransitive ==
  ASSUME NEW a, NEW b, NEW c, Within(a, b), Within(b, c)
  PROVE  Within(a, c)
<1>1. Len(a) \in Nat /\ Len(b) \in Nat /\ Len(a) <= Len(b) /\ Len(b) <= Len(c)
  BY DEF Within, Text
<1>2. CASE c \in Text
  BY <1>1, <1>2 DEF Within, Text
<1> QED
  BY <1>1, <1>2 DEF Within

\* What the reading of a character, and of a string, can result in.
Chars == [ok : BOOLEAN, value : Tokens \union {<<>>}, rest : Text]
Results == [ok : BOOLEAN, value : Seq(Tokens \union {<<>>}), rest : Text]

\* A character is read from the beginning of a text, and part of the text is left.
LEMMA ReadCharFacts ==
  ASSUME NEW text \in Text
  PROVE  /\ ReadChar(text) \in Chars
         /\ ReadChar(text).ok =>
              ReadChar(text).value \in Tokens /\ Within(ReadChar(text).rest, text)
<1>0. Rejected \in Chars /\ ~Rejected.ok
  BY DEF Rejected, Chars, Text
<1>1. CASE text = <<>> \/ Head(text) \in Unprintable
  BY <1>0, <1>1 DEF ReadChar
<1>2. CASE ~(text = <<>> \/ Head(text) \in Unprintable)
  <2> DEFINE t == Tail(text)
  <2>1. Within(t, text) /\ Head(text) \in Tokens /\ t \in Text
    BY <1>2, TailWithin DEF Within
  <2> HIDE DEF t
  <2>2. CASE Head(text) # "\\"
    <3>1. ReadChar(text) = Taken(Head(text), t)
      BY <1>2, <2>2 DEF ReadChar, t
    <3> QED
      BY <2>1, <3>1 DEF Taken, Chars
  <2>3. CASE Head(text) = "\\"
    <3>1. ReadChar(text) = ParseOctal(t)
      BY <1>2, <2>3 DEF ReadChar, t
    <3> DEFINE o == SubSeq(t, 1, 3)  r == SubSeq(t, 4, Len(t))
    <3>2. ParseOctal(t) = IF Len(t) >= 3 /\ o \in DOMAIN Decoded THEN Taken(Decoded[o], r)
                          ELSE Rejected
      BY DEF ParseOctal
    <3>3. Len(t) \in Nat /\ Within(r, t)
      BY <2>1, SubSeqWithin DEF Text
    <3> HIDE DEF o, r
    <3>4. CASE ~ (Len(t) >= 3 /\ o \in DOMAIN Decoded)
      BY <1>0, <3>1, <3>2, <3>4
    <3>5. CASE Len(t) >= 3 /\ o \in DOMAIN Decoded
      <4>1. Decoded[o] \in Tokens
        BY <3>5, StateTextAssumption
      <4>2. ReadChar(text) = Taken(Decoded[o], r)
        BY <3>1, <3>2, <3>5
      <4>3. Within(r, text) /\ r \in Text
        BY <2>1, <3>3, WithinTransitive DEF Within
      <4> QED
        BY <4>1, <4>2, <4>3 DEF Taken, Chars
    <3> QED
      BY <3>4, <3>5
  <2> QED
    BY <2>2, <2>3
<1> QED
  BY <1>1, <1>2

\* Before the first round, and a round.
Begin(text) ==
  IF text # <<>> /\ Head(text) = Quote THEN Taken(<<>>, Tail(text)) ELSE Rejected
Round(s) == IF ~s.ok \/ AtQuote(s) THEN s ELSE NextChar(s)

\* A round of read_string() leads from a result to a result.
LEMMA RoundType ==
  ASSUME NEW s \in Results
  PROVE  Round(s) \in Results
<1> DEFINE c == ReadChar(s.rest)
<1>1. c \in Chars /\ s.value \in Seq(Tokens \union {<<>>})
  BY ReadCharFacts DEF Results
<1>2. NextChar(s) = [c EXCEPT !.value = Append(s.value, c.value)]
  BY DEF NextChar
<1> HIDE DEF c
<1>3. Append(s.value, c.value) \in Seq(Tokens \union {<<>>})
  BY <1>1 DEF Chars
<1>4. NextChar(s) \in Results
  BY <1>1, <1>2, <1>3 DEF Chars, Results
<1> QED
  BY <1>4 DEF Round

\* The loop of read_string().
LEMMA ReadStringLoop ==
  ASSUME NEW text \in Text
  PROVE  \E loop :
           /\ loop[0] = Begin(text)
           /\ \A n \in 0 .. StringLength - 1 : loop[n + 1] = Round(loop[n])
           /\ ReadString(text) =
                IF loop[StringLength].ok /\ AtQuote(loop[StringLength])
                THEN Taken(Terminated(loop[StringLength].value), Tail(loop[StringLength].rest))
                ELSE Rejected
<1> DEFINE N == StringLength
           Body(h, n) == IF n = 0 THEN Begin(text)
                         ELSE IF ~h[n - 1].ok \/ AtQuote(h[n - 1]) THEN h[n - 1]
                              ELSE NextChar(h[n - 1])
           c == CHOOSE h : h = [n \in 0 .. N |-> Body(h, n)]
<1>1. ReadString(text) = IF c[N].ok /\ AtQuote(c[N])
                         THEN Taken(Terminated(c[N].value), Tail(c[N].rest)) ELSE Rejected
  BY DEF ReadString, Begin
<1>2. N \in Nat
  BY StateTextAssumption
<1>3. Begin(text) \in Results
  <2>1. Rejected \in Results /\ <<>> \in Seq(Tokens \union {<<>>})
    BY DEF Rejected, Results, Text
  <2>2. CASE text # <<>>
    <3> DEFINE t == Tail(text)
    <3>1. t \in Text
      BY <2>2, TailWithin DEF Within
    <3>2. Begin(text) = Taken(<<>>, t) \/ Begin(text) = Rejected
      BY DEF Begin
    <3> HIDE DEF t
    <3>3. \A v \in Seq(Tokens \union {<<>>}) : Taken(v, t) \in Results
      BY <3>1 DEF Taken, Results
    <3> QED
      BY <2>1, <3>2, <3>3
  <2>3. CASE text = <<>>
    BY <2>1, <2>3 DEF Begin
  <2> QED
    BY <2>2, <2>3
<1> DEFINE next == [i \in 1 .. N |-> [x \in Results |-> Round(x)]]
<1>4. PICK f : Recursion(f, Results, Begin(text), N, next)
  <2>1. next \in [1 .. N -> [Results -> Results]]
    BY RoundType
  <2> HIDE DEF next, N
  <2> QED
    BY <1>2, <1>3, <2>1, RecursionExists
<1>5. /\ f \in [0 .. N -> Results] /\ f[0] = Begin(text)
      /\ \A i \in 0 .. N - 1 : f[i + 1] = Round(f[i])
  <2>1. /\ f \in [0 .. N -> Results] /\ f[0] = Begin(text)
        /\ \A i \in 0 .. N - 1 : f[i + 1] = next[i + 1][f[i]]
    BY <1>4 DEF Recursion
  <2>2. ASSUME NEW i \in 0 .. N - 1 PROVE f[i + 1] = Round(f[i])
    <3>1. i \in 0 .. N /\ i + 1 \in 1 .. N
      BY <1>2
    <3>2. f[i] \in Results
      BY <2>1, <3>1
    <3> QED
      BY <2>1, <3>1, <3>2
  <2> QED
    BY <2>1, <2>2
<1> HIDE DEF next
<1>6. f = [n \in 0 .. N |-> Body(f, n)]
  <2>1. ASSUME NEW n \in 0 .. N PROVE f[n] = Body(f, n)
    <3>1. CASE n = 0
      BY <1>5, <3>1
    <3>2. CASE n # 0
      <4> DEFINE i == n - 1
      <4>1. i \in 0 .. N - 1 /\ i + 1 = n
        BY <1>2, <3>2
      <4> HIDE DEF i
      <4>2. f[n] = Round(f[i])
        BY <1>5, <4>1
      <4> QED
        BY <3>2, <4>2 DEF Round, i
    <3> QED
      BY <3>1, <3>2
  <2>2. f = [n \in 0 .. N |-> f[n]]
    BY <1>5
  <2> HIDE DEF Body
  <2> QED
    BY <2>1, <2>2
<1>7. c = [n \in 0 .. N |-> Body(c, n)]
  BY <1>6
<1> HIDE DEF c
<1>8. c[0] = Begin(text)
  <2>1. 0 \in 0 .. N
    BY <1>2
  <2> DEFINE g == [n \in 0 .. N |-> Body(c, n)]
  <2>2. g[0] = Begin(text)
    BY <2>1
  <2> QED
    BY <1>7, <2>2
<1>9. ASSUME NEW n \in 0 .. N - 1 PROVE c[n + 1] = Round(c[n])
  <2> DEFINE m == n + 1  g == [i \in 0 .. N |-> Body(c, i)]
  <2>1. m \in 0 .. N /\ m # 0 /\ m - 1 = n
    BY <1>2
  <2> HIDE DEF m
  <2>2. g[m] = IF ~c[m - 1].ok \/ AtQuote(c[m - 1]) THEN c[m - 1] ELSE NextChar(c[m - 1])
    BY <2>1
  <2>3. c = g
    BY <1>7
  <2> HIDE DEF g
  <2> QED
    BY <2>1, <2>2, <2>3 DEF Round, m
<1> HIDE DEF Body
<1> QED
  BY <1>1, <1>8, <1>9


\* A string has no character after its end, and one without Nul ends where its text does.
LEMMA TerminatedFacts ==
  ASSUME NEW v \in Seq(Tokens)
  PROVE  /\ Terminated(v) \in Seq(Tokens \ {Nul}) /\ Len(Terminated(v)) <= Len(v)
         /\ v \in Seq(Tokens \ {Nul}) => Terminated(v) = v
<1> DEFINE I == {i \in 1 .. Len(v) : v[i] = Nul}
<1>1. Terminated(v) = IF (IF I # {} THEN Min(I) ELSE 0) = 0 THEN v
                      ELSE SubSeq(v, 1, (IF I # {} THEN Min(I) ELSE 0) - 1)
  BY DEF Terminated, SelectInSeq
<1>2. I \in SUBSET Nat /\ Len(v) \in Nat
  OBVIOUS
<1>3. CASE I = {}
  <2>1. Terminated(v) = v
    <3> HIDE DEF I
    <3> QED
      BY <1>1, <1>3
  <2>2. \A i \in 1 .. Len(v) : v[i] \in Tokens \ {Nul}
    BY <1>3
  <2>3. v \in Seq(Tokens \ {Nul})
    BY <2>2
  <2> QED
    BY <1>2, <2>1, <2>3
<1>4. CASE I # {}
  <2>1. \E n \in I : \A m \in I : n <= m
    <3> HIDE DEF I
    <3> QED
      BY <1>2, <1>4, LeastNat
  <2>2. Min(I) \in I /\ \A m \in I : Min(I) <= m
    <3> HIDE DEF I
    <3> QED
      BY <2>1 DEF Min
  <2>3. PICK n : n = Min(I)
    OBVIOUS
  <2>4. n \in 1 .. Len(v) /\ v[n] = Nul /\ \A i \in 1 .. Len(v) : v[i] = Nul => n <= i
    BY <2>2, <2>3
  <2>5. Terminated(v) = SubSeq(v, 1, n - 1)
    <3> HIDE DEF I
    <3>1. n # 0
      BY <1>2, <2>4
    <3> QED
      BY <1>1, <1>4, <2>3, <3>1
  <2> HIDE DEF I
  <2> DEFINE s == SubSeq(v, 1, n - 1)
  <2>6. s \in Seq(Tokens) /\ Len(s) = n - 1 /\ \A i \in 1 .. n - 1 : s[i] = v[i]
    BY <1>2, <2>4
  <2>7. \A i \in 1 .. n - 1 : v[i] \in Tokens \ {Nul}
    BY <1>2, <2>4
  <2> HIDE DEF s
  <2>8. s \in Seq(Tokens \ {Nul})
    BY <1>2, <2>4, <2>6, <2>7
  <2>9. Len(s) <= Len(v)
    BY <1>2, <2>4, <2>6
  <2>10. v \notin Seq(Tokens \ {Nul})
    BY <2>4
  <2> QED
    BY <2>5, <2>8, <2>9, <2>10 DEF s
<1> QED
  BY <1>3, <1>4

\* What the loop has read is part of the text, and it counts the characters.
LEMMA ReadStringWithin ==
  ASSUME NEW text \in Text, NEW r, r = ReadString(text), r.ok
  PROVE  /\ r.value \in Seq(Tokens \ {Nul}) /\ Len(r.value) <= StringLength
         /\ Within(r.rest, text)
<1>1. PICK loop :
           /\ loop[0] = Begin(text)
           /\ \A n \in 0 .. StringLength - 1 : loop[n + 1] = Round(loop[n])
           /\ ReadString(text) =
                IF loop[StringLength].ok /\ AtQuote(loop[StringLength])
                THEN Taken(Terminated(loop[StringLength].value), Tail(loop[StringLength].rest))
                ELSE Rejected
  BY ReadStringLoop
<1> DEFINE Read(n) == loop[n].ok => /\ loop[n].value \in Seq(Tokens) /\ Len(loop[n].value) <= n
                                    /\ Within(loop[n].rest, text)
           S == {n \in Nat : Read(n)}
<1>2. StringLength \in Nat
  BY StateTextAssumption
<1>3. Read(0)
  <2>1. ASSUME text # <<>> PROVE Within(Tail(text), text)
    BY <2>1, TailWithin
  <2>2. CASE text # <<>> /\ Head(text) = Quote
    <3>1. loop[0].value = <<>> /\ loop[0].rest = Tail(text)
      BY <1>1, <2>2 DEF Begin, Taken
    <3> QED
      BY <2>1, <2>2, <3>1
  <2>3. CASE ~(text # <<>> /\ Head(text) = Quote)
    BY <1>1, <2>3 DEF Begin, Rejected
  <2> QED
    BY <2>2, <2>3
<1>4. ASSUME NEW n \in 0 .. StringLength - 1, Read(n)
      PROVE  Read(n + 1)
  <2> DEFINE s == loop[n]  t == loop[n + 1]  c == ReadChar(s.rest)
  <2>1. t = Round(s)
    BY <1>1
  <2>2. CASE ~s.ok \/ AtQuote(s)
    <3>1. t = s
      BY <2>1, <2>2 DEF Round
    <3> HIDE DEF s, t
    <3>2. t.ok => /\ t.value \in Seq(Tokens) /\ Len(t.value) <= n
                  /\ Within(t.rest, text)
      BY <1>4, <3>1 DEF s
    <3> QED
      BY <1>2, <3>2 DEF t
  <2>3. CASE ~(~s.ok \/ AtQuote(s))
    <3>1. s.value \in Seq(Tokens) /\ Len(s.value) <= n /\ Within(s.rest, text) /\ s.rest \in Text
      BY <1>4, <2>3 DEF Within
    <3>2. c \in Chars /\ (c.ok => c.value \in Tokens /\ Within(c.rest, s.rest))
      BY <3>1, ReadCharFacts
    <3>3. t = [c EXCEPT !.value = Append(s.value, c.value)]
      BY <2>1, <2>3 DEF Round, NextChar
    <3> HIDE DEF c, s, t
    <3>4. t.ok = c.ok /\ t.rest = c.rest /\ t.value = Append(s.value, c.value)
      BY <3>2, <3>3 DEF Chars
    <3>5. ASSUME t.ok PROVE t.value \in Seq(Tokens) /\ Len(t.value) <= n + 1
      BY <1>2, <3>1, <3>2, <3>4, <3>5
    <3>6. ASSUME t.ok PROVE Within(t.rest, text)
      BY <3>1, <3>2, <3>4, <3>6, WithinTransitive
    <3> QED
      BY <3>5, <3>6 DEF t
  <2> QED
    BY <2>2, <2>3
<1> HIDE DEF Read
<1>5. \A n \in 0 .. StringLength : n \in S
  <2>1. 0 \in S
    BY <1>3
  <2>2. \A n \in 0 .. StringLength - 1 : n \in S => n + 1 \in S
    BY <1>2, <1>4
  <2> HIDE DEF S
  <2> QED
    BY <1>2, <2>1, <2>2, UpTo
<1> DEFINE end == loop[StringLength]
<1>6. end.ok => /\ end.value \in Seq(Tokens) /\ Len(end.value) <= StringLength
                /\ Within(end.rest, text)
  BY <1>2, <1>5 DEF Read
<1>7. end.ok /\ AtQuote(end) /\ r = Taken(Terminated(end.value), Tail(end.rest))
  BY <1>1 DEF Rejected
<1> HIDE DEF end
<1>8. end.rest \in Text /\ end.rest # <<>>
  BY <1>6, <1>7 DEF AtQuote, Within
<1>9. Within(Tail(end.rest), text)
  BY <1>6, <1>7, <1>8, TailWithin, WithinTransitive
<1> DEFINE v == Terminated(end.value)
<1>10. v \in Seq(Tokens \ {Nul}) /\ Len(v) <= Len(end.value)
  BY <1>6, <1>7, TerminatedFacts
<1> HIDE DEF v
<1>11. Len(v) <= StringLength
  BY <1>2, <1>6, <1>7, <1>10
<1>12. r.value = v /\ r.rest = Tail(end.rest)
  BY <1>7 DEF Taken, v
<1> QED
  BY <1>9, <1>10, <1>11, <1>12

\* What is read is a value, and part of the text is left.
LEMMA ReadValueWithin ==
  ASSUME NEW type \in Types, NEW text \in Text, NEW r, r = ReadValue(type, text), r.ok
  PROVE  r.value \in ValuesOf(type) /\ Within(r.rest, text)
<1>1. CASE type = "number"
  <2>1. r = ReadNumber(text)
    BY <1>1 DEF ReadValue
  <2>2. /\ text # <<>> /\ Head(text) \in DOMAIN Scanned
        /\ r = Taken(Scanned[Head(text)], Tail(text))
    BY <2>1 DEF ReadNumber, Rejected
  <2>3. Scanned[Head(text)] \in DOMAIN Printed
    BY <2>2, StateTextAssumption
  <2>4. Within(Tail(text), text)
    BY <2>2, TailWithin
  <2>5. r.value \in DOMAIN Printed /\ Within(r.rest, text)
    BY <2>2, <2>3, <2>4 DEF Taken
  <2> QED
    BY <1>1, <2>5 DEF ValuesOf
<1>2. CASE type = "bool"
  <2>1. r = ReadBool(text)
    BY <1>2 DEF ReadValue
  <2>2. CASE text = <<>>
    <3>1. r.value = "N" /\ r.rest = <<>>
      BY <2>1, <2>2 DEF ReadBool, Taken
    <3>2. Within(text, text)
      BY DEF Within, Text
    <3> QED
      BY <1>2, <2>2, <3>1, <3>2 DEF ValuesOf
  <2>3. CASE text # <<>>
    <3>1. Within(Tail(text), text)
      BY <2>3, TailWithin
    <3>2. r.value \in {"Y", "N"} /\ r.rest = Tail(text)
      BY <2>1, <2>3 DEF ReadBool, Taken, Rejected
    <3> QED
      BY <1>2, <3>1, <3>2 DEF ValuesOf
  <2> QED
    BY <2>2, <2>3
<1>3. CASE type = "string"
  <2>1. r = ReadString(text)
    BY <1>3 DEF ReadValue
  <2>2. /\ r.value \in Seq(Tokens \ {Nul}) /\ Len(r.value) <= StringLength
        /\ Within(r.rest, text)
    BY <2>1, ReadStringWithin
  <2> QED
    BY <1>3, <2>2 DEF ValuesOf
<1> QED
  BY <1>1, <1>2, <1>3 DEF Types


\* An escaped character is read back.
LEMMA ReadEscaped ==
  ASSUME NEW c \in Tokens, NEW t \in Text
  PROVE  ReadChar(Escape(c) \o t) = Taken(c, t) /\ Escape(c) \o t # <<>>
<1> DEFINE text == Escape(c) \o t
<1>1. CASE c \notin Escaped
  <2>1. Escape(c) = <<c>> /\ c # "\\"
    BY <1>1, StateTextAssumption DEF Escape, Escaped
  <2>2. text \in Seq(Tokens) /\ text # <<>> /\ Head(text) = c /\ Tail(text) = t
    BY <2>1 DEF Text
  <2> HIDE DEF text
  <2>3. ReadChar(text) = Taken(c, t)
    BY <1>1, <2>1, <2>2 DEF ReadChar, Unprintable
  <2> QED
    BY <2>2, <2>3 DEF text
<1>2. CASE c \in Escaped
  <2> DEFINE o == Octal[c]  u == o \o t
  <2>1. o \in Seq(Digits) /\ Len(o) = 3 /\ o \in Seq(Tokens)
    <3>1. o \in Seq(Digits) /\ Len(o) = 3
      BY <1>2, StateTextAssumption DEF Escaped
    <3> HIDE DEF o
    <3>2. Digits \subseteq Tokens
      BY TokenFacts
    <3> QED
      BY <3>1, <3>2, SeqMonotonic
  <2>2. Escape(c) = <<"\\">> \o o
    BY <1>2 DEF Escape
  <2> HIDE DEF o
  <2>a. o \in Text /\ "\\" \in Tokens
    BY <2>1, TokenFacts DEF Text
  <2>b. /\ u \in Text /\ Len(u) = Len(o) + Len(t)
        /\ \A i \in 1 .. Len(o) : u[i] = o[i]
        /\ SubSeq(u, Len(o) + 1, Len(u)) = t
    BY <2>a, TwoParts
  <2>3. u \in Text /\ Len(u) = 3 + Len(t) /\ \A i \in 1 .. 3 : u[i] = o[i]
    BY <2>1, <2>b
  <2>4. SubSeq(u, 4, Len(u)) = t
    <3>1. Len(o) + 1 = 4
      BY <2>1
    <3> QED
      BY <2>b, <3>1
  <2>5. text = <<"\\">> \o u
    BY <2>2, <2>a, OneBeforeMore
  <2> HIDE DEF u, text
  <2>6. text \in Text /\ text # <<>> /\ Head(text) = "\\" /\ Tail(text) = u
    BY <2>3, <2>5, <2>a, OneBefore
  <2>7. "\\" \notin Unprintable
    BY DEF Unprintable
  <2>8. ReadChar(text) = ParseOctal(u)
    BY <2>6, <2>7 DEF ReadChar
  <2>9. SubSeq(u, 1, 3) = o
    <3>1. /\ SubSeq(u, 1, 3) \in Seq(Tokens) /\ Len(SubSeq(u, 1, 3)) = 3
          /\ \A i \in 1 .. 3 : SubSeq(u, 1, 3)[i] = u[i]
      BY <2>3 DEF Text
    <3> QED
      BY <2>1, <2>3, <3>1
  <2>10. o \in [1 .. 3 -> Digits]
    <3>1. o \in Seq(Digits) /\ Len(o) = 3
      BY <1>2, StateTextAssumption DEF o, Escaped
    <3> QED
      BY <3>1
  <2>11. o \in DOMAIN Decoded /\ Decoded[o] = c
    BY <1>2, <2>10, StateTextAssumption DEF o, Escaped
  <2>12. ParseOctal(u) = Taken(c, t)
    <3>1. Len(u) >= 3
      BY <2>3 DEF Text
    <3> QED
      BY <2>4, <2>9, <2>11, <3>1 DEF ParseOctal
  <2> QED
    BY <2>6, <2>8, <2>12 DEF text
<1> QED
  BY <1>1, <1>2

\* A string is read back as it was written, whatever comes after it.
LEMMA ReadWrittenString ==
  ASSUME NEW v \in Seq(Tokens), v \in Seq(Tokens \ {Nul}), Len(v) <= StringLength,
         NEW m \in Text
  PROVE  ReadString(WriteValue("string", v) \o m) = Taken(v, m)
<1> DEFINE text == WriteValue("string", v) \o m  q(i) == Quoted(v, i) \o m
<1>0. StringLength \in Nat /\ Len(v) \in Nat
  BY StateTextAssumption
<1>1. ASSUME NEW i \in 0 .. Len(v)
      PROVE  q(i) \in Text /\ Quoted(v, i) \in Seq(Tokens)
  <2>1. Quoted(v, i) \in Seq(Tokens)
    BY QuotedStep
  <2> QED
    BY <2>1 DEF Text
<1>2. text \in Text /\ text # <<>> /\ Head(text) = Quote /\ Tail(text) = q(0)
  <2> DEFINE z == Quoted(v, 0)
  <2>1. z \in Seq(Tokens) /\ WriteValue("string", v) = <<Quote>> \o z
    BY <1>0, <1>1, WriteString
  <2> HIDE DEF z
  <2> DEFINE zm == z \o m
  <2>a. z \in Text /\ Quote \in Tokens
    BY <2>1, TokenFacts DEF Text
  <2>2. zm \in Text /\ text = <<Quote>> \o zm
    <3>1. zm \in Text
      BY <2>a, TextConcat
    <3>2. (<<Quote>> \o z) \o m = <<Quote>> \o zm
      BY <2>a, OneBeforeMore
    <3> QED
      BY <2>1, <3>1, <3>2
  <2> HIDE DEF text, zm
  <2>3. text \in Text /\ text # <<>> /\ Head(text) = Quote /\ Tail(text) = zm
    BY <2>2, <2>a, OneBefore
  <2> QED
    BY <2>3 DEF zm, z
<1> HIDE DEF text
<1>3. PICK loop :
           /\ loop[0] = Begin(text)
           /\ \A n \in 0 .. StringLength - 1 : loop[n + 1] = Round(loop[n])
           /\ ReadString(text) =
                IF loop[StringLength].ok /\ AtQuote(loop[StringLength])
                THEN Taken(Terminated(loop[StringLength].value), Tail(loop[StringLength].rest))
                ELSE Rejected
  BY <1>2, ReadStringLoop
<1> DEFINE Written(i) == loop[i] = Taken(SubSeq(v, 1, i), q(i))
           Ended(i) == loop[i] = Taken(v, q(Len(v)))
           S == {i \in Nat : IF i <= Len(v) THEN Written(i) ELSE Ended(i)}
<1>4. 0 \in S
  <2>1. SubSeq(v, 1, 0) = <<>>
    OBVIOUS
  <2>2. Written(0)
    BY <1>2, <1>3, <2>1 DEF Begin
  <2> HIDE DEF Written, Ended
  <2> QED
    BY <1>0, <2>2
<1>5. Written(Len(v)) => Ended(Len(v))
  <2>1. SubSeq(v, 1, Len(v)) = v
    OBVIOUS
  <2> QED
    BY <2>1
<1>6. /\ AtQuote(Taken(v, q(Len(v)))) /\ Tail(q(Len(v))) = m
      /\ Taken(v, q(Len(v))).ok /\ Taken(v, q(Len(v))).value = v
      /\ Taken(v, q(Len(v))).rest = q(Len(v))
  <2>1. Len(v) \in 0 .. Len(v)
    BY <1>0
  <2>2. Quoted(v, Len(v)) = <<Quote>>
    BY <2>1, QuotedStep
  <2> DEFINE z == <<Quote>> \o m
  <2>3. z # <<>> /\ Head(z) = Quote /\ Tail(z) = m
    BY TokenFacts, OneBefore
  <2>4. q(Len(v)) = z
    BY <2>2
  <2> HIDE DEF z, q
  <2> QED
    BY <2>3, <2>4 DEF AtQuote, Taken
<1>7. ASSUME NEW i \in 0 .. StringLength - 1, i \in S
      PROVE  i + 1 \in S
  <2>1. CASE i < Len(v)
    <3> DEFINE j == i + 1  c == v[j]  s == SubSeq(v, 1, i)
    <3>1. /\ i \in 0 .. Len(v) /\ j \in 0 .. Len(v) /\ j \in 1 .. Len(v) /\ c \in Tokens
          /\ i \in 0 .. Len(v) - 1 /\ j <= Len(v) /\ j \in Nat
      BY <1>0, <1>7, <2>1
    <3>2. loop[i] = Taken(s, q(i))
      BY <1>7, <2>1
    <3>3. SubSeq(v, 1, j) = Append(s, c)
      BY <3>1
    <3> HIDE DEF c, s
    <3>4. q(i) = Escape(c) \o q(j)
      <4>1. Quoted(v, i) = Escape(c) \o Quoted(v, j)
        BY <2>1, <3>1, QuotedStep DEF c
      <4>2. Quoted(v, j) \in Seq(Tokens)
        BY <1>1, <3>1
      <4> DEFINE e == Escape(c)  z == Quoted(v, j)
      <4>3. e \in Seq(Tokens)
        BY <3>1, EscapeFacts DEF Plain, Text
      <4> HIDE DEF e, z
      <4>4. (e \o z) \o m = e \o (z \o m)
        BY <4>2, <4>3, ConcatAssociative, SMTT(30) DEF z, Text
      <4> QED
        BY <4>1, <4>4 DEF e, z
    <3>5. q(j) \in Text
      BY <1>1, <3>1
    <3> DEFINE t == q(j)
    <3> HIDE DEF q
    <3>6. Escape(c) \in Seq(Tokens) /\ Len(Escape(c)) \in 1 .. 4 /\ Escape(c)[1] # Quote
      BY <3>1, EscapeFacts DEF Plain, Text
    <3>7. ReadChar(q(i)) = Taken(c, t) /\ q(i) # <<>>
      BY <3>1, <3>4, <3>5, ReadEscaped
    <3>8. Head(q(i)) # Quote
      <4> DEFINE e == Escape(c)
      <4>1. e \in Seq(Tokens) /\ Len(e) \in 1 .. 4 /\ e[1] # Quote
        BY <3>6
      <4> HIDE DEF e, t
      <4>2. Head(e \o t) = e[1]
        BY <3>5, <4>1 DEF Text, t
      <4> QED
        BY <3>4, <4>1, <4>2 DEF e, t
    <3>9. loop[j] = Round(loop[i])
      BY <1>3
    <3>10. loop[i].ok /\ ~AtQuote(loop[i]) /\ loop[i].rest = q(i) /\ loop[i].value = s
      BY <3>2, <3>8 DEF AtQuote, Taken
    <3>11. loop[j] = [Taken(c, t) EXCEPT !.value = Append(s, c)]
      <4> DEFINE d == ReadChar(q(i))
      <4>1. loop[j] = [d EXCEPT !.value = Append(s, d.value)]
        BY <3>9, <3>10 DEF Round, NextChar
      <4>2. d = Taken(c, t) /\ Taken(c, t).value = c
        BY <3>7 DEF Taken
      <4> QED
        BY <4>1, <4>2
    <3>12. loop[j] = Taken(Append(s, c), t)
      BY <3>11 DEF Taken
    <3> QED
      BY <3>1, <3>3, <3>12
  <2>2. CASE i >= Len(v)
    <3> DEFINE j == i + 1
    <3>1. Ended(i) /\ j \in Nat /\ ~(j <= Len(v))
      BY <1>0, <1>5, <1>7, <2>2
    <3>2. loop[j] = Round(loop[i])
      BY <1>3
    <3>3. loop[j] = loop[i]
      BY <1>6, <3>1, <3>2 DEF Round
    <3> QED
      BY <3>1, <3>3
  <2> QED
    BY <1>0, <1>7, <2>1, <2>2
<1>8. StringLength \in S
  <2> HIDE DEF S
  <2>1. \A i \in 0 .. StringLength : i \in S
    BY <1>0, <1>4, <1>7, UpTo
  <2> QED
    BY <1>0, <2>1
<1>9. Ended(StringLength)
  BY <1>0, <1>5, <1>8
<1> HIDE DEF q, S
<1>10. ReadString(text) = Taken(v, m)
  <2>1. Terminated(v) = v
    BY TerminatedFacts
  <2> QED
    BY <1>3, <1>6, <1>9, <2>1
<1> QED
  BY <1>10 DEF text


\* A variable that reads what was written of a value leaves what comes after it, and gets
\* what it was saved with, if it has the type and the value can be read.
LEMMA ReadWritten ==
  ASSUME NEW type \in Types, NEW t \in Types, NEW v \in ValuesOf(type), NEW m \in Text,
         NEW r, r = ReadValue(t, WriteValue(type, v) \o m)
  PROVE  /\ r.ok => r.rest = m
         /\ t = type /\ Readable(t, v) => r.ok /\ r.value = ReadBack(t, v)
<1> DEFINE text == WriteValue(type, v) \o m
<1>1. CASE type \in {"number", "bool"}
  <2> DEFINE c == IF type = "number" THEN Printed[v] ELSE v
  <2>1. c \in Tokens /\ c # Quote
    <3>1. CASE type = "number"
      <4>1. Printed[v] \in Tokens \ Special
        BY <3>1, StateTextAssumption DEF ValuesOf
      <4> QED
        BY <3>1, <4>1 DEF Special
    <3>2. CASE type = "bool"
      <4>1. v \in {"Y", "N"}
        BY <3>2 DEF ValuesOf
      <4> QED
        BY <3>2, <4>1, TokenFacts, QuoteFacts
    <3> QED
      BY <1>1, <3>1, <3>2
  <2>2. WriteValue(type, v) = <<c>>
    BY <1>1 DEF WriteValue
  <2> HIDE DEF c
  <2>3. text # <<>> /\ Head(text) = c /\ Tail(text) = m
    BY <2>1, <2>2, OneBefore
  <2> HIDE DEF text
  <2>4. CASE t = "number"
    <3>1. r = ReadNumber(text)
      BY <2>4 DEF ReadValue, text
    <3>2. r.ok => r.rest = m
      BY <2>3, <3>1 DEF ReadNumber, Rejected, Taken
    <3>3. ASSUME type = "number", Readable(t, v)
          PROVE  r.ok /\ r.value = ReadBack(t, v)
      BY <2>3, <2>4, <3>1, <3>3 DEF ReadNumber, Readable, ReadBack, Taken, c
    <3> QED
      BY <2>4, <3>2, <3>3
  <2>5. CASE t = "bool"
    <3>1. r = ReadBool(text)
      BY <2>5 DEF ReadValue, text
    <3>2. r.ok => r.rest = m
      BY <2>3, <3>1 DEF ReadBool, Rejected, Taken
    <3>3. ASSUME type = "bool", Readable(t, v)
          PROVE  r.ok /\ r.value = ReadBack(t, v)
      <4>1. c = v /\ v \in {"Y", "N"}
        BY <3>3 DEF c, ValuesOf
      <4> QED
        BY <2>3, <2>5, <3>1, <4>1 DEF ReadBool, ReadBack, Taken
    <3> QED
      BY <2>5, <3>2, <3>3
  <2>6. CASE t = "string"
    <3>1. r = ReadString(text)
      BY <2>6 DEF ReadValue, text
    <3>2. text \in Text
      BY <2>1, <2>2, OneBefore DEF text
    <3>3. PICK loop :
           /\ loop[0] = Begin(text)
           /\ \A n \in 0 .. StringLength - 1 : loop[n + 1] = Round(loop[n])
           /\ ReadString(text) =
                IF loop[StringLength].ok /\ AtQuote(loop[StringLength])
                THEN Taken(Terminated(loop[StringLength].value), Tail(loop[StringLength].rest))
                ELSE Rejected
      BY <3>2, ReadStringLoop
    <3> DEFINE S == {n \in Nat : loop[n] = Rejected}
    <3>4. StringLength \in S
      <4>1. 0 \in S
        BY <2>1, <2>3, <3>3 DEF Begin
      <4>2. \A n \in 0 .. StringLength - 1 : n \in S => n + 1 \in S
        <5>1. Round(Rejected) = Rejected
          BY DEF Round, Rejected
        <5> QED
          BY <3>3, <5>1, StateTextAssumption
      <4> HIDE DEF S
      <4>3. StringLength \in Nat
        BY StateTextAssumption
      <4>4. \A n \in 0 .. StringLength : n \in S
        BY <4>1, <4>2, <4>3, UpTo
      <4> QED
        BY <4>3, <4>4
    <3>5. r = Rejected /\ ~r.ok
      BY <3>1, <3>3, <3>4 DEF Rejected
    <3> QED
      BY <1>1, <2>6, <3>5
  <2> QED
    BY <2>4, <2>5, <2>6 DEF Types
<1>2. CASE type = "string"
  <2>1. v \in Seq(Tokens) /\ v \in Seq(Tokens \ {Nul}) /\ Len(v) <= StringLength
    <3>1. v \in ValuesOf("string")
      BY <1>2
    <3> QED
      BY <3>1, StringsAreTexts
  <2>2. CASE t = "string"
    <3>1. ReadString(WriteValue("string", v) \o m) = Taken(v, m)
      BY <2>1, ReadWrittenString
    <3>2. r = Taken(v, m)
      BY <1>2, <2>2, <3>1 DEF ReadValue
    <3> QED
      BY <2>2, <3>2 DEF Taken, ReadBack
  <2>3. CASE t # "string"
    <3> DEFINE z == Quoted(v, 0)  zm == z \o m
    <3>1. z \in Text /\ Quote \in Tokens
      <4>1. 0 \in 0 .. Len(v)
        BY <2>1
      <4> QED
        BY <2>1, <4>1, QuotedStep, TokenFacts DEF Text
    <3>2. text = <<Quote>> \o zm /\ zm \in Text
      <4>1. zm \in Text
        BY <3>1, TextConcat
      <4>2. WriteValue("string", v) = <<Quote>> \o z
        BY <2>1, WriteString
      <4>3. (<<Quote>> \o z) \o m = <<Quote>> \o zm
        BY <3>1, OneBeforeMore
      <4> QED
        BY <1>2, <4>1, <4>2, <4>3
    <3> HIDE DEF zm, text
    <3>3. text # <<>> /\ Head(text) = Quote
      BY <3>1, <3>2, OneBefore
    <3>4. CASE t = "number"
      <4>1. Quote \notin DOMAIN Scanned
        BY StateTextAssumption DEF Special
      <4>2. r = ReadNumber(text)
        BY <3>4 DEF ReadValue, text
      <4>3. ~r.ok
        BY <3>3, <4>1, <4>2 DEF ReadNumber, Rejected
      <4> QED
        BY <1>2, <3>4, <4>3
    <3>5. CASE t = "bool"
      <4>1. r = ReadBool(text)
        BY <3>5 DEF ReadValue, text
      <4>2. Head(text) \notin {"Y", "N", "1", "0"}
        BY <3>3, QuoteFacts
      <4>3. ~r.ok
        BY <3>3, <4>1, <4>2 DEF ReadBool, Rejected
      <4> QED
        BY <1>2, <3>5, <4>3
    <3> QED
      BY <2>3, <3>4, <3>5 DEF Types
  <2> QED
    BY <2>2, <2>3
<1> QED
  BY <1>1, <1>2 DEF Types


-------------------------------------------------------------------------------
(* The lines of a variable.                                               *)

\* The length of a line with the value after the first i, when it was h before.
Width(type, vals, i, h) ==
  (IF h > WrapLength THEN 0 ELSE h + (IF i = 0 THEN 0 ELSE 1)) + Len(WriteValue(type, vals[i + 1]))

\* A line is wrapped before it is longer than the buffer.
Longest == WrapLength + 4 * StringLength + 3

\* line_length while write_lines() runs: it begins with 2 and has a bound.
LEMMA LineLengths ==
  ASSUME NEW type \in Types, NEW vals \in Seq(ValuesOf(type))
  PROVE  /\ LineLength(type, vals)[0] = 2
         /\ \A i \in 0 .. Len(vals) : LineLength(type, vals)[i] \in 0 .. Longest
         /\ \A i \in 0 .. Len(vals) - 1 :
              LineLength(type, vals)[i + 1] = Width(type, vals, i, LineLength(type, vals)[i])
<1> DEFINE N == Len(vals)
           Body(h, n) == IF n = 0 THEN 2
                         ELSE (IF h[n - 1] > WrapLength THEN 0
                               ELSE h[n - 1] + (IF n = 1 THEN 0 ELSE 1)) + Len(WriteValue(type, vals[n]))
           c == CHOOSE h : h = [n \in 0 .. N |-> Body(h, n)]
<1>1. LineLength(type, vals) = c
  BY DEF LineLength
<1>2. N \in Nat /\ WrapLength \in Nat /\ StringLength \in Nat
  BY StateTextAssumption, StateFileAssumption
<1>3. ASSUME NEW i \in 0 .. N - 1
      PROVE  /\ Len(WriteValue(type, vals[i + 1])) \in 1 .. 4 * StringLength + 2
             /\ \A h \in Nat : Width(type, vals, i, h) \in 0 .. Longest
  <2> DEFINE v == vals[i + 1]
  <2>1. v \in ValuesOf(type)
    <3>1. i + 1 \in 1 .. Len(vals)
      BY <1>2
    <3> QED
      BY <3>1, ElementOfSeq
  <2>2. Len(WriteValue(type, v)) \in 1 .. 4 * StringLength + 2
    BY <2>1, WriteValueFacts
  <2> HIDE DEF v
  <2>3. ASSUME NEW h \in Nat PROVE Width(type, vals, i, h) \in 0 .. Longest
    <3> DEFINE w == Len(WriteValue(type, v))
    <3>1. w \in Nat /\ w <= 4 * StringLength + 2
      BY <1>2, <2>2
    <3>2. Width(type, vals, i, h) =
            (IF h > WrapLength THEN 0 ELSE h + (IF i = 0 THEN 0 ELSE 1)) + w
      BY DEF Width, v
    <3> HIDE DEF w
    <3> QED
      BY <1>2, <3>1, <3>2 DEF Longest
  <2> QED
    BY <2>2, <2>3 DEF v
<1> DEFINE next == [j \in 1 .. N |-> [h \in Nat |-> Width(type, vals, j - 1, h)]]
<1>4. PICK f : Recursion(f, Nat, 2, N, next)
  <2>1. ASSUME NEW j \in 1 .. N PROVE \A h \in Nat : Width(type, vals, j - 1, h) \in Nat
    <3> DEFINE i == j - 1
    <3>1. i \in 0 .. N - 1
      BY <1>2
    <3> HIDE DEF i
    <3> QED
      BY <1>2, <1>3, <3>1 DEF i, Longest
  <2>2. next \in [1 .. N -> [Nat -> Nat]]
    BY <2>1
  <2> HIDE DEF next, N
  <2> QED
    BY <1>2, <2>2, RecursionExists
<1>5. /\ f \in [0 .. N -> Nat] /\ f[0] = 2
      /\ \A i \in 0 .. N - 1 : f[i + 1] = Width(type, vals, i, f[i])
  <2>1. /\ f \in [0 .. N -> Nat] /\ f[0] = 2
        /\ \A i \in 0 .. N - 1 : f[i + 1] = next[i + 1][f[i]]
    BY <1>4 DEF Recursion
  <2>2. ASSUME NEW i \in 0 .. N - 1 PROVE f[i + 1] = Width(type, vals, i, f[i])
    <3> DEFINE j == i + 1
    <3>1. i \in 0 .. N /\ j \in 1 .. N /\ j - 1 = i
      BY <1>2
    <3>2. f[i] \in Nat
      BY <2>1, <3>1
    <3>3. f[j] = next[j][f[i]]
      BY <2>1
    <3> HIDE DEF j
    <3>4. next[j][f[i]] = Width(type, vals, i, f[i])
      BY <3>1, <3>2
    <3> QED
      BY <3>3, <3>4 DEF j
  <2> QED
    BY <2>1, <2>2
<1> HIDE DEF next
<1>6. f = [n \in 0 .. N |-> Body(f, n)]
  <2>1. ASSUME NEW n \in 0 .. N PROVE f[n] = Body(f, n)
    <3>1. CASE n = 0
      BY <1>5, <3>1
    <3>2. CASE n # 0
      <4> DEFINE i == n - 1
      <4>1. i \in 0 .. N - 1 /\ i + 1 = n /\ (i = 0 <=> n = 1)
        BY <1>2, <3>2
      <4> HIDE DEF i
      <4>2. f[n] = Width(type, vals, i, f[i])
        BY <1>5, <4>1
      <4> QED
        BY <3>2, <4>1, <4>2 DEF Width, i
    <3> QED
      BY <3>1, <3>2
  <2>2. f = [n \in 0 .. N |-> f[n]]
    BY <1>5
  <2> HIDE DEF Body
  <2> QED
    BY <2>1, <2>2
<1>7. c = [n \in 0 .. N |-> Body(c, n)]
  BY <1>6
<1> HIDE DEF c
<1>8. c[0] = 2
  <2>1. 0 \in 0 .. N
    BY <1>2
  <2> DEFINE g == [n \in 0 .. N |-> Body(c, n)]
  <2>2. g[0] = 2
    BY <2>1
  <2> QED
    BY <1>7, <2>2
<1>9. ASSUME NEW i \in 0 .. N - 1 PROVE c[i + 1] = Width(type, vals, i, c[i])
  <2> DEFINE m == i + 1  g == [n \in 0 .. N |-> Body(c, n)]
  <2>1. m \in 0 .. N /\ m # 0 /\ m - 1 = i /\ (m = 1 <=> i = 0)
    BY <1>2
  <2> HIDE DEF m
  <2>2. g[m] = (IF c[m - 1] > WrapLength THEN 0
                ELSE c[m - 1] + (IF m = 1 THEN 0 ELSE 1)) + Len(WriteValue(type, vals[m]))
    BY <2>1
  <2>3. c = g
    BY <1>7
  <2> HIDE DEF g
  <2> QED
    BY <2>1, <2>2, <2>3 DEF Width, m
<1> HIDE DEF Body
<1>10. \A i \in 0 .. N : c[i] \in 0 .. Longest
  <2> DEFINE S == {i \in 0 .. N : c[i] \in 0 .. Longest}
  <2>1. 0 \in S
    BY <1>2, <1>8 DEF Longest
  <2>2. ASSUME NEW i \in 0 .. N - 1, i \in S PROVE i + 1 \in S
    <3>1. c[i + 1] = Width(type, vals, i, c[i]) /\ c[i] \in Nat
      BY <1>2, <1>9, <2>2 DEF Longest
    <3>2. c[i + 1] \in 0 .. Longest
      BY <1>3, <3>1
    <3> QED
      BY <1>2, <3>2
  <2> HIDE DEF S
  <2>3. \A i \in 0 .. N : i \in S
    BY <1>2, <2>1, <2>2, UpTo
  <2> QED
    BY <2>3 DEF S
<1> QED
  BY <1>1, <1>8, <1>9, <1>10

\* What is not yet written of the values, with the newline.
Pieces(type, vals) == [i \in DOMAIN vals |-> Piece(type, vals, i)]
Unwritten(type, vals, i) == Rest(Pieces(type, vals), i) \o <<"\n">>

\* What stands between two values of a line.
Between(i) == IF i = 0 THEN <<>> ELSE <<Space>>

\* A value is written after a continuation if the line is long, and after a space if it is not.
LEMMA PieceFacts ==
  ASSUME NEW type \in Types, NEW vals \in Seq(ValuesOf(type)), NEW i \in 0 .. Len(vals) - 1
  PROVE  LET v == WriteValue(type, vals[i + 1]) IN
         /\ vals[i + 1] \in ValuesOf(type) /\ v \in Text /\ Between(i) \in Text
         /\ <<Space, "\\", "\n", Space>> \in Text
         /\ Piece(type, vals, i + 1) =
              IF LineLength(type, vals)[i] > WrapLength
              THEN <<Space, "\\", "\n", Space>> \o v ELSE Between(i) \o v
         /\ Piece(type, vals, i + 1) \in Text
<1> DEFINE v == WriteValue(type, vals[i + 1])
<1>1. vals[i + 1] \in ValuesOf(type)
  <2>1. i + 1 \in 1 .. Len(vals)
    OBVIOUS
  <2> QED
    BY <2>1, ElementOfSeq
<1>2. v \in Text
  BY <1>1, WriteValueFacts DEF Plain
<1>3. Between(i) \in Text /\ <<Space, "\\", "\n", Space>> \in Text
  BY Spaces DEF Between
<1> DEFINE j == i + 1
<1>4. j - 1 = i /\ (j = 1 <=> i = 0)
  OBVIOUS
<1>5. Piece(type, vals, j) =
        IF LineLength(type, vals)[i] > WrapLength
        THEN <<Space, "\\", "\n", Space>> \o v ELSE Between(i) \o v
  <2> HIDE DEF j
  <2>1. v = WriteValue(type, vals[j])
    BY DEF j
  <2> HIDE DEF v
  <2> QED
    BY <1>4, <2>1 DEF Piece, Between
<1>6. Piece(type, vals, j) \in Text
  <2> DEFINE wrap == <<Space, "\\", "\n", Space>>
  <2>1. wrap \in Text
    BY <1>3
  <2> HIDE DEF v, j, wrap
  <2>2. wrap \o v \in Text /\ Between(i) \o v \in Text
    BY <1>2, <1>3, <2>1, TwoParts
  <2> QED
    BY <1>5, <2>2 DEF wrap
<1> QED
  BY <1>1, <1>2, <1>3, <1>5, <1>6

\* What write_lines() writes, one text for each value.
LEMMA PiecesType ==
  ASSUME NEW type \in Types, NEW vals \in Seq(ValuesOf(type))
  PROVE  /\ Pieces(type, vals) \in Seq(Seq(Tokens)) /\ Len(Pieces(type, vals)) = Len(vals)
         /\ \A i \in 0 .. Len(vals) - 1 : Pieces(type, vals)[i + 1] = Piece(type, vals, i + 1)
<1>1. DOMAIN vals = 1 .. Len(vals) /\ Len(vals) \in Nat
  OBVIOUS
<1>2. ASSUME NEW j \in 1 .. Len(vals)
      PROVE  Piece(type, vals, j) \in Seq(Tokens)
  <2> DEFINE i == j - 1
  <2>1. i \in 0 .. Len(vals) - 1 /\ i + 1 = j
    BY <1>1
  <2> HIDE DEF i
  <2>2. Piece(type, vals, i + 1) \in Text
    BY <2>1, PieceFacts
  <2> QED
    BY <2>1, <2>2 DEF Text
<1>3. Pieces(type, vals) = [j \in 1 .. Len(vals) |-> Piece(type, vals, j)]
  BY <1>1 DEF Pieces
<1>4. \A i \in 0 .. Len(vals) - 1 : i + 1 \in 1 .. Len(vals)
  BY <1>1
<1> QED
  BY <1>1, <1>2, <1>3, <1>4

\* What is left to write: the next value with what comes before it, and the newline at last.
LEMMA UnwrittenStep ==
  ASSUME NEW type \in Types, NEW vals \in Seq(ValuesOf(type)), NEW i \in 0 .. Len(vals)
  PROVE  /\ Unwritten(type, vals, i) \in Text
         /\ i = Len(vals) => Unwritten(type, vals, i) = <<"\n">>
         /\ i < Len(vals) =>
              Unwritten(type, vals, i) = Piece(type, vals, i + 1) \o Unwritten(type, vals, i + 1)
<1> DEFINE p == Pieces(type, vals)  e == <<"\n">>
<1>1. p \in Seq(Seq(Tokens)) /\ Len(p) = Len(vals) /\ Len(vals) \in Nat
  BY PiecesType
<1>2. i < Len(vals) => p[i + 1] = Piece(type, vals, i + 1)
  <2>1. i < Len(vals) => i \in 0 .. Len(vals) - 1
    BY <1>1
  <2> QED
    BY <2>1, PiecesType
<1> HIDE DEF p
<1>3. e \in Text
  BY Spaces
<1>4. ASSUME NEW j \in 0 .. Len(vals) PROVE Rest(p, j) \in Text
  <2>1. j \in j .. Len(p) /\ j \in 0 .. Len(p)
    BY <1>1
  <2> QED
    BY <1>1, <2>1, RestSplit DEF Text
<1>5. Rest(p, i) \o e \in Text
  BY <1>3, <1>4, TextConcat
<1>6. i = Len(vals) => Rest(p, i) \o e = e
  <2>1. Rest(p, Len(p)) = <<>>
    BY <1>1, RestEnds
  <2> HIDE DEF e
  <2> QED
    BY <1>1, <1>3, <2>1 DEF Text
<1>7. ASSUME i < Len(vals) PROVE Rest(p, i) \o e = p[i + 1] \o (Rest(p, i + 1) \o e)
  <2> DEFINE r == Rest(p, i + 1)  q == p[i + 1]
  <2>1. i \in 0 .. Len(p) - 1 /\ i + 1 \in 0 .. Len(vals) /\ i + 1 \in 1 .. Len(p)
    BY <1>1, <1>7
  <2>2. Rest(p, i) = q \o r
    BY <1>1, <2>1, RestStep
  <2>3. q \in Text /\ r \in Text
    BY <1>1, <1>4, <2>1 DEF Text
  <2> HIDE DEF e, r, q
  <2>4. (q \o r) \o e = q \o (r \o e)
    BY <1>3, <2>3, TextAssociative
  <2> QED
    BY <2>2, <2>4 DEF r, q
<1> QED
  BY <1>2, <1>5, <1>6, <1>7 DEF Unwritten, p


\* The tokens of a continuation, one after the other.
LEMMA MoreTokens ==
  ASSUME NEW x \in Tokens, NEW y \in Tokens, NEW z \in Tokens
  PROVE  <<x, y, z, x>> = (<<x, y>> \o <<z>>) \o <<x>>
<1> DEFINE a == <<x, y>>  b == <<x, y, z>>
<1>1. a \in Seq(Tokens) /\ b \in Seq(Tokens) /\ b = Append(a, z) /\ <<x, y, z, x>> = Append(b, x)
  BY Z3
<1> HIDE DEF a, b
<1>2. Append(a, z) = a \o <<z>> /\ Append(b, x) = b \o <<x>>
  BY <1>1, AppendIsConcat
<1> QED
  BY <1>1, <1>2 DEF a

\* The lines from a value on that begins one.
Continuation(type, vals, j) ==
  <<Space>> \o (WriteValue(type, vals[j]) \o Unwritten(type, vals, j))

\* A newline alone is the end of a line.
LEMMA LineEnds == Line(<<>>, <<>>, <<"\n">>)
<1> DEFINE e == <<"\n">>
<1>1. <<>> \o e \o <<>> = e
  <2>1. e \in Seq(Tokens)
    BY Spaces DEF Text
  <2> HIDE DEF e
  <2>2. <<>> \o e = e /\ e \o <<>> = e
    BY <2>1, ConcatEmptySeq
  <2> QED
    BY <2>2
<1>2. NoNewline(<<>>)
  BY Spaces
<1> HIDE DEF e
<1> QED
  BY <1>1, <1>2, Spaces DEF Line, e

\* After a line that is long enough there is a continuation,
LEMMA Wraps ==
  ASSUME NEW type \in Types, NEW vals \in Seq(ValuesOf(type)), NEW i \in 0 .. Len(vals) - 1,
         LineLength(type, vals)[i] > WrapLength
  PROVE  /\ Line(<<Space, "\\">>, Continuation(type, vals, i + 1), Unwritten(type, vals, i))
         /\ LineLength(type, vals)[i + 1] = Len(WriteValue(type, vals[i + 1]))
<1> DEFINE v == WriteValue(type, vals[i + 1])
           u == Unwritten(type, vals, i + 1)
           a == <<Space, "\\">>  n == <<"\n">>  b == <<Space>>  wrap == <<Space, "\\", "\n", Space>>
<1>0. i + 1 \in 0 .. Len(vals) /\ i < Len(vals) /\ i \in 0 .. Len(vals)
  OBVIOUS
<1>1. v \in Text /\ u \in Text
  BY <1>0, PieceFacts, UnwrittenStep
<1>2. Unwritten(type, vals, i) = (wrap \o v) \o u
  <2>1. Unwritten(type, vals, i) = Piece(type, vals, i + 1) \o u
    BY <1>0, UnwrittenStep
  <2>2. Piece(type, vals, i + 1) = wrap \o v
    BY PieceFacts
  <2> QED
    BY <2>1, <2>2
<1>3. a \in Text /\ n \in Text /\ b \in Text /\ wrap \in Text
  BY Spaces
<1>4. wrap = (a \o n) \o b
  BY MoreTokens, TokenFacts
<1>5. NoNewline(a)
  BY Spaces
<1> HIDE DEF v, u, a, n, b, wrap
<1>6. (wrap \o v) \o u = (a \o n) \o (b \o (v \o u)) /\ b \o (v \o u) \in Text
  <2> DEFINE an == a \o n  vu == v \o u
  <2>1. an \in Text /\ vu \in Text
    BY <1>1, <1>3, TextConcat
  <2>a. wrap \in Text /\ b \in Text
    BY <1>3
  <2>2. (wrap \o v) \o u = wrap \o (v \o u)
    BY <1>1, <2>a, TextAssociative
  <2> HIDE DEF an, vu
  <2>3. b \o vu \in Text
    BY <1>3, <2>1, TextConcat
  <2>4. (an \o b) \o vu = an \o (b \o vu)
    BY <2>1, <2>a, TextAssociative
  <2> QED
    BY <1>4, <2>2, <2>3, <2>4 DEF an, vu
<1>7. Line(a, b \o (v \o u), Unwritten(type, vals, i))
  BY <1>2, <1>3, <1>5, <1>6 DEF Line, n
<1>8. LineLength(type, vals)[i + 1] = Len(v)
  <2>1. LineLength(type, vals)[i + 1] = Width(type, vals, i, LineLength(type, vals)[i])
    BY LineLengths
  <2>2. Len(v) \in Nat
    BY <1>1 DEF Text
  <2> QED
    BY <2>1, <2>2 DEF Width, v
<1> QED
  BY <1>7, <1>8 DEF v, u, a, b, Continuation

\* and before that the value follows.
LEMMA Stays ==
  ASSUME NEW type \in Types, NEW vals \in Seq(ValuesOf(type)), NEW i \in 0 .. Len(vals) - 1,
         ~(LineLength(type, vals)[i] > WrapLength)
  PROVE  /\ Unwritten(type, vals, i) =
              Between(i) \o (WriteValue(type, vals[i + 1]) \o Unwritten(type, vals, i + 1))
         /\ LineLength(type, vals)[i + 1] =
              LineLength(type, vals)[i] + Len(Between(i)) + Len(WriteValue(type, vals[i + 1]))
<1> DEFINE v == WriteValue(type, vals[i + 1])
           u == Unwritten(type, vals, i + 1)  b == Between(i)
<1>0. i + 1 \in 0 .. Len(vals) /\ i < Len(vals) /\ i \in 0 .. Len(vals)
  OBVIOUS
<1>1. v \in Text /\ u \in Text /\ b \in Text
  BY <1>0, PieceFacts, UnwrittenStep
<1>2. Unwritten(type, vals, i) = (b \o v) \o u
  <2>1. Unwritten(type, vals, i) = Piece(type, vals, i + 1) \o u
    BY <1>0, UnwrittenStep
  <2>2. Piece(type, vals, i + 1) = b \o v
    BY PieceFacts
  <2> QED
    BY <2>1, <2>2
<1>3. LineLength(type, vals)[i + 1] = LineLength(type, vals)[i] + Len(b) + Len(v)
  <2>1. LineLength(type, vals)[i + 1] = Width(type, vals, i, LineLength(type, vals)[i])
    BY LineLengths
  <2>2. Len(b) = IF i = 0 THEN 0 ELSE 1
    BY DEF Between
  <2> HIDE DEF b
  <2> QED
    BY <2>1, <2>2 DEF Width, v
<1> HIDE DEF v, u, b
<1>4. (b \o v) \o u = b \o (v \o u)
  BY <1>1, TextAssociative
<1> QED
  BY <1>2, <1>3, <1>4 DEF v, u, b

\* There is a line more.
LEMMA HasLine ==
  ASSUME NEW type \in Types, NEW vals \in Seq(ValuesOf(type)), NEW i \in 0 .. Len(vals)
  PROVE  \E l, w : Line(l, w, Unwritten(type, vals, i))
<1> DEFINE r == Rest(Pieces(type, vals), i)  e == <<"\n">>
<1>1. r \in Text
  <2> DEFINE p == Pieces(type, vals)
  <2>1. p \in Seq(Seq(Tokens)) /\ Len(p) = Len(vals)
    BY PiecesType
  <2> HIDE DEF p
  <2>2. i \in i .. Len(p) /\ i \in 0 .. Len(p)
    BY <2>1
  <2> QED
    BY <2>1, <2>2, RestSplit DEF Text, p
<1>2. e \in Text /\ e[1] = "\n" /\ Len(e) = 1
  BY Spaces
<1> HIDE DEF r, e
<1>3. (r \o e)[Len(r) + 1] = "\n" /\ r \o e \in Text /\ Len(r \o e) = Len(r) + 1
  <2>1. /\ r \o e \in Text /\ Len(r \o e) = Len(r) + Len(e)
        /\ \A j \in 1 .. Len(e) : (r \o e)[Len(r) + j] = e[j]
    BY <1>1, <1>2, TwoParts
  <2>2. 1 \in 1 .. Len(e)
    BY <1>2
  <2> QED
    BY <1>2, <2>1, <2>2
<1>4. "\n" \in Range(r \o e)
  <2> DEFINE s == r \o e
  <2> HIDE DEF s
  <2>1. s \in Text /\ Len(s) = Len(r) + 1 /\ s[Len(r) + 1] = "\n" /\ Len(r) \in Nat
    BY <1>1, <1>3 DEF s, Text
  <2>2. Len(r) + 1 \in DOMAIN s
    BY <2>1 DEF Text
  <2> QED
    BY <2>1, <2>2 DEF Range, s
<1>5. \E l, w : Line(l, w, r \o e)
  BY <1>3, <1>4, LineExists
<1> QED
  BY <1>5 DEF Unwritten, r, e

\* No backslash comes before an equal sign, nor at the end of the line if nothing follows.
Fine(l, w) ==
  /\ \A j \in 1 .. Len(l) : l[j] = "\\" => IF j = Len(l) THEN w # <<>> ELSE l[j + 1] # "="

\* A plain text before a fine line leaves it fine.
LEMMA FineMore ==
  ASSUME NEW a, Plain(a), NEW l \in Text, NEW w, Fine(l, w)
  PROVE  Fine(a \o l, w)
<1> DEFINE s == a \o l
<1>1. /\ s \in Text /\ Len(s) = Len(a) + Len(l) /\ Len(a) \in Nat /\ Len(l) \in Nat
      /\ \A j \in 1 .. Len(a) : s[j] = a[j]
      /\ \A j \in 1 .. Len(l) : s[Len(a) + j] = l[j]
  BY TwoParts DEF Plain, Text
<1>2. "=" \notin Digits
  BY DEF Digits
<1> HIDE DEF s
<1>3. ASSUME NEW j \in 1 .. Len(s), s[j] = "\\"
      PROVE  IF j = Len(s) THEN w # <<>> ELSE s[j + 1] # "="
  <2>1. CASE j <= Len(a)
    <3>1. j \in 1 .. Len(a) /\ a[j] = "\\"
      BY <1>1, <1>3, <2>1
    <3>2. j < Len(a) /\ a[j + 1] \in Digits
      BY <3>1 DEF Plain
    <3>3. j + 1 \in 1 .. Len(a)
      BY <1>1, <3>2
    <3> QED
      BY <1>1, <1>2, <3>2, <3>3
  <2>2. CASE j > Len(a)
    <3> DEFINE i == j - Len(a)
    <3>1. i \in 1 .. Len(l) /\ Len(a) + i = j /\ (i = Len(l) <=> j = Len(s))
      BY <1>1, <2>2
    <3>2. Len(a) + (i + 1) = j + 1 /\ (i # Len(l) => i + 1 \in 1 .. Len(l))
      BY <1>1, <3>1
    <3> HIDE DEF i
    <3>3. l[i] = "\\"
      BY <1>1, <1>3, <3>1
    <3>4. IF i = Len(l) THEN w # <<>> ELSE l[i + 1] # "="
      BY <3>1, <3>3 DEF Fine
    <3>5. i # Len(l) => s[j + 1] = l[i + 1]
      BY <1>1, <3>2
    <3> QED
      BY <3>1, <3>4, <3>5
  <2> QED
    BY <1>1, <2>1, <2>2
<1> QED
  BY <1>3 DEF Fine, s

\* What follows a line of a variable.
Follows(type, vals, u) ==
  \/ u = <<>>
  \/ \E j \in 1 .. Len(vals) :
       /\ u = Continuation(type, vals, j)
       /\ LineLength(type, vals)[j] = Len(WriteValue(type, vals[j]))

\* The first line of what is unwritten fits in the buffer, ends with a backslash only if
\* another one follows, and that begins with a value.
LEMMA LineOf ==
  ASSUME NEW type \in Types, NEW vals \in Seq(ValuesOf(type)), NEW i \in 0 .. Len(vals),
         NEW l, NEW u, Line(l, u, Unwritten(type, vals, i))
  PROVE  /\ Len(l) + LineLength(type, vals)[i] <= Longest + 2
         /\ Fine(l, u) /\ Follows(type, vals, u)
<1> DEFINE n == Len(vals)  h == LineLength(type, vals)  U(j) == Unwritten(type, vals, j)
           Good(j) == \A m, w : Line(m, w, U(j)) =>
                        Len(m) + h[j] <= Longest + 2 /\ Fine(m, w) /\ Follows(type, vals, w)
           S == {j \in 0 .. n : Good(j)}
<1>1. n \in Nat /\ Longest \in Nat
  BY StateTextAssumption, StateFileAssumption DEF Longest
<1>2. \A j \in 0 .. n : h[j] \in 0 .. Longest
  BY LineLengths
<1> HIDE DEF h
<1>3. n \in S
  <2>1. ASSUME NEW m, NEW w, Line(m, w, U(n))
        PROVE  Len(m) + h[n] <= Longest + 2 /\ Fine(m, w) /\ Follows(type, vals, w)
    <3>1. n \in 0 .. n
      BY <1>1
    <3>2. U(n) = <<"\n">>
      BY <3>1, UnwrittenStep
    <3>3. m = <<>> /\ w = <<>>
      BY <2>1, <3>2, LineEnds, LineUnique
    <3>4. Len(m) = 0
      BY <3>3
    <3> QED
      BY <1>1, <1>2, <3>1, <3>3, <3>4 DEF Fine, Follows
  <2> QED
    BY <1>1, <2>1
<1>4. ASSUME NEW j \in 0 .. n - 1, j + 1 \in S
      PROVE  j \in S
  <2>1. ASSUME NEW m, NEW w, Line(m, w, U(j))
        PROVE  Len(m) + h[j] <= Longest + 2 /\ Fine(m, w) /\ Follows(type, vals, w)
    <3>0. j \in 0 .. n /\ j + 1 \in 1 .. n /\ j + 1 \in 0 .. n
      BY <1>1
    <3>1. CASE h[j] > WrapLength
      <4>1. /\ Line(<<Space, "\\">>, Continuation(type, vals, j + 1), U(j))
            /\ h[j + 1] = Len(WriteValue(type, vals[j + 1]))
        BY <3>1, Wraps DEF h
      <4>2. m = <<Space, "\\">> /\ w = Continuation(type, vals, j + 1)
        BY <2>1, <4>1, LineUnique
      <4>3. Len(m) = 2 /\ m[1] = Space
        BY <4>2
      <4>4. w # <<>>
        <5> DEFINE vu == WriteValue(type, vals[j + 1]) \o U(j + 1)
        <5>1. vu \in Text /\ Space \in Tokens
          BY <3>0, PieceFacts, UnwrittenStep, TextConcat, TokenFacts
        <5>2. w = <<Space>> \o vu
          BY <4>2 DEF Continuation
        <5> HIDE DEF vu
        <5> QED
          BY <5>1, <5>2, OneBefore
      <4>5. Fine(m, w)
        <5>1. 1 .. Len(m) = {1, 2}
          <6>1. 1 .. 2 = {1, 2}
            OBVIOUS
          <6>2. Len(m) = 2
            BY <4>3
          <6> QED
            BY <6>1, <6>2
        <5> QED
          BY <4>3, <4>4, <5>1, QuoteFacts DEF Fine
      <4>6. Follows(type, vals, w)
        BY <3>0, <4>1, <4>2 DEF Follows, h
      <4>7. Len(m) + h[j] <= Longest + 2
        <5>1. h[j] \in 0 .. Longest
          BY <1>2, <3>0
        <5>2. Len(m) = 2
          BY <4>3
        <5> QED
          BY <1>1, <5>1, <5>2
      <4> QED
        BY <4>5, <4>6, <4>7
    <3>2. CASE ~(h[j] > WrapLength)
      <4> DEFINE v == WriteValue(type, vals[j + 1])  b == Between(j)  a == b \o v
      <4>1. U(j) = b \o (v \o U(j + 1)) /\ h[j + 1] = h[j] + Len(b) + Len(v)
        BY <3>2, Stays DEF h
      <4>2. vals[j + 1] \in ValuesOf(type) /\ Plain(v) /\ v \in Text /\ b \in Text
        BY <3>0, PieceFacts, WriteValueFacts
      <4>3. Plain(b)
        <5>1. Plain(<<>>)
          <6> DEFINE e == <<>>
          <6>1. Len(e) = 0 /\ e \in Text /\ NoNewline(e)
            BY Spaces
          <6> HIDE DEF e
          <6>2. Plain(e)
            BY <6>1 DEF Plain
          <6> QED
            BY <6>2 DEF e
        <5>2. Plain(<<Space>>)
          BY TokenFacts, PlainOne, QuoteFacts
        <5> QED
          BY <5>1, <5>2 DEF Between
      <4>4. U(j + 1) \in Text
        BY <3>0, UnwrittenStep
      <4> HIDE DEF v, b
      <4>5. Plain(a) /\ a \in Text /\ Len(a) = Len(b) + Len(v)
        BY <4>2, <4>3, PlainConcat, TwoParts
      <4>6. U(j) = a \o U(j + 1)
        BY <4>1, <4>2, <4>4, TextAssociative
      <4> HIDE DEF a
      <4>7. NoNewline(a)
        BY <4>5 DEF Plain
      <4>8. PICK k \in Text : m = a \o k /\ Line(k, w, U(j + 1))
        BY <2>1, <4>4, <4>5, <4>6, <4>7, LineWithout
      <4>9. Len(k) + h[j + 1] <= Longest + 2 /\ Fine(k, w) /\ Follows(type, vals, w)
        BY <1>4, <4>8
      <4>10. Fine(m, w)
        BY <4>5, <4>8, <4>9, FineMore
      <4>11. Len(m) = Len(a) + Len(k) /\ Len(k) \in Nat /\ Len(b) \in Nat /\ Len(v) \in Nat
        <5>1. Len(a \o k) = Len(a) + Len(k)
          BY <4>5, <4>8, TwoParts
        <5> QED
          BY <4>2, <4>8, <5>1 DEF Text
      <4>12. Len(m) + h[j] <= Longest + 2
        BY <1>1, <1>2, <3>0, <4>1, <4>5, <4>9, <4>11
      <4> QED
        BY <4>9, <4>10, <4>12
    <3> QED
      BY <3>1, <3>2
  <2> HIDE DEF Good
  <2>2. Good(j)
    BY <2>1 DEF Good
  <2> QED
    BY <1>1, <2>2
<1> HIDE DEF S
<1>5. \A j \in 0 .. n : j \in S
  BY <1>1, <1>3, <1>4, DownTo
<1>6. i \in S
  BY <1>5
<1> QED
  BY <1>6 DEF S, h


-------------------------------------------------------------------------------
(* Lines and spaces.                                                      *)

\* Where a token occurs first.
IndexOf(text, x) == SelectInSeq(text, LAMBDA c : c = x)

\* strchr() finds the first place of a character, if it has any.
LEMMA IndexOfFacts ==
  ASSUME NEW text \in Text, NEW x
  PROVE  /\ IndexOf(text, x) \in 0 .. Len(text)
         /\ IndexOf(text, x) # 0 => text[IndexOf(text, x)] = x
         /\ \A i \in 1 .. Len(text) : text[i] = x => IndexOf(text, x) # 0 /\ IndexOf(text, x) <= i
<1> DEFINE I == {i \in 1 .. Len(text) : text[i] = x}
<1>1. IndexOf(text, x) = IF I # {} THEN Min(I) ELSE 0
  BY DEF IndexOf, SelectInSeq
<1>2. I \in SUBSET Nat /\ Len(text) \in Nat
  BY DEF Text
<1>3. CASE I = {}
  BY <1>1, <1>2, <1>3
<1>4. CASE I # {}
  <2>1. \E n \in I : \A m \in I : n <= m
    <3> HIDE DEF I
    <3> QED
      BY <1>2, <1>4, LeastNat
  <2>2. Min(I) \in I /\ \A m \in I : Min(I) <= m
    <3> HIDE DEF I
    <3> QED
      BY <2>1 DEF Min
  <2> DEFINE n == Min(I)
  <2>3. n \in 1 .. Len(text) /\ text[n] = x /\ \A i \in 1 .. Len(text) : text[i] = x => n <= i
    BY <2>2
  <2>4. IndexOf(text, x) = n
    BY <1>1, <1>4
  <2> HIDE DEF n, I
  <2> QED
    BY <1>2, <2>3, <2>4
<1> QED
  BY <1>3, <1>4

\* How far fgets() reads.
LEMMA FgetsFacts ==
  ASSUME NEW text \in Text, text # <<>>
  PROVE  /\ Fgets(text) \in 1 .. Len(text) /\ Fgets(text) < BufferSize
         /\ \A i \in 1 .. Fgets(text) - 1 : text[i] # "\n"
         /\ \A i \in 1 .. Len(text) : i < BufferSize /\ text[i] = "\n" => Fgets(text) <= i
         /\ text[Fgets(text)] # "\n" => Fgets(text) = Len(text) \/ Fgets(text) = BufferSize - 1
<1> DEFINE n == IndexOf(text, "\n")
           most == IF Len(text) < BufferSize THEN Len(text) ELSE BufferSize - 1
<1>1. Fgets(text) = IF n \in 1 .. most THEN n ELSE most
  BY DEF Fgets, IndexOf
<1>2. /\ n \in 0 .. Len(text) /\ (n # 0 => text[n] = "\n")
      /\ \A i \in 1 .. Len(text) : text[i] = "\n" => n # 0 /\ n <= i
  BY IndexOfFacts
<1>3. Len(text) \in Nat \ {0} /\ BufferSize \in Nat /\ BufferSize >= 8
  BY StateTextAssumption, StateFileAssumption DEF Text
<1> HIDE DEF n
<1>4. most \in 1 .. Len(text) /\ most < BufferSize /\ (most = Len(text) \/ most = BufferSize - 1)
      /\ \A i \in 1 .. Len(text) : i < BufferSize => i <= most
  BY <1>3
<1> HIDE DEF most
<1> DEFINE f == Fgets(text)
<1>5. f \in 1 .. most
  BY <1>1, <1>3, <1>4
<1>6. ASSUME NEW i \in 1 .. Len(text), text[i] = "\n"
      PROVE  i <= most => f = n /\ n <= i
  BY <1>1, <1>2, <1>3, <1>4, <1>6
<1> HIDE DEF f
<1>7. \A i \in 1 .. f - 1 : text[i] # "\n"
  <2> SUFFICES ASSUME NEW i \in 1 .. f - 1, text[i] = "\n" PROVE FALSE
    OBVIOUS
  <2>1. i \in 1 .. Len(text) /\ i <= most /\ i < f
    BY <1>3, <1>4, <1>5
  <2> QED
    BY <1>2, <1>3, <1>5, <1>6, <2>1
<1>8. \A i \in 1 .. Len(text) : i < BufferSize /\ text[i] = "\n" => f <= i
  BY <1>2, <1>4, <1>6
<1>9. text[f] # "\n" => f = most
  BY <1>1, <1>2, <1>3, <1>4 DEF f
<1> QED
  BY <1>3, <1>4, <1>5, <1>7, <1>8, <1>9 DEF f

\* What read_line() leaves behind, whatever there is to read.
LEMMA ReadLineFacts ==
  ASSUME rest \in Text, rest # <<>>
  PROVE  \E n \in 1 .. Len(rest) :
           /\ n < BufferSize
           /\ ReadLine.ok = (rest[n] = "\n") /\ ~ReadLine.eof /\ ReadLine.cursor = cursor
           /\ ReadLine.rest = SubSeq(rest, n + 1, Len(rest))
           /\ ReadLine.line = SubSeq(rest, 1, IF rest[n] = "\n" THEN n - 1 ELSE n)
           /\ \A i \in 1 .. n - 1 : rest[i] # "\n"
           /\ \A i \in 1 .. Len(rest) : i < BufferSize /\ rest[i] = "\n" => n <= i
<1> DEFINE n == Fgets(rest)
<1>1. /\ n \in 1 .. Len(rest) /\ n < BufferSize
      /\ \A i \in 1 .. n - 1 : rest[i] # "\n"
      /\ \A i \in 1 .. Len(rest) : i < BufferSize /\ rest[i] = "\n" => n <= i
  BY FgetsFacts
<1>2. ReadLine = [ok |-> rest[n] = "\n", eof |-> FALSE, cursor |-> cursor,
                  rest |-> SubSeq(rest, n + 1, Len(rest)),
                  line |-> SubSeq(rest, 1, IF rest[n] = "\n" THEN n - 1 ELSE n)]
  BY DEF ReadLine
<1> HIDE DEF n
<1> QED
  BY <1>1, <1>2

\* A line that fits in the buffer is read as it is.
LEMMA ReadLineIs ==
  ASSUME NEW l, NEW w, NEW u, Line(l, w, u), NEW v \in Text, rest = u \o v, Len(l) + 1 < BufferSize
  PROVE  ReadLine = [ok |-> TRUE, eof |-> FALSE, line |-> l, cursor |-> cursor, rest |-> w \o v]
<1> DEFINE n == Fgets(rest)
<1>0. Line(l, w \o v, rest)
  BY LineMore
<1>1. l \in Text /\ w \o v \in Text /\ NoNewline(l)
  BY <1>0 DEF Line
<1>2. /\ rest \in Text /\ Len(rest) = Len(l) + 1 + Len(w \o v) /\ rest[Len(l) + 1] = "\n"
      /\ \A i \in 1 .. Len(l) : rest[i] # "\n"
  <2> DEFINE z == w \o v
  <2>1. Line(l, z, rest)
    BY <1>0
  <2> HIDE DEF z
  <2>a. /\ rest \in Text
        /\ Len(rest) = Len(l) + 1 + Len(z)
        /\ \A i \in 1 .. Len(l) : rest[i] = l[i] /\ rest[i] # "\n"
        /\ rest[Len(l) + 1] = "\n"
        /\ \A i \in 1 .. Len(z) : rest[Len(l) + 1 + i] = z[i]
    <3>1. ASSUME NEW t, Line(l, z, t)
          PROVE  /\ t \in Text
                 /\ Len(t) = Len(l) + 1 + Len(z)
                 /\ \A i \in 1 .. Len(l) : t[i] = l[i] /\ t[i] # "\n"
                 /\ t[Len(l) + 1] = "\n"
                 /\ \A i \in 1 .. Len(z) : t[Len(l) + 1 + i] = z[i]
      BY <3>1, LineTokens
    <3> QED
      BY <2>1, <3>1, Zenon
  <2>2. /\ rest \in Text /\ Len(rest) = Len(l) + 1 + Len(z) /\ rest[Len(l) + 1] = "\n"
        /\ \A i \in 1 .. Len(l) : rest[i] # "\n"
    BY <2>a
  <2> QED
    BY <2>2 DEF z
<1> DEFINE z == w \o v
<1> HIDE DEF z
<1>3. Len(l) \in Nat /\ Len(z) \in Nat /\ Len(rest) = Len(l) + 1 + Len(z)
  BY <1>1, <1>2 DEF Text, z
<1>4. rest # <<>>
  BY <1>2, <1>3
<1>5. n = Len(l) + 1
  <2>1. /\ n \in 1 .. Len(rest)
        /\ \A i \in 1 .. Len(rest) : i < BufferSize /\ rest[i] = "\n" => n <= i
        /\ n < BufferSize
        /\ rest[n] # "\n" => n = Len(rest) \/ n = BufferSize - 1
    BY <1>2, <1>4, FgetsFacts
  <2>2. Len(l) + 1 \in 1 .. Len(rest)
    BY <1>3
  <2>3. n <= Len(l) + 1
    BY <1>2, <2>1, <2>2
  <2>4. BufferSize \in Nat
    BY StateFileAssumption
  <2>5. ~(n <= Len(l))
    <3> SUFFICES ASSUME n <= Len(l) PROVE FALSE
      OBVIOUS
    <3>1. n \in 1 .. Len(l)
      BY <1>3, <2>1
    <3>2. rest[n] # "\n"
      BY <1>2, <3>1
    <3> QED
      BY <1>3, <2>1, <2>4, <3>1, <3>2
  <2> QED
    BY <1>3, <2>1, <2>3, <2>5
<1>6. rest = (l \o <<"\n">>) \o z
  BY <1>0 DEF Line, z
<1> DEFINE e == <<"\n">>  le == l \o e
<1>7. e \in Text /\ Len(e) = 1 /\ le \in Text /\ Len(le) = Len(l) + 1 /\ z \in Text
  <2>1. e \in Text /\ Len(e) = 1
    BY Spaces
  <2> HIDE DEF e
  <2>2. z \in Text
    BY <1>1 DEF z
  <2>3. l \o e \in Text /\ Len(l \o e) = Len(l) + Len(e)
    BY <1>1, <2>1, TwoParts
  <2> QED
    BY <2>1, <2>2, <2>3
<1> HIDE DEF n, e, le
<1>8. SubSeq(rest, n + 1, Len(rest)) = z
  <2>1. SubSeq(le \o z, Len(le) + 1, Len(le \o z)) = z
    BY <1>7, TwoParts
  <2> QED
    BY <1>5, <1>6, <1>7, <2>1 DEF le, e
<1>9. SubSeq(rest, 1, n - 1) = l
  <2>1. rest = l \o (e \o z)
    <3>1. l \in Text /\ e \in Text /\ z \in Text
      BY <1>1, <1>7
    <3>2. (l \o e) \o z = l \o (e \o z)
      BY <3>1, TextAssociative
    <3> QED
      BY <1>6, <3>2 DEF e
  <2>2. e \o z \in Text
    BY <1>7, TextConcat
  <2> DEFINE ez == e \o z
  <2> HIDE DEF ez
  <2>3. SubSeq(l \o ez, 1, Len(l)) = l
    BY <1>1, <2>2, TwoParts DEF ez
  <2>4. n - 1 = Len(l)
    BY <1>3, <1>5
  <2> QED
    BY <2>1, <2>3, <2>4 DEF ez
<1>10. rest[n] = "\n"
  BY <1>2, <1>5
<1>11. ReadLine = [ok |-> rest[n] = "\n", eof |-> FALSE, cursor |-> cursor,
                   rest |-> SubSeq(rest, n + 1, Len(rest)),
                   line |-> SubSeq(rest, 1, IF rest[n] = "\n" THEN n - 1 ELSE n)]
  BY <1>4 DEF ReadLine, n
<1> QED
  BY <1>8, <1>9, <1>10, <1>11 DEF z

\* What is skipped.
LEMMA SkipSpacesFacts ==
  ASSUME NEW text \in Text
  PROVE  /\ Within(SkipSpaces(text), text)
         /\ text # <<>> /\ text[1] # Space => SkipSpaces(text) = text
<1> DEFINE I == {i \in 1 .. Len(text) : text[i] # Space}
<1>1. SkipSpaces(text) = IF I = {} THEN <<>>
                         ELSE IF Min(I) = 0 THEN <<>> ELSE SubSeq(text, Min(I), Len(text))
  BY DEF SkipSpaces, SelectInSeq
<1>2. I \in SUBSET Nat /\ Len(text) \in Nat
  BY DEF Text
<1>3. CASE I = {}
  <2>1. Within(<<>>, text)
    <3>1. Len(<<>>) = 0 /\ DOMAIN <<>> = {}
      OBVIOUS
    <3>2. Range(<<>>) = {}
      BY <3>1 DEF Range
    <3> QED
      BY <1>2, <3>1, <3>2, Spaces DEF Within
  <2>2. text # <<>> => text[1] = Space
    BY <1>2, <1>3 DEF Text
  <2> QED
    BY <1>1, <1>3, <2>1, <2>2
<1>4. CASE I # {}
  <2>1. \E n \in I : \A m \in I : n <= m
    <3> HIDE DEF I
    <3> QED
      BY <1>2, <1>4, LeastNat
  <2> DEFINE n == Min(I)
  <2>2. n \in I /\ \A m \in I : n <= m
    <3> HIDE DEF I
    <3> QED
      BY <2>1 DEF Min
  <2>3. n \in 1 .. Len(text) /\ text[n] # Space
        /\ \A i \in 1 .. Len(text) : text[i] # Space => n <= i
    BY <2>2
  <2>4. SkipSpaces(text) = SubSeq(text, n, Len(text))
    <3>1. n # 0
      BY <2>3
    <3> QED
      BY <1>1, <1>4, <3>1
  <2> HIDE DEF n
  <2>5. Within(SubSeq(text, n, Len(text)), text)
    BY <1>2, <2>3, SubSeqWithin
  <2>6. ASSUME text[1] # Space PROVE SkipSpaces(text) = text
    <3>1. n = 1
      BY <1>2, <2>3, <2>6
    <3>2. SubSeq(text, 1, Len(text)) = text
      BY SubSeqFull DEF Text
    <3> QED
      BY <2>4, <3>1, <3>2
  <2> QED
    BY <2>4, <2>5, <2>6
<1> QED
  BY <1>3, <1>4


\* A space is skipped, and no more.
LEMMA SkipOne ==
  ASSUME NEW t \in Text, t # <<>>, t[1] # Space
  PROVE  SkipSpaces(<<Space>> \o t) = t
<1> DEFINE s == <<Space>> \o t
           I == {i \in 1 .. Len(s) : s[i] # Space}
<1>1. SkipSpaces(s) = IF I = {} THEN <<>>
                      ELSE IF Min(I) = 0 THEN <<>> ELSE SubSeq(s, Min(I), Len(s))
  BY DEF SkipSpaces, SelectInSeq
<1>2. /\ s \in Text /\ s # <<>> /\ Len(s) = Len(t) + 1 /\ Head(s) = Space /\ Tail(s) = t
      /\ s[1] = Space
  BY TokenFacts, OneBefore
<1> HIDE DEF s
<1>3. Len(t) \in Nat \ {0} /\ Len(s) \in Nat
  BY <1>2 DEF Text
<1>4. s[2] = t[1]
  <2>1. Tail(s)[1] = s[1 + 1]
    <3>1. 1 \in 1 .. Len(Tail(s))
      BY <1>2, <1>3
    <3> QED
      BY <1>2, <3>1, HeadTailProperties DEF Text
  <2> QED
    BY <1>2, <2>1
<1>5. 2 \in I /\ \A i \in I : 2 <= i
  BY <1>2, <1>3, <1>4
<1>6. Min(I) = 2
  <2>1. \A n \in I : (\A m \in I : n <= m) => n = 2
    <3>1. I \subseteq Nat
      OBVIOUS
    <3> HIDE DEF I
    <3> QED
      BY <1>5, <3>1
  <2> HIDE DEF I
  <2> QED
    BY <1>5, <2>1 DEF Min
<1>7. SubSeq(s, 2, Len(s)) = t
  BY <1>2, TailIsSubSeq DEF Text
<1>8. SkipSpaces(s) = t
  <2>1. I # {}
    BY <1>5
  <2> HIDE DEF I
  <2> QED
    BY <1>1, <1>6, <1>7, <2>1
<1> QED
  BY <1>8 DEF s

\* A part of a text that begins after its first n tokens, and the whole of it.
LEMMA Split ==
  ASSUME NEW text \in Text, NEW n \in 0 .. Len(text)
  PROVE  /\ SubSeq(text, 1, n) \in Text /\ Len(SubSeq(text, 1, n)) = n
         /\ SubSeq(text, n + 1, Len(text)) \in Text
         /\ text = SubSeq(text, 1, n) \o SubSeq(text, n + 1, Len(text))
<1>1. text \in Seq(Tokens) /\ Len(text) \in Nat
  BY DEF Text
<1>2. SubSeq(text, 1, n) \in Seq(Tokens) /\ Len(SubSeq(text, 1, n)) = n
  BY <1>1
<1>3. SubSeq(text, n + 1, Len(text)) \in Seq(Tokens)
  BY <1>1
<1>4. SubSeq(text, 1, n) \o SubSeq(text, n + 1, Len(text)) = SubSeq(text, 1, Len(text))
  <2>1. 1 \in 1 .. Len(text) + 1 /\ n \in 1 - 1 .. Len(text) /\ Len(text) \in n .. Len(text)
    BY <1>1
  <2> QED
    BY <1>1, <2>1, ConcatAdjacentSubSeq
<1>5. SubSeq(text, 1, Len(text)) = text
  BY <1>1, SubSeqFull
<1> QED
  BY <1>2, <1>3, <1>4, <1>5 DEF Text

\* What spills.
LEMMA SpillsSuffix ==
  ASSUME NEW a \in Text, NEW b \in Text, Spills(b)
  PROVE  Spills(a \o b)
<1> DEFINE s == a \o b
<1>1. /\ s \in Text /\ Len(s) = Len(a) + Len(b) /\ Len(a) \in Nat /\ Len(b) \in Nat
      /\ \A i \in 1 .. Len(b) : s[Len(a) + i] = b[i]
  BY TwoParts DEF Text
<1>2. DOMAIN s = 1 .. Len(s) /\ DOMAIN b = 1 .. Len(b)
  BY <1>1 DEF Text
<1> HIDE DEF s
<1>3. CASE b # <<>> /\ Last(b) # "\n"
  <2>1. Len(b) \in 1 .. Len(b) /\ Len(a) + Len(b) = Len(s)
    BY <1>1, <1>3 DEF Text
  <2>2. s[Len(s)] = b[Len(b)]
    BY <1>1, <2>1
  <2>3. s # <<>>
    BY <1>1, <2>1
  <2> QED
    BY <1>3, <2>2, <2>3 DEF Spills, Last, s
<1>4. CASE \E i \in DOMAIN b : b[i] = "\\" /\ \A j \in i + 1 .. Len(b) - 1 : b[j] # "\n"
  <2>1. PICK i \in 1 .. Len(b) : b[i] = "\\" /\ \A j \in i + 1 .. Len(b) - 1 : b[j] # "\n"
    BY <1>2, <1>4
  <2> DEFINE k == Len(a) + i
  <2>2. k \in DOMAIN s /\ s[k] = "\\"
    BY <1>1, <1>2, <2>1
  <2>3. ASSUME NEW m \in k + 1 .. Len(s) - 1
        PROVE  s[m] # "\n"
    <3> DEFINE j == m - Len(a)
    <3>1. j \in i + 1 .. Len(b) - 1 /\ j \in 1 .. Len(b) /\ Len(a) + j = m
      BY <1>1
    <3> HIDE DEF j
    <3> QED
      BY <1>1, <2>1, <3>1
  <2> HIDE DEF k
  <2>4. \E l \in DOMAIN s : s[l] = "\\" /\ \A m \in l + 1 .. Len(s) - 1 : s[m] # "\n"
    BY <2>2, <2>3
  <2> QED
    BY <2>4 DEF Spills, s
<1> QED
  BY <1>3, <1>4 DEF Spills

\* Texts that end with their lines do so together.
LEMMA SpillsConcat ==
  ASSUME NEW a \in Text, NEW b \in Text, ~Spills(a), ~Spills(b)
  PROVE  ~Spills(a \o b)
<1> DEFINE s == a \o b
<1>1. /\ s \in Text /\ Len(s) = Len(a) + Len(b) /\ Len(a) \in Nat /\ Len(b) \in Nat
      /\ \A i \in 1 .. Len(a) : s[i] = a[i]
      /\ \A i \in 1 .. Len(b) : s[Len(a) + i] = b[i]
  BY TwoParts DEF Text
<1>2. DOMAIN s = 1 .. Len(s) /\ DOMAIN b = 1 .. Len(b) /\ DOMAIN a = 1 .. Len(a)
  BY <1>1 DEF Text
<1> HIDE DEF s
<1>3. s # <<>> => Last(s) = "\n"
  <2>1. CASE b # <<>>
    <3>1. Len(b) \in 1 .. Len(b) /\ Len(a) + Len(b) = Len(s) /\ Last(b) = "\n"
      BY <1>1, <2>1 DEF Text, Spills
    <3> QED
      BY <1>1, <3>1 DEF Last
  <2>2. CASE b = <<>>
    <3>1. s = a
      BY <2>2 DEF s, Text
    <3> QED
      BY <3>1 DEF Spills
  <2> QED
    BY <2>1, <2>2
<1>4. ASSUME NEW k \in 1 .. Len(s), s[k] = "\\", \A m \in k + 1 .. Len(s) - 1 : s[m] # "\n"
      PROVE  FALSE
  <2>1. CASE k <= Len(a)
    <3>1. k \in 1 .. Len(a) /\ a[k] = "\\"
      BY <1>1, <1>4, <2>1
    <3>2. PICK j \in k + 1 .. Len(a) - 1 : a[j] = "\n"
      BY <1>2, <3>1 DEF Spills
    <3>3. j \in 1 .. Len(a) /\ j \in k + 1 .. Len(s) - 1
      BY <1>1
    <3> QED
      BY <1>1, <1>4, <3>2, <3>3
  <2>2. CASE k > Len(a)
    <3> DEFINE i == k - Len(a)
    <3>1. i \in 1 .. Len(b) /\ Len(a) + i = k
      BY <1>1, <2>2
    <3> HIDE DEF i
    <3>2. b[i] = "\\"
      BY <1>1, <1>4, <3>1
    <3>3. PICK j \in i + 1 .. Len(b) - 1 : b[j] = "\n"
      BY <1>2, <3>1, <3>2 DEF Spills
    <3> DEFINE m == Len(a) + j
    <3>4. j \in 1 .. Len(b) /\ m \in k + 1 .. Len(s) - 1
      BY <1>1, <3>1
    <3>5. s[m] = "\n"
      BY <1>1, <3>3, <3>4
    <3> HIDE DEF m
    <3> QED
      BY <1>4, <3>4, <3>5
  <2> QED
    BY <1>1, <2>1, <2>2
<1>5. ~ \E k \in DOMAIN s : s[k] = "\\" /\ \A m \in k + 1 .. Len(s) - 1 : s[m] # "\n"
  BY <1>2, <1>4
<1> QED
  BY <1>3, <1>5 DEF Spills, s

\* A line that is read from what was edited stays in it, unless that spills.
LEMMA ReadLoose ==
  ASSUME NEW u \in Text, NEW v \in Text, rest = u \o v, u # <<>>, v = <<>> \/ ~Spills(u)
  PROVE  \E w \in Text :
           /\ ReadLine.rest = w \o v
           /\ Range(w) \subseteq Range(u) /\ Range(ReadLine.line) \subseteq Range(u)
           /\ ~Spills(u) => ~Spills(w) /\ (w = <<>> => "\\" \notin Range(ReadLine.line))
<1>1. /\ rest \in Text /\ Len(rest) = Len(u) + Len(v) /\ Len(u) \in Nat \ {0} /\ Len(v) \in Nat
      /\ \A i \in 1 .. Len(u) : rest[i] = u[i]
  BY TwoParts DEF Text
<1>2. rest # <<>>
  BY <1>1
<1>3. PICK n \in 1 .. Len(rest) :
         /\ n < BufferSize
         /\ ReadLine.ok = (rest[n] = "\n") /\ ~ReadLine.eof /\ ReadLine.cursor = cursor
         /\ ReadLine.rest = SubSeq(rest, n + 1, Len(rest))
         /\ ReadLine.line = SubSeq(rest, 1, IF rest[n] = "\n" THEN n - 1 ELSE n)
         /\ \A i \in 1 .. n - 1 : rest[i] # "\n"
         /\ \A i \in 1 .. Len(rest) : i < BufferSize /\ rest[i] = "\n" => n <= i
  BY <1>1, <1>2, ReadLineFacts
<1>4. n \in 1 .. Len(u)
  <2>1. CASE v = <<>>
    <3>1. Len(v) = 0
      BY <2>1
    <3> QED
      BY <1>1, <3>1
  <2>2. CASE ~Spills(u)
    <3>1. Last(u) = "\n"
      BY <2>2 DEF Spills
    <3>2. rest[Len(u)] = "\n" /\ Len(u) \in 1 .. Len(rest)
      BY <1>1, <3>1 DEF Last
    <3>3. BufferSize \in Nat
      BY StateFileAssumption
    <3> QED
      BY <1>1, <1>3, <3>2, <3>3
  <2> QED
    BY <2>1, <2>2
<1> DEFINE a == SubSeq(u, 1, n)  w == SubSeq(u, n + 1, Len(u))  l == ReadLine.line
<1>5. a \in Text /\ Len(a) = n /\ w \in Text /\ u = a \o w
  <2>1. n \in 0 .. Len(u)
    BY <1>1, <1>4
  <2> QED
    BY <2>1, Split
<1>6. Within(w, u)
  BY <1>1, <1>4, SubSeqWithin
<1> HIDE DEF a, w
<1>7. ReadLine.rest = w \o v
  <2> DEFINE wv == w \o v
  <2>1. wv \in Text
    BY <1>5, TextConcat
  <2>2. rest = a \o wv
    BY <1>5, TextAssociative, SMTT(30)
  <2> HIDE DEF wv
  <2>3. SubSeq(a \o wv, Len(a) + 1, Len(a \o wv)) = wv
    BY <1>5, <2>1, TwoParts
  <2> QED
    BY <1>3, <1>5, <2>2, <2>3 DEF wv
<1> DEFINE m == IF rest[n] = "\n" THEN n - 1 ELSE n
<1>8. m \in Nat /\ m <= n /\ m <= Len(u) /\ m <= Len(rest)
  BY <1>1, <1>4
<1>9. l \in Text /\ Len(l) = m /\ \A i \in 1 .. m : l[i] = u[i]
  <2> HIDE DEF m
  <2>1. l = SubSeq(rest, 1, m)
    BY <1>3 DEF m
  <2> HIDE DEF l
  <2>2. l \in Text /\ Len(l) = m
    <3>1. m \in 0 .. Len(rest) /\ rest \in Text
      BY <1>1, <1>8
    <3> QED
      BY <2>1, <3>1, Split
  <2>3. \A i \in 1 .. m : l[i] = rest[i] /\ i \in 1 .. Len(u)
    BY <1>1, <1>8, <2>1 DEF Text
  <2> QED
    BY <1>1, <2>2, <2>3
<1> HIDE DEF l
<1>10. Range(l) \subseteq Range(u)
  <2> HIDE DEF m
  <2>1. ASSUME NEW x \in Range(l) PROVE x \in Range(u)
    <3>1. PICK i \in 1 .. m : x = l[i]
      BY <1>9 DEF Range, Text
    <3>2. x = u[i] /\ i \in DOMAIN u
      BY <1>1, <1>8, <1>9, <3>1 DEF Text
    <3> QED
      BY <3>2 DEF Range
  <2> QED
    BY <2>1
<1>11. ASSUME ~Spills(u) PROVE ~Spills(w)
  BY <1>5, <1>11, SpillsSuffix
<1>12. ASSUME ~Spills(u), w = <<>> PROVE "\\" \notin Range(l)
  <2> SUFFICES ASSUME "\\" \in Range(l) PROVE FALSE
    OBVIOUS
  <2>1. n = Len(u)
    <3>1. Len(u) = n + Len(w) /\ Len(w) = 0
      BY <1>5, <1>12, TwoParts
    <3> QED
      BY <1>1, <1>4, <3>1
  <2>2. PICK i \in 1 .. m : l[i] = "\\"
    BY <1>9 DEF Range, Text
  <2>3. i \in DOMAIN u /\ u[i] = "\\" /\ i \in 1 .. n
    BY <1>1, <1>8, <1>9, <2>2 DEF Text
  <2>4. PICK j \in i + 1 .. Len(u) - 1 : u[j] = "\n"
    BY <1>12, <2>3 DEF Spills
  <2>5. j \in 1 .. n - 1 /\ j \in 1 .. Len(u)
    BY <1>1, <1>4, <2>1
  <2> QED
    BY <1>1, <1>3, <2>4, <2>5
<1>13. Range(w) \subseteq Range(u)
  BY <1>6 DEF Within
<1> QED
  BY <1>5, <1>7, <1>10, <1>11, <1>12, <1>13 DEF l


\* The line and the cursor are in the buffer.
Buffered == /\ rest \in Text
            /\ line \in Text /\ Len(line) < BufferSize
            /\ cursor \in Text /\ Len(cursor) < BufferSize

\* read_line() leaves texts that fit in the buffer.
LEMMA ReadLineType ==
  ASSUME Buffered
  PROVE  /\ ReadLine.line \in Text /\ Len(ReadLine.line) < BufferSize
         /\ ReadLine.rest \in Text /\ ReadLine.ok \in BOOLEAN /\ ReadLine.eof \in BOOLEAN
         /\ ReadLine.cursor = cursor
         /\ ReadLine.eof = (rest = <<>>)
         /\ rest = <<>> => ReadLine.line = line /\ ReadLine.rest = rest /\ ~ReadLine.ok
<1>1. CASE rest = <<>>
  <2>1. ReadLine = [ok |-> FALSE, eof |-> TRUE, line |-> line, cursor |-> cursor, rest |-> rest]
    BY <1>1 DEF ReadLine
  <2> QED
    BY <1>1, <2>1 DEF Buffered
<1>2. CASE rest # <<>>
  <2>1. PICK n \in 1 .. Len(rest) :
         /\ n < BufferSize
         /\ ReadLine.ok = (rest[n] = "\n") /\ ~ReadLine.eof /\ ReadLine.cursor = cursor
         /\ ReadLine.rest = SubSeq(rest, n + 1, Len(rest))
         /\ ReadLine.line = SubSeq(rest, 1, IF rest[n] = "\n" THEN n - 1 ELSE n)
    BY <1>2, ReadLineFacts DEF Buffered
  <2> DEFINE m == IF rest[n] = "\n" THEN n - 1 ELSE n
  <2>2. /\ Len(rest) \in Nat /\ m \in 0 .. Len(rest) /\ n \in 0 .. Len(rest) /\ m <= n
        /\ BufferSize \in Nat
    BY StateFileAssumption DEF Buffered, Text
  <2>3. ReadLine.line = SubSeq(rest, 1, m)
    BY <2>1
  <2> HIDE DEF m
  <2>4. rest \in Text
    BY DEF Buffered
  <2>5. ReadLine.line \in Text /\ Len(ReadLine.line) = m
    BY <2>2, <2>3, <2>4, Split
  <2>6. ReadLine.rest \in Text
    BY <2>1, <2>2, <2>4, Split
  <2>7. ReadLine.eof = FALSE
    <3>1. ReadLine.eof \in BOOLEAN
      BY <1>2 DEF ReadLine
    <3> QED
      BY <2>1, <3>1
  <2> QED
    <3>1. Len(ReadLine.line) < BufferSize
      BY <2>1, <2>2, <2>5
    <3>2. ReadLine.ok \in BOOLEAN
      BY <2>1
    <3> QED
      BY <1>2, <2>1, <2>5, <2>6, <2>7, <3>1, <3>2
<1> QED
  BY <1>1, <1>2

\* So does fill_line_buffer().
LEMMA FillType ==
  ASSUME Buffered
  PROVE  /\ FillLineBuffer.line \in Text /\ Len(FillLineBuffer.line) < BufferSize
         /\ FillLineBuffer.cursor \in Text /\ Len(FillLineBuffer.cursor) < BufferSize
         /\ FillLineBuffer.rest \in Text /\ FillLineBuffer.ok \in BOOLEAN
<1> DEFINE here == SkipSpaces(cursor)  next == ReadLine  there == SkipSpaces(next.line)
<1>0. BufferSize \in Nat
  BY StateFileAssumption
<1>1. Within(here, cursor)
  BY SkipSpacesFacts DEF Buffered
<1>2. /\ next.line \in Text /\ Len(next.line) < BufferSize
      /\ next.rest \in Text /\ next.ok \in BOOLEAN /\ next.eof \in BOOLEAN
  BY ReadLineType
<1>3. Within(there, next.line)
  BY <1>2, SkipSpacesFacts
<1>4. here \in Text /\ Len(here) < BufferSize /\ there \in Text /\ Len(there) < BufferSize
  <2>1. Len(here) \in Nat /\ Len(there) \in Nat /\ Len(cursor) \in Nat /\ Len(next.line) \in Nat
    BY <1>1, <1>2, <1>3 DEF Within, Text, Buffered
  <2> HIDE DEF here, there, next
  <2> QED
    BY <1>0, <1>1, <1>2, <1>3, <2>1 DEF Within, Buffered
<1>5. \/ FillLineBuffer = [next EXCEPT !.cursor = there]
      \/ FillLineBuffer = [ok |-> TRUE, eof |-> FALSE, line |-> line, cursor |-> here, rest |-> rest]
  BY DEF FillLineBuffer
<1>6. \E o, e, l, c, r : next = [ok |-> o, eof |-> e, line |-> l, cursor |-> c, rest |-> r]
  BY DEF ReadLine
<1>7. CASE FillLineBuffer = [next EXCEPT !.cursor = there]
  <2> HIDE DEF there, next
  <2>1. /\ FillLineBuffer.line = next.line /\ FillLineBuffer.cursor = there
        /\ FillLineBuffer.rest = next.rest /\ FillLineBuffer.ok = next.ok
    BY <1>6, <1>7
  <2> QED
    BY <1>2, <1>4, <2>1
<1>8. CASE FillLineBuffer = [ok |-> TRUE, eof |-> FALSE, line |-> line, cursor |-> here, rest |-> rest]
  BY <1>4, <1>8 DEF Buffered
<1> QED
  BY <1>5, <1>7, <1>8

\* A value of a line that was edited is read from that line, or from the next one.
LEMMA FillLoose ==
  ASSUME Buffered, cursor # <<>>,
         NEW u \in Text, NEW v \in Text, rest = u \o v, v = <<>> \/ ~Spills(u),
         v # <<>> /\ u = <<>> => "\\" \notin Range(line) /\ "\\" \notin Range(cursor)
  PROVE  \E w \in Text :
           /\ FillLineBuffer.rest = w \o v /\ Range(w) \subseteq Range(u)
           /\ v = <<>> \/ ~Spills(w)
           /\ v # <<>> /\ w = <<>> =>
                "\\" \notin Range(FillLineBuffer.line) /\ "\\" \notin Range(FillLineBuffer.cursor)
<1> DEFINE here == SkipSpaces(cursor)  next == ReadLine  there == SkipSpaces(next.line)
<1>1. Within(here, cursor)
  BY SkipSpacesFacts DEF Buffered
<1>2. next.line \in Text
  BY ReadLineType
<1>3. Within(there, next.line)
  BY <1>2, SkipSpacesFacts
<1>4. CASE ~(here # <<>> /\ Head(here) = "\\")
  <2>1. FillLineBuffer = [ok |-> TRUE, eof |-> FALSE, line |-> line, cursor |-> here, rest |-> rest]
    BY <1>4 DEF FillLineBuffer
  <2>2. FillLineBuffer.rest = u \o v /\ FillLineBuffer.line = line /\ FillLineBuffer.cursor = here
    BY <2>1
  <2> HIDE DEF here
  <2> QED
    BY <1>1, <2>2 DEF Within
<1>5. CASE here # <<>> /\ Head(here) = "\\"
  <2>1. "\\" \in Range(cursor)
    <3> HIDE DEF here
    <3>1. here \in Text
      BY <1>1 DEF Within
    <3>2. 1 \in DOMAIN here /\ here[1] = "\\"
      BY <1>5, <3>1 DEF Text
    <3>3. "\\" \in Range(here)
      BY <3>2 DEF Range
    <3> QED
      BY <1>1, <3>3 DEF Within
  <2>2. FillLineBuffer = [next EXCEPT !.cursor = there]
    BY <1>5 DEF FillLineBuffer
  <2>3. \E o, e, l, c, r : next = [ok |-> o, eof |-> e, line |-> l, cursor |-> c, rest |-> r]
    BY DEF ReadLine
  <2>4. /\ FillLineBuffer.line = next.line /\ FillLineBuffer.cursor = there
        /\ FillLineBuffer.rest = next.rest
    <3> HIDE DEF there, next
    <3> QED
      BY <2>2, <2>3
  <2>5. CASE u = <<>>
    <3>1. v = <<>>
      BY <2>1, <2>5
    <3>2. rest = <<>>
      BY <2>5, <3>1
    <3>3. next.rest = rest
      BY <3>2, ReadLineType
    <3> QED
      BY <2>4, <3>1, <3>3
  <2>6. CASE u # <<>>
    <3>1. PICK w \in Text :
           /\ next.rest = w \o v
           /\ Range(w) \subseteq Range(u) /\ Range(next.line) \subseteq Range(u)
           /\ ~Spills(u) => ~Spills(w) /\ (w = <<>> => "\\" \notin Range(next.line))
      BY <2>6, ReadLoose
    <3>2. Range(there) \subseteq Range(next.line)
      BY <1>3 DEF Within
    <3> HIDE DEF next, there
    <3> QED
      BY <2>4, <3>1, <3>2
  <2> QED
    BY <2>5, <2>6
<1> QED
  BY <1>4, <1>5

\* Before a value that was written as it should be, the buffer is filled with its line.
LEMMA FillWritten ==
  ASSUME Buffered, NEW type \in Types, NEW vals \in Seq(ValuesOf(type)),
         NEW i \in 0 .. Len(vals) - 1, NEW u, Line(cursor, u, Unwritten(type, vals, i)),
         NEW v \in Text, rest = u \o v, Fine(line, u)
  PROVE  \E m, w : /\ Line(m, w, Unwritten(type, vals, i + 1))
                   /\ FillLineBuffer.ok /\ FillLineBuffer.rest = w \o v
                   /\ FillLineBuffer.cursor = WriteValue(type, vals[i + 1]) \o m
                   /\ Fine(FillLineBuffer.line, w)
<1> DEFINE x == WriteValue(type, vals[i + 1])  U == Unwritten(type, vals, i + 1)
           here == SkipSpaces(cursor)
<1>0. i + 1 \in 0 .. Len(vals) /\ i + 1 \in 1 .. Len(vals)
  OBVIOUS
<1>1. /\ x \in Text /\ Plain(x) /\ x # <<>> /\ x[1] # Space /\ x[1] # "\\" /\ NoNewline(x)
      /\ Len(x) \in Nat
  <2>1. vals[i + 1] \in ValuesOf(type) /\ x \in Text
    BY PieceFacts
  <2>2. Plain(x) /\ Len(x) \in 1 .. 4 * StringLength + 2 /\ x[1] \notin {Space, "\\"}
    BY <2>1, WriteValueFacts
  <2> HIDE DEF x
  <2> QED
    BY <2>1, <2>2 DEF Plain, Text
<1>2. U \in Text
  BY <1>0, UnwrittenStep
<1>3. PICK m, w : Line(m, w, U)
  BY <1>0, HasLine
<1>4. m \in Text /\ w \in Text
  BY <1>3 DEF Line
<1>5. /\ Len(m) + LineLength(type, vals)[i + 1] <= Longest + 2
      /\ Fine(m, w)
  BY <1>0, <1>3, LineOf
<1> HIDE DEF x, U
<1> DEFINE xm == x \o m
<1>6. /\ xm \in Text /\ xm # <<>> /\ Head(xm) = x[1] /\ xm[1] = x[1] /\ Len(xm) = Len(x) + Len(m)
      /\ Fine(xm, w) /\ Line(xm, w, x \o U)
  <2>1. xm \in Text /\ Len(xm) = Len(x) + Len(m) /\ \A j \in 1 .. Len(x) : xm[j] = x[j]
    BY <1>1, <1>4, TwoParts
  <2>2. 1 \in 1 .. Len(x) /\ Len(m) \in Nat
    BY <1>1, <1>4 DEF Text
  <2>3. Fine(xm, w)
    BY <1>1, <1>4, <1>5, FineMore
  <2>4. Line(xm, w, x \o U)
    BY <1>1, <1>3, LineWith
  <2> HIDE DEF xm
  <2> QED
    BY <2>1, <2>2, <2>3, <2>4 DEF Text
<1>7. SkipSpaces(xm) = xm
  BY <1>1, <1>6, SkipSpacesFacts
<1> DEFINE b == <<Space>>  bxm == b \o xm
<1>8. /\ SkipSpaces(bxm) = xm /\ bxm \in Text
      /\ Len(bxm) = Len(xm) + 1 /\ Fine(bxm, w) /\ Line(bxm, w, b \o (x \o U))
  <2>1. SkipSpaces(bxm) = xm
    BY <1>1, <1>6, SkipOne
  <2>2. bxm \in Text /\ Len(bxm) = Len(xm) + 1
    BY <1>6, TokenFacts, OneBefore
  <2>3. Plain(b) /\ b \in Text /\ NoNewline(b)
    BY TokenFacts, PlainOne, QuoteFacts DEF Plain
  <2> HIDE DEF b, xm
  <2>4. Fine(bxm, w)
    BY <1>6, <2>3, FineMore
  <2>5. Line(bxm, w, b \o (x \o U))
    BY <1>6, <2>3, LineWith
  <2> QED
    BY <2>1, <2>2, <2>4, <2>5
<1>9. CASE LineLength(type, vals)[i] > WrapLength
  <2> DEFINE c == <<"\\">>
  <2>1. /\ cursor = <<Space, "\\">> /\ u = Continuation(type, vals, i + 1)
        /\ LineLength(type, vals)[i + 1] = Len(x)
    BY <1>9, Wraps, LineUnique DEF x
  <2>2. SkipSpaces(cursor) = c
    <3>1. c \in Text /\ c # <<>> /\ c[1] # Space
      BY TokenFacts, QuoteFacts DEF Text
    <3>2. <<Space, "\\">> = b \o c
      <4>1. Space \in Tokens /\ "\\" \in Tokens /\ b \in Seq(Tokens)
        BY TokenFacts
      <4>2. <<Space, "\\">> = Append(b, "\\")
        BY Z3
      <4> QED
        BY <4>1, <4>2, AppendIsConcat
    <3> HIDE DEF c
    <3> QED
      BY <2>1, <3>1, <3>2, SkipOne
  <2>3. c # <<>> /\ Head(c) = "\\"
    OBVIOUS
  <2> HIDE DEF c
  <2>4. FillLineBuffer = [ReadLine EXCEPT !.cursor = SkipSpaces(ReadLine.line)]
    BY <2>2, <2>3 DEF FillLineBuffer
  <2>5. u = b \o (x \o U)
    BY <2>1 DEF Continuation, x, U
  <2>6. Len(bxm) + 1 < BufferSize
    <3>1. Len(m) \in Nat /\ Len(bxm) = Len(x) + Len(m) + 1
      BY <1>1, <1>4, <1>6, <1>8 DEF Text
    <3>2. Len(m) + Len(x) <= Longest + 2
      BY <1>5, <2>1
    <3>3. /\ WrapLength \in Nat /\ StringLength \in Nat /\ BufferSize \in Nat
          /\ BufferSize >= WrapLength + 4 * StringLength + 8
      BY StateTextAssumption, StateFileAssumption
    <3> DEFINE n == Len(bxm)
    <3>4. n = Len(x) + Len(m) + 1
      BY <3>1
    <3> HIDE DEF n
    <3>5. n + 1 < BufferSize
      BY <1>1, <3>1, <3>2, <3>3, <3>4 DEF Longest
    <3> QED
      BY <3>5 DEF n
  <2>7. ReadLine = [ok |-> TRUE, eof |-> FALSE, line |-> bxm, cursor |-> cursor, rest |-> w \o v]
    <3>1. Line(bxm, w, u)
      BY <1>8, <2>5
    <3> HIDE DEF bxm
    <3> QED
      BY <2>6, <3>1, ReadLineIs
  <2> HIDE DEF bxm, xm
  <2>8. /\ FillLineBuffer.ok /\ FillLineBuffer.rest = w \o v
        /\ FillLineBuffer.cursor = xm /\ FillLineBuffer.line = bxm
    BY <1>8, <2>4, <2>7
  <2> QED
    BY <1>3, <1>8, <2>8 DEF xm, x, U
<1>10. CASE ~(LineLength(type, vals)[i] > WrapLength)
  <2> DEFINE bi == Between(i)
  <2>1. Unwritten(type, vals, i) = bi \o (x \o U)
    BY <1>10, Stays DEF x, U
  <2>2. bi \in {<<>>, b} /\ NoNewline(bi)
    <3>1. NoNewline(b)
      BY TokenFacts, PlainOne, QuoteFacts DEF Plain
    <3> QED
      BY <3>1, Spaces DEF Between
  <2>3. cursor = bi \o xm /\ u = w
    <3>1. bi \in Text
      BY <2>2, Spaces
    <3> HIDE DEF bi, xm
    <3>2. Line(bi \o xm, w, bi \o (x \o U))
      BY <1>6, <2>2, <3>1, LineWith
    <3> QED
      BY <2>1, <3>2, LineUnique
  <2>4. here = xm
    <3>1. CASE bi = <<>>
      <4>1. cursor = xm
        <5> HIDE DEF bi, xm
        <5> QED
          BY <1>6, <2>3, <3>1 DEF Text
      <4> QED
        BY <1>7, <4>1
    <3>2. CASE bi = b
      <4> HIDE DEF bi
      <4> QED
        BY <1>8, <2>3, <3>2
    <3> QED
      BY <2>2, <3>1, <3>2
  <2>5. FillLineBuffer = [ok |-> TRUE, eof |-> FALSE, line |-> line, cursor |-> here, rest |-> rest]
    <3> HIDE DEF xm
    <3> QED
      BY <1>1, <1>6, <2>4 DEF FillLineBuffer
  <2> HIDE DEF xm, here
  <2>6. /\ FillLineBuffer.ok /\ FillLineBuffer.rest = w \o v
        /\ FillLineBuffer.cursor = xm /\ FillLineBuffer.line = line
    BY <2>3, <2>4, <2>5
  <2> QED
    BY <1>3, <2>3, <2>6 DEF xm, x, U
<1> QED
  BY <1>9, <1>10

-------------------------------------------------------------------------------
(* The paragraphs of the file.                                            *)

Paragraph == [owner : Tokens \union {"none"}, text : Text]
TextsOf(f) == [h \in DOMAIN f |-> f[h].text]

\* What comes after a paragraph, before the end of one, and between these.
After(f, g)  == Rest(TextsOf(f), g)
Before(f, g) == FlattenSeq(SubSeq(TextsOf(f), 1, g))
Run(f, g, m) == FlattenSeq(SubSeq(TextsOf(f), g + 1, m))

\* The texts of the paragraphs.
LEMMA TextsType ==
  ASSUME NEW f \in Seq(Paragraph)
  PROVE  /\ TextsOf(f) \in Seq(Seq(Tokens)) /\ Len(TextsOf(f)) = Len(f)
         /\ \A h \in 1 .. Len(f) : TextsOf(f)[h] = f[h].text /\ f[h].text \in Text
<1>1. \A h \in 1 .. Len(f) : f[h] \in Paragraph
  OBVIOUS
<1>2. \A h \in 1 .. Len(f) : f[h].text \in Text
  BY <1>1 DEF Paragraph
<1>3. TextsOf(f) = [h \in 1 .. Len(f) |-> f[h].text]
  BY DEF TextsOf
<1> QED
  BY <1>2, <1>3 DEF Text

\* What fgets() can read is what comes after no paragraph; the first ones are what comes before.
LEMMA ContentsFacts ==
  ASSUME NEW f \in Seq(Paragraph)
  PROVE  /\ Contents(f) = After(f, 0)
         /\ \A m \in 0 .. Len(f) : Contents(SubSeq(f, 1, m)) = Before(f, m)
<1> DEFINE t == TextsOf(f)
<1>1. t \in Seq(Seq(Tokens)) /\ Len(t) = Len(f) /\ \A h \in 1 .. Len(f) : t[h] = f[h].text
  BY TextsType
<1>2. Contents(f) = After(f, 0)
  <2>1. Contents(f) = FlattenSeq(t)
    BY DEF Contents, TextsOf
  <2>2. Rest(t, 0) = FlattenSeq(t)
    <3> HIDE DEF t
    <3> QED
      BY <1>1, RestEnds
  <2> QED
    BY <2>1, <2>2 DEF After
<1>3. ASSUME NEW m \in 0 .. Len(f) PROVE Contents(SubSeq(f, 1, m)) = Before(f, m)
  <2> DEFINE p == SubSeq(f, 1, m)  q == SubSeq(t, 1, m)  r == [g \in DOMAIN p |-> p[g].text]
  <2>1. DOMAIN p = 1 .. m /\ \A g \in 1 .. m : p[g] = f[g]
    OBVIOUS
  <2>2. r = [g \in 1 .. m |-> f[g].text]
    BY <2>1
  <2>3. DOMAIN q = 1 .. m /\ \A g \in 1 .. m : q[g] = t[g]
    <3> HIDE DEF t
    <3> QED
      BY <1>1
  <2>4. q \in Seq(Seq(Tokens))
    <3> HIDE DEF t
    <3> QED
      BY <1>1
  <2>5. q = [g \in 1 .. m |-> q[g]]
    <3> HIDE DEF q, t
    <3> QED
      BY <2>3, <2>4
  <2>6. \A g \in 1 .. m : q[g] = f[g].text
    <3>1. \A g \in 1 .. m : g \in 1 .. Len(f)
      OBVIOUS
    <3>2. \A g \in 1 .. Len(f) : t[g] = f[g].text
      BY <1>1
    <3> HIDE DEF q, t
    <3>3. TAKE g \in 1 .. m
    <3>4. q[g] = t[g]
      BY <2>3
    <3> QED
      BY <3>1, <3>2, <3>4
  <2>7. r = q
    <3> HIDE DEF q, r
    <3> QED
      BY <2>2, <2>5, <2>6
  <2> QED
    BY <2>7 DEF Contents, Before
<1> QED
  BY <1>2, <1>3

\* What comes after a paragraph begins with the next one.
LEMMA AfterFacts ==
  ASSUME NEW f \in Seq(Paragraph), NEW g \in 0 .. Len(f)
  PROVE  /\ After(f, g) \in Text
         /\ g = Len(f) => After(f, g) = <<>>
         /\ g < Len(f) => After(f, g) = f[g + 1].text \o After(f, g + 1)
<1> DEFINE t == TextsOf(f)
<1>1. t \in Seq(Seq(Tokens)) /\ Len(t) = Len(f)
  BY TextsType
<1>2. g < Len(f) => t[g + 1] = f[g + 1].text
  BY TextsType
<1> HIDE DEF t
<1>3. Rest(t, g) \in Seq(Tokens)
  <2>1. g \in 0 .. Len(t) /\ g \in g .. Len(t)
    BY <1>1
  <2> QED
    BY <1>1, <2>1, RestSplit
<1>4. g = Len(f) => Rest(t, g) = <<>>
  BY <1>1, RestEnds
<1>5. ASSUME g < Len(f) PROVE Rest(t, g) = t[g + 1] \o Rest(t, g + 1)
  <2>1. g \in 0 .. Len(t) - 1
    BY <1>1, <1>5
  <2> QED
    BY <1>1, <2>1, RestStep
<1> QED
  BY <1>2, <1>3, <1>4, <1>5 DEF After, Text, t

\* The file between two places.
LEMMA RunFacts ==
  ASSUME NEW f \in Seq(Paragraph), NEW g \in 0 .. Len(f), NEW m \in g .. Len(f)
  PROVE  /\ Run(f, g, m) \in Text
         /\ After(f, g) = Run(f, g, m) \o After(f, m)
         /\ Before(f, g) \in Text /\ Before(f, m) = Before(f, g) \o Run(f, g, m)
         /\ \A T : (\A h \in g + 1 .. m : f[h].text \in Seq(T)) => Run(f, g, m) \in Seq(T)
<1> DEFINE t == TextsOf(f)
<1>1. /\ t \in Seq(Seq(Tokens)) /\ Len(t) = Len(f) /\ Len(f) \in Nat
      /\ \A h \in 1 .. Len(f) : t[h] = f[h].text
  BY TextsType
<1> HIDE DEF t
<1>2. g \in 0 .. Len(t) /\ m \in g .. Len(t) /\ m \in 0 .. Len(t)
  BY <1>1
<1>3. /\ Rest(t, g) = FlattenSeq(SubSeq(t, g + 1, m)) \o Rest(t, m)
      /\ FlattenSeq(SubSeq(t, g + 1, m)) \in Seq(Tokens)
      /\ SubSeq(t, g + 1, m) \in Seq(Seq(Tokens))
  <2>1. t \in Seq(Seq(Tokens))
    BY <1>1
  <2>2. Rest(t, g) = FlattenSeq(SubSeq(t, g + 1, m)) \o Rest(t, m)
    BY <1>2, <2>1, RestSplit
  <2>3. /\ FlattenSeq(SubSeq(t, g + 1, m)) \in Seq(Tokens)
        /\ SubSeq(t, g + 1, m) \in Seq(Seq(Tokens))
    BY <1>2, <2>1, RestSplit
  <2> QED
    BY <2>2, <2>3
<1>4. SubSeq(t, 1, g) \in Seq(Seq(Tokens)) /\ SubSeq(t, 1, g) \o SubSeq(t, g + 1, m) = SubSeq(t, 1, m)
  <2>1. SubSeq(t, 1, g) \in Seq(Seq(Tokens))
    BY <1>1, <1>2
  <2>2. 1 \in 1 .. Len(t) + 1 /\ g \in 1 - 1 .. Len(t)
    BY <1>1, <1>2
  <2> QED
    BY <1>1, <1>2, <2>1, <2>2, ConcatAdjacentSubSeq
<1>5. FlattenSeq(SubSeq(t, 1, g)) \in Seq(Tokens)
  BY <1>4, FlattenType
<1>6. FlattenSeq(SubSeq(t, 1, m)) = FlattenSeq(SubSeq(t, 1, g)) \o FlattenSeq(SubSeq(t, g + 1, m))
  <2> DEFINE a == SubSeq(t, 1, g)  b == SubSeq(t, g + 1, m)
  <2>1. a \in Seq(Seq(Tokens)) /\ b \in Seq(Seq(Tokens)) /\ a \o b = SubSeq(t, 1, m)
    BY <1>3, <1>4
  <2> HIDE DEF a, b
  <2>2. FlattenSeq(a \o b) = FlattenSeq(a) \o FlattenSeq(b)
    BY <2>1, FlattenConcat
  <2> QED
    BY <2>1, <2>2 DEF a, b
<1>7. ASSUME NEW T, \A h \in g + 1 .. m : f[h].text \in Seq(T)
      PROVE  FlattenSeq(SubSeq(t, g + 1, m)) \in Seq(T)
  <2>1. \A h \in g + 1 .. m : t[h] \in Seq(T)
    <3>1. \A h \in g + 1 .. m : h \in 1 .. Len(f)
      BY <1>1, <1>2
    <3> QED
      BY <1>1, <1>7, <3>1
  <2>2. g + 1 \in Int /\ m \in Int
    BY <1>1, <1>2
  <2>3. SubSeq(t, g + 1, m) \in Seq(Seq(T))
    BY <2>1, <2>2, SubSeqProperties
  <2> QED
    BY <2>3, FlattenType
<1> QED
  BY <1>3, <1>5, <1>6, <1>7 DEF After, Before, Run, Text, t

-------------------------------------------------------------------------------
(* Types.                                                                 *)

\* A sequence of the elements of a finite set has each of them once.
LEMMA Orders ==
  ASSUME NEW S, IsFiniteSet(S), NEW order \in SetToSeqs(S)
  PROVE  /\ order \in Seq(S)
         /\ \A k \in S : \E i \in 1 .. Len(order) : order[i] = k
         /\ \A i, j \in 1 .. Len(order) : order[i] = order[j] => i = j
<1> DEFINE n == Cardinality(S)
<1>1. n \in Nat
  BY FS_CardinalityType
<1>2. order \in [1 .. n -> S] /\ \A i, j \in 1 .. n : i # j => order[i] # order[j]
  BY DEF SetToSeqs
<1> HIDE DEF n
<1>3. order \in Seq(S) /\ Len(order) = n
  BY <1>1, <1>2
<1>4. order \in Injection(1 .. n, S)
  BY <1>2 DEF Injection, IsInjective
<1>5. Cardinality(1 .. n) = n
  <2>1. 1 \in Int /\ n \in Int
    BY <1>1
  <2>2. Cardinality(1 .. n) = IF 1 > n THEN 0 ELSE n - 1 + 1
    BY <2>1, FS_Interval
  <2> QED
    BY <1>1, <2>2
<1>6. order \in Surjection(1 .. n, S)
  BY <1>4, <1>5, FS_Injection DEF n
<1> QED
  BY <1>2, <1>3, <1>6 DEF Surjection

\* The tokens of a text are those at its places.
LEMMA InRange ==
  ASSUME NEW text \in Text, NEW i \in 1 .. Len(text)
  PROVE  text[i] \in Range(text)
BY DEF Range, Text

\* The lines of a variable: its name, an equal sign and the values.
LEMMA WriteLinesIs ==
  ASSUME NEW k \in Tokens, NEW type \in Types, NEW vals \in Seq(ValuesOf(type))
  PROVE  /\ WriteLines(k, type, vals) \in Text
         /\ WriteLines(k, type, vals) = <<k>> \o (<<"=">> \o Unwritten(type, vals, 0))
         /\ k \in Range(WriteLines(k, type, vals))
<1> DEFINE p == Pieces(type, vals)  f == FlattenSeq(p)  e == <<"\n">>  q == <<"=">>  U == Unwritten(type, vals, 0)
<1>1. p \in Seq(Seq(Tokens))
  BY PiecesType
<1>2. f \in Text
  <2> HIDE DEF p
  <2> QED
    BY <1>1, FlattenType DEF Text
<1>3. WriteLines(k, type, vals) = <<k, "=">> \o f \o e
  BY DEF WriteLines, Pieces
<1>4. U = f \o e
  <2>1. Rest(p, 0) = f
    <3> HIDE DEF p
    <3> QED
      BY <1>1, RestEnds
  <2> QED
    BY <2>1 DEF Unwritten
<1>5. <<k, "=">> = <<k>> \o q
  <2> DEFINE a == <<k>>  b == <<k, "=">>
  <2>1. a \in Seq(Tokens) /\ "=" \in Tokens /\ b = Append(a, "=")
    BY TokenFacts, Z3
  <2> HIDE DEF a, b
  <2>2. Append(a, "=") = a \o <<"=">>
    BY <2>1, AppendIsConcat
  <2> QED
    BY <2>1, <2>2 DEF a, b
<1>6. q \in Text /\ e \in Text /\ <<k>> \in Text /\ "=" \in Tokens
  BY TokenFacts, Spaces, OneElement DEF Text
<1> DEFINE kq == <<k>> \o q  K == <<k>>
<1>7. kq \in Text /\ U \in Text /\ q \o U \in Text
  BY <1>2, <1>4, <1>6, TextConcat
<1>8. kq \o f \o e = kq \o U
  <2> HIDE DEF kq, f, e
  <2>1. kq \in Text /\ f \in Text /\ e \in Text
    BY <1>2, <1>6, <1>7
  <2>2. (kq \o f) \o e = kq \o (f \o e)
    BY <2>1, TextAssociative
  <2> QED
    BY <1>4, <2>2
<1>9. kq \o U = K \o (q \o U)
  <2> HIDE DEF q, U, K
  <2> QED
    BY <1>6, <1>7, TextAssociative DEF K
<1>10. WriteLines(k, type, vals) = <<k>> \o (q \o U)
  BY <1>3, <1>5, <1>8, <1>9
<1> DEFINE s == <<k>> \o (q \o U)
<1>11. s \in Text /\ s[1] = k /\ s # <<>>
  <2> HIDE DEF q, U
  <2> QED
    BY <1>7, OneBefore
<1>12. k \in Range(s)
  <2> HIDE DEF s
  <2>1. 1 \in DOMAIN s
    BY <1>11 DEF Text
  <2> QED
    BY <1>11, <2>1 DEF Range
<1> QED
  BY <1>10, <1>11, <1>12

\* What the editor makes of a text is one, and has the other tokens.
LEMMA EditedText ==
  ASSUME NEW old \in Text, NEW i \in 1 .. Len(old) + 1,
         NEW text \in {InsertAt(old, i, c) : c \in Inserts} \union
                 (IF i <= Len(old) /\ old[i] = "\n" THEN {RemoveAt(old, i)} ELSE {})
  PROVE  text \in Text /\ \A x \in Range(old) : x # "\n" => x \in Range(text)
<1> DEFINE a == SubSeq(old, 1, i - 1)  b == SubSeq(old, i, Len(old))  d == SubSeq(old, i + 1, Len(old))
<1>0. Len(old) \in Nat
  BY DEF Text
<1>1. a \in Text /\ b \in Text /\ old = a \o b
  <2>1. i - 1 \in 0 .. Len(old) /\ (i - 1) + 1 = i
    BY <1>0
  <2>2. SubSeq(old, 1, i - 1) \in Text /\ SubSeq(old, (i - 1) + 1, Len(old)) \in Text
        /\ old = SubSeq(old, 1, i - 1) \o SubSeq(old, (i - 1) + 1, Len(old))
    BY <2>1, Split
  <2> QED
    BY <2>1, <2>2
<1>2. CASE \E c \in Inserts : text = InsertAt(old, i, c)
  <2>1. PICK c \in Inserts : text = InsertAt(old, i, c)
    BY <1>2
  <2> DEFINE m == <<c>>
  <2>2. c \in Tokens
    BY StateFileAssumption
  <2>3. m \in Text
    BY <2>2, OneElement DEF Text
  <2>4. text = a \o m \o b
    BY <2>1 DEF InsertAt
  <2> HIDE DEF a, b, m
  <2> DEFINE am == a \o m
  <2>5. /\ am \in Text /\ Len(am) = Len(a) + Len(m)
        /\ \A j \in 1 .. Len(a) : am[j] = a[j]
    BY <1>1, <2>3, TwoParts
  <2>9. b \in Text /\ text = am \o b
    BY <1>1, <2>4
  <2> HIDE DEF am
  <2>6. /\ text \in Text /\ Len(text) = Len(am) + Len(b)
        /\ \A j \in 1 .. Len(am) : text[j] = am[j]
        /\ \A j \in 1 .. Len(b) : text[Len(am) + j] = b[j]
    BY <2>5, <2>9, TwoParts
  <2>7. /\ Len(old) = Len(a) + Len(b)
        /\ \A j \in 1 .. Len(a) : old[j] = a[j]
        /\ \A j \in 1 .. Len(b) : old[Len(a) + j] = b[j]
    BY <1>1, TwoParts
  <2>8. ASSUME NEW x \in Range(old) PROVE x \in Range(text)
    <3>1. PICK j \in 1 .. Len(old) : old[j] = x
      BY DEF Range, Text
    <3>2. Len(a) \in Nat /\ Len(b) \in Nat /\ Len(m) \in Nat
      BY <1>1, <2>3 DEF Text
    <3>3. CASE j <= Len(a)
      <4>1. j \in 1 .. Len(a) /\ j \in 1 .. Len(am) /\ j \in 1 .. Len(text)
        BY <2>5, <2>6, <3>2, <3>3
      <4>2. text[j] = x
        BY <2>5, <2>6, <2>7, <3>1, <4>1
      <4> QED
        BY <2>6, <4>1, <4>2, InRange
    <3>4. CASE ~(j <= Len(a))
      <4>1. j - Len(a) \in 1 .. Len(b) /\ Len(a) + (j - Len(a)) = j
        BY <2>7, <3>1, <3>2, <3>4
      <4> DEFINE r == Len(am) + (j - Len(a))
      <4>2. r \in 1 .. Len(text)
        BY <2>5, <2>6, <3>2, <4>1
      <4>3. text[r] = x
        BY <2>6, <2>7, <3>1, <4>1
      <4> HIDE DEF r
      <4> QED
        BY <2>6, <4>2, <4>3, InRange
    <3> QED
      BY <3>3, <3>4
  <2> QED
    BY <2>6, <2>8
<1>3. CASE i <= Len(old) /\ old[i] = "\n" /\ text = RemoveAt(old, i)
  <2>1. d \in Text /\ Len(a) = i - 1 /\ Len(d) = Len(old) - i
        /\ (\A j \in 1 .. Len(a) : a[j] = old[j]) /\ (\A j \in 1 .. Len(d) : d[j] = old[i + j])
    <3>1. i \in 1 .. Len(old)
      BY <1>0, <1>3
    <3> QED
      BY <1>0, <3>1 DEF Text
  <2>2. text = a \o d
    BY <1>3 DEF RemoveAt
  <2> HIDE DEF a, d, b
  <2>3. /\ text \in Text /\ Len(text) = Len(a) + Len(d)
        /\ \A j \in 1 .. Len(a) : text[j] = a[j]
        /\ \A j \in 1 .. Len(d) : text[Len(a) + j] = d[j]
    <3>1. a \in Text /\ d \in Text
      BY <1>1, <2>1
    <3> QED
      BY <2>2, <3>1, TwoParts
  <2>4. ASSUME NEW x \in Range(old), x # "\n" PROVE x \in Range(text)
    <3>1. PICK j \in 1 .. Len(old) : old[j] = x
      BY DEF Range, Text
    <3>2. j # i
      BY <1>3, <2>4, <3>1
    <3>3. CASE j < i
      <4>1. j \in 1 .. Len(a) /\ j \in 1 .. Len(text)
        BY <1>0, <1>3, <2>1, <2>3, <3>1, <3>3
      <4> QED
        BY <2>1, <2>3, <3>1, <4>1, InRange
    <3>4. CASE j > i
      <4>1. j - i \in 1 .. Len(d) /\ i + (j - i) = j /\ j - 1 \in 1 .. Len(text) /\ Len(a) + (j - i) = j - 1
        BY <1>0, <1>3, <2>1, <2>3, <3>1, <3>4
      <4>2. text[j - 1] = x
        <5>1. text[Len(a) + (j - i)] = d[j - i]
          BY <2>3, <4>1
        <5>2. d[j - i] = old[i + (j - i)]
          BY <2>1, <4>1
        <5> QED
          BY <3>1, <4>1, <5>1, <5>2
      <4> QED
        BY <2>3, <4>1, <4>2, InRange
    <3> QED
      BY <1>0, <3>1, <3>2, <3>3, <3>4
  <2> QED
    BY <2>3, <2>4
<1> QED
  BY <1>2, <1>3

\* The values of variables have their types.
TableType ==
  /\ DOMAIN table = DOMAIN declared
  /\ \A k \in DOMAIN declared :
       table[k] \in Seq(ValuesOf(declared[k].type)) /\ Len(table[k]) <= declared[k].max
SavedType ==
  /\ saved.declared \in Declarations \union {First} /\ saved.restarts \in 0 .. restarts
  /\ DOMAIN saved.table = DOMAIN saved.declared
  /\ \A k \in DOMAIN saved.declared : saved.table[k] \in Seq(ValuesOf(saved.declared[k].type))
DiskType == file \in Seq(Paragraph) /\ touched \subseteq 1 .. Len(file) /\ edits \in 0 .. MaxEdits
ParserType ==
  /\ pc \in {"published", "read", "assign", "value", "flush", "running", "unopened", "failed"}
  /\ Buffered
  /\ pc = "value" => /\ key \in DOMAIN declared /\ values \in Seq(ValuesOf(declared[key].type))
                     /\ Len(values) <= declared[key].max

TypeInv ==
  /\ declared \in Declarations \union {First} /\ restarts \in 0 .. MaxRestarts
  /\ check \in BOOLEAN /\ alarmed \in BOOLEAN
  /\ TableType /\ SavedType /\ DiskType /\ ParserType

\* The variables of a declaration are tokens of a kind that can be read.
LEMMA DeclarationFacts ==
  ASSUME NEW d \in Declarations \union {First}
  PROVE  /\ IsFiniteSet(DOMAIN d)
         /\ \A k \in DOMAIN d : /\ k \in Tokens /\ k \notin Special
                                /\ d[k].type \in Types /\ d[k].max \in Nat
BY StateFileAssumption

\* The types hold when the first process starts.
LEMMA InitTypeInv ==
  ASSUME Init
  PROVE  TypeInv
<1>1. /\ MaxRestarts \in Nat /\ MaxEdits \in Nat /\ BufferSize \in Nat /\ BufferSize > 0
  <2>1. WrapLength \in Nat /\ StringLength \in Nat /\ BufferSize \in Nat /\ BufferSize >= WrapLength + 4 * StringLength + 8
    BY StateTextAssumption, StateFileAssumption
  <2> QED
    BY <2>1, StateFileAssumption
<1>2. table \in Tables /\ declared = First
  BY DEF Init
<1>3. TableType
  BY <1>2, StateFileAssumption DEF TableType
<1>4. SavedType
  <2>1. saved.table = Unset(First) /\ saved.declared = First /\ saved.restarts = 0 /\ restarts = 0
    BY DEF Init
  <2> QED
    BY <2>1 DEF SavedType, Unset
<1>5. DiskType
  BY <1>1 DEF Init, DiskType
<1>6. ParserType
  <2>1. <<>> \in Text /\ Len(<<>>) = 0
    BY DEF Text
  <2> QED
    BY <1>1, <2>1 DEF Init, ParserType, Buffered
<1>7. declared \in Declarations \union {First} /\ restarts \in 0 .. MaxRestarts
  BY <1>1 DEF Init
<1>8. check \in BOOLEAN /\ alarmed \in BOOLEAN
  BY DEF Init
<1> QED
  BY <1>3, <1>4, <1>5, <1>6, <1>7, <1>8 DEF TypeInv

\* What a save writes: the time, then the lines of each variable that has a length, once.
Written(order) ==
  <<[owner |-> "none", text |-> <<"#", "\n">>]>> \o
  [i \in DOMAIN order |->
     [owner |-> order[i],
      text  |-> WriteLines(order[i], declared[order[i]].type, table[order[i]])]]

\* A saved file has a line for the time, and one paragraph for each variable that has values.
LEMMA WrittenFile ==
  ASSUME TypeInv, NEW S, \A k : k \in S <=> k \in DOMAIN declared /\ table[k] # <<>>,
         NEW order \in SetToSeqs(S)
  PROVE  LET f == Written(order) IN
         /\ f \in Seq(Paragraph) /\ Len(f) = Len(order) + 1 /\ order \in Seq(S)
         /\ f[1].owner = "none" /\ f[1].text = <<"#", "\n">>
         /\ \A i \in 1 .. Len(order) :
              /\ f[i + 1].owner = order[i]
              /\ f[i + 1].text = WriteLines(order[i], declared[order[i]].type, table[order[i]])
         /\ \A k \in S : \E i \in 1 .. Len(order) : order[i] = k
         /\ \A i, j \in 1 .. Len(order) : order[i] = order[j] => i = j
<1> DEFINE f == Written(order)
<1> DEFINE a == [owner |-> "none", text |-> <<"#", "\n">>]  A == <<a>>
           p(i) == [owner |-> order[i],
                    text  |-> WriteLines(order[i], declared[order[i]].type, table[order[i]])]
           b == [i \in DOMAIN order |-> p(i)]
<1>1. declared \in Declarations \union {First} /\ TableType
  BY DEF TypeInv
<1>2. IsFiniteSet(S)
  <2>1. IsFiniteSet(DOMAIN declared)
    BY <1>1, DeclarationFacts
  <2>2. S \in SUBSET DOMAIN declared
    OBVIOUS
  <2> QED
    BY <2>1, <2>2, FS_Subset
<1>3. /\ order \in Seq(S)
      /\ \A k \in S : \E i \in 1 .. Len(order) : order[i] = k
      /\ \A i, j \in 1 .. Len(order) : order[i] = order[j] => i = j
  <2> HIDE DEF A, b
  <2>1. order \in Seq(S)
    BY <1>2, Orders
  <2>2. \A k \in S : \E i \in 1 .. Len(order) : order[i] = k
    BY <1>2, Orders
  <2>3. \A i, j \in 1 .. Len(order) : order[i] = order[j] => i = j
    BY <1>2, Orders
  <2> QED
    BY <2>1, <2>2, <2>3
<1>4. ASSUME NEW i \in 1 .. Len(order) PROVE p(i) \in Paragraph
  <2>1. order[i] \in S
    BY <1>3
  <2>2. order[i] \in Tokens /\ declared[order[i]].type \in Types
        /\ table[order[i]] \in Seq(ValuesOf(declared[order[i]].type))
    BY <1>1, <2>1, DeclarationFacts DEF TableType
  <2>3. WriteLines(order[i], declared[order[i]].type, table[order[i]]) \in Text
    BY <2>2, WriteLinesIs
  <2> QED
    BY <2>2, <2>3 DEF Paragraph
<1>5. a \in Paragraph
  <2>1. <<"#", "\n">> \in Text
    BY TokenFacts DEF Text
  <2> QED
    BY <2>1 DEF Paragraph
<1> HIDE DEF p, a
<1>6. b \in Seq(Paragraph) /\ Len(b) = Len(order) /\ \A i \in 1 .. Len(order) : b[i] = p(i)
  <2>1. DOMAIN order = 1 .. Len(order) /\ Len(order) \in Nat
    BY <1>3
  <2> QED
    BY <1>4, <2>1
<1> HIDE DEF b
<1>7. A \in Seq(Paragraph) /\ Len(A) = 1 /\ A[1] = a
  BY <1>5
<1> HIDE DEF A
<1>8. f = A \o b
  BY DEF A, b, a, p, Written
<1> HIDE DEF f
<1>9. /\ f \in Seq(Paragraph) /\ Len(f) = Len(order) + 1 /\ f[1] = a
      /\ \A i \in 1 .. Len(order) : f[i + 1] = p(i)
  <2>1. Len(order) \in Nat
    BY <1>3
  <2>5. A \in Seq(Paragraph) /\ b \in Seq(Paragraph) /\ Len(A) = 1 /\ Len(b) = Len(order)
    BY <1>6, <1>7
  <2>6. \A i \in 1 .. Len(A) + Len(b) :
          (A \o b)[i] = IF i <= Len(A) THEN A[i] ELSE b[i - Len(A)]
    BY <2>5, ConcatProperties
  <2>7. A \o b \in Seq(Paragraph) /\ Len(A \o b) = Len(A) + Len(b)
    BY <2>5, ConcatProperties
  <2>2. f \in Seq(Paragraph) /\ Len(f) = Len(order) + 1
    BY <1>8, <2>1, <2>5, <2>7
  <2>3. f[1] = a
    <3>1. 1 \in 1 .. Len(A) + Len(b) /\ 1 <= Len(A)
      BY <2>1, <2>5
    <3>2. (A \o b)[1] = A[1]
      BY <2>6, <3>1
    <3> QED
      BY <1>7, <1>8, <3>2
  <2>4. ASSUME NEW i \in 1 .. Len(order) PROVE f[i + 1] = p(i)
    <3>1. i + 1 \in 1 .. Len(A) + Len(b) /\ ~(i + 1 <= Len(A)) /\ (i + 1) - Len(A) = i
      BY <2>1, <2>5
    <3>2. f[i + 1] = b[i]
      BY <1>8, <2>6, <3>1
    <3> QED
      BY <1>6, <3>2
  <2> QED
    BY <2>2, <2>3, <2>4
<1> QED
  <2>1. f[1].owner = "none" /\ f[1].text = <<"#", "\n">>
    BY <1>9 DEF a
  <2>2. ASSUME NEW i \in 1 .. Len(order)
        PROVE  /\ f[i + 1].owner = order[i]
               /\ f[i + 1].text = WriteLines(order[i], declared[order[i]].type, table[order[i]])
    <3>1. f[i + 1] = p(i)
      BY <1>9
    <3>2. /\ p(i).owner = order[i]
          /\ p(i).text = WriteLines(order[i], declared[order[i]].type, table[order[i]])
      BY DEF p
    <3> QED
      BY <3>1, <3>2
  <2> QED
    BY <1>3, <1>9, <2>1, <2>2 DEF f

\* The constants that are numbers.
LEMMA BoundFacts ==
  /\ StringLength \in Nat /\ WrapLength \in Nat /\ BufferSize \in Nat
  /\ BufferSize >= WrapLength + 4 * StringLength + 8 /\ BufferSize > 7
  /\ MaxEdits \in Nat /\ MaxRestarts \in Nat
<1>1. /\ StringLength \in Nat /\ WrapLength \in Nat /\ BufferSize \in Nat
      /\ BufferSize >= WrapLength + 4 * StringLength + 8
      /\ MaxEdits \in Nat /\ MaxRestarts \in Nat
  BY StateTextAssumption, StateFileAssumption
<1> QED
  BY <1>1

\* The part of a buffered line before a place, and the part after it, are in the buffer.
LEMMA BufferedPart ==
  ASSUME NEW text \in Text, Len(text) < BufferSize, NEW n \in 0 .. Len(text)
  PROVE  /\ SubSeq(text, 1, n) \in Text /\ Len(SubSeq(text, 1, n)) < BufferSize
         /\ SubSeq(text, n + 1, Len(text)) \in Text
         /\ Len(SubSeq(text, n + 1, Len(text))) < BufferSize
<1>1. Len(text) \in Nat /\ BufferSize \in Nat
  BY BoundFacts DEF Text
<1>2. SubSeq(text, 1, n) \in Text /\ Len(SubSeq(text, 1, n)) = n
  BY Split
<1>3. SubSeq(text, n + 1, Len(text)) \in Text
  BY Split
<1>4. Len(SubSeq(text, n + 1, Len(text))) = Len(text) - n
  BY <1>1 DEF Text
<1> QED
  BY <1>1, <1>2, <1>3, <1>4

\* What a value that was read leaves is in the buffer as the line was.
LEMMA BufferedValue ==
  ASSUME NEW type \in Types, NEW text \in Text, Len(text) < BufferSize,
         NEW r, r = ReadValue(type, text), r.ok
  PROVE  r.value \in ValuesOf(type) /\ r.rest \in Text /\ Len(r.rest) < BufferSize
<1>1. r.value \in ValuesOf(type) /\ Within(r.rest, text)
  BY ReadValueWithin
<1>2. r.rest \in Text /\ Len(r.rest) <= Len(text)
  BY <1>1 DEF Within
<1>3. Len(r.rest) \in Nat /\ Len(text) \in Nat /\ BufferSize \in Nat
  BY <1>2, BoundFacts DEF Text
<1> QED
  BY <1>1, <1>2, <1>3

\* What a step of parse_value() does.
LEMMA ElementFacts ==
  ASSUME TypeInv, ParseElement
  PROVE  /\ pc = "value" /\ cursor # <<>> /\ key \in DOMAIN declared
         /\ Len(values) < declared[key].max
         /\ line' = FillLineBuffer.line /\ rest' = FillLineBuffer.rest
         /\ UNCHANGED <<declared, file, saved, touched, edits, check, key, restarts>>
         /\ \/ /\ FillLineBuffer.ok
               /\ \E v \in {ReadValue(declared[key].type, FillLineBuffer.cursor)} :
                    /\ v.ok /\ values' = Append(values, v.value) /\ cursor' = v.rest
                    /\ UNCHANGED <<table, pc, alarmed>>
            \/ /\ FillLineBuffer.ok =>
                    \E v \in {ReadValue(declared[key].type, FillLineBuffer.cursor)} : ~v.ok
               /\ table' = [table EXCEPT ![key] = <<>>] /\ pc' = "flush" /\ alarmed' = TRUE
               /\ UNCHANGED <<values, cursor>>
<1>1. /\ pc = "value" /\ cursor # <<>> /\ Len(values) < declared[key].max
      /\ line' = FillLineBuffer.line /\ rest' = FillLineBuffer.rest
      /\ UNCHANGED <<declared, file, saved, touched, edits, check, key, restarts>>
  BY DEF ParseElement, More, disk
<1>2. key \in DOMAIN declared
  BY <1>1 DEF TypeInv, ParserType
<1>3. PICK v \in {IF FillLineBuffer.ok THEN ReadValue(declared[key].type, FillLineBuffer.cursor)
                  ELSE Rejected} :
        IF v.ok
        THEN /\ values' = Append(values, v.value)
             /\ cursor' = v.rest
             /\ UNCHANGED <<table, pc, alarmed>>
        ELSE /\ table' = [table EXCEPT ![key] = <<>>]
             /\ pc' = "flush"
             /\ alarmed' = TRUE
             /\ UNCHANGED <<values, cursor>>
  BY DEF ParseElement
<1>4. CASE v.ok
  <2>1. FillLineBuffer.ok
    BY <1>3, <1>4 DEF Rejected
  <2>2. v \in {ReadValue(declared[key].type, FillLineBuffer.cursor)}
    BY <1>3, <2>1
  <2> QED
    BY <1>1, <1>2, <1>3, <1>4, <2>1, <2>2
<1>5. CASE ~v.ok
  <2>1. FillLineBuffer.ok => v \in {ReadValue(declared[key].type, FillLineBuffer.cursor)}
    BY <1>3
  <2> QED
    BY <1>1, <1>2, <1>3, <1>5, <2>1
<1> QED
  BY <1>4, <1>5

\* What parse_assignment() does.
LEMMA AssignmentFacts ==
  ASSUME TypeInv, ParseAssignment
  PROVE  LET equal == IndexOf(line, "=")  name == SubSeq(line, 1, equal - 1) IN
         /\ pc = "assign" /\ equal \in 0 .. Len(line)
         /\ line' = IF equal = 0 THEN line ELSE name
         /\ UNCHANGED <<declared, table, file, saved, touched, edits, check, rest, restarts>>
         /\ \/ /\ pc' = "flush" /\ alarmed' = TRUE /\ UNCHANGED <<cursor, key, values>>
               /\ ~\E k \in DOMAIN declared : equal > 0 /\ name = <<k>>
            \/ /\ equal > 0 /\ key' \in DOMAIN declared /\ name = <<key'>>
               /\ cursor' = SubSeq(line, equal + 1, Len(line)) /\ values' = <<>>
               /\ pc' = "value" /\ UNCHANGED alarmed
<1> DEFINE equal == SelectInSeq(line, LAMBDA c : c = "=")  name == SubSeq(line, 1, equal - 1)
           known == {k \in DOMAIN declared : equal > 0 /\ name = <<k>>}
<1>1. equal = IndexOf(line, "=")
  BY DEF IndexOf
<1>2. line \in Text
  BY DEF TypeInv, ParserType, Buffered
<1>3. equal \in 0 .. Len(line)
  BY <1>1, <1>2, IndexOfFacts
<1>4. /\ pc = "assign" /\ line' = IF equal = 0 THEN line ELSE name
      /\ UNCHANGED <<declared, table, file, saved, touched, edits, check, rest, restarts>>
      /\ IF known = {}
         THEN pc' = "flush" /\ alarmed' = TRUE /\ UNCHANGED <<cursor, key, values>>
         ELSE /\ key' \in known
              /\ cursor' = SubSeq(line, equal + 1, Len(line))
              /\ values' = <<>>
              /\ pc' = "value"
              /\ UNCHANGED alarmed
  BY DEF ParseAssignment, disk
<1> HIDE DEF equal
<1>5. CASE known = {}
  <2>1. ~\E k \in DOMAIN declared : equal > 0 /\ name = <<k>>
    BY <1>5
  <2> HIDE DEF known
  <2> QED
    BY <1>1, <1>3, <1>4, <1>5, <2>1
<1>6. CASE known # {}
  <2>1. key' \in known
    BY <1>4, <1>6
  <2>2. equal > 0 /\ key' \in DOMAIN declared /\ name = <<key'>>
    BY <2>1
  <2> HIDE DEF known
  <2> QED
    BY <1>1, <1>3, <1>4, <1>6, <2>2
<1> QED
  BY <1>5, <1>6

\* The empty values of a table have the types of any.
LEMMA UnsetType ==
  ASSUME NEW d \in Declarations \union {First}
  PROVE  /\ DOMAIN Unset(d) = DOMAIN d
         /\ \A k \in DOMAIN d : /\ Unset(d)[k] = <<>> /\ Unset(d)[k] \in Seq(ValuesOf(d[k].type))
                                /\ Len(Unset(d)[k]) <= d[k].max
<1>1. \A k \in DOMAIN d : d[k].max \in Nat
  BY DeclarationFacts
<1> QED
  BY <1>1 DEF Unset

\* write_persistent_state() keeps the types.
LEMMA SaveType ==
  ASSUME TypeInv, WritePersistentState
  PROVE  TypeInv'
<1>1. UNCHANGED <<declared, table, pc, check, rest, line, cursor, key, values, restarts>>
  BY DEF WritePersistentState, parser
<1>2. PICK order \in SetToSeqs({k \in DOMAIN declared : table[k] # <<>>}) : file' = Written(order)
  BY DEF WritePersistentState, Written
<1>3. file' \in Seq(Paragraph)
  BY <1>2, WrittenFile
<1>4. touched' = {} /\ edits' = 0 /\ alarmed' = FALSE
      /\ saved' = [table |-> table, declared |-> declared, restarts |-> restarts]
  BY DEF WritePersistentState
<1>5. DiskType'
  BY <1>3, <1>4, BoundFacts DEF DiskType
<1>6. SavedType'
  <2>1. saved'.table = table /\ saved'.declared = declared /\ saved'.restarts = restarts
    BY <1>4
  <2>2. restarts \in Nat /\ declared \in Declarations \union {First} /\ TableType
    BY DEF TypeInv
  <2> QED
    BY <1>1, <2>1, <2>2 DEF SavedType, TableType
<1>7. TableType'
  BY <1>1 DEF TypeInv, TableType
<1>8. ParserType'
  BY <1>1 DEF TypeInv, ParserType, Buffered
<1>9. alarmed' \in BOOLEAN
  BY <1>4
<1> QED
  BY <1>1, <1>5, <1>6, <1>7, <1>8, <1>9 DEF TypeInv

\* The editor keeps the types: its insertions and its joined lines are texts of the same file.
LEMMA EditType ==
  ASSUME TypeInv, Edit
  PROVE  TypeInv'
<1>1. UNCHANGED <<declared, table, saved, pc, check, rest, line, cursor, key, values, restarts, alarmed>>
  BY DEF Edit, parser
<1>2. PICK g \in DOMAIN file : \E i \in 1 .. Len(file[g].text) + 1 :
        \E text \in {InsertAt(file[g].text, i, c) : c \in Inserts} \union
                    (IF i <= Len(file[g].text) /\ file[g].text[i] = "\n"
                     THEN {RemoveAt(file[g].text, i)} ELSE {}) :
          /\ file' = [file EXCEPT ![g].text = text]
          /\ touched' = touched \union
               {h \in g .. Len(file) : \A m \in g .. h - 1 : Spills(Contents(SubSeq(file', 1, m)))}
  BY DEF Edit
<1>3. PICK i \in 1 .. Len(file[g].text) + 1 :
        \E text \in {InsertAt(file[g].text, i, c) : c \in Inserts} \union
                    (IF i <= Len(file[g].text) /\ file[g].text[i] = "\n"
                     THEN {RemoveAt(file[g].text, i)} ELSE {}) :
          /\ file' = [file EXCEPT ![g].text = text]
          /\ touched' = touched \union
               {h \in g .. Len(file) : \A m \in g .. h - 1 : Spills(Contents(SubSeq(file', 1, m)))}
  BY <1>2
<1>4. PICK text \in {InsertAt(file[g].text, i, c) : c \in Inserts} \union
                    (IF i <= Len(file[g].text) /\ file[g].text[i] = "\n"
                     THEN {RemoveAt(file[g].text, i)} ELSE {}) :
          /\ file' = [file EXCEPT ![g].text = text]
          /\ touched' = touched \union
               {h \in g .. Len(file) : \A m \in g .. h - 1 : Spills(Contents(SubSeq(file', 1, m)))}
  BY <1>3
<1>5. file \in Seq(Paragraph) /\ touched \subseteq 1 .. Len(file) /\ edits \in 0 .. MaxEdits
      /\ g \in 1 .. Len(file) /\ Len(file) \in Nat
  BY DEF TypeInv, DiskType
<1>6. file[g] \in Paragraph /\ file[g].text \in Text
  <2>1. file[g] \in Paragraph
    BY <1>5
  <2> QED
    BY <2>1 DEF Paragraph
<1>7. text \in Text
  BY <1>4, <1>6, EditedText
<1>8. [file[g] EXCEPT !.text = text] \in Paragraph
  BY <1>6, <1>7 DEF Paragraph
<1>9. file' \in Seq(Paragraph) /\ Len(file') = Len(file)
  BY <1>4, <1>5, <1>8
<1>10. touched' \subseteq 1 .. Len(file')
  BY <1>4, <1>5, <1>9
<1>11. edits' \in 0 .. MaxEdits
  <2>1. edits < MaxEdits /\ edits' = edits + 1
    BY DEF Edit
  <2> QED
    BY <1>5, <2>1, BoundFacts
<1> QED
  BY <1>1, <1>9, <1>10, <1>11 DEF TypeInv, TableType, SavedType, DiskType, ParserType, Buffered

\* A new process begins with variables that have no values.
LEMMA RestartType ==
  ASSUME TypeInv, Restart
  PROVE  TypeInv'
<1>1. /\ declared' \in Declarations /\ table' = Unset(declared') /\ pc' = "published"
      /\ alarmed' = FALSE /\ restarts' = restarts + 1 /\ restarts < MaxRestarts
      /\ UNCHANGED <<file, saved, touched, edits, check, rest, line, cursor, key, values>>
  BY DEF Restart, disk, parser
<1>2. TableType'
  BY <1>1, UnsetType DEF TableType
<1>3. SavedType' /\ restarts' \in 0 .. MaxRestarts
  BY <1>1, BoundFacts DEF TypeInv, SavedType
<1>4. DiskType'
  BY <1>1 DEF TypeInv, DiskType
<1>5. ParserType'
  BY <1>1 DEF TypeInv, ParserType, Buffered
<1> QED
  BY <1>1, <1>2, <1>3, <1>4, <1>5 DEF TypeInv

\* The parser begins with the text of the file.
LEMMA LoadType ==
  ASSUME TypeInv, LoadPersistentState
  PROVE  TypeInv'
<1>1. /\ check' \in BOOLEAN /\ rest' = Contents(file) /\ pc' \in {"running", "read", "unopened"}
      /\ UNCHANGED <<declared, table, file, saved, touched, edits, line, cursor, key, values,
                     alarmed, restarts>>
  BY DEF LoadPersistentState, disk
<1>2. Contents(file) \in Text
  <2>1. file \in Seq(Paragraph) /\ 0 \in 0 .. Len(file)
    BY DEF TypeInv, DiskType
  <2> QED
    BY <2>1, ContentsFacts, AfterFacts
<1>3. ParserType'
  BY <1>1, <1>2 DEF TypeInv, ParserType, Buffered
<1> QED
  BY <1>1, <1>3 DEF TypeInv, TableType, SavedType, DiskType

\* Reading a line keeps the types.
LEMMA LineType ==
  ASSUME TypeInv, ParseLine
  PROVE  TypeInv'
<1>1. /\ rest' = ReadLine.rest /\ line' = ReadLine.line
      /\ pc' \in {"running", "failed", "read", "assign"}
      /\ alarmed' = (alarmed \/ pc' = "failed")
      /\ UNCHANGED <<declared, table, file, saved, touched, edits, check, cursor, key, values, restarts>>
  BY DEF ParseLine, disk
<1>2. ParserType'
  BY <1>1, ReadLineType DEF TypeInv, ParserType, Buffered
<1>3. alarmed' \in BOOLEAN
  BY <1>1
<1> QED
  BY <1>1, <1>2, <1>3 DEF TypeInv, TableType, SavedType, DiskType

\* Cutting the line at the equal sign keeps the types: the parts fit in the buffer.
LEMMA AssignmentType ==
  ASSUME TypeInv, ParseAssignment
  PROVE  TypeInv'
<1> DEFINE equal == IndexOf(line, "=")  name == SubSeq(line, 1, equal - 1)
<1>1. /\ equal \in 0 .. Len(line)
      /\ line' = IF equal = 0 THEN line ELSE name
      /\ UNCHANGED <<declared, table, file, saved, touched, edits, check, rest, restarts>>
      /\ \/ pc' = "flush" /\ alarmed' = TRUE /\ UNCHANGED <<cursor, key, values>>
         \/ /\ equal > 0 /\ key' \in DOMAIN declared
            /\ cursor' = SubSeq(line, equal + 1, Len(line)) /\ values' = <<>>
            /\ pc' = "value" /\ UNCHANGED alarmed
  BY AssignmentFacts
<1>2. Buffered /\ declared \in Declarations \union {First}
  BY DEF TypeInv, ParserType
<1>3. line \in Text /\ Len(line) < BufferSize /\ Len(line) \in Nat
  BY <1>2 DEF Buffered, Text
<1> HIDE DEF equal
<1>4. equal # 0 => name \in Text /\ Len(name) < BufferSize
  <2>1. equal # 0 => equal - 1 \in 0 .. Len(line)
    BY <1>1, <1>3
  <2> QED
    BY <1>3, <2>1, BufferedPart
<1>5. SubSeq(line, equal + 1, Len(line)) \in Text /\ Len(SubSeq(line, equal + 1, Len(line))) < BufferSize
  BY <1>1, <1>3, BufferedPart
<1> HIDE DEF name
<1>6. Buffered'
  BY <1>1, <1>2, <1>4, <1>5 DEF Buffered
<1>7. alarmed' \in BOOLEAN
  BY <1>1 DEF TypeInv
<1>8. values' = <<>> /\ pc' = "value" => /\ values' \in Seq(ValuesOf(declared[key'].type))
                                         /\ Len(values') <= declared[key'].max
  <2>1. key' \in DOMAIN declared => declared[key'].max \in Nat
    BY <1>2, DeclarationFacts
  <2> QED
    BY <1>1, <2>1
<1>9. ParserType'
  BY <1>1, <1>6, <1>8 DEF ParserType
<1> QED
  BY <1>1, <1>7, <1>9 DEF TypeInv, TableType, SavedType, DiskType

\* Reading a value keeps the types: it is one of the type of the variable, and there is room.
LEMMA ElementType ==
  ASSUME TypeInv, ParseElement
  PROVE  TypeInv'
<1> DEFINE filled == FillLineBuffer
<1>1. /\ pc = "value" /\ key \in DOMAIN declared /\ Len(values) < declared[key].max
      /\ line' = filled.line /\ rest' = filled.rest
      /\ UNCHANGED <<declared, file, saved, touched, edits, check, key, restarts>>
  BY ElementFacts
<1>2. Buffered /\ declared \in Declarations \union {First} /\ TableType
      /\ values \in Seq(ValuesOf(declared[key].type))
  BY <1>1 DEF TypeInv, ParserType
<1>3. declared[key].type \in Types /\ declared[key].max \in Nat
  BY <1>1, <1>2, DeclarationFacts
<1>4. /\ filled.line \in Text /\ Len(filled.line) < BufferSize
      /\ filled.cursor \in Text /\ Len(filled.cursor) < BufferSize /\ filled.rest \in Text
  BY <1>2, FillType
<1>5. CASE \E v \in {ReadValue(declared[key].type, filled.cursor)} :
             /\ v.ok /\ values' = Append(values, v.value) /\ cursor' = v.rest
             /\ UNCHANGED <<table, pc, alarmed>>
  <2>1. PICK v \in {ReadValue(declared[key].type, filled.cursor)} :
          v.ok /\ values' = Append(values, v.value) /\ cursor' = v.rest
    BY <1>5
  <2>2. UNCHANGED <<table, pc, alarmed>>
    BY <1>5
  <2>3. v.value \in ValuesOf(declared[key].type) /\ v.rest \in Text /\ Len(v.rest) < BufferSize
    BY <1>3, <1>4, <2>1, BufferedValue
  <2> HIDE DEF filled
  <2>4. Buffered'
    BY <1>1, <1>4, <2>1, <2>3 DEF Buffered
  <2>5. values' \in Seq(ValuesOf(declared[key].type)) /\ Len(values') <= declared[key].max
    BY <1>1, <1>2, <1>3, <2>1, <2>3
  <2>6. ParserType'
    BY <1>1, <2>2, <2>4, <2>5 DEF ParserType
  <2> QED
    BY <1>1, <2>2, <2>6 DEF TypeInv, TableType, SavedType, DiskType
<1>6. CASE /\ table' = [table EXCEPT ![key] = <<>>] /\ pc' = "flush" /\ alarmed' = TRUE
           /\ UNCHANGED <<values, cursor>>
  <2> HIDE DEF filled
  <2>1. Buffered'
    BY <1>1, <1>2, <1>4, <1>6 DEF Buffered
  <2>2. ParserType'
    BY <1>6, <2>1 DEF ParserType
  <2>3. TableType'
    <3>1. DOMAIN table' = DOMAIN declared' /\ declared' = declared
      BY <1>1, <1>2, <1>6 DEF TableType
    <3>2. ASSUME NEW k \in DOMAIN declared
          PROVE  table'[k] \in Seq(ValuesOf(declared[k].type)) /\ Len(table'[k]) <= declared[k].max
      <4>1. CASE k = key
        BY <1>2, <1>3, <1>6, <3>1, <4>1 DEF TableType
      <4>2. CASE k # key
        BY <1>2, <1>6, <3>1, <4>2 DEF TableType
      <4> QED
        BY <4>1, <4>2
    <3> QED
      BY <3>1, <3>2 DEF TableType
  <2>4. alarmed' \in BOOLEAN
    BY <1>6
  <2> QED
    BY <1>1, <2>2, <2>3, <2>4 DEF TypeInv, SavedType, DiskType
<1> QED
  BY <1>5, <1>6, ElementFacts

\* The values that are assigned are those of the variable, max_length at most.
LEMMA EndType ==
  ASSUME TypeInv, ParseValueEnd
  PROVE  TypeInv'
<1>1. /\ pc = "value" /\ table' = [table EXCEPT ![key] = values] /\ pc' \in {"read", "flush"}
      /\ alarmed' = (alarmed \/ cursor # <<>>)
      /\ UNCHANGED <<declared, file, saved, touched, edits, check, rest, line, cursor, key,
                     values, restarts>>
  BY DEF ParseValueEnd, disk, parser
<1>2. key \in DOMAIN declared /\ values \in Seq(ValuesOf(declared[key].type))
      /\ Len(values) <= declared[key].max
  BY <1>1 DEF TypeInv, ParserType
<1>3. TableType'
  BY <1>1, <1>2 DEF TypeInv, TableType
<1>4. ParserType'
  BY <1>1 DEF TypeInv, ParserType, Buffered
<1>5. alarmed' \in BOOLEAN
  BY <1>1
<1> QED
  BY <1>1, <1>3, <1>4, <1>5 DEF TypeInv, SavedType, DiskType

\* Flushing the continuations of a line keeps the types.
LEMMA FlushType ==
  ASSUME TypeInv, FlushContinuation
  PROVE  TypeInv'
<1>1. /\ \/ line' = ReadLine.line /\ rest' = ReadLine.rest
         \/ UNCHANGED <<line, rest>>
      /\ pc' \in {"flush", "failed", "read"}
      /\ UNCHANGED <<declared, table, file, saved, touched, edits, check, cursor, key, values,
                     alarmed, restarts>>
  BY DEF FlushContinuation, Reported, disk
<1>2. ParserType'
  BY <1>1, ReadLineType DEF TypeInv, ParserType, Buffered
<1> QED
  BY <1>1, <1>2 DEF TypeInv, TableType, SavedType, DiskType

\* Every step keeps the types.
LEMMA TypeStep ==
  ASSUME TypeInv, [Next]_vars
  PROVE  TypeInv'
<1>1. CASE UNCHANGED vars
  BY <1>1 DEF vars, disk, parser, TypeInv, TableType, SavedType, DiskType, ParserType, Buffered
<1> QED
  BY <1>1, SaveType, EditType, RestartType, LoadType, LineType, AssignmentType, ElementType,
     EndType, FlushType DEF Next, Parse

\* TypeInv is invariant.
LEMMA TypeInvariant == Spec => []TypeInv
<1>1. Init => TypeInv
  BY InitTypeInv
<1>2. TypeInv /\ [Next]_vars => TypeInv'
  BY TypeStep
<1> QED
  BY <1>1, <1>2, PTL DEF Spec

\* Every variable of the parser, the table and the file has the type of what it stands for.
THEOREM TypeCorrect == Spec => []TypeOK
<1>1. TypeInv => TypeOK
  BY DEF TypeInv, TypeOK, TableType, SavedType, DiskType, ParserType, Buffered
<1> QED
  BY <1>1, TypeInvariant, PTL

-------------------------------------------------------------------------------
(* Where the parser is.                                                   *)

Owner(g) == file[g].owner
Type(g) == saved.declared[Owner(g)].type
Vals(g) == saved.table[Owner(g)]

\* Where the paragraphs come from: a save wrote them, and the editor has changed those in
\* touched, which may spill only into each other.
FileOK ==
  /\ 1 \in DOMAIN file \ touched => file[1].text = <<"#", "\n">>
  /\ \A g \in 2 .. Len(file) :
       /\ Owner(g) \in DOMAIN saved.declared /\ Vals(g) # <<>> /\ Owner(g) \in Range(file[g].text)
       /\ g \notin touched => file[g].text = WriteLines(Owner(g), Type(g), Vals(g))
       /\ \A h \in 2 .. Len(file) : Owner(h) = Owner(g) => h = g
  /\ \A k \in DOMAIN saved.declared :
       saved.table[k] # <<>> => \E g \in 2 .. Len(file) : Owner(g) = k
  /\ \A m \in touched : m < Len(file) /\ m + 1 \notin touched => ~Spills(Before(file, m))
  /\ edits = 0 => touched = {}

\* The variables that must come back, and those that have, of the first paragraphs.
Claimed == {k \in DOMAIN declared \ Broken : Fits(k)}
Done(g) ==
  \A k \in Claimed : /\ table[k] = <<>> \/ table[k] = Expected(k)
                     /\ (\E h \in 2 .. g : Owner(h) = k) => table[k] = Expected(k)

Pristine(g) == g \in 2 .. Len(file) /\ g \notin touched

\* Between two paragraphs.
AtParagraph(g) == pc = "read" /\ rest = After(file, g) /\ Done(g)

\* In text that the editor has broken, which nothing leads out of but a whole line.
Loose(g) ==
  /\ touched # {} /\ Done(g)
  /\ pc = "assign" => Range(line) \subseteq Broken
  /\ pc = "value" => key \in Broken
  /\ \E u \in Text :
       /\ rest = u \o After(file, g) /\ Range(u) \subseteq Broken
       /\ After(file, g) = <<>> \/ ~Spills(u)
       /\ After(file, g) # <<>> /\ u = <<>> =>
            /\ pc # "read" => "\\" \notin Range(line)
            /\ pc = "value" => "\\" \notin Range(cursor)

\* At the first line of a variable.
Start(g) ==
  /\ pc = "assign" /\ Pristine(g) /\ Done(g - 1)
  /\ \E l, u : /\ Line(l, u, Unwritten(Type(g), Vals(g), 0))
               /\ rest = u \o After(file, g)
               /\ line = <<Owner(g)>> \o (<<"=">> \o l)

\* After some of its values.
Value(g) ==
  /\ pc = "value" /\ Pristine(g) /\ Done(g - 1)
  /\ key = Owner(g) /\ Len(values) <= Len(Vals(g))
  /\ Fits(key) =>
       \A i \in 1 .. Len(values) : values[i] = ReadBack(declared[key].type, Vals(g)[i])
  /\ \E u : /\ Line(cursor, u, Unwritten(Type(g), Vals(g), Len(values)))
            /\ rest = u \o After(file, g) /\ Fine(line, u)

\* In the lines that follow the one where the rest of a variable was given up.
Garbage(g) ==
  /\ pc \in {"read", "assign", "flush"} /\ Pristine(g) /\ Done(g) /\ alarmed
  /\ \E u \in Text :
       /\ rest = u \o After(file, g) /\ Follows(Type(g), Vals(g), u)
       /\ pc # "read" => Fine(line, u)
       /\ pc = "assign" => line # <<>> /\ line[1] = Space

Parsing ==
  \E g \in 0 .. Len(file) : AtParagraph(g) \/ Loose(g) \/ Start(g) \/ Value(g) \/ Garbage(g)

\* What makes the library complain of what it has written itself.
Excused ==
  \/ edits > 0
  \/ \E k \in DOMAIN saved.declared : saved.table[k] # <<>> /\
       (k \notin DOMAIN declared \/ ~Fits(k) \/ Len(saved.table[k]) > declared[k].max)

\* What holds in each phase of a process.
Phases ==
  /\ pc \in {"read", "assign", "value", "flush"} => Parsing
  /\ pc = "running" /\ saved.restarts < restarts => Done(Len(file))
  /\ pc = "failed" => Done(0)
  /\ pc = "published" => table = Unset(declared)
  /\ pc \in {"flush", "failed"} => alarmed
  /\ alarmed => Excused
  /\ pc \notin {"running", "unopened"} => saved.restarts < restarts

IInv == TypeInv /\ FileOK /\ Phases

\* The parser leaves these alone.
Steady == UNCHANGED <<declared, file, saved, touched, edits, restarts>>

\* What a step of the parser leads to.
Goes ==
  /\ pc' \in {"read", "assign", "value", "flush"} => Parsing'
  /\ pc' = "running" => Done(Len(file))'
  /\ pc' = "failed" => Done(0)'
  /\ pc' \in {"flush", "failed"} => alarmed'
  /\ alarmed' => Excused
  /\ pc' # "published"

\* What depends on the file and the variables does not change while the parser runs.
LEMMA SteadyFacts ==
  ASSUME Steady
  PROVE  /\ FileOK' = FileOK /\ Broken' = Broken /\ Claimed' = Claimed /\ Excused' = Excused
         /\ \A g : Pristine(g)' = Pristine(g) /\ Owner(g)' = Owner(g)
         /\ \A g : Type(g)' = Type(g) /\ Vals(g)' = Vals(g)
         /\ \A k : Fits(k)' = Fits(k) /\ Expected(k)' = Expected(k)
<1>1. UNCHANGED <<declared, file, saved, touched, edits, restarts>>
  BY DEF Steady
<1>2. Broken' = Broken
  BY <1>1 DEF Broken
<1>3. \A g : Owner(g)' = Owner(g)
  BY <1>1 DEF Owner
<1>4. \A g : Type(g)' = Type(g) /\ Vals(g)' = Vals(g)
  BY <1>1 DEF Type, Vals, Owner
<1>5. \A k : Fits(k)' = Fits(k)
  BY <1>1 DEF Fits
<1>6. \A k : Expected(k)' = Expected(k)
  BY <1>1 DEF Expected
<1>7. FileOK' = FileOK
  BY <1>1 DEF FileOK, Owner, Type, Vals
<1>8. Claimed' = Claimed
  BY <1>1, <1>2, <1>5 DEF Claimed
<1>9. Excused' = Excused
  BY <1>1, <1>5 DEF Excused
<1>10. \A g : Pristine(g)' = Pristine(g)
  BY <1>1 DEF Pristine
<1> QED
  BY <1>2, <1>3, <1>4, <1>5, <1>6, <1>7, <1>8, <1>9, <1>10

\* What is done stays so while the variables that must come back keep their values.
LEMMA DoneSame ==
  ASSUME Steady, NEW g, Done(g), \A k \in Claimed : table'[k] = table[k]
  PROVE  Done(g)'
<1>1. /\ Claimed' = Claimed
      /\ \A h : Owner(h)' = Owner(h)
      /\ \A k : Expected(k)' = Expected(k)
  BY SteadyFacts
<1> QED
  BY <1>1 DEF Done

\* One paragraph more is done when its variable has come back.
LEMMA DoneMore ==
  ASSUME Steady, NEW g \in Nat, Done(g - 1),
         Owner(g) \in Claimed => table'[Owner(g)] = Expected(Owner(g)),
         \A k \in Claimed : k # Owner(g) => table'[k] = table[k]
  PROVE  Done(g)'
<1>1. /\ Claimed' = Claimed
      /\ \A h : Owner(h)' = Owner(h)
      /\ \A k : Expected(k)' = Expected(k)
  BY SteadyFacts
<1>2. ASSUME NEW k \in Claimed, k # Owner(g), NEW h \in 2 .. g, Owner(h) = k
      PROVE  h \in 2 .. g - 1
  BY <1>2
<1> QED
  BY <1>1, <1>2 DEF Done

\* Where some paragraphs are done, no variable has a wrong value.
LEMMA DoneLess ==
  ASSUME NEW g \in Nat, Done(g)
  PROVE  Done(0)
<1>1. \A h \in 2 .. 0 : h \in 2 .. g
  OBVIOUS
<1> QED
  BY <1>1 DEF Done

\* Nothing is left of the file only when all is done.
LEMMA DoneAll ==
  ASSUME TypeInv, FileOK, NEW g \in 0 .. Len(file), Done(g), After(file, g) = <<>>
  PROVE  Done(Len(file))
<1>1. file \in Seq(Paragraph)
  BY DEF TypeInv, DiskType
<1>2. ASSUME NEW h \in 2 .. Len(file) PROVE h \in 2 .. g
  <2> SUFFICES ASSUME ~(h <= g) PROVE FALSE
    OBVIOUS
  <2> DEFINE a == Run(file, g, h - 1)  b == After(file, h - 1)  t == file[h].text  c == After(file, h)
  <2>1. h - 1 \in g .. Len(file) /\ h - 1 \in 0 .. Len(file) /\ h - 1 < Len(file)
        /\ (h - 1) + 1 = h /\ h \in 0 .. Len(file)
    OBVIOUS
  <2>2. After(file, g) = a \o b /\ a \in Text
    BY <1>1, <2>1, RunFacts
  <2>3. b = t \o c /\ b \in Text /\ c \in Text
    BY <1>1, <2>1, AfterFacts
  <2>4. Owner(h) \in Range(t)
    BY DEF FileOK
  <2>5. t \in Text
    <3>1. h \in 1 .. Len(file)
      OBVIOUS
    <3> QED
      BY <1>1, <3>1, TextsType
  <2> HIDE DEF a, b, c, t
  <2>6. Len(t) > 0 /\ Len(a) \in Nat /\ Len(c) \in Nat
    BY <2>2, <2>3, <2>4, <2>5 DEF Range, Text
  <2>7. Len(b) = Len(t) + Len(c)
    BY <2>3, <2>5, TwoParts
  <2>8. Len(a \o b) = Len(a) + Len(b)
    BY <2>2, <2>3, TwoParts
  <2>9. Len(<<>>) = 0
    OBVIOUS
  <2> QED
    BY <2>2, <2>6, <2>7, <2>8, <2>9
<1> QED
  BY <1>2 DEF Done

-------------------------------------------------------------------------------
(* The steps of the parser.                                               *)

\* What read_line() does at the beginning of the parse of a line.
LEMMA LineFacts ==
  ASSUME ParseLine
  PROVE  /\ pc = "read" /\ Steady /\ UNCHANGED <<table, check, cursor, key, values>>
         /\ rest' = ReadLine.rest /\ line' = ReadLine.line
         /\ ReadLine.eof => pc' = "running"
         /\ ~ReadLine.eof /\ ~ReadLine.ok => pc' = "failed"
         /\ ~ReadLine.eof /\ ReadLine.ok =>
              IF line' # <<>> /\ Head(line') \in {"#", "\n"} THEN pc' = "read" ELSE pc' = "assign"
         /\ alarmed' = (alarmed \/ pc' = "failed")
BY DEF ParseLine, disk, Steady

\* The tokens of broken paragraphs are broken, and so are those of several of them.
LEMMA BrokenRun ==
  ASSUME TypeInv, NEW g \in 0 .. Len(file), NEW m \in g .. Len(file),
         \A h \in g + 1 .. m : h \in touched
  PROVE  Range(Run(file, g, m)) \subseteq Broken
<1>1. file \in Seq(Paragraph)
  BY DEF TypeInv, DiskType
<1>2. ASSUME NEW h \in g + 1 .. m PROVE file[h].text \in Seq(Broken)
  <2>1. h \in touched /\ h \in 1 .. Len(file)
    OBVIOUS
  <2> DEFINE t == file[h].text
  <2>2. t \in Text
    BY <1>1, <2>1, TextsType
  <2>3. Range(t) \subseteq Broken
    BY <2>1 DEF Broken
  <2> HIDE DEF t
  <2>4. \A i \in 1 .. Len(t) : t[i] \in Broken
    BY <2>2, <2>3, InRange
  <2>5. t \in Seq(Broken)
    BY <2>2, <2>4 DEF Text
  <2> QED
    BY <2>5 DEF t
<1> DEFINE r == Run(file, g, m)
<1>3. r \in Seq(Broken)
  BY <1>1, <1>2, RunFacts
<1> HIDE DEF r
<1>4. Range(r) \subseteq Broken
  BY <1>3 DEF Range
<1> QED
  BY <1>4 DEF r

\* Between two paragraphs, the second one broken, is in the text of all that are broken there.
LEMMA IntoBroken ==
  ASSUME TypeInv, FileOK, NEW g \in 0 .. Len(file) - 1, AtParagraph(g), g + 1 \in touched
  PROVE  \E m \in 0 .. Len(file) : Loose(m) /\ (m < Len(file) => m + 1 \notin touched)
<1>0. file \in Seq(Paragraph) /\ Len(file) \in Nat /\ touched \subseteq 1 .. Len(file)
  BY DEF TypeInv, DiskType
<1> DEFINE T == {m \in g + 1 .. Len(file) : m = Len(file) \/ m + 1 \notin touched}
<1>1. Len(file) \in T /\ T \in SUBSET Nat
  BY <1>0
<1> HIDE DEF T
<1>2. PICK m \in T : \A n \in T : m <= n
  BY <1>1, LeastNat
<1>3. m \in g + 1 .. Len(file) /\ (m = Len(file) \/ m + 1 \notin touched)
  BY <1>2 DEF T
<1>4. ASSUME NEW h \in g + 1 .. m PROVE h \in touched
  <2>1. CASE h = g + 1
    BY <2>1
  <2>2. CASE h # g + 1
    <3>1. h - 1 \in g + 1 .. Len(file) /\ h - 1 < m /\ (h - 1) + 1 = h
      BY <1>3, <2>2
    <3>2. h - 1 \notin T
      BY <1>2, <1>3, <3>1
    <3>3. (h - 1) + 1 \in touched
      BY <3>1, <3>2 DEF T
    <3> QED
      BY <3>1, <3>3
  <2> QED
    BY <2>1, <2>2
<1> DEFINE u == Run(file, g, m)
<1>5. m \in g .. Len(file) /\ m \in 0 .. Len(file) /\ g \in 0 .. Len(file) /\ m \in g + 1 .. m
  BY <1>0, <1>3
<1>6. After(file, g) = u \o After(file, m) /\ u \in Text
      /\ Before(file, g) \in Text /\ Before(file, m) = Before(file, g) \o u
  BY <1>0, <1>5, RunFacts
<1>7. Range(u) \subseteq Broken
  BY <1>4, <1>5, BrokenRun
<1>8. After(file, m) = <<>> \/ ~Spills(u)
  <2>1. CASE m = Len(file)
    BY <1>0, <1>5, <2>1, AfterFacts
  <2>2. CASE m # Len(file)
    <3>1. m \in touched /\ m < Len(file) /\ m + 1 \notin touched
      BY <1>3, <1>4, <1>5, <2>2
    <3>2. ~Spills(Before(file, m))
      BY <3>1 DEF FileOK
    <3> HIDE DEF u
    <3> QED
      BY <1>6, <3>2, SpillsSuffix
  <2> QED
    BY <2>1, <2>2
<1>9. Done(m)
  <2>1. Done(g)
    BY DEF AtParagraph
  <2>2. ASSUME NEW k \in Claimed, NEW h \in 2 .. m, Owner(h) = k PROVE h \in 2 .. g
    <3> SUFFICES ASSUME ~(h <= g) PROVE FALSE
      BY <1>3
    <3>1. h \in g + 1 .. m /\ h \in 2 .. Len(file)
      BY <1>3
    <3>2. h \in touched
      BY <1>4, <3>1
    <3>3. Owner(h) \in Range(file[h].text)
      BY <3>1 DEF FileOK
    <3>4. Owner(h) \in Broken
      BY <3>2, <3>3 DEF Broken
    <3> QED
      BY <2>2, <3>4 DEF Claimed
  <2> QED
    BY <2>1, <2>2 DEF Done
<1>10. pc = "read" /\ rest = u \o After(file, m)
  BY <1>6 DEF AtParagraph
<1>11. touched # {}
  OBVIOUS
<1>12. Loose(m)
  <2> HIDE DEF u
  <2> QED
    BY <1>6, <1>7, <1>8, <1>9, <1>10, <1>11 DEF Loose
<1>13. m < Len(file) => m + 1 \notin touched
  BY <1>3
<1> QED
  BY <1>5, <1>12, <1>13

\* A line of a variable that was written, alone or after others, fits in the buffer.
LEMMA WrittenLine ==
  ASSUME NEW type \in Types, NEW vals \in Seq(ValuesOf(type)), NEW k \in Tokens, k \notin Special,
         NEW v \in Text, rest = WriteLines(k, type, vals) \o v
  PROVE  \E l, u : /\ Line(l, u, Unwritten(type, vals, 0))
                   /\ ReadLine.ok /\ ~ReadLine.eof
                   /\ ReadLine.line = <<k>> \o (<<"=">> \o l) /\ ReadLine.rest = u \o v
<1> DEFINE U == Unwritten(type, vals, 0)
<1>0. 0 \in 0 .. Len(vals) /\ Len(vals) \in Nat
  OBVIOUS
<1>1. PICK l, u : Line(l, u, U)
  BY <1>0, HasLine
<1>2. Len(l) + LineLength(type, vals)[0] <= Longest + 2
  BY <1>0, <1>1, LineOf
<1>3. LineLength(type, vals)[0] = 2
  BY LineLengths
<1>4. l \in Text /\ u \in Text
  BY <1>1 DEF Line
<1> DEFINE q == <<"=">>  K == <<k>>  ql == q \o l  kl == K \o ql  qU == q \o U  W == WriteLines(k, type, vals)
<1>5. W = K \o qU /\ U \in Text
  BY <1>0, WriteLinesIs, UnwrittenStep
<1>6. q \in Text /\ K \in Text /\ Len(q) = 1 /\ Len(K) = 1 /\ NoNewline(q) /\ NoNewline(K)
  <2>1. k # "\n" /\ "=" \in Tokens
    BY TokenFacts DEF Special
  <2> QED
    BY <2>1 DEF Text, NoNewline
<1>7. Line(ql, u, qU)
  <2> HIDE DEF q, U
  <2> QED
    BY <1>1, <1>6, LineWith
<1>8. Line(kl, u, W)
  <2> HIDE DEF K, ql, qU, W
  <2>1. Line(K \o ql, u, K \o qU)
    BY <1>6, <1>7, LineWith
  <2> QED
    BY <1>5, <2>1
<1>9. Len(ql) = 1 + Len(l) /\ ql \in Text
  <2> HIDE DEF q
  <2> QED
    <3>1. q \in Text /\ l \in Text /\ Len(q) = 1
      BY <1>4, <1>6
    <3>2. Len(q \o l) = Len(q) + Len(l) /\ q \o l \in Text
      BY <3>1, TwoParts
    <3> QED
      BY <3>1, <3>2
<1>10. Len(kl) = 1 + Len(ql)
  <2> HIDE DEF K, ql
  <2> QED
    <3>1. K \in Text /\ ql \in Text /\ Len(K) = 1
      BY <1>6, <1>9
    <3>2. Len(K \o ql) = Len(K) + Len(ql)
      BY <3>1, TwoParts
    <3> QED
      BY <3>1, <3>2
<1>11. Len(kl) + 1 < BufferSize
  <2>1. Len(l) \in Nat
    BY <1>4 DEF Text
  <2> HIDE DEF kl, ql
  <2> QED
    BY <1>2, <1>3, <1>9, <1>10, <2>1, BoundFacts DEF Longest
<1>12. ReadLine = [ok |-> TRUE, eof |-> FALSE, line |-> kl, cursor |-> cursor, rest |-> u \o v]
  <2> HIDE DEF kl, W
  <2> QED
    BY <1>8, <1>11, ReadLineIs DEF W
<1> HIDE DEF kl
<1>13. ReadLine.ok /\ ~ReadLine.eof /\ ReadLine.line = kl /\ ReadLine.rest = u \o v
  BY <1>12
<1> QED
  BY <1>1, <1>13 DEF kl

\* An error that ends the load leaves the values that were read before.
LEMMA ErrorGoes ==
  ASSUME Steady, UNCHANGED table, NEW g \in Nat, Done(g), Excused, pc' = "failed", alarmed' = TRUE
  PROVE  Goes
<1>1. Done(0)
  BY DoneLess
<1>2. Done(0)'
  BY <1>1, DoneSame
<1> QED
  BY <1>2 DEF Goes

\* The owner of a paragraph as it was written is a variable that was saved.
LEMMA PristineFacts ==
  ASSUME TypeInv, FileOK, NEW g, Pristine(g)
  PROVE  /\ g \in 1 .. Len(file) /\ g - 1 \in 0 .. Len(file) /\ g \in 0 .. Len(file) /\ g \in Nat
         /\ Owner(g) \in DOMAIN saved.declared /\ Owner(g) \in Tokens /\ Owner(g) \notin Special
         /\ Type(g) \in Types /\ Vals(g) \in Seq(ValuesOf(Type(g))) /\ Vals(g) # <<>>
         /\ Vals(g) = saved.table[Owner(g)] /\ Type(g) = saved.declared[Owner(g)].type
         /\ file[g].text = WriteLines(Owner(g), Type(g), Vals(g))
         /\ \A h \in 2 .. Len(file) : Owner(h) = Owner(g) => h = g
         /\ After(file, g) \in Text /\ file \in Seq(Paragraph)
<1>1. g \in 2 .. Len(file) /\ g \notin touched
  BY DEF Pristine
<1>2. /\ g \in 1 .. Len(file) /\ g - 1 \in 0 .. Len(file) /\ g \in 0 .. Len(file) /\ g \in Nat
      /\ file \in Seq(Paragraph) /\ saved.declared \in Declarations \union {First}
  BY <1>1 DEF TypeInv, DiskType, SavedType
<1>3. /\ Owner(g) \in DOMAIN saved.declared /\ Vals(g) # <<>>
      /\ file[g].text = WriteLines(Owner(g), Type(g), Vals(g))
      /\ \A h \in 2 .. Len(file) : Owner(h) = Owner(g) => h = g
  BY <1>1 DEF FileOK
<1>4. Owner(g) \in Tokens /\ Owner(g) \notin Special /\ Type(g) \in Types
  BY <1>2, <1>3, DeclarationFacts DEF Type
<1>5. Vals(g) \in Seq(ValuesOf(Type(g)))
  BY <1>3 DEF TypeInv, SavedType, Vals, Type
<1>6. After(file, g) \in Text
  BY <1>2, AfterFacts
<1>7. Vals(g) = saved.table[Owner(g)] /\ Type(g) = saved.declared[Owner(g)].type
  BY DEF Vals, Type
<1> QED
  BY <1>2, <1>3, <1>4, <1>5, <1>6, <1>7

\* parse_line() between two paragraphs: at the end, at the line with the time, and at a
\* variable.
LEMMA LineAtParagraph ==
  ASSUME TypeInv, FileOK, alarmed => Excused, ParseLine, NEW g \in 0 .. Len(file), AtParagraph(g),
         g < Len(file) => g + 1 \notin touched
  PROVE  Goes
<1>1. /\ pc = "read" /\ Steady /\ UNCHANGED <<table, cursor, key, values>>
      /\ rest' = ReadLine.rest /\ line' = ReadLine.line
      /\ alarmed' = (alarmed \/ pc' = "failed")
  BY LineFacts
<1>2. file \in Seq(Paragraph) /\ Len(file) \in Nat /\ Buffered
  BY DEF TypeInv, DiskType, ParserType
<1>3. rest = After(file, g) /\ Done(g)
  BY DEF AtParagraph
<1>4. UNCHANGED file /\ Excused' = Excused
  BY <1>1, SteadyFacts DEF Steady
<1>5. CASE rest = <<>>
  <2>1. Done(Len(file))
    BY <1>3, <1>5, DoneAll
  <2>2. Done(Len(file))'
    <3>1. \A n : Done(n) => Done(n)'
      BY <1>1, DoneSame
    <3> QED
      BY <1>4, <2>1, <3>1
  <2>3. ReadLine.eof
    BY <1>2, <1>5, ReadLineType
  <2>4. pc' = "running"
    BY <2>3, LineFacts
  <2> QED
    BY <1>1, <2>2, <2>4 DEF Goes
<1>6. CASE rest # <<>>
  <2>1. g < Len(file)
    <3>1. g # Len(file)
      BY <1>2, <1>3, <1>6, AfterFacts
    <3> QED
      BY <1>2, <3>1
  <2>2. g + 1 \in 1 .. Len(file) /\ g + 1 \notin touched /\ g + 1 \in 0 .. Len(file)
    BY <1>2, <2>1
  <2> DEFINE v == After(file, g + 1)
  <2>3. v \in Text /\ rest = file[g + 1].text \o v
    BY <1>2, <1>3, <2>1, <2>2, AfterFacts
  <2>4. CASE g = 0
    <3> DEFINE c == <<"#">>  e == <<"\n">>  t == <<"#", "\n">>
    <3>1. file[1].text = t /\ g + 1 = 1
      BY <2>2, <2>4 DEF FileOK
    <3>2. Line(c, <<>>, t)
      <4>1. c \in Text /\ <<>> \in Text /\ t \in Text
        BY TokenFacts DEF Text
      <4>2. Len(t) = Len(c) + 1 + Len(<<>>) /\ t[Len(c) + 1] = "\n"
        OBVIOUS
      <4>3. \A i \in 1 .. Len(c) : t[i] = c[i] /\ c[i] # "\n"
        OBVIOUS
      <4>4. \A i \in 1 .. Len(<<>>) : t[Len(c) + 1 + i] = <<>>[i]
        OBVIOUS
      <4> QED
        BY <4>1, <4>2, <4>3, <4>4, LineIs
    <3>3. Len(c) + 1 < BufferSize
      BY BoundFacts
    <3>4. ReadLine = [ok |-> TRUE, eof |-> FALSE, line |-> c, cursor |-> cursor, rest |-> <<>> \o v]
      <4>1. rest = t \o v
        BY <2>3, <3>1
      <4> HIDE DEF c, t, v
      <4> QED
        BY <2>3, <3>2, <3>3, <4>1, ReadLineIs
    <3>5. ReadLine.ok /\ ~ReadLine.eof /\ ReadLine.line = c /\ ReadLine.rest = <<>> \o v
      BY <3>4
    <3>6. <<>> \o v = v
      <4> HIDE DEF v
      <4> QED
        BY <2>3, ConcatEmptySeq DEF Text
    <3>7. line' # <<>> /\ Head(line') = "#"
      BY <1>1, <3>5
    <3>8. pc' = "read"
      BY <3>5, <3>7, LineFacts
    <3>9. Done(1)
      <4>1. \A h \in 2 .. 1 : h \in 2 .. g
        OBVIOUS
      <4> QED
        BY <1>3, <4>1 DEF Done
    <3>10. Done(1)'
      BY <1>1, <3>9, DoneSame
    <3>11. AtParagraph(1)'
      BY <1>1, <1>4, <3>1, <3>5, <3>6, <3>8, <3>10 DEF AtParagraph
    <3>12. Parsing'
      BY <1>4, <2>2, <3>1, <3>11 DEF Parsing
    <3>13. alarmed' = alarmed
      BY <1>1, <3>8 DEF TypeInv
    <3> QED
      BY <3>8, <3>12, <3>13 DEF Goes
  <2>5. CASE g # 0
    <3> DEFINE h == g + 1
    <3>1. Pristine(h) /\ h - 1 = g
      BY <2>2, <2>5 DEF Pristine
    <3>2. /\ Owner(h) \in Tokens /\ Owner(h) \notin Special /\ Type(h) \in Types
          /\ Vals(h) \in Seq(ValuesOf(Type(h)))
          /\ file[h].text = WriteLines(Owner(h), Type(h), Vals(h))
      BY <3>1, PristineFacts
    <3> HIDE DEF h, v
    <3>3. PICK l, u : /\ Line(l, u, Unwritten(Type(h), Vals(h), 0))
                      /\ ReadLine.ok /\ ~ReadLine.eof
                      /\ ReadLine.line = <<Owner(h)>> \o (<<"=">> \o l) /\ ReadLine.rest = u \o v
      <4>1. rest = WriteLines(Owner(h), Type(h), Vals(h)) \o v
        BY <2>3, <3>2 DEF h
      <4> QED
        BY <2>3, <3>2, <4>1, WrittenLine
    <3>4. line' # <<>> /\ Head(line') = Owner(h)
      <4> DEFINE ql == <<"=">> \o l
      <4>1. ql \in Text
        BY <3>3, TokenFacts, OneBefore DEF Line
      <4> HIDE DEF ql
      <4>2. <<Owner(h)>> \o ql # <<>> /\ Head(<<Owner(h)>> \o ql) = Owner(h)
        BY <3>2, <4>1, OneBefore
      <4> QED
        BY <1>1, <3>3, <4>2 DEF ql
    <3>5. pc' = "assign"
      <4>1. Owner(h) \notin {"#", "\n"}
        BY <3>2 DEF Special
      <4> QED
        BY <3>3, <3>4, <4>1, LineFacts
    <3>6. Done(g)' /\ Pristine(h)' /\ Owner(h)' = Owner(h) /\ Type(h)' = Type(h) /\ Vals(h)' = Vals(h)
      BY <1>1, <1>3, <3>1, DoneSame, SteadyFacts
    <3>7. Start(h)'
      <4>1. rest' = u \o After(file, h)'
        BY <1>1, <1>4, <3>3 DEF v, h
      <4>2. line' = <<Owner(h)'>> \o (<<"=">> \o l)
        BY <1>1, <3>3, <3>6
      <4>3. Line(l, u, Unwritten(Type(h)', Vals(h)', 0))
        BY <3>3, <3>6
      <4>4. Done(h - 1)'
        BY <3>1, <3>6
      <4> QED
        BY <3>5, <3>6, <4>1, <4>2, <4>3, <4>4 DEF Start
    <3>8. Parsing'
      BY <1>4, <2>2, <3>7 DEF Parsing, h
    <3>9. alarmed' = alarmed
      BY <1>1, <3>5 DEF TypeInv
    <3> QED
      BY <3>5, <3>8, <3>9 DEF Goes
  <2> QED
    BY <2>4, <2>5
<1> QED
  BY <1>5, <1>6

-------------------------------------------------------------------------------
(* In a text that the editor has broken.                                  *)

\* A file with broken paragraphs may make the library complain.
LEMMA TouchedExcused ==
  ASSUME TypeInv, FileOK, touched # {}
  PROVE  Excused
<1>1. edits # 0 /\ edits \in Nat
  <2>1. edits \in 0 .. MaxEdits
    BY DEF TypeInv, DiskType
  <2>2. edits # 0
    BY DEF FileOK
  <2> QED
    BY <2>1, <2>2, BoundFacts
<1> QED
  BY <1>1 DEF Excused

\* How the parser stays in a broken text.
LEMMA LooseStays ==
  ASSUME Steady, NEW g \in 0 .. Len(file), touched # {}, Done(g)',
         pc' = "assign" => Range(line') \subseteq Broken,
         pc' = "value" => key' \in Broken,
         NEW w \in Text, rest' = w \o After(file, g), Range(w) \subseteq Broken,
         After(file, g) = <<>> \/ ~Spills(w),
         After(file, g) # <<>> /\ w = <<>> /\ pc' # "read" => "\\" \notin Range(line'),
         After(file, g) # <<>> /\ w = <<>> /\ pc' = "value" => "\\" \notin Range(cursor')
  PROVE  Parsing'
<1>1. UNCHANGED <<file, touched>> /\ Broken' = Broken
  BY SteadyFacts DEF Steady
<1>2. After(file, g)' = After(file, g)
  BY <1>1
<1>3. Loose(g)'
  BY <1>1, <1>2 DEF Loose
<1> QED
  BY <1>1, <1>3 DEF Parsing

\* Where the parser is in a broken text.
LEMMA LooseFacts ==
  ASSUME TypeInv, NEW g \in 0 .. Len(file), Loose(g)
  PROVE  /\ After(file, g) \in Text /\ touched # {} /\ Done(g) /\ g \in Nat
         /\ \E u \in Text :
              /\ rest = u \o After(file, g) /\ Range(u) \subseteq Broken
              /\ After(file, g) = <<>> \/ ~Spills(u)
              /\ After(file, g) # <<>> /\ u = <<>> =>
                   /\ pc # "read" => "\\" \notin Range(line)
                   /\ pc = "value" => "\\" \notin Range(cursor)
         /\ pc = "assign" => Range(line) \subseteq Broken
         /\ pc = "value" => key \in Broken
<1>1. After(file, g) \in Text
  BY AfterFacts DEF TypeInv, DiskType
<1>2. g \in Nat
  OBVIOUS
<1>3. touched # {} /\ Done(g) /\ (pc = "assign" => Range(line) \subseteq Broken)
      /\ (pc = "value" => key \in Broken)
  BY DEF Loose
<1>4. \E u \in Text :
        /\ rest = u \o After(file, g) /\ Range(u) \subseteq Broken
        /\ After(file, g) = <<>> \/ ~Spills(u)
        /\ After(file, g) # <<>> /\ u = <<>> =>
             /\ pc # "read" => "\\" \notin Range(line)
             /\ pc = "value" => "\\" \notin Range(cursor)
  BY DEF Loose
<1> QED
  BY <1>1, <1>2, <1>3, <1>4

\* A line of a broken text is read: another one of it, or the next paragraph is reached.
LEMMA LineInLoose ==
  ASSUME TypeInv, FileOK, ParseLine, NEW g \in 0 .. Len(file), Loose(g), ~AtParagraph(g)
  PROVE  Goes
<1> DEFINE v == After(file, g)
<1>1. /\ pc = "read" /\ Steady /\ UNCHANGED <<table, cursor, key, values>>
      /\ rest' = ReadLine.rest /\ line' = ReadLine.line
      /\ alarmed' = (alarmed \/ pc' = "failed")
  BY LineFacts
<1>2. v \in Text /\ touched # {} /\ Done(g) /\ g \in Nat
  BY LooseFacts
<1>3. PICK u \in Text : rest = u \o v /\ Range(u) \subseteq Broken /\ (v = <<>> \/ ~Spills(u))
  BY LooseFacts
<1>4. u # <<>>
  <2> SUFFICES ASSUME u = <<>> PROVE FALSE
    OBVIOUS
  <2> HIDE DEF v
  <2>1. rest = v
    BY <1>2, <1>3, ConcatEmptySeq DEF Text
  <2> QED
    BY <1>1, <1>2, <2>1 DEF AtParagraph, v
<1>5. rest # <<>> /\ Buffered
  <2> HIDE DEF v
  <2>1. Len(rest) = Len(u) + Len(v) /\ Len(u) \in Nat /\ Len(v) \in Nat /\ Len(u) # 0
    <3>1. Len(u \o v) = Len(u) + Len(v)
      BY <1>2, TwoParts
    <3> QED
      BY <1>2, <1>3, <1>4, <3>1 DEF Text
  <2>2. Len(<<>>) = 0
    OBVIOUS
  <2>3. rest # <<>>
    BY <2>1, <2>2
  <2> QED
    BY <2>3 DEF TypeInv, ParserType
<1> HIDE DEF v
<1>6. PICK w \in Text :
        /\ ReadLine.rest = w \o v
        /\ Range(w) \subseteq Range(u) /\ Range(ReadLine.line) \subseteq Range(u)
        /\ ~Spills(u) => ~Spills(w) /\ (w = <<>> => "\\" \notin Range(ReadLine.line))
  BY <1>2, <1>3, <1>4, ReadLoose
<1>7. ~ReadLine.eof
  BY <1>5, ReadLineType
<1>8. Excused
  BY <1>2, TouchedExcused
<1>9. CASE pc' = "failed"
  BY <1>1, <1>2, <1>8, <1>9, ErrorGoes
<1>10. CASE pc' \in {"read", "assign"}
  <2>1. Done(g)'
    BY <1>1, <1>2, DoneSame
  <2>2. rest' = w \o v /\ Range(w) \subseteq Broken /\ Range(line') \subseteq Broken
    BY <1>1, <1>3, <1>6
  <2>3. v = <<>> \/ ~Spills(w)
    BY <1>3, <1>6
  <2>4. v # <<>> /\ w = <<>> => "\\" \notin Range(line')
    BY <1>1, <1>3, <1>6
  <2>5. pc' # "value"
    BY <1>10
  <2>6. Parsing'
    BY <1>1, <1>2, <2>1, <2>2, <2>3, <2>4, <2>5, LooseStays DEF v
  <2> QED
    BY <1>8, <1>10, <2>6 DEF Goes
<1>11. pc' \in {"failed", "read", "assign"}
  BY <1>7, LineFacts
<1> QED
  BY <1>9, <1>10, <1>11

\* A broken line can assign only to a variable that is named in the broken text.
LEMMA AssignmentInLoose ==
  ASSUME TypeInv, FileOK, ParseAssignment, NEW g \in 0 .. Len(file), Loose(g)
  PROVE  Goes
<1> DEFINE v == After(file, g)  equal == IndexOf(line, "=")  name == SubSeq(line, 1, equal - 1)
<1>1. /\ pc = "assign" /\ equal \in 0 .. Len(line)
      /\ line' = IF equal = 0 THEN line ELSE name
      /\ Steady /\ UNCHANGED <<table, rest>>
      /\ \/ pc' = "flush" /\ alarmed' = TRUE
         \/ /\ equal > 0 /\ key' \in DOMAIN declared /\ name = <<key'>>
            /\ cursor' = SubSeq(line, equal + 1, Len(line)) /\ pc' = "value"
  BY AssignmentFacts DEF Steady
<1>2. v \in Text /\ touched # {} /\ Done(g) /\ Range(line) \subseteq Broken
  BY <1>1, LooseFacts
<1>3. PICK u \in Text : /\ rest = u \o v /\ Range(u) \subseteq Broken /\ (v = <<>> \/ ~Spills(u))
                        /\ v # <<>> /\ u = <<>> => "\\" \notin Range(line)
  BY <1>1, LooseFacts
<1>4. line \in Text /\ Len(line) \in Nat
  BY DEF TypeInv, ParserType, Buffered, Text
<1> HIDE DEF v, equal
<1>5. Range(line') \subseteq Range(line)
  <2>1. CASE equal = 0
    BY <1>1, <2>1
  <2>2. CASE equal # 0
    <3>1. equal - 1 \in Nat /\ equal - 1 <= Len(line) /\ 1 \in Nat \ {0}
      BY <1>1, <1>4, <2>2
    <3>2. Within(name, line)
      BY <1>4, <3>1, SubSeqWithin
    <3> QED
      BY <1>1, <2>2, <3>2 DEF Within
  <2> QED
    BY <2>1, <2>2
<1>6. Done(g)'
  BY <1>1, <1>2, DoneSame
<1>7. Excused
  BY <1>2, TouchedExcused
<1>8. CASE pc' = "flush" /\ alarmed' = TRUE
  <2>1. pc' # "assign" /\ pc' # "value"
    BY <1>8
  <2>2. v # <<>> /\ u = <<>> => "\\" \notin Range(line')
    BY <1>3, <1>5
  <2>3. rest' = u \o v
    BY <1>1, <1>3
  <2>4. Parsing'
    BY <1>1, <1>2, <1>3, <1>6, <2>1, <2>2, <2>3, LooseStays DEF v
  <2> QED
    BY <1>7, <1>8, <2>4 DEF Goes
<1>9. CASE /\ equal > 0 /\ key' \in DOMAIN declared /\ name = <<key'>>
           /\ cursor' = SubSeq(line, equal + 1, Len(line)) /\ pc' = "value"
  <2>1. Within(cursor', line)
    <3>1. equal + 1 \in Nat \ {0} /\ Len(line) <= Len(line)
      BY <1>1, <1>4
    <3> QED
      BY <1>4, <1>9, <3>1, SubSeqWithin
  <2>2. key' \in Broken
    <3>1. name[1] = key' /\ Len(name) = 1
      <4>1. name = <<key'>>
        BY <1>9
      <4> HIDE DEF name
      <4> QED
        BY <4>1
    <3>2. name = line' /\ line' \in Text
      <4>1. line' = name
        BY <1>1, <1>9
      <4>2. equal - 1 \in 0 .. Len(line)
        BY <1>1, <1>4, <1>9
      <4> QED
        BY <1>4, <4>1, <4>2, Split
    <3> HIDE DEF name
    <3>3. name[1] \in Range(name)
      BY <3>1, <3>2, InRange
    <3> QED
      BY <1>2, <1>5, <3>1, <3>2, <3>3
  <2>3. v # <<>> /\ u = <<>> => "\\" \notin Range(line') /\ "\\" \notin Range(cursor')
    BY <1>3, <1>5, <2>1 DEF Within
  <2>4. rest' = u \o v /\ pc' = "value"
    BY <1>1, <1>3, <1>9
  <2>5. Parsing'
    BY <1>1, <1>2, <1>3, <1>6, <2>2, <2>3, <2>4, LooseStays DEF v
  <2> QED
    BY <1>7, <2>4, <2>5 DEF Goes
<1> QED
  BY <1>1, <1>8, <1>9

\* A value of a broken text goes to such a variable, however many lines are continued.
LEMMA ElementInLoose ==
  ASSUME TypeInv, FileOK, ParseElement, NEW g \in 0 .. Len(file), Loose(g)
  PROVE  Goes
<1> DEFINE v == After(file, g)  filled == FillLineBuffer
<1>1. /\ pc = "value" /\ cursor # <<>> /\ key \in DOMAIN declared
      /\ line' = filled.line /\ rest' = filled.rest
      /\ Steady /\ UNCHANGED key
  BY ElementFacts DEF Steady
<1>2. v \in Text /\ touched # {} /\ Done(g) /\ key \in Broken
  BY <1>1, LooseFacts
<1>3. PICK u \in Text : /\ rest = u \o v /\ Range(u) \subseteq Broken /\ (v = <<>> \/ ~Spills(u))
                        /\ v # <<>> /\ u = <<>> => "\\" \notin Range(line) /\ "\\" \notin Range(cursor)
  BY <1>1, LooseFacts
<1>4. Buffered /\ declared[key].type \in Types /\ DOMAIN table = DOMAIN declared
  BY <1>1, DeclarationFacts DEF TypeInv, ParserType, TableType
<1> HIDE DEF v
<1>5. PICK w \in Text :
        /\ filled.rest = w \o v /\ Range(w) \subseteq Range(u)
        /\ v = <<>> \/ ~Spills(w)
        /\ v # <<>> /\ w = <<>> => "\\" \notin Range(filled.line) /\ "\\" \notin Range(filled.cursor)
  BY <1>1, <1>2, <1>3, <1>4, FillLoose
<1>6. filled.cursor \in Text
  BY <1>4, FillType
<1>7. Excused
  BY <1>2, TouchedExcused
<1>8. key \notin Claimed
  BY <1>2 DEF Claimed
<1>9. Range(w) \subseteq Broken /\ rest' = w \o v
  BY <1>1, <1>3, <1>5
<1>10. CASE \E r \in {ReadValue(declared[key].type, filled.cursor)} :
              /\ r.ok /\ values' = Append(values, r.value) /\ cursor' = r.rest
              /\ UNCHANGED <<table, pc, alarmed>>
  <2>1. PICK r \in {ReadValue(declared[key].type, filled.cursor)} : r.ok /\ cursor' = r.rest
    BY <1>10
  <2>2. UNCHANGED <<table, pc, alarmed>>
    BY <1>10
  <2>3. Within(r.rest, filled.cursor)
    BY <1>4, <1>6, <2>1, ReadValueWithin
  <2>4. v # <<>> /\ w = <<>> => "\\" \notin Range(cursor')
    BY <1>5, <2>1, <2>3 DEF Within
  <2>5. v # <<>> /\ w = <<>> => "\\" \notin Range(line')
    BY <1>1, <1>5
  <2>6. Done(g)'
    BY <1>1, <1>2, <2>2, DoneSame
  <2>7. pc' = "value" /\ key' \in Broken
    BY <1>1, <1>2, <2>2
  <2>8. Parsing'
    BY <1>1, <1>2, <1>5, <1>9, <2>4, <2>5, <2>6, <2>7, LooseStays DEF v
  <2> QED
    BY <1>7, <2>7, <2>8 DEF Goes
<1>11. CASE table' = [table EXCEPT ![key] = <<>>] /\ pc' = "flush" /\ alarmed' = TRUE
  <2>1. \A k \in Claimed : table'[k] = table[k]
    BY <1>4, <1>8, <1>11 DEF Claimed
  <2>2. Done(g)'
    BY <1>1, <1>2, <2>1, DoneSame
  <2>3. v # <<>> /\ w = <<>> => "\\" \notin Range(line')
    BY <1>1, <1>5
  <2>4. pc' # "assign" /\ pc' # "value"
    BY <1>11
  <2>5. Parsing'
    BY <1>1, <1>2, <1>5, <1>9, <2>2, <2>3, <2>4, LooseStays DEF v
  <2> QED
    BY <1>7, <1>11, <2>5 DEF Goes
<1> QED
  BY <1>10, <1>11, ElementFacts

\* What parse_value() does after the last value.
LEMMA EndFacts ==
  ASSUME ParseValueEnd
  PROVE  /\ pc = "value" /\ (cursor = <<>> \/ ~(Len(values) < declared[key].max))
         /\ table' = [table EXCEPT ![key] = values]
         /\ pc' = IF cursor = <<>> THEN "read" ELSE "flush"
         /\ alarmed' = (alarmed \/ cursor # <<>>)
         /\ Steady /\ UNCHANGED <<check, rest, line, cursor, key, values>>
BY DEF ParseValueEnd, More, disk, parser, Steady

\* The values of a broken text go to a variable that is named in it.
LEMMA EndInLoose ==
  ASSUME TypeInv, FileOK, ParseValueEnd, NEW g \in 0 .. Len(file), Loose(g)
  PROVE  Goes
<1> DEFINE v == After(file, g)
<1>1. /\ pc = "value" /\ table' = [table EXCEPT ![key] = values]
      /\ pc' = IF cursor = <<>> THEN "read" ELSE "flush"
      /\ alarmed' = (alarmed \/ cursor # <<>>)
      /\ Steady /\ UNCHANGED <<rest, line, cursor, key>>
  BY EndFacts
<1>2. v \in Text /\ touched # {} /\ Done(g) /\ key \in Broken
  BY <1>1, LooseFacts
<1>3. PICK u \in Text : /\ rest = u \o v /\ Range(u) \subseteq Broken /\ (v = <<>> \/ ~Spills(u))
                        /\ v # <<>> /\ u = <<>> => "\\" \notin Range(line)
  BY <1>1, LooseFacts
<1> HIDE DEF v
<1>4. DOMAIN table = DOMAIN declared
  BY DEF TypeInv, TableType
<1>5. \A k \in Claimed : table'[k] = table[k]
  BY <1>1, <1>2, <1>4 DEF Claimed
<1>6. Done(g)'
  BY <1>1, <1>2, <1>5, DoneSame
<1>7. Excused
  BY <1>2, TouchedExcused
<1>8. pc' \in {"read", "flush"} /\ pc' # "assign" /\ pc' # "value" /\ (pc' = "flush" => alarmed')
  BY <1>1
<1>9. rest' = u \o v /\ line' = line
  BY <1>1, <1>3
<1>10. Parsing'
  BY <1>1, <1>2, <1>3, <1>6, <1>8, <1>9, LooseStays DEF v
<1> QED
  BY <1>7, <1>8, <1>10 DEF Goes

\* What flush_continuation() does.
LEMMA FlushFacts ==
  ASSUME FlushContinuation
  PROVE  /\ pc = "flush" /\ Steady /\ UNCHANGED <<table, check, cursor, key, values, alarmed>>
         /\ IF line # <<>> /\ Last(line) = "\\"
            THEN /\ line' = ReadLine.line /\ rest' = ReadLine.rest
                 /\ IF ReadLine.ok THEN pc' = "flush" ELSE pc' \in {"read", "failed"}
            ELSE pc' \in {"read", "failed"} /\ UNCHANGED <<line, rest>>
BY DEF FlushContinuation, Continued, Reported, disk, Steady

\* A flush of a broken text ends before the next paragraph that nobody has changed.
LEMMA FlushInLoose ==
  ASSUME TypeInv, FileOK, alarmed, FlushContinuation, NEW g \in 0 .. Len(file), Loose(g)
  PROVE  Goes
<1> DEFINE v == After(file, g)
<1>1. /\ pc = "flush" /\ Steady /\ UNCHANGED <<table, cursor, key, values, alarmed>>
      /\ pc' \in {"flush", "read", "failed"}
  BY FlushFacts
<1>2. v \in Text /\ touched # {} /\ Done(g) /\ g \in Nat
  BY LooseFacts
<1>3. PICK u \in Text : /\ rest = u \o v /\ Range(u) \subseteq Broken /\ (v = <<>> \/ ~Spills(u))
                        /\ v # <<>> /\ u = <<>> => "\\" \notin Range(line)
  BY <1>1, LooseFacts
<1> HIDE DEF v
<1>4. Done(g)'
  BY <1>1, <1>2, DoneSame
<1>5. Excused
  BY <1>2, TouchedExcused
<1>6. alarmed' = TRUE
  BY <1>1 DEF TypeInv
<1>7. Buffered
  BY DEF TypeInv, ParserType
<1>8. CASE pc' = "failed"
  BY <1>1, <1>2, <1>5, <1>6, <1>8, ErrorGoes
<1>9. CASE pc' # "failed"
  <2>1. pc' \in {"flush", "read"} /\ pc' # "assign" /\ pc' # "value"
    BY <1>1, <1>9
  <2>2. \E w \in Text : /\ rest' = w \o v /\ Range(w) \subseteq Broken /\ (v = <<>> \/ ~Spills(w))
                        /\ v # <<>> /\ w = <<>> => "\\" \notin Range(line')
    <3>1. CASE UNCHANGED <<line, rest>>
      BY <1>3, <3>1
    <3>2. CASE /\ line # <<>> /\ Last(line) = "\\"
               /\ line' = ReadLine.line /\ rest' = ReadLine.rest
      <4>1. CASE rest = <<>>
        <5>1. UNCHANGED <<line, rest>>
          BY <1>7, <3>2, <4>1, ReadLineType
        <5> QED
          BY <3>1, <5>1
      <4>2. CASE rest # <<>>
        <5>1. "\\" \in Range(line)
          <6>1. Len(line) \in 1 .. Len(line) /\ line \in Text
            BY <1>7, <3>2 DEF Buffered, Text
          <6>2. line[Len(line)] \in Range(line)
            BY <6>1, InRange
          <6> QED
            BY <3>2, <6>2 DEF Last
        <5>2. u # <<>>
          <6> SUFFICES ASSUME u = <<>> PROVE FALSE
            OBVIOUS
          <6>1. v = <<>>
            BY <1>3, <5>1
          <6>2. <<>> \o v = v
            BY <1>2, ConcatEmptySeq DEF Text
          <6> QED
            BY <1>3, <4>2, <6>1, <6>2
        <5>3. PICK w \in Text :
                /\ ReadLine.rest = w \o v
                /\ Range(w) \subseteq Range(u) /\ Range(ReadLine.line) \subseteq Range(u)
                /\ ~Spills(u) => ~Spills(w) /\ (w = <<>> => "\\" \notin Range(ReadLine.line))
          BY <1>2, <1>3, <5>2, ReadLoose
        <5>4. v # <<>> /\ w = <<>> => "\\" \notin Range(line')
          BY <1>3, <3>2, <5>3
        <5>5. Range(w) \subseteq Broken /\ (v = <<>> \/ ~Spills(w)) /\ rest' = w \o v
          BY <1>3, <3>2, <5>3
        <5> QED
          BY <5>4, <5>5
      <4> QED
        BY <4>1, <4>2
    <3> QED
      BY <3>1, <3>2, FlushFacts
  <2>3. PICK w \in Text : /\ rest' = w \o v /\ Range(w) \subseteq Broken /\ (v = <<>> \/ ~Spills(w))
                          /\ v # <<>> /\ w = <<>> => "\\" \notin Range(line')
    BY <2>2
  <2>4. Parsing'
    BY <1>1, <1>2, <1>4, <2>1, <2>3, LooseStays DEF v
  <2> QED
    BY <1>5, <1>6, <2>1, <2>4 DEF Goes
<1> QED
  BY <1>8, <1>9

-------------------------------------------------------------------------------
(* In a paragraph that nobody has changed.                                *)

\* The line of a variable is cut after its name.
LEMMA AssignmentLine ==
  ASSUME NEW k \in Tokens, k \notin Special, NEW l \in Text, NEW s, s = <<k>> \o (<<"=">> \o l)
  PROVE  /\ IndexOf(s, "=") = 2 /\ SubSeq(s, 1, 2 - 1) = <<k>> /\ SubSeq(s, 2 + 1, Len(s)) = l
         /\ s \in Text
<1> DEFINE K == <<k>>  q == <<"=">>  kq == K \o q  ql == q \o l
<1>1. K \in Text /\ q \in Text /\ Len(K) = 1 /\ Len(q) = 1 /\ K[1] = k /\ q[1] = "="
  BY TokenFacts, OneElement DEF Text
<1> HIDE DEF K, q
<1>2. ql \in Text
  BY <1>1, TextConcat
<1>3. kq \in Text /\ Len(kq) = 2 /\ kq[1] = k /\ kq[2] = "="
  <2>1. /\ K \o q \in Text /\ Len(K \o q) = Len(K) + Len(q)
        /\ \A i \in 1 .. Len(K) : (K \o q)[i] = K[i]
        /\ \A i \in 1 .. Len(q) : (K \o q)[Len(K) + i] = q[i]
    BY <1>1, TwoParts
  <2>2. (K \o q)[1] = k
    BY <1>1, <2>1
  <2>3. (K \o q)[1 + 1] = "="
    <3>1. 1 \in 1 .. Len(q)
      BY <1>1
    <3> QED
      BY <1>1, <2>1, <3>1
  <2> QED
    BY <1>1, <2>1, <2>2, <2>3
<1>4. s = kq \o l /\ s = K \o ql
  <2>1. (K \o q) \o l = K \o (q \o l)
    BY <1>1, TextAssociative
  <2> QED
    BY <2>1 DEF K, q
<1> HIDE DEF kq, ql
<1>5. SubSeq(s, 1, 1) = K
  <2>1. SubSeq(K \o ql, 1, Len(K)) = K
    BY <1>1, <1>2, TwoParts
  <2> QED
    BY <1>1, <1>4, <2>1
<1>6. SubSeq(s, 3, Len(s)) = l /\ s \in Text /\ Len(s) = 2 + Len(l) /\ s[1] = k /\ s[2] = "="
  <2>1. SubSeq(kq \o l, Len(kq) + 1, Len(kq \o l)) = l
    BY <1>3, TwoParts
  <2>2. /\ kq \o l \in Text /\ Len(kq \o l) = Len(kq) + Len(l)
        /\ \A i \in 1 .. Len(kq) : (kq \o l)[i] = kq[i]
    BY <1>3, TwoParts
  <2>3. Len(kq) + 1 = 3
    BY <1>3
  <2>4. SubSeq(s, 3, Len(s)) = l
    BY <1>4, <2>1, <2>3
  <2>5. 1 \in 1 .. Len(kq) /\ 2 \in 1 .. Len(kq)
    BY <1>3
  <2>6. s[1] = k /\ s[2] = "="
    BY <1>3, <1>4, <2>2, <2>5
  <2> QED
    BY <1>3, <1>4, <2>2, <2>4, <2>6
<1>7. IndexOf(s, "=") = 2
  <2>1. /\ IndexOf(s, "=") \in 0 .. Len(s)
        /\ IndexOf(s, "=") # 0 => s[IndexOf(s, "=")] = "="
        /\ \A i \in 1 .. Len(s) : s[i] = "=" => IndexOf(s, "=") # 0 /\ IndexOf(s, "=") <= i
    BY <1>6, IndexOfFacts
  <2>2. 2 \in 1 .. Len(s)
    BY <1>6 DEF Text
  <2>3. IndexOf(s, "=") # 0 /\ IndexOf(s, "=") <= 2
    BY <1>6, <2>1, <2>2
  <2>4. k # "="
    BY DEF Special
  <2>5. IndexOf(s, "=") # 1
    BY <1>6, <2>1, <2>4
  <2> QED
    BY <2>1, <2>3, <2>5
<1> QED
  BY <1>5, <1>6, <1>7 DEF K

\* The variable of the paragraph is the only one whose state matters there.
LEMMA DoneHere ==
  ASSUME TypeInv, FileOK, Steady, NEW g, Pristine(g), Done(g - 1),
         Owner(g) \in Claimed => table'[Owner(g)] = Expected(Owner(g)),
         \A k \in Claimed : k # Owner(g) => table'[k] = table[k]
  PROVE  Done(g)'
BY PristineFacts, DoneMore

\* The line of a variable names it; if that is no longer known the line is flushed.
LEMMA AssignmentAtStart ==
  ASSUME TypeInv, FileOK, alarmed => Excused, ParseAssignment, NEW g, Start(g)
  PROVE  Goes
<1> DEFINE v == After(file, g)  k == Owner(g)  equal == IndexOf(line, "=")
           name == SubSeq(line, 1, equal - 1)  U == Unwritten(Type(g), Vals(g), 0)
<1>1. /\ pc = "assign" /\ Steady /\ UNCHANGED <<table, rest>>
      /\ line' = IF equal = 0 THEN line ELSE name
      /\ \/ /\ pc' = "flush" /\ alarmed' = TRUE
            /\ ~\E x \in DOMAIN declared : equal > 0 /\ name = <<x>>
         \/ /\ equal > 0 /\ key' \in DOMAIN declared /\ name = <<key'>>
            /\ cursor' = SubSeq(line, equal + 1, Len(line)) /\ values' = <<>>
            /\ pc' = "value" /\ UNCHANGED alarmed
  BY AssignmentFacts DEF Steady
<1>2. Pristine(g) /\ Done(g - 1)
  BY DEF Start
<1>3. PICK l, u : /\ Line(l, u, U) /\ rest = u \o v /\ line = <<k>> \o (<<"=">> \o l)
  BY DEF Start
<1>4. /\ k \in DOMAIN saved.declared /\ k \in Tokens /\ k \notin Special /\ g \in 0 .. Len(file)
      /\ Type(g) \in Types /\ Vals(g) \in Seq(ValuesOf(Type(g))) /\ Vals(g) # <<>>
      /\ Vals(g) = saved.table[k]
  BY <1>2, PristineFacts
<1>5. l \in Text /\ u \in Text
  BY <1>3 DEF Line
<1>6. equal = 2 /\ name = <<k>> /\ SubSeq(line, equal + 1, Len(line)) = l
  <2>1. IndexOf(line, "=") = 2 /\ SubSeq(line, 1, 2 - 1) = <<k>> /\ SubSeq(line, 2 + 1, Len(line)) = l
    BY <1>3, <1>4, <1>5, AssignmentLine
  <2> QED
    BY <2>1
<1> HIDE DEF equal, name
<1>7. line' = <<k>>
  BY <1>1, <1>6
<1>8. Fine(line', u)
  <2> DEFINE K == <<k>>
  <2>1. Len(K) = 1 /\ K[1] = k /\ k # "\\"
    BY <1>4 DEF Special
  <2> HIDE DEF K
  <2>2. Fine(K, u)
    BY <2>1 DEF Fine
  <2> QED
    BY <1>7, <2>2 DEF K
<1>9. /\ Pristine(g)' /\ k' = k /\ Type(g)' = Type(g) /\ Vals(g)' = Vals(g)
      /\ v' = v /\ Excused' = Excused /\ file' = file
  BY <1>1, <1>2, SteadyFacts DEF Steady
<1>10. Follows(Type(g), Vals(g), u)
  <2>1. 0 \in 0 .. Len(Vals(g))
    BY <1>4
  <2> QED
    BY <1>3, <1>4, <2>1, LineOf
<1> HIDE DEF v, k
<1>11. CASE /\ pc' = "flush" /\ alarmed' = TRUE
            /\ ~\E x \in DOMAIN declared : equal > 0 /\ name = <<x>>
  <2>1. k \notin DOMAIN declared
    BY <1>6, <1>11
  <2>2. Done(g)'
    <3>1. k \notin Claimed
      BY <2>1 DEF Claimed
    <3> QED
      BY <1>1, <1>2, <3>1, DoneHere DEF k
  <2>3. Excused
    BY <1>4, <2>1 DEF Excused
  <2>4. Garbage(g)'
    <3>1. rest' = u \o v'
      BY <1>1, <1>3, <1>9
    <3>2. Follows(Type(g)', Vals(g)', u)
      BY <1>9, <1>10
    <3>3. pc' = "flush" /\ alarmed'
      BY <1>11
    <3> QED
      BY <1>5, <1>8, <1>9, <2>2, <3>1, <3>2, <3>3 DEF Garbage, v
  <2>5. Parsing'
    BY <1>4, <1>9, <2>4 DEF Parsing
  <2> QED
    BY <1>11, <2>3, <2>5 DEF Goes
<1>12. CASE /\ equal > 0 /\ key' \in DOMAIN declared /\ name = <<key'>>
            /\ cursor' = SubSeq(line, equal + 1, Len(line)) /\ values' = <<>>
            /\ pc' = "value" /\ UNCHANGED alarmed
  <2>1. key' = k
    <3>1. <<key'>> = <<k>>
      BY <1>6, <1>12
    <3> QED
      BY <3>1
  <2>2. cursor' = l /\ Len(values') = 0
    BY <1>6, <1>12
  <2>3. Done(g - 1)'
    BY <1>1, <1>2, DoneSame
  <2>4. Value(g)'
    <3>1. Len(values') <= Len(Vals(g)') /\ \A i \in 1 .. Len(values') : FALSE
      BY <1>4, <1>9, <2>2
    <3>2. Line(cursor', u, Unwritten(Type(g)', Vals(g)', Len(values')))
      BY <1>3, <1>9, <2>2
    <3>3. rest' = u \o v'
      BY <1>1, <1>3, <1>9
    <3>4. pc' = "value" /\ key' = Owner(g)'
      BY <1>9, <1>12, <2>1 DEF k
    <3> QED
      BY <1>8, <1>9, <2>3, <3>1, <3>2, <3>3, <3>4 DEF Value, v
  <2>5. Parsing'
    BY <1>4, <1>9, <2>4 DEF Parsing
  <2>6. alarmed' => Excused
    BY <1>12
  <2> QED
    BY <1>12, <2>5, <2>6 DEF Goes
<1> QED
  BY <1>1, <1>11, <1>12

\* The text is at its end when no values are left, and only then.
LEMMA NothingLeft ==
  ASSUME NEW type \in Types, NEW vals \in Seq(ValuesOf(type)), NEW i \in 0 .. Len(vals),
         NEW l, NEW u, Line(l, u, Unwritten(type, vals, i))
  PROVE  /\ i = Len(vals) => l = <<>> /\ u = <<>>
         /\ l = <<>> => i = Len(vals)
<1>0. Len(vals) \in Nat
  OBVIOUS
<1>1. i = Len(vals) => l = <<>> /\ u = <<>>
  <2>1. i = Len(vals) => Unwritten(type, vals, i) = <<"\n">>
    BY UnwrittenStep
  <2> QED
    BY <2>1, LineEnds, LineUnique
<1>2. ASSUME l = <<>>, i # Len(vals) PROVE FALSE
  <2> DEFINE U == Unwritten(type, vals, i)  W == WriteValue(type, vals[i + 1])
             V == Unwritten(type, vals, i + 1)  WV == W \o V
  <2>1. i \in 0 .. Len(vals) - 1 /\ i + 1 \in 0 .. Len(vals) /\ i + 1 \in 1 .. Len(vals)
    BY <1>0, <1>2
  <2>2. Line(<<>>, u, U)
    BY <1>2
  <2>3. U[1] = "\n" /\ U \in Text
    <3> HIDE DEF U
    <3>1. U \in Text /\ U[Len(<<>>) + 1] = "\n"
      BY <2>2, LineTokens
    <3> QED
      BY <3>1
  <2>4. CASE LineLength(type, vals)[i] > WrapLength
    <3>1. Line(<<Space, "\\">>, Continuation(type, vals, i + 1), U)
      BY <2>1, <2>4, Wraps
    <3> HIDE DEF U
    <3>2. <<>> = <<Space, "\\">>
      BY <2>2, <3>1, LineUnique
    <3> QED
      BY <3>2
  <2>5. CASE ~(LineLength(type, vals)[i] > WrapLength)
    <3>1. U = Between(i) \o WV
      BY <2>1, <2>5, Stays
    <3>2. vals[i + 1] \in ValuesOf(type) /\ W \in Text /\ V \in Text
      BY <2>1, PieceFacts, UnwrittenStep
    <3>3. Plain(W) /\ Len(W) >= 1
      BY <3>2, WriteValueFacts
    <3> HIDE DEF U, W, V
    <3>4. WV \in Text /\ WV[1] = W[1]
      BY <3>2, <3>3, TwoParts
    <3>5. W[1] # "\n"
      <4>1. 1 \in 1 .. Len(W) /\ DOMAIN W = 1 .. Len(W)
        BY <3>2, <3>3 DEF Text
      <4> QED
        BY <3>3, <4>1 DEF Plain, NoNewline
    <3> HIDE DEF WV
    <3>6. CASE i = 0
      <4>1. U = <<>> \o WV
        BY <3>1, <3>6 DEF Between
      <4>2. <<>> \o WV = WV
        BY <3>4, ConcatEmptySeq DEF Text
      <4> QED
        BY <2>3, <3>4, <3>5, <4>1, <4>2
    <3>7. CASE i # 0
      <4>1. U = <<Space>> \o WV
        BY <3>1, <3>7 DEF Between
      <4>2. (<<Space>> \o WV)[1] = Space
        BY <3>4, TokenFacts, OneBefore
      <4> QED
        BY <2>3, <4>1, <4>2, QuoteFacts
    <3> QED
      BY <3>6, <3>7
  <2> QED
    BY <2>4, <2>5
<1> QED
  BY <1>1, <1>2

\* Where the parser is among the values of a variable.
LEMMA ValueFacts ==
  ASSUME TypeInv, FileOK, NEW g, Value(g)
  PROVE  /\ key = Owner(g) /\ key \in DOMAIN declared /\ g \in 0 .. Len(file)
         /\ declared[key].type \in Types /\ declared[key].max \in Nat
         /\ values \in Seq(ValuesOf(declared[key].type)) /\ Len(values) <= declared[key].max
         /\ Len(values) \in 0 .. Len(Vals(g)) /\ Len(Vals(g)) \in Nat
         /\ Type(g) \in Types /\ Vals(g) \in Seq(ValuesOf(Type(g))) /\ Vals(g) # <<>>
         /\ Vals(g) = saved.table[key] /\ Type(g) = saved.declared[key].type
         /\ key \in DOMAIN saved.declared /\ After(file, g) \in Text
         /\ Pristine(g) /\ Done(g - 1) /\ Buffered /\ DOMAIN table = DOMAIN declared
<1>1. pc = "value" /\ Pristine(g) /\ Done(g - 1) /\ key = Owner(g) /\ Len(values) <= Len(Vals(g))
  BY DEF Value
<1>2. /\ key \in DOMAIN declared /\ values \in Seq(ValuesOf(declared[key].type))
      /\ Len(values) <= declared[key].max /\ Buffered /\ DOMAIN table = DOMAIN declared
      /\ declared \in Declarations \union {First}
  BY <1>1 DEF TypeInv, ParserType, TableType
<1>3. declared[key].type \in Types /\ declared[key].max \in Nat
  BY <1>2, DeclarationFacts
<1>4. /\ g \in 0 .. Len(file) /\ Type(g) \in Types /\ Vals(g) \in Seq(ValuesOf(Type(g)))
      /\ Vals(g) # <<>> /\ Vals(g) = saved.table[key] /\ Type(g) = saved.declared[key].type
      /\ key \in DOMAIN saved.declared /\ After(file, g) \in Text
  BY <1>1, PristineFacts
<1>5. Len(values) \in 0 .. Len(Vals(g)) /\ Len(Vals(g)) \in Nat
  BY <1>1, <1>2, <1>4
<1> QED
  BY <1>1, <1>2, <1>3, <1>4, <1>5

\* The next value comes back, or that variable no longer fits and is unset.
LEMMA ElementAtValue ==
  ASSUME TypeInv, FileOK, alarmed => Excused, ParseElement, NEW g, Value(g)
  PROVE  Goes
<1> DEFINE v == After(file, g)  filled == FillLineBuffer  type == Type(g)  vals == Vals(g)
           i == Len(values)  t == declared[key].type
<1>1. /\ pc = "value" /\ cursor # <<>>
      /\ line' = filled.line /\ rest' = filled.rest
      /\ Steady /\ UNCHANGED key
  BY ElementFacts DEF Steady
<1>2. /\ key = Owner(g) /\ key \in DOMAIN declared /\ g \in 0 .. Len(file)
      /\ t \in Types /\ values \in Seq(ValuesOf(t))
      /\ i \in 0 .. Len(vals) /\ Len(vals) \in Nat
      /\ type \in Types /\ vals \in Seq(ValuesOf(type)) /\ vals # <<>>
      /\ vals = saved.table[key] /\ type = saved.declared[key].type
      /\ key \in DOMAIN saved.declared /\ v \in Text
      /\ Pristine(g) /\ Done(g - 1) /\ Buffered /\ DOMAIN table = DOMAIN declared
  BY ValueFacts
<1>3. PICK u : Line(cursor, u, Unwritten(type, vals, i)) /\ rest = u \o v /\ Fine(line, u)
  BY DEF Value
<1>4. Fits(key) => \A j \in 1 .. i : values[j] = ReadBack(t, vals[j])
  BY DEF Value
<1>5. Type(g)' = type /\ Vals(g)' = vals /\ v' = v /\ Pristine(g)' /\ Owner(g)' = Owner(g) /\ file' = file
  BY <1>1, <1>2, SteadyFacts DEF Steady
<1> HIDE DEF v, type, vals
<1>6. i \in 0 .. Len(vals) - 1
  <2>1. i # Len(vals)
    BY <1>1, <1>2, <1>3, NothingLeft
  <2> QED
    BY <1>2, <2>1
<1>7. PICK m, w : /\ Line(m, w, Unwritten(type, vals, i + 1))
                  /\ filled.ok /\ filled.rest = w \o v
                  /\ filled.cursor = WriteValue(type, vals[i + 1]) \o m
                  /\ Fine(filled.line, w)
  BY <1>2, <1>3, <1>6, FillWritten
<1>8. m \in Text /\ w \in Text
  BY <1>7 DEF Line
<1>9. vals[i + 1] \in ValuesOf(type) /\ i + 1 \in 1 .. Len(vals) /\ i + 1 \in 0 .. Len(vals)
  BY <1>2, <1>6
<1>10. ASSUME NEW r \in {ReadValue(t, filled.cursor)}
       PROVE  /\ r.ok => r.rest = m
              /\ Fits(key) => r.ok /\ r.value = ReadBack(t, vals[i + 1])
  <2>1. r = ReadValue(t, WriteValue(type, vals[i + 1]) \o m)
    BY <1>7
  <2>2. /\ r.ok => r.rest = m
        /\ t = type /\ Readable(t, vals[i + 1]) => r.ok /\ r.value = ReadBack(t, vals[i + 1])
    BY <1>2, <1>8, <1>9, <2>1, ReadWritten
  <2>3. Fits(key) => t = type /\ Readable(t, vals[i + 1])
    <3>1. Fits(key) => t = saved.declared[key].type /\ \A j \in DOMAIN saved.table[key] : Readable(t, saved.table[key][j])
      BY DEF Fits
    <3>2. i + 1 \in DOMAIN vals
      BY <1>2, <1>9
    <3> QED
      BY <1>2, <3>1, <3>2
  <2> QED
    BY <2>2, <2>3
<1>11. rest' = w \o v' /\ Fine(line', w)
  BY <1>1, <1>5, <1>7
<1> HIDE DEF filled
<1>12. CASE \E r \in {ReadValue(t, filled.cursor)} :
              /\ r.ok /\ values' = Append(values, r.value) /\ cursor' = r.rest
              /\ UNCHANGED <<table, pc, alarmed>>
  <2>1. PICK r \in {ReadValue(t, filled.cursor)} :
          r.ok /\ values' = Append(values, r.value) /\ cursor' = r.rest
    BY <1>12
  <2>2. UNCHANGED <<table, pc, alarmed>>
    BY <1>12
  <2>3. cursor' = m /\ (Fits(key) => r.value = ReadBack(t, vals[i + 1]))
    BY <1>10, <2>1
  <2>4. Len(values') = i + 1 /\ values'[i + 1] = r.value /\ \A j \in 1 .. i : values'[j] = values[j]
    <3>1. values' = Append(values, r.value) /\ values \in Seq(ValuesOf(t))
      BY <1>2, <2>1
    <3>2. r.value \in ValuesOf(t)
      <4>1. filled.cursor \in Text
        BY <1>2, FillType DEF filled
      <4> QED
        BY <1>2, <2>1, <4>1, ReadValueWithin
    <3> QED
      BY <3>1, <3>2, AppendProperties
  <2>5. Fits(key) => \A j \in 1 .. Len(values') : values'[j] = ReadBack(t, vals[j])
    <3>1. ASSUME Fits(key), NEW j \in 1 .. i + 1 PROVE values'[j] = ReadBack(t, vals[j])
      <4>1. CASE j = i + 1
        BY <2>3, <2>4, <3>1, <4>1
      <4>2. CASE j # i + 1
        <5>1. j \in 1 .. i
          BY <1>2, <4>2
        <5> QED
          BY <1>4, <2>4, <3>1, <5>1
      <4> QED
        BY <4>1, <4>2
    <3> QED
      BY <2>4, <3>1
  <2>6. Done(g - 1)'
    BY <1>1, <1>2, <2>2, DoneSame
  <2>7. Fits(key)' = Fits(key) /\ t' = t /\ key' = key
    BY <1>1, SteadyFacts DEF Steady
  <2>8. Value(g)'
    <3>1. pc' = "value" /\ key' = Owner(g)' /\ Len(values') <= Len(Vals(g)')
      BY <1>1, <1>2, <1>5, <1>9, <2>2, <2>4
    <3>2. Fits(key)' => \A j \in 1 .. Len(values') : values'[j] = ReadBack(declared'[key'].type, Vals(g)'[j])
      BY <1>5, <2>5, <2>7
    <3>3. Line(cursor', w, Unwritten(Type(g)', Vals(g)', Len(values')))
      BY <1>5, <1>7, <2>3, <2>4
    <3> QED
      BY <1>5, <1>11, <2>6, <3>1, <3>2, <3>3 DEF Value, v
  <2>9. Parsing'
    BY <1>2, <1>5, <2>8 DEF Parsing
  <2> QED
    BY <1>1, <2>2, <2>9 DEF Goes
<1>13. CASE /\ filled.ok => \E r \in {ReadValue(t, filled.cursor)} : ~r.ok
            /\ table' = [table EXCEPT ![key] = <<>>] /\ pc' = "flush" /\ alarmed' = TRUE
  <2>1. ~Fits(key)
    BY <1>7, <1>10, <1>13 DEF filled
  <2>2. Excused
    BY <1>2, <2>1 DEF Excused
  <2>3. key \notin Claimed
    BY <2>1 DEF Claimed
  <2>4. \A k \in Claimed : k # Owner(g) => table'[k] = table[k]
    BY <1>2, <1>13 DEF Claimed
  <2>5. Done(g)'
    BY <1>1, <1>2, <2>3, <2>4, DoneHere
  <2>6. Follows(type, vals, w)
    BY <1>2, <1>7, <1>9, LineOf
  <2>7. Garbage(g)'
    <3>1. Follows(Type(g)', Vals(g)', w)
      BY <1>5, <2>6
    <3>2. pc' = "flush" /\ alarmed'
      BY <1>13
    <3> QED
      BY <1>5, <1>8, <1>11, <2>5, <3>1, <3>2 DEF Garbage, v
  <2>8. Parsing'
    BY <1>2, <1>5, <2>7 DEF Parsing
  <2> QED
    BY <1>13, <2>2, <2>8 DEF Goes
<1> QED
  BY <1>12, <1>13, ElementFacts DEF filled

\* With the last value the variable has come back, cut to its new length.
LEMMA EndAtValue ==
  ASSUME TypeInv, FileOK, alarmed => Excused, ParseValueEnd, NEW g, Value(g)
  PROVE  Goes
<1> DEFINE v == After(file, g)  type == Type(g)  vals == Vals(g)
           i == Len(values)  t == declared[key].type  max == declared[key].max
<1>1. /\ pc = "value" /\ table' = [table EXCEPT ![key] = values]
      /\ cursor = <<>> \/ ~(i < max)
      /\ pc' = IF cursor = <<>> THEN "read" ELSE "flush"
      /\ alarmed' = (alarmed \/ cursor # <<>>)
      /\ Steady /\ UNCHANGED <<rest, line, cursor, key, values>>
  BY EndFacts
<1>2. /\ key = Owner(g) /\ key \in DOMAIN declared /\ g \in 0 .. Len(file)
      /\ max \in Nat /\ i <= max /\ values \in Seq(ValuesOf(t))
      /\ i \in 0 .. Len(vals) /\ Len(vals) \in Nat
      /\ type \in Types /\ vals \in Seq(ValuesOf(type)) /\ vals # <<>>
      /\ vals = saved.table[key] /\ type = saved.declared[key].type
      /\ key \in DOMAIN saved.declared /\ v \in Text
      /\ Pristine(g) /\ Done(g - 1) /\ DOMAIN table = DOMAIN declared
  BY ValueFacts
<1>3. PICK u : Line(cursor, u, Unwritten(type, vals, i)) /\ rest = u \o v /\ Fine(line, u)
  BY DEF Value
<1>4. Fits(key) => \A j \in 1 .. i : values[j] = ReadBack(t, vals[j])
  BY DEF Value
<1>5. Type(g)' = type /\ Vals(g)' = vals /\ v' = v /\ Pristine(g)' /\ file' = file
  BY <1>1, <1>2, SteadyFacts DEF Steady
<1>6. (cursor = <<>> => u = <<>> /\ i = Len(vals)) /\ (cursor # <<>> => i # Len(vals))
  <2> HIDE DEF type, vals
  <2>1. /\ i = Len(vals) => cursor = <<>> /\ u = <<>>
        /\ cursor = <<>> => i = Len(vals)
    BY <1>2, <1>3, NothingLeft
  <2> QED
    BY <2>1
<1>7. u \in Text
  BY <1>3 DEF Line
<1>8. Fits(key) => values = Expected(key)
  <2> DEFINE back == [j \in DOMAIN vals |-> ReadBack(t, vals[j])]
  <2>1. Expected(key) = IF Len(back) <= max THEN back ELSE SubSeq(back, 1, max)
    BY <1>2 DEF Expected, Cut
  <2>2. Len(back) = Len(vals) /\ \A j \in 1 .. Len(vals) : back[j] = ReadBack(t, vals[j])
    BY <1>2
  <2>3. values = [j \in 1 .. i |-> values[j]]
    BY <1>2
  <2>4. back = [j \in 1 .. Len(vals) |-> back[j]]
    BY <1>2
  <2> HIDE DEF back, vals
  <2>5. ASSUME Fits(key) PROVE values = Expected(key)
    <3>1. \A j \in 1 .. i : values[j] = back[j]
      BY <1>2, <1>4, <2>2, <2>5
    <3>2. CASE i = Len(vals)
      <4>1. Expected(key) = back
        BY <1>2, <2>1, <2>2, <3>2
      <4> QED
        BY <2>3, <2>4, <3>1, <3>2, <4>1
    <3>3. CASE i # Len(vals)
      <4>1. i = max /\ i < Len(back)
        BY <1>1, <1>2, <1>6, <2>2, <3>3
      <4>2. Expected(key) = SubSeq(back, 1, i)
        BY <1>2, <2>1, <4>1
      <4>3. SubSeq(back, 1, i) = [j \in 1 .. i |-> back[j]]
        <5>1. back \in Seq(Range(back))
          BY <2>2, <2>4 DEF Range
        <5>2. i \in 0 .. Len(back)
          BY <1>2, <2>2, <4>1
        <5>3. /\ SubSeq(back, 1, i) \in Seq(Range(back)) /\ Len(SubSeq(back, 1, i)) = i
              /\ \A j \in 1 .. i : SubSeq(back, 1, i)[j] = back[j]
          BY <5>1, <5>2
        <5> DEFINE b == SubSeq(back, 1, i)
        <5>4. b = [j \in 1 .. i |-> b[j]]
          <6>1. b \in Seq(Range(back)) /\ Len(b) = i
            BY <5>3
          <6> HIDE DEF b
          <6> QED
            BY <6>1
        <5> QED
          BY <5>3, <5>4
      <4> QED
        BY <2>3, <3>1, <4>2, <4>3
    <3> QED
      BY <3>2, <3>3
  <2> QED
    BY <2>5
<1>9. Done(g)'
  <2>1. Owner(g) \in Claimed => table'[Owner(g)] = Expected(Owner(g))
    BY <1>1, <1>2, <1>8 DEF Claimed
  <2>2. \A k \in Claimed : k # Owner(g) => table'[k] = table[k]
    BY <1>1, <1>2 DEF Claimed
  <2> QED
    BY <1>1, <1>2, <2>1, <2>2, DoneHere
<1>10. rest' = u \o v' /\ Fine(line', u)
  BY <1>1, <1>3, <1>5
<1>11. CASE cursor = <<>>
  <2>1. pc' = "read" /\ (alarmed' => alarmed)
    BY <1>1, <1>11
  <2>2. rest' = v'
    <3> HIDE DEF v
    <3>1. <<>> \o v = v
      BY <1>2, ConcatEmptySeq DEF Text
    <3> QED
      BY <1>5, <1>6, <1>10, <1>11, <3>1
  <2>3. AtParagraph(g)'
    BY <1>9, <2>1, <2>2 DEF AtParagraph
  <2>4. Parsing'
    BY <1>2, <1>5, <2>3 DEF Parsing
  <2> QED
    BY <2>1, <2>4 DEF Goes
<1>12. CASE cursor # <<>>
  <2>1. pc' = "flush" /\ alarmed' = TRUE
    BY <1>1, <1>12
  <2>2. Excused
    <3>1. Len(saved.table[key]) > declared[key].max
      BY <1>1, <1>2, <1>6, <1>12
    <3> QED
      BY <1>2, <3>1 DEF Excused
  <2>3. Follows(type, vals, u)
    <3> HIDE DEF type, vals
    <3> QED
      BY <1>2, <1>3, LineOf
  <2>4. Garbage(g)'
    <3>1. Follows(Type(g)', Vals(g)', u)
      BY <1>5, <2>3
    <3>2. pc' = "flush" /\ alarmed'
      BY <2>1
    <3> QED
      BY <1>5, <1>7, <1>9, <1>10, <3>1, <3>2 DEF Garbage
  <2>5. Parsing'
    BY <1>2, <1>5, <2>4 DEF Parsing
  <2> QED
    BY <2>1, <2>2, <2>5 DEF Goes
<1> QED
  BY <1>11, <1>12

-------------------------------------------------------------------------------
(* In the text of a variable that was given up.                           *)

\* The next line that belongs to a variable that was given up begins with a space.
LEMMA FollowingLine ==
  ASSUME NEW type \in Types, NEW vals \in Seq(ValuesOf(type)), NEW u \in Text, u # <<>>,
         Follows(type, vals, u), NEW v \in Text, rest = u \o v
  PROVE  \E w \in Text :
           /\ ReadLine.ok /\ ~ReadLine.eof /\ ReadLine.rest = w \o v
           /\ Follows(type, vals, w) /\ Fine(ReadLine.line, w)
           /\ ReadLine.line # <<>> /\ ReadLine.line[1] = Space
<1>1. PICK j \in 1 .. Len(vals) :
        /\ u = Continuation(type, vals, j)
        /\ LineLength(type, vals)[j] = Len(WriteValue(type, vals[j]))
  BY DEF Follows
<1> DEFINE W == WriteValue(type, vals[j])  U == Unwritten(type, vals, j)  S == <<Space>>  WU == W \o U
<1>2. j \in 0 .. Len(vals) /\ Len(vals) \in Nat /\ vals[j] \in ValuesOf(type)
  OBVIOUS
<1>3. PICK l, w : Line(l, w, U)
  BY <1>2, HasLine
<1>4. Len(l) + LineLength(type, vals)[j] <= Longest + 2 /\ Fine(l, w) /\ Follows(type, vals, w)
  BY <1>2, <1>3, LineOf
<1>5. Plain(W) /\ Len(W) \in Nat /\ W \in Text /\ NoNewline(W)
  BY <1>2, WriteValueFacts DEF Plain
<1>6. Plain(S) /\ Len(S) = 1 /\ S \in Text /\ NoNewline(S)
  BY TokenFacts, PlainOne, QuoteFacts DEF Plain
<1>7. l \in Text /\ w \in Text /\ Len(l) \in Nat
  BY <1>3 DEF Line, Text
<1>8. Len(W) = LineLength(type, vals)[j]
  BY <1>1
<1>9. u = S \o WU
  BY <1>1 DEF Continuation
<1> HIDE DEF W, U, S
<1> DEFINE wl == W \o l  swl == S \o wl
<1>10. wl \in Text /\ Len(wl) = Len(W) + Len(l)
  BY <1>5, <1>7, TwoParts
<1>11. Line(wl, w, WU)
  BY <1>3, <1>5, LineWith
<1>12. Fine(wl, w)
  BY <1>4, <1>5, <1>7, FineMore
<1> HIDE DEF wl, WU
<1>13. swl \in Text /\ Len(swl) = 1 + Len(wl)
  <2>1. S \o wl \in Text /\ Len(S \o wl) = Len(S) + Len(wl)
    BY <1>6, <1>10, TwoParts
  <2> QED
    BY <1>6, <2>1
<1>14. Line(swl, w, u)
  <2>1. Line(S \o wl, w, S \o WU)
    BY <1>6, <1>11, LineWith
  <2> QED
    BY <1>9, <2>1
<1>15. Fine(swl, w)
  BY <1>6, <1>10, <1>12, FineMore
<1>16. swl # <<>> /\ swl[1] = Space
  BY <1>10, TokenFacts, OneBefore DEF S
<1> HIDE DEF swl
<1>17. Len(swl) + 1 < BufferSize
  <2>1. Len(swl) + 1 = Len(l) + LineLength(type, vals)[j] + 2
    BY <1>5, <1>7, <1>8, <1>10, <1>13
  <2>2. LineLength(type, vals)[j] \in Nat
    BY <1>5, <1>8
  <2>3. Longest \in Nat /\ Longest + 4 < BufferSize
    BY BoundFacts DEF Longest
  <2> DEFINE n == LineLength(type, vals)[j]
  <2>4. Len(l) + n <= Longest + 2
    BY <1>4
  <2>5. n \in Nat /\ Len(swl) + 1 = Len(l) + n + 2
    BY <2>1, <2>2
  <2> HIDE DEF n
  <2>6. BufferSize \in Nat
    BY BoundFacts
  <2> QED
    BY <1>7, <2>3, <2>4, <2>5, <2>6
<1>18. ReadLine = [ok |-> TRUE, eof |-> FALSE, line |-> swl, cursor |-> cursor, rest |-> w \o v]
  BY <1>14, <1>17, ReadLineIs
<1>19. ReadLine.ok /\ ~ReadLine.eof /\ ReadLine.line = swl /\ ReadLine.rest = w \o v
  BY <1>18
<1> QED
  BY <1>4, <1>7, <1>15, <1>16, <1>19

\* Where the parser is in the text of a variable that it has given up.
LEMMA GarbageFacts ==
  ASSUME TypeInv, FileOK, NEW g, Garbage(g)
  PROVE  /\ g \in 0 .. Len(file) /\ g \in Nat /\ Pristine(g) /\ Done(g) /\ alarmed = TRUE
         /\ Type(g) \in Types /\ Vals(g) \in Seq(ValuesOf(Type(g))) /\ After(file, g) \in Text
         /\ \E u \in Text :
              /\ rest = u \o After(file, g) /\ Follows(Type(g), Vals(g), u)
              /\ pc # "read" => Fine(line, u)
              /\ pc = "assign" => line # <<>> /\ line[1] = Space
<1>1. Pristine(g) /\ Done(g) /\ alarmed
  BY DEF Garbage
<1>2. alarmed = TRUE
  BY <1>1 DEF TypeInv
<1>3. \E u \in Text :
        /\ rest = u \o After(file, g) /\ Follows(Type(g), Vals(g), u)
        /\ pc # "read" => Fine(line, u)
        /\ pc = "assign" => line # <<>> /\ line[1] = Space
  BY DEF Garbage
<1>4. /\ g \in 0 .. Len(file) /\ g \in Nat /\ Type(g) \in Types /\ Vals(g) \in Seq(ValuesOf(Type(g)))
      /\ After(file, g) \in Text
  BY <1>1, PristineFacts
<1> QED
  BY <1>1, <1>2, <1>3, <1>4

\* How the parser stays in it.
LEMMA GarbageStays ==
  ASSUME TypeInv, FileOK, Steady, NEW g \in 0 .. Len(file), Pristine(g), Done(g)',
         pc' \in {"read", "assign", "flush"}, alarmed' = TRUE,
         NEW u \in Text, rest' = u \o After(file, g), Follows(Type(g), Vals(g), u),
         pc' # "read" => Fine(line', u), pc' = "assign" => line' # <<>> /\ line'[1] = Space
  PROVE  Parsing'
<1>1. /\ Pristine(g)' /\ Type(g)' = Type(g) /\ Vals(g)' = Vals(g) /\ file' = file
      /\ After(file, g)' = After(file, g)
  BY SteadyFacts DEF Steady
<1>2. Garbage(g)'
  BY <1>1 DEF Garbage
<1> QED
  BY <1>1, <1>2 DEF Parsing

\* A line of it is read, or the next paragraph is reached.
LEMMA LineInGarbage ==
  ASSUME TypeInv, FileOK, Excused, ParseLine, NEW g, Garbage(g), ~AtParagraph(g)
  PROVE  Goes
<1> DEFINE v == After(file, g)  type == Type(g)  vals == Vals(g)
<1>1. /\ pc = "read" /\ Steady /\ UNCHANGED <<table, cursor, key, values>>
      /\ rest' = ReadLine.rest /\ line' = ReadLine.line
      /\ alarmed' = (alarmed \/ pc' = "failed")
  BY LineFacts
<1>2. /\ g \in 0 .. Len(file) /\ Pristine(g) /\ Done(g) /\ alarmed = TRUE
      /\ type \in Types /\ vals \in Seq(ValuesOf(type)) /\ v \in Text
  BY GarbageFacts
<1>3. PICK u \in Text : rest = u \o v /\ Follows(type, vals, u)
  BY GarbageFacts
<1>4. u # <<>>
  <2> SUFFICES ASSUME u = <<>> PROVE FALSE
    OBVIOUS
  <2>1. rest = v
    <3> HIDE DEF v
    <3> QED
      BY <1>2, <1>3, ConcatEmptySeq DEF Text
  <2> QED
    BY <1>1, <1>2, <2>1 DEF AtParagraph
<1> HIDE DEF v, type, vals
<1>5. PICK w \in Text :
        /\ ReadLine.ok /\ ~ReadLine.eof /\ ReadLine.rest = w \o v
        /\ Follows(type, vals, w) /\ Fine(ReadLine.line, w)
        /\ ReadLine.line # <<>> /\ ReadLine.line[1] = Space
  BY <1>2, <1>3, <1>4, FollowingLine
<1>6. rest' = w \o v /\ Fine(line', w) /\ line' # <<>> /\ line'[1] = Space
  BY <1>1, <1>5
<1>7. Head(line') \notin {"#", "\n"}
  <2>1. Head(line') = line'[1]
    <3>1. Buffered
      BY DEF TypeInv, ParserType
    <3>2. line' \in Text
      BY <1>1, <3>1, ReadLineType
    <3> QED
      BY <1>6, <3>2 DEF Text
  <2> QED
    BY <1>6, <2>1, QuoteFacts
<1>8. pc' = "assign"
  BY <1>5, <1>7, LineFacts
<1>9. Done(g)'
  BY <1>1, <1>2, DoneSame
<1>10. alarmed' = TRUE
  BY <1>1, <1>2
<1>11. Parsing'
  BY <1>1, <1>2, <1>5, <1>6, <1>8, <1>9, <1>10, GarbageStays DEF v, type, vals
<1> QED
  BY <1>8, <1>11 DEF Goes

\* A line of values has no name: a continuation line begins with a space.
LEMMA AssignmentInGarbage ==
  ASSUME TypeInv, FileOK, Excused, ParseAssignment, NEW g, Garbage(g)
  PROVE  Goes
<1> DEFINE v == After(file, g)  type == Type(g)  vals == Vals(g)
           equal == IndexOf(line, "=")  name == SubSeq(line, 1, equal - 1)
<1>1. /\ pc = "assign" /\ equal \in 0 .. Len(line)
      /\ line' = IF equal = 0 THEN line ELSE name
      /\ Steady /\ UNCHANGED <<table, rest>>
      /\ \/ pc' = "flush" /\ alarmed' = TRUE
         \/ equal > 0 /\ key' \in DOMAIN declared /\ name = <<key'>>
  BY AssignmentFacts DEF Steady
<1>2. /\ g \in 0 .. Len(file) /\ Pristine(g) /\ Done(g)
      /\ type \in Types /\ vals \in Seq(ValuesOf(type)) /\ v \in Text
  BY GarbageFacts
<1>3. PICK u \in Text : /\ rest = u \o v /\ Follows(type, vals, u)
                        /\ Fine(line, u) /\ line # <<>> /\ line[1] = Space
  BY <1>1, GarbageFacts
<1>4. line \in Text /\ Len(line) \in Nat /\ declared \in Declarations \union {First}
  BY DEF TypeInv, ParserType, Buffered, Text
<1>5. equal # 0 => line[equal] = "="
  BY <1>4, IndexOfFacts
<1> HIDE DEF equal, v, type, vals
<1>6. ASSUME equal # 0
      PROVE  /\ Len(name) = equal - 1 /\ equal - 1 \in 0 .. Len(line) /\ name \in Text
             /\ \A j \in 1 .. Len(name) : name[j] = line[j]
  <2>1. equal - 1 \in 0 .. Len(line)
    BY <1>1, <1>4, <1>6
  <2> QED
    BY <1>4, <2>1, Split DEF Text
<1>7. ~(equal > 0 /\ key' \in DOMAIN declared /\ name = <<key'>>)
  <2> SUFFICES ASSUME equal > 0, key' \in DOMAIN declared, name = <<key'>> PROVE FALSE
    OBVIOUS
  <2>1. equal # 0
    BY <1>1
  <2> HIDE DEF name
  <2>2. Len(name) = 1 /\ name[1] = key'
    OBVIOUS
  <2>3. key' = Space
    BY <1>3, <1>6, <2>1, <2>2
  <2>4. key' \notin Special
    BY <1>4, DeclarationFacts
  <2> QED
    BY <2>3, <2>4 DEF Special
<1>8. pc' = "flush" /\ alarmed' = TRUE
  BY <1>1, <1>7
<1>9. Fine(line', u)
  <2>1. CASE equal = 0
    BY <1>1, <1>3, <2>1
  <2>2. CASE equal # 0
    <3>1. line' = name /\ equal - 1 + 1 = equal
      BY <1>1, <2>2
    <3>2. ASSUME NEW j \in 1 .. Len(name), name[j] = "\\"
          PROVE  j # Len(name) /\ name[j + 1] # "="
      <4>1. line[j] = "\\" /\ j \in 1 .. Len(line) /\ j # Len(line)
        BY <1>1, <1>4, <1>6, <2>2, <3>2
      <4>2. line[j + 1] # "="
        BY <1>3, <4>1 DEF Fine
      <4>3. j # Len(name)
        BY <1>1, <1>5, <1>6, <2>2, <4>2
      <4>4. j + 1 \in 1 .. Len(name)
        BY <1>1, <1>6, <2>2, <4>3
      <4> QED
        BY <1>6, <2>2, <4>2, <4>3, <4>4
    <3> HIDE DEF name
    <3>3. Fine(name, u)
      BY <3>2 DEF Fine
    <3> QED
      BY <3>1, <3>3
  <2> QED
    BY <2>1, <2>2
<1>10. Done(g)'
  BY <1>1, <1>2, DoneSame
<1>11. rest' = u \o v
  BY <1>1, <1>3
<1>12. Parsing'
  BY <1>1, <1>2, <1>3, <1>8, <1>9, <1>10, <1>11, GarbageStays DEF v, type, vals
<1> QED
  BY <1>8, <1>12 DEF Goes

\* Flushing takes the continued lines and no line of the next variable.
LEMMA FlushInGarbage ==
  ASSUME TypeInv, FileOK, Excused, FlushContinuation, NEW g, Garbage(g)
  PROVE  Goes
<1> DEFINE v == After(file, g)  type == Type(g)  vals == Vals(g)
<1>1. /\ pc = "flush" /\ Steady /\ UNCHANGED <<table, cursor, key, values, alarmed>>
      /\ IF line # <<>> /\ Last(line) = "\\"
         THEN /\ line' = ReadLine.line /\ rest' = ReadLine.rest
              /\ IF ReadLine.ok THEN pc' = "flush" ELSE pc' \in {"read", "failed"}
         ELSE pc' \in {"read", "failed"} /\ UNCHANGED <<line, rest>>
  BY FlushFacts
<1>2. /\ g \in 0 .. Len(file) /\ g \in Nat /\ Pristine(g) /\ Done(g) /\ alarmed = TRUE
      /\ type \in Types /\ vals \in Seq(ValuesOf(type)) /\ v \in Text
  BY GarbageFacts
<1>3. PICK u \in Text : rest = u \o v /\ Follows(type, vals, u) /\ Fine(line, u)
  BY <1>1, GarbageFacts
<1>4. line \in Text
  BY DEF TypeInv, ParserType, Buffered
<1>5. Done(g)' /\ alarmed' = TRUE
  BY <1>1, <1>2, DoneSame
<1> HIDE DEF v, type, vals
<1>6. CASE line # <<>> /\ Last(line) = "\\"
  <2>1. u # <<>>
    <3>1. Len(line) \in 1 .. Len(line) /\ line[Len(line)] = "\\"
      BY <1>4, <1>6 DEF Text, Last
    <3> QED
      BY <1>3, <3>1 DEF Fine
  <2>2. PICK w \in Text :
          /\ ReadLine.ok /\ ~ReadLine.eof /\ ReadLine.rest = w \o v
          /\ Follows(type, vals, w) /\ Fine(ReadLine.line, w)
    BY <1>2, <1>3, <2>1, FollowingLine
  <2>3. pc' = "flush" /\ rest' = w \o v /\ Fine(line', w)
    BY <1>1, <1>6, <2>2
  <2>4. Parsing'
    BY <1>1, <1>2, <1>5, <2>2, <2>3, GarbageStays DEF v, type, vals
  <2> QED
    BY <1>5, <2>3, <2>4 DEF Goes
<1>7. CASE ~(line # <<>> /\ Last(line) = "\\")
  <2>1. pc' \in {"read", "failed"} /\ UNCHANGED <<line, rest>>
    BY <1>1, <1>7
  <2>2. CASE pc' = "failed"
    BY <1>1, <1>2, <1>5, <2>2, ErrorGoes
  <2>3. CASE pc' = "read"
    <3>1. rest' = u \o v
      BY <1>3, <2>1
    <3>2. Parsing'
      BY <1>1, <1>2, <1>3, <1>5, <2>3, <3>1, GarbageStays DEF v, type, vals
    <3> QED
      BY <2>3, <3>2 DEF Goes
  <2> QED
    BY <2>1, <2>2, <2>3
<1> QED
  BY <1>6, <1>7

\* A step of the parser from wherever it is.
LEMMA ParseGoes ==
  ASSUME TypeInv, FileOK, alarmed => Excused, pc = "flush" => alarmed, Parsing, Parse
  PROVE  Steady /\ Goes
<1>1. PICK g \in 0 .. Len(file) : AtParagraph(g) \/ Loose(g) \/ Start(g) \/ Value(g) \/ Garbage(g)
  BY DEF Parsing
<1>2. CASE ParseLine
  <2>1. pc = "read" /\ Steady
    BY <1>2, LineFacts
  <2>2. ASSUME NEW h \in 0 .. Len(file), AtParagraph(h) PROVE Goes
    <3>1. CASE h < Len(file) /\ h + 1 \in touched
      <4>0. h \in 0 .. Len(file) - 1
        BY <3>1
      <4>1. PICK m \in 0 .. Len(file) : Loose(m) /\ (m < Len(file) => m + 1 \notin touched)
        BY <2>2, <3>1, <4>0, IntoBroken
      <4> QED
        BY <1>2, <4>1, LineInLoose, LineAtParagraph
    <3>2. CASE ~(h < Len(file) /\ h + 1 \in touched)
      BY <1>2, <2>2, <3>2, LineAtParagraph
    <3> QED
      BY <3>1, <3>2
  <2>3. CASE Loose(g) /\ ~AtParagraph(g)
    BY <1>2, <2>1, <2>3, LineInLoose
  <2>4. CASE Garbage(g) /\ ~AtParagraph(g)
    <3>1. Excused
      BY <2>4, GarbageFacts
    <3> QED
      BY <1>2, <2>1, <2>4, <3>1, LineInGarbage
  <2>5. ~Start(g) /\ ~Value(g)
    BY <2>1 DEF Start, Value
  <2> QED
    BY <1>1, <2>1, <2>2, <2>3, <2>4, <2>5
<1>3. CASE ParseAssignment
  <2>1. pc = "assign" /\ Steady
    BY <1>3, AssignmentFacts DEF Steady
  <2>2. ~AtParagraph(g) /\ ~Value(g)
    BY <2>1 DEF AtParagraph, Value
  <2>3. CASE Garbage(g)
    <3>1. Excused
      BY <2>3, GarbageFacts
    <3> QED
      BY <1>3, <2>1, <2>3, <3>1, AssignmentInGarbage
  <2> QED
    BY <1>1, <1>3, <2>1, <2>2, <2>3, AssignmentInLoose, AssignmentAtStart
<1>4. CASE ParseElement
  <2>1. pc = "value" /\ Steady
    BY <1>4, ElementFacts DEF Steady
  <2>2. ~AtParagraph(g) /\ ~Start(g) /\ ~Garbage(g)
    BY <2>1 DEF AtParagraph, Start, Garbage
  <2> QED
    BY <1>1, <1>4, <2>1, <2>2, ElementInLoose, ElementAtValue
<1>5. CASE ParseValueEnd
  <2>1. pc = "value" /\ Steady
    BY <1>5, EndFacts
  <2>2. ~AtParagraph(g) /\ ~Start(g) /\ ~Garbage(g)
    BY <2>1 DEF AtParagraph, Start, Garbage
  <2> QED
    BY <1>1, <1>5, <2>1, <2>2, EndInLoose, EndAtValue
<1>6. CASE FlushContinuation
  <2>1. pc = "flush" /\ Steady
    BY <1>6, FlushFacts
  <2>2. ~AtParagraph(g) /\ ~Start(g) /\ ~Value(g)
    BY <2>1 DEF AtParagraph, Start, Value
  <2> QED
    BY <1>1, <1>6, <2>1, <2>2, FlushInLoose, FlushInGarbage
<1> QED
  BY <1>2, <1>3, <1>4, <1>5, <1>6 DEF Parse

-------------------------------------------------------------------------------
(* The invariant.                                                         *)

\* Paragraphs with the same texts.
LEMMA RunSame ==
  ASSUME NEW f \in Seq(Paragraph), NEW e \in Seq(Paragraph), Len(e) = Len(f),
         NEW g \in 0 .. Len(f), NEW m \in g .. Len(f),
         \A h \in g + 1 .. m : e[h].text = f[h].text
  PROVE  Run(e, g, m) = Run(f, g, m)
<1> DEFINE s == TextsOf(e)  t == TextsOf(f)  a == SubSeq(s, g + 1, m)  b == SubSeq(t, g + 1, m)
<1>1. /\ s \in Seq(Seq(Tokens)) /\ t \in Seq(Seq(Tokens)) /\ Len(s) = Len(f) /\ Len(t) = Len(f)
      /\ \A h \in 1 .. Len(f) : s[h] = e[h].text /\ t[h] = f[h].text
  <2>1. /\ s \in Seq(Seq(Tokens)) /\ Len(s) = Len(e)
        /\ \A h \in 1 .. Len(e) : s[h] = e[h].text
    BY TextsType
  <2>2. /\ t \in Seq(Seq(Tokens)) /\ Len(t) = Len(f)
        /\ \A h \in 1 .. Len(f) : t[h] = f[h].text
    BY TextsType
  <2> QED
    BY <2>1, <2>2
<1>2. \A h \in g + 1 .. m : s[h] = t[h] /\ h \in 1 .. Len(f)
  BY <1>1
<1> HIDE DEF s, t
<1>3. g + 1 \in Nat \ {0} /\ m \in Nat /\ m <= Len(f)
  OBVIOUS
<1>4. /\ a \in Seq(Seq(Tokens)) /\ b \in Seq(Seq(Tokens)) /\ Len(a) = Len(b)
      /\ \A i \in 1 .. Len(a) : a[i] = b[i]
  <2>1. a \in Seq(Seq(Tokens)) /\ Len(a) = m - g /\ \A i \in 1 .. m - g : a[i] = s[g + i]
    <3>1. s \in Seq(Seq(Tokens)) /\ Len(s) = Len(f)
      BY <1>1
    <3> QED
      BY <1>3, <3>1
  <2>2. b \in Seq(Seq(Tokens)) /\ Len(b) = m - g /\ \A i \in 1 .. m - g : b[i] = t[g + i]
    <3>1. t \in Seq(Seq(Tokens)) /\ Len(t) = Len(f)
      BY <1>1
    <3> QED
      BY <1>3, <3>1
  <2>3. \A i \in 1 .. m - g : g + i \in g + 1 .. m
    OBVIOUS
  <2> QED
    BY <1>2, <2>1, <2>2, <2>3
<1> HIDE DEF a, b
<1>5. a = b
  BY <1>4, SeqEqual
<1> QED
  BY <1>5 DEF Run, a, b, s, t

\* The first paragraphs are those after none.
LEMMA BeforeIsRun ==
  ASSUME NEW f, NEW m
  PROVE  Before(f, m) = Run(f, 0, m)
BY DEF Before, Run

\* An edit of a file that is the history of a save and of earlier edits leads to another one.
LEMMA EditFile ==
  ASSUME TypeInv, FileOK, Edit
  PROVE  FileOK'
<1> DEFINE New(g, i) == {InsertAt(file[g].text, i, c) : c \in Inserts} \union
                        (IF i <= Len(file[g].text) /\ file[g].text[i] = "\n"
                         THEN {RemoveAt(file[g].text, i)} ELSE {})
           Reached(g) == {h \in g .. Len(file) : \A m \in g .. h - 1 : Spills(Contents(SubSeq(file', 1, m)))}
<1>1. UNCHANGED <<saved, declared>> /\ edits' = edits + 1
  BY DEF Edit
<1>2. PICK g \in DOMAIN file : \E i \in 1 .. Len(file[g].text) + 1 : \E text \in New(g, i) :
        file' = [file EXCEPT ![g].text = text] /\ touched' = touched \union Reached(g)
  BY DEF Edit
<1>3. PICK i \in 1 .. Len(file[g].text) + 1 : \E text \in New(g, i) :
        file' = [file EXCEPT ![g].text = text] /\ touched' = touched \union Reached(g)
  BY <1>2
<1>4. PICK text \in New(g, i) :
        file' = [file EXCEPT ![g].text = text] /\ touched' = touched \union Reached(g)
  BY <1>3
<1> DEFINE N == Len(file)
<1>5. file \in Seq(Paragraph) /\ touched \subseteq 1 .. N /\ g \in 1 .. N /\ N \in Nat
      /\ saved.declared \in Declarations \union {First}
  BY DEF TypeInv, DiskType, SavedType
<1>6. file[g].text \in Text
  BY <1>5, TextsType
<1>7. text \in Text /\ \A x \in Range(file[g].text) : x # "\n" => x \in Range(text)
  BY <1>4, <1>6, EditedText
<1> HIDE DEF New
<1>8. file' \in Seq(Paragraph) /\ Len(file') = N
  <2>1. TypeInv'
    BY EditType
  <2>2. Len(file') = Len(file)
    BY <1>4, <1>5
  <2> QED
    BY <2>1, <2>2 DEF TypeInv, DiskType
<1>9. /\ \A h \in 1 .. N : Owner(h)' = Owner(h)
      /\ \A h \in 1 .. N : h # g => file'[h].text = file[h].text
      /\ file'[g].text = text
  <2>1. \A h \in 1 .. N : h # g => file'[h] = file[h]
    BY <1>4, <1>5
  <2>2. file'[g] = [file[g] EXCEPT !.text = text]
    BY <1>4, <1>5
  <2>3. file[g] \in Paragraph
    BY <1>5
  <2>4. file'[g].text = text /\ file'[g].owner = file[g].owner
    BY <2>2, <2>3 DEF Paragraph
  <2> QED
    BY <2>1, <2>4 DEF Owner
<1>10. g \in touched' /\ touched \subseteq touched'
  <2>1. g \in g .. Len(file) /\ \A m \in g .. g - 1 : FALSE
    BY <1>5
  <2>2. g \in Reached(g)
    BY <2>1
  <2> HIDE DEF Reached
  <2> QED
    BY <1>4, <2>2
<1>11. \A m \in g .. N : Contents(SubSeq(file', 1, m)) = Before(file', m)
  BY <1>5, <1>8, ContentsFacts
<1>12. Reached(g) = {h \in g .. N : \A m \in g .. h - 1 : Spills(Before(file', m))}
  <2>1. \A h \in g .. N : \A m \in g .. h - 1 : m \in g .. N
    BY <1>5
  <2> QED
    BY <1>11, <2>1
<1> HIDE DEF Reached
<1>13. (1 \in DOMAIN file \ touched => file[1].text = <<"#", "\n">>)'
  BY <1>5, <1>8, <1>9, <1>10 DEF FileOK
<1>14. ASSUME NEW h \in 2 .. N
       PROVE  /\ Owner(h)' \in DOMAIN saved'.declared /\ Vals(h)' # <<>>
              /\ Owner(h)' \in Range(file'[h].text)
              /\ h \notin touched' => file'[h].text = WriteLines(Owner(h)', Type(h)', Vals(h)')
              /\ \A j \in 2 .. N : Owner(j)' = Owner(h)' => j = h
  <2>1. h \in 1 .. N /\ \A j \in 2 .. N : j \in 1 .. N
    BY <1>5
  <2>2. /\ Owner(h) \in DOMAIN saved.declared /\ Vals(h) # <<>> /\ Owner(h) \in Range(file[h].text)
        /\ h \notin touched => file[h].text = WriteLines(Owner(h), Type(h), Vals(h))
        /\ \A j \in 2 .. Len(file) : Owner(j) = Owner(h) => j = h
    BY DEF FileOK
  <2>3. Owner(h)' = Owner(h) /\ \A j \in 2 .. N : Owner(j)' = Owner(j)
    BY <1>9, <2>1
  <2>4. Type(h)' = Type(h) /\ Vals(h)' = Vals(h)
    BY <1>1, <2>3 DEF Type, Vals
  <2>5. Owner(h)' \in Range(file'[h].text)
    <3>1. CASE h = g
      <4>1. Owner(h) # "\n"
        BY <1>5, <2>2, DeclarationFacts DEF Special
      <4> QED
        BY <1>7, <1>9, <2>2, <2>3, <3>1, <4>1
    <3>2. CASE h # g
      BY <1>9, <2>1, <2>2, <2>3, <3>2
    <3> QED
      BY <3>1, <3>2
  <2>6. h \notin touched' => file'[h].text = WriteLines(Owner(h)', Type(h)', Vals(h)')
    BY <1>9, <1>10, <2>1, <2>2, <2>3, <2>4
  <2> QED
    BY <1>1, <2>2, <2>3, <2>4, <2>5, <2>6
<1>15. (\A k \in DOMAIN saved.declared :
          saved.table[k] # <<>> => \E h \in 2 .. Len(file) : Owner(h) = k)'
  <2>1. ASSUME NEW k \in DOMAIN saved.declared, saved.table[k] # <<>>
        PROVE  \E h \in 2 .. N : Owner(h)' = k
    <3>1. PICK h \in 2 .. N : Owner(h) = k
      BY <2>1 DEF FileOK
    <3>2. h \in 1 .. N
      BY <1>5
    <3> QED
      BY <1>9, <3>1, <3>2
  <2> QED
    BY <1>1, <1>8, <2>1
<1>16. ASSUME NEW m \in touched', m < N, m + 1 \notin touched'
       PROVE  ~Spills(Before(file', m))
  <2>1. m \in touched \/ m \in Reached(g)
    BY <1>4
  <2>2. m \in 1 .. N /\ m + 1 \in 1 .. N
    <3>1. m \in Reached(g) => m \in g .. N
      BY <1>12
    <3>2. m \in 1 .. N
      <4>1. CASE m \in touched
        BY <1>5, <4>1
      <4>2. CASE m \in Reached(g)
        <5>1. m \in g .. N /\ g \in 1 .. N /\ N \in Nat
          BY <1>5, <3>1, <4>2
        <5> QED
          BY <5>1
      <4> QED
        BY <2>1, <4>1, <4>2
    <3> QED
      BY <1>5, <1>16, <3>2
  <2>3. m \in touched => ~Spills(Before(file, m))
    BY <1>10, <1>16 DEF FileOK
  <2>4. CASE m < g
    <3>1. m \in touched
      BY <1>5, <1>12, <2>1, <2>2, <2>4
    <3>2. \A h \in 0 + 1 .. m : file'[h].text = file[h].text
      BY <1>5, <1>9, <2>2, <2>4
    <3>3. 0 \in 0 .. N /\ m \in 0 .. N
      BY <1>5, <2>2
    <3>4. Run(file', 0, m) = Run(file, 0, m)
      BY <1>5, <1>8, <3>2, <3>3, RunSame
    <3>5. Before(file', m) = Before(file, m)
      BY <3>4, BeforeIsRun
    <3> QED
      BY <2>3, <3>1, <3>5
  <2>5. CASE ~(m < g)
    <3>1. m + 1 \in g .. N /\ m + 1 \notin Reached(g)
      BY <1>4, <1>5, <1>16, <2>2, <2>5
    <3>2. PICK n \in g .. (m + 1) - 1 : ~Spills(Before(file', n))
      BY <1>12, <3>1
    <3>3. n \in g .. m
      BY <1>5, <2>2, <3>2
    <3>4. CASE n = m
      BY <3>2, <3>4
    <3>5. CASE n # m
      <4>1. n \in g .. m - 1 /\ n \in 0 .. N /\ m \in n .. N /\ n >= g
        BY <1>5, <2>2, <3>3, <3>5
      <4>2. m \notin Reached(g)
        BY <1>12, <3>2, <4>1
      <4>3. ~Spills(Before(file, m))
        BY <2>1, <2>3, <4>2
      <4>4. Run(file', n, m) = Run(file, n, m)
        <5>1. \A h \in n + 1 .. m : file'[h].text = file[h].text
          <6>1. \A h \in n + 1 .. m : h \in 1 .. N /\ h # g
            BY <1>5, <4>1
          <6> QED
            BY <1>9, <6>1
        <5> QED
          BY <1>5, <1>8, <4>1, <5>1, RunSame
      <4> DEFINE a == Before(file, n)  b == Run(file, n, m)  c == Before(file', n)
      <4>5. a \in Text /\ b \in Text /\ Before(file, m) = a \o b
        BY <1>5, <4>1, RunFacts
      <4>6. c \in Text /\ Before(file', m) = c \o Run(file', n, m)
        BY <1>8, <4>1, RunFacts
      <4>7. ~Spills(c)
        BY <3>2
      <4> HIDE DEF a, b, c
      <4>8. ~Spills(b)
        BY <4>3, <4>5, SpillsSuffix
      <4>9. ~Spills(c \o b)
        BY <4>5, <4>6, <4>7, <4>8, SpillsConcat
      <4> QED
        BY <4>4, <4>6, <4>9 DEF b
    <3> QED
      BY <3>4, <3>5
  <2> QED
    BY <2>4, <2>5
<1>17. edits' # 0
  <2>1. edits \in 0 .. MaxEdits
    BY DEF TypeInv, DiskType
  <2> QED
    BY <1>1, <2>1, BoundFacts
<1> QED
  BY <1>8, <1>13, <1>14, <1>15, <1>16, <1>17 DEF FileOK

\* A save writes a file without broken paragraphs.
LEMMA SaveFile ==
  ASSUME TypeInv, WritePersistentState
  PROVE  FileOK'
<1> DEFINE S == {k \in DOMAIN declared : table[k] # <<>>}
<1>1. PICK order \in SetToSeqs(S) : file' = Written(order)
  BY DEF WritePersistentState, Written
<1>2. /\ saved' = [table |-> table, declared |-> declared, restarts |-> restarts]
      /\ touched' = {} /\ edits' = 0
  BY DEF WritePersistentState
<1>3. saved'.table = table /\ saved'.declared = declared
  BY <1>2
<1>4. \A k : k \in S <=> k \in DOMAIN declared /\ table[k] # <<>>
  OBVIOUS
<1> HIDE DEF S
<1> DEFINE n == Len(order)
<1>5. /\ file' \in Seq(Paragraph) /\ Len(file') = n + 1 /\ order \in Seq(S)
      /\ file'[1].owner = "none" /\ file'[1].text = <<"#", "\n">>
      /\ \A i \in 1 .. n :
           /\ file'[i + 1].owner = order[i]
           /\ file'[i + 1].text = WriteLines(order[i], declared[order[i]].type, table[order[i]])
      /\ \A k \in S : \E i \in 1 .. n : order[i] = k
      /\ \A i, j \in 1 .. n : order[i] = order[j] => i = j
  <2> DEFINE f == Written(order)
  <2>1. file' = f
    BY <1>1
  <2>2. order \in SetToSeqs(S)
    BY <1>1
  <2>3. f \in Seq(Paragraph) /\ Len(f) = n + 1 /\ order \in Seq(S)
        /\ f[1].owner = "none" /\ f[1].text = <<"#", "\n">>
    BY <1>4, <2>2, WrittenFile
  <2>4. \A i \in 1 .. n :
          /\ f[i + 1].owner = order[i]
          /\ f[i + 1].text = WriteLines(order[i], declared[order[i]].type, table[order[i]])
    BY <1>4, <2>2, WrittenFile
  <2>5. \A k \in S : \E i \in 1 .. n : order[i] = k
    BY <1>4, <2>2, WrittenFile
  <2>6. \A i, j \in 1 .. n : order[i] = order[j] => i = j
    BY <1>4, <2>2, WrittenFile
  <2> HIDE DEF f, n
  <2> QED
    BY <2>1, <2>3, <2>4, <2>5, <2>6
<1>6. n \in Nat /\ \A i \in 1 .. n : order[i] \in S
  BY <1>5
<1> HIDE DEF n
<1>7. ASSUME NEW g \in 2 .. n + 1
      PROVE  /\ Owner(g)' \in DOMAIN declared /\ table[Owner(g)'] # <<>>
             /\ Owner(g)' \in Range(file'[g].text)
             /\ file'[g].text = WriteLines(Owner(g)', declared[Owner(g)'].type, table[Owner(g)'])
             /\ \A h \in 2 .. n + 1 : Owner(h)' = Owner(g)' => h = g
  <2> DEFINE i == g - 1
  <2>1. i \in 1 .. n /\ i + 1 = g
    BY <1>6
  <2>2. Owner(g)' = order[i]
    BY <1>5, <2>1 DEF Owner
  <2>3. order[i] \in DOMAIN declared /\ table[order[i]] # <<>>
    BY <1>4, <1>6, <2>1
  <2>4. file'[g].text = WriteLines(order[i], declared[order[i]].type, table[order[i]])
    BY <1>5, <2>1
  <2>5. order[i] \in Tokens /\ declared[order[i]].type \in Types
        /\ table[order[i]] \in Seq(ValuesOf(declared[order[i]].type))
    BY <2>3, DeclarationFacts DEF TypeInv, TableType
  <2>6. order[i] \in Range(file'[g].text)
    BY <2>4, <2>5, WriteLinesIs
  <2>7. ASSUME NEW h \in 2 .. n + 1, Owner(h)' = Owner(g)' PROVE h = g
    <3>1. h - 1 \in 1 .. n /\ (h - 1) + 1 = h
      BY <1>6
    <3>2. Owner(h)' = order[h - 1]
      BY <1>5, <3>1 DEF Owner
    <3>3. h - 1 = i
      <4>1. order[h - 1] = order[i]
        BY <2>2, <2>7, <3>2
      <4>2. \A x, y \in 1 .. n : order[x] = order[y] => x = y
        BY <1>5
      <4> HIDE DEF i
      <4> QED
        BY <2>1, <3>1, <4>1, <4>2
    <3> QED
      BY <2>1, <3>1, <3>3
  <2> QED
    BY <2>2, <2>3, <2>4, <2>6, <2>7
<1>8. ASSUME NEW k \in DOMAIN declared, table[k] # <<>>
      PROVE  \E g \in 2 .. n + 1 : Owner(g)' = k
  <2>1. PICK i \in 1 .. n : order[i] = k
    BY <1>4, <1>5, <1>8
  <2>2. i + 1 \in 2 .. n + 1
    BY <1>6
  <2>3. Owner(i + 1)' = k
    BY <1>5, <2>1 DEF Owner
  <2> QED
    BY <2>2, <2>3
<1>9. \A g : Type(g)' = declared[Owner(g)'].type /\ Vals(g)' = table[Owner(g)']
  BY <1>3 DEF Type, Vals
<1>10. \A g \in 2 .. Len(file') :
         /\ Owner(g)' \in DOMAIN saved'.declared /\ Vals(g)' # <<>> /\ Owner(g)' \in Range(file'[g].text)
         /\ g \notin touched' => file'[g].text = WriteLines(Owner(g)', Type(g)', Vals(g)')
         /\ \A h \in 2 .. Len(file') : Owner(h)' = Owner(g)' => h = g
  BY <1>3, <1>5, <1>7, <1>9
<1>11. \A k \in DOMAIN saved'.declared :
         saved'.table[k] # <<>> => \E g \in 2 .. Len(file') : Owner(g)' = k
  BY <1>3, <1>5, <1>8
<1> QED
  BY <1>2, <1>5, <1>10, <1>11 DEF FileOK

\* The first process starts with no file.
LEMMA InitInvariant ==
  ASSUME Init
  PROVE  IInv
<1>1. TypeInv
  BY InitTypeInv
<1>2. file = <<>> /\ touched = {} /\ edits = 0 /\ saved.table = Unset(First) /\ saved.declared = First
      /\ saved.restarts = 0 /\ restarts = 0 /\ pc = "running" /\ alarmed = FALSE
  BY DEF Init
<1>3. Len(file) = 0 /\ DOMAIN file = {}
  BY <1>2
<1>4. FileOK
  <2>1. \A k \in DOMAIN saved.declared : saved.table[k] = <<>>
    BY <1>2 DEF Unset
  <2>2. \A g \in 2 .. Len(file) : FALSE
    BY <1>3
  <2> QED
    BY <1>2, <1>3, <2>1, <2>2 DEF FileOK
<1>5. Phases
  BY <1>2 DEF Phases
<1> QED
  BY <1>1, <1>4, <1>5 DEF IInv

\* write_persistent_state() writes a file without broken text.
LEMMA SaveInvariant ==
  ASSUME IInv, WritePersistentState
  PROVE  IInv'
<1>1. TypeInv' /\ FileOK'
  BY SaveType, SaveFile DEF IInv
<1>2. /\ pc \in {"running", "unopened"} /\ pc' = pc /\ restarts' = restarts /\ alarmed' = FALSE
      /\ saved' = [table |-> table, declared |-> declared, restarts |-> restarts]
  BY DEF WritePersistentState
<1>3. saved'.restarts = restarts' /\ restarts' \in Nat
  BY <1>1, <1>2 DEF TypeInv
<1>4. Phases'
  BY <1>2, <1>3 DEF Phases
<1> QED
  BY <1>1, <1>4 DEF IInv

\* The editor breaks only what is then in touched.
LEMMA EditInvariant ==
  ASSUME IInv, Edit
  PROVE  IInv'
<1>1. TypeInv' /\ FileOK'
  BY EditType, EditFile DEF IInv
<1>2. /\ pc = "published" /\ edits' = edits + 1
      /\ UNCHANGED <<declared, table, saved, pc, alarmed, restarts>>
  BY DEF Edit
<1>3. Excused'
  <2>1. edits \in 0 .. MaxEdits
    BY DEF IInv, TypeInv, DiskType
  <2>2. edits' > 0
    BY <1>2, <2>1, BoundFacts
  <2> QED
    BY <2>2 DEF Excused
<1>4. table = Unset(declared) /\ saved.restarts < restarts
  BY <1>2 DEF IInv, Phases
<1>5. Phases'
  BY <1>2, <1>3, <1>4 DEF Phases
<1> QED
  BY <1>1, <1>5 DEF IInv

\* A new process has yet to load the file.
LEMMA RestartInvariant ==
  ASSUME IInv, Restart
  PROVE  IInv'
<1>1. TypeInv'
  BY RestartType DEF IInv
<1>2. /\ table' = Unset(declared') /\ pc' = "published" /\ alarmed' = FALSE
      /\ restarts' = restarts + 1 /\ UNCHANGED <<file, saved, touched, edits>>
  BY DEF Restart, disk
<1>3. FileOK'
  BY <1>2 DEF IInv, FileOK, Owner, Type, Vals
<1>4. saved'.restarts < restarts'
  <2>1. saved.restarts \in 0 .. restarts /\ restarts \in Nat
    BY DEF IInv, TypeInv, SavedType
  <2> QED
    BY <1>2, <2>1
<1>5. Phases'
  BY <1>2, <1>4 DEF Phases
<1> QED
  BY <1>1, <1>3, <1>5 DEF IInv

\* The parser begins before the first paragraph.
LEMMA LoadInvariant ==
  ASSUME IInv, LoadPersistentState
  PROVE  IInv'
<1>1. TypeInv'
  BY LoadType DEF IInv
<1>2. /\ pc \in {"published", "failed"} /\ rest' = Contents(file)
      /\ pc' \in IF file = <<>> THEN {"running"} ELSE {"read", "unopened"}
      /\ Steady /\ UNCHANGED <<table, alarmed>>
  BY DEF LoadPersistentState, disk, Steady
<1>3. FileOK' /\ Excused' = Excused
  BY <1>2, SteadyFacts DEF IInv
<1>4. Done(0)
  <2>1. CASE pc = "failed"
    BY <2>1 DEF IInv, Phases
  <2>2. CASE pc = "published"
    <3>1. table = Unset(declared)
      BY <2>2 DEF IInv, Phases
    <3>2. \A k \in Claimed : table[k] = <<>>
      BY <3>1 DEF Unset, Claimed
    <3>3. \A h \in 2 .. 0 : FALSE
      OBVIOUS
    <3> QED
      BY <3>2, <3>3 DEF Done
  <2> QED
    BY <1>2, <2>1, <2>2
<1>5. Done(0)'
  BY <1>2, <1>4, DoneSame
<1>6. file' = file /\ file \in Seq(Paragraph) /\ Len(file) \in Nat
  BY <1>2 DEF Steady, IInv, TypeInv, DiskType
<1>7. saved'.restarts < restarts' /\ (alarmed' => Excused')
  BY <1>2, <1>3 DEF IInv, Phases, Steady
<1>8. CASE file = <<>>
  <2>1. pc' = "running" /\ Len(file') = 0
    BY <1>2, <1>6, <1>8
  <2>2. Done(Len(file))'
    BY <1>5, <2>1
  <2> QED
    BY <1>1, <1>3, <1>7, <2>1, <2>2 DEF IInv, Phases
<1>9. CASE pc' = "unopened"
  BY <1>1, <1>3, <1>7, <1>9 DEF IInv, Phases
<1>10. CASE file # <<>> /\ pc' # "unopened"
  <2>1. pc' = "read"
    BY <1>2, <1>10
  <2>2. rest' = After(file', 0)
    BY <1>2, <1>6, ContentsFacts
  <2>3. AtParagraph(0)'
    BY <1>5, <2>1, <2>2 DEF AtParagraph
  <2>4. Parsing'
    BY <1>6, <2>3 DEF Parsing
  <2> QED
    BY <1>1, <1>3, <1>7, <2>1, <2>4 DEF IInv, Phases
<1> QED
  BY <1>8, <1>9, <1>10

\* Every step of the parser leads to one of its places.
LEMMA ParseInvariant ==
  ASSUME IInv, Parse
  PROVE  IInv'
<1>1. TypeInv /\ FileOK /\ (alarmed => Excused) /\ (pc = "flush" => alarmed)
  BY DEF IInv, Phases
<1>2. pc \in {"read", "assign", "value", "flush"}
  BY DEF Parse, ParseLine, ParseAssignment, ParseElement, ParseValueEnd, FlushContinuation
<1>3. Parsing /\ saved.restarts < restarts
  BY <1>2 DEF IInv, Phases
<1>4. Steady /\ Goes
  BY <1>1, <1>3, ParseGoes
<1>5. TypeInv'
  <2>1. [Next]_vars
    BY DEF Next
  <2> QED
    BY <1>1, <2>1, TypeStep
<1>6. FileOK' /\ Excused' = Excused
  BY <1>1, <1>4, SteadyFacts
<1>7. saved'.restarts < restarts'
  BY <1>3, <1>4 DEF Steady
<1>8. Phases'
  BY <1>4, <1>6, <1>7 DEF Phases, Goes
<1> QED
  BY <1>5, <1>6, <1>8 DEF IInv

\* Every step keeps the invariant.
LEMMA InvariantStep ==
  ASSUME IInv, [Next]_vars
  PROVE  IInv'
<1>1. CASE UNCHANGED vars
  <2>1. Steady /\ UNCHANGED <<table, pc, check, rest, line, cursor, key, values, alarmed>>
    BY <1>1 DEF vars, disk, parser, Steady
  <2>2. TypeInv'
    BY TypeStep DEF IInv
  <2>3. /\ FileOK' = FileOK /\ Excused' = Excused /\ file' = file /\ Broken' = Broken
        /\ \A g : Pristine(g)' = Pristine(g) /\ Owner(g)' = Owner(g)
        /\ \A g : Type(g)' = Type(g) /\ Vals(g)' = Vals(g)
        /\ \A k : Fits(k)' = Fits(k)
    BY <2>1, SteadyFacts DEF Steady
  <2>4. \A g : Done(g) => Done(g)'
    BY <2>1, DoneSame
  <2>5. Parsing => Parsing'
    BY <2>1, <2>3, <2>4 DEF Steady, Parsing, AtParagraph, Loose, Start, Value, Garbage
  <2> QED
    BY <2>1, <2>2, <2>3, <2>4, <2>5 DEF IInv, Phases, Steady
<1> QED
  BY <1>1, SaveInvariant, EditInvariant, RestartInvariant, LoadInvariant, ParseInvariant DEF Next

\* IInv is invariant.
LEMMA Invariant == Spec => []IInv
<1>1. Init => IInv
  BY InitInvariant
<1>2. IInv /\ [Next]_vars => IInv'
  BY InvariantStep
<1> QED
  BY <1>1, <1>2, PTL DEF Spec

\* A load brings back what was saved: every variable whose text nobody broke has its value
\* when the process runs.
THEOREM RestoredAlways == Spec => []Restored
<1>1. ASSUME IInv PROVE Restored
  <2> SUFFICES ASSUME pc = "running", saved.restarts < restarts,
                      NEW k \in DOMAIN declared \ Broken, Fits(k)
               PROVE  table[k] = Expected(k)
    BY DEF Restored
  <2>1. Done(Len(file)) /\ FileOK
    BY <1>1 DEF IInv, Phases
  <2>2. k \in Claimed
    BY DEF Claimed
  <2>3. CASE \E h \in 2 .. Len(file) : Owner(h) = k
    BY <2>1, <2>2, <2>3 DEF Done
  <2>4. CASE ~\E h \in 2 .. Len(file) : Owner(h) = k
    <3>1. k \in DOMAIN saved.declared
      BY DEF Fits
    <3>2. saved.table[k] = <<>>
      BY <2>1, <2>4, <3>1 DEF FileOK
    <3>3. Expected(k) = <<>>
      <4>1. declared[k].max \in Nat
        BY <1>1, DeclarationFacts DEF IInv, TypeInv
      <4> DEFINE back == [i \in DOMAIN saved.table[k] |-> ReadBack(declared[k].type, saved.table[k][i])]
      <4>2. DOMAIN saved.table[k] = {} /\ DOMAIN saved.table[k] = 1 .. 0
        BY <3>2
      <4>3. back = <<>>
        BY <4>2
      <4> HIDE DEF back
      <4>4. Expected(k) = IF Len(back) <= declared[k].max THEN back ELSE SubSeq(back, 1, declared[k].max)
        BY DEF Expected, Cut, back
      <4> QED
        BY <4>1, <4>3, <4>4
    <3>4. table[k] = <<>> \/ table[k] = Expected(k)
      BY <2>1, <2>2 DEF Done
    <3> QED
      BY <3>3, <3>4
  <2> QED
    BY <2>3, <2>4
<1> QED
  BY <1>1, Invariant, PTL

\* The library does not complain of what it has written itself.
THEOREM NoFalseAlarmAlways == Spec => []NoFalseAlarm
<1>1. ASSUME IInv PROVE NoFalseAlarm
  BY <1>1 DEF IInv, Phases, Excused, NoFalseAlarm
<1> QED
  BY <1>1, Invariant, PTL

===============================================================================
