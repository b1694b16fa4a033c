-------------------------- MODULE RequestTrace_proofs --------------------------
EXTENDS RequestTrace, SeqFunctions_proofs

-----------------------------------------------------------------------------
(* The two recursions of the parser, unfolded at their last element.       *)

\* A solution of the recursion of Split, for the first n bytes.
Splits(f, s, n) ==
  f = [i \in 0..n |-> IF i = 0 THEN [parts |-> <<>>, rest |-> <<>>] ELSE AddByte(f[i - 1], s[i])]

LEMMA SplitsExist ==
  ASSUME NEW s, NEW n \in Nat
  PROVE  \E f : Splits(f, s, n)
<1> DEFINE T == {m \in 0..n : \E f : Splits(f, s, m)}
<1>1. 0 \in T
  <2> DEFINE f == [i \in 0..0 |-> [parts |-> <<>>, rest |-> <<>>]]
  <2>1. Splits(f, s, 0)
    BY DEF Splits
  <2> QED
    BY <2>1
<1>2. ASSUME NEW m \in 0..n - 1, m \in T PROVE m + 1 \in T
  <2>1. PICK f : Splits(f, s, m)
    BY <1>2
  <2> DEFINE next == AddByte(f[m], s[m + 1])
             g == [i \in 0..m + 1 |-> IF i = m + 1 THEN next ELSE f[i]]
  <2>2. \A i \in 0..m : f[i] = IF i = 0 THEN [parts |-> <<>>,
  rest |-> <<>>] ELSE AddByte(f[i - 1], s[i])
    BY <2>1 DEF Splits
  <2>3. \A i \in 0..m + 1 : g[i] = IF i = 0 THEN [parts |-> <<>>,
  rest |-> <<>>] ELSE AddByte(g[i - 1], s[i])
    BY <2>2
  <2>4. Splits(g, s, m + 1)
    BY <2>3 DEF Splits
  <2> QED
    BY <2>4
<1> HIDE DEF T
<1>3. 0..n \subseteq T
  BY <1>1, <1>2, UpTo
<1> QED
  BY <1>3 DEF T

LEMMA SplitsAgree ==
  ASSUME NEW s, NEW t, NEW n \in Nat, NEW m \in Nat, n <= m,
         NEW f, NEW g, Splits(f, s, n), Splits(g, t, m), \A i \in 1..n : s[i] = t[i]
  PROVE  f[n] = g[n]
<1> DEFINE T == {i \in 0..n : f[i] = g[i]}
<1>1. \A i \in 0..n : f[i] = IF i = 0 THEN [parts |-> <<>>, rest |-> <<>>] ELSE AddByte(f[i - 1],
s[i])
  BY DEF Splits
<1>2. \A i \in 0..m : g[i] = IF i = 0 THEN [parts |-> <<>>, rest |-> <<>>] ELSE AddByte(g[i - 1],
t[i])
  BY DEF Splits
<1>3. 0 \in T
  BY <1>1, <1>2
<1>4. ASSUME NEW i \in 0..n - 1, i \in T PROVE i + 1 \in T
  <2>1. i + 1 \in 0..n /\ i + 1 \in 0..m /\ i + 1 \in 1..n /\ i + 1 # 0 /\ (i + 1) - 1 = i
    OBVIOUS
  <2>2. f[i] = g[i] /\ s[i + 1] = t[i + 1]
    BY <1>4, <2>1
  <2>3. f[i + 1] = AddByte(f[i], s[i + 1])
    BY <1>1, <2>1
  <2>4. g[i + 1] = AddByte(g[i], t[i + 1])
    BY <1>2, <2>1
  <2> QED
    BY <2>1, <2>2, <2>3, <2>4
<1> HIDE DEF T
<1>5. 0..n \subseteq T
  BY <1>3, <1>4, UpTo
<1> QED
  BY <1>5 DEF T

LEMMA SplitIs ==
  ASSUME NEW s, Len(s) \in Nat
  PROVE  \E f : Splits(f, s, Len(s)) /\ Split(s) = f[Len(s)]
<1> DEFINE h == CHOOSE f : Splits(f, s, Len(s))
<1>1. Splits(h, s, Len(s))
  <2>1. \E f : Splits(f, s, Len(s))
    BY SplitsExist
  <2> QED
    BY <2>1
<1>2. Split(s) = h[Len(s)]
  BY DEF Split, Splits
<1> QED
  BY <1>1, <1>2

LEMMA SplitEmpty ==
  Split(<<>>) = [parts |-> <<>>, rest |-> <<>>]
<1>1. Len(<<>>) = 0
  OBVIOUS
<1>2. PICK f : Splits(f, <<>>, 0) /\ Split(<<>>) = f[0]
  BY <1>1, SplitIs
<1> QED
  BY <1>2 DEF Splits

LEMMA SplitAppend ==
  ASSUME NEW S, NEW s \in Seq(S), NEW x \in S
  PROVE  Split(Append(s, x)) = AddByte(Split(s), x)
<1> DEFINE t == Append(s, x)
           n == Len(s)
<1>1. n \in Nat /\ Len(t) = n + 1 /\ t[n + 1] = x /\ \A i \in 1..n : s[i] = t[i]
  BY AppendFacts
<1> HIDE DEF t, n
<1>2. PICK f : Splits(f, s, n) /\ Split(s) = f[n]
  BY <1>1, SplitIs DEF n
<1>3. PICK g : Splits(g, t, n + 1) /\ Split(t) = g[n + 1]
  BY <1>1, SplitIs
<1>4. f[n] = g[n]
  BY <1>1, <1>2, <1>3, SplitsAgree
<1>5. g[n + 1] = AddByte(g[n], t[n + 1])
  <2>1. n + 1 \in 0..n + 1 /\ n + 1 # 0 /\ (n + 1) - 1 = n
    BY <1>1
  <2>2. \A i \in 0..n + 1 : g[i] = IF i = 0 THEN [parts |-> <<>>,
  rest |-> <<>>] ELSE AddByte(g[i - 1], t[i])
    BY <1>3 DEF Splits
  <2> QED
    BY <2>1, <2>2
<1>6. Split(t) = AddByte(Split(s), x)
  BY <1>1, <1>2, <1>3, <1>4, <1>5
<1> QED
  BY <1>6 DEF t

\* A solution of the recursion of TakeAll, for the first n events.
Takes(f, rec, s, n) ==
  f = [i \in 0..n |-> IF i = 0 THEN rec ELSE Take(f[i - 1], s[i])]

LEMMA TakesExist ==
  ASSUME NEW rec, NEW s, NEW n \in Nat
  PROVE  \E f : Takes(f, rec, s, n)
<1> DEFINE T == {m \in 0..n : \E f : Takes(f, rec, s, m)}
<1>1. 0 \in T
  <2> DEFINE f == [i \in 0..0 |-> rec]
  <2>1. Takes(f, rec, s, 0)
    BY DEF Takes
  <2> QED
    BY <2>1
<1>2. ASSUME NEW m \in 0..n - 1, m \in T PROVE m + 1 \in T
  <2>1. PICK f : Takes(f, rec, s, m)
    BY <1>2
  <2> DEFINE next == Take(f[m], s[m + 1])
             g == [i \in 0..m + 1 |-> IF i = m + 1 THEN next ELSE f[i]]
  <2>2. \A i \in 0..m : f[i] = IF i = 0 THEN rec ELSE Take(f[i - 1], s[i])
    BY <2>1 DEF Takes
  <2>3. \A i \in 0..m + 1 : g[i] = IF i = 0 THEN rec ELSE Take(g[i - 1], s[i])
    BY <2>2
  <2>4. Takes(g, rec, s, m + 1)
    BY <2>3 DEF Takes
  <2> QED
    BY <2>4
<1> HIDE DEF T
<1>3. 0..n \subseteq T
  BY <1>1, <1>2, UpTo
<1> QED
  BY <1>3 DEF T

LEMMA TakesAgree ==
  ASSUME NEW rec, NEW s, NEW t, NEW n \in Nat, NEW m \in Nat, n <= m,
         NEW f, NEW g, Takes(f, rec, s, n), Takes(g, rec, t, m), \A i \in 1..n : s[i] = t[i]
  PROVE  f[n] = g[n]
<1> DEFINE T == {i \in 0..n : f[i] = g[i]}
<1>1. \A i \in 0..n : f[i] = IF i = 0 THEN rec ELSE Take(f[i - 1], s[i])
  BY DEF Takes
<1>2. \A i \in 0..m : g[i] = IF i = 0 THEN rec ELSE Take(g[i - 1], t[i])
  BY DEF Takes
<1>3. 0 \in T
  BY <1>1, <1>2
<1>4. ASSUME NEW i \in 0..n - 1, i \in T PROVE i + 1 \in T
  <2>1. i + 1 \in 0..n /\ i + 1 \in 0..m /\ i + 1 \in 1..n /\ i + 1 # 0 /\ (i + 1) - 1 = i
    OBVIOUS
  <2>2. f[i] = g[i] /\ s[i + 1] = t[i + 1]
    BY <1>4, <2>1
  <2>3. f[i + 1] = Take(f[i], s[i + 1])
    BY <1>1, <2>1
  <2>4. g[i + 1] = Take(g[i], t[i + 1])
    BY <1>2, <2>1
  <2> QED
    BY <2>1, <2>2, <2>3, <2>4
<1> HIDE DEF T
<1>5. 0..n \subseteq T
  BY <1>3, <1>4, UpTo
<1> QED
  BY <1>5 DEF T

LEMMA TakeAllIs ==
  ASSUME NEW rec, NEW s, Len(s) \in Nat
  PROVE  \E f : Takes(f, rec, s, Len(s)) /\ TakeAll(rec, s) = f[Len(s)]
<1> DEFINE h == CHOOSE f : Takes(f, rec, s, Len(s))
<1>1. Takes(h, rec, s, Len(s))
  <2>1. \E f : Takes(f, rec, s, Len(s))
    BY TakesExist
  <2> QED
    BY <2>1
<1>2. TakeAll(rec, s) = h[Len(s)]
  BY DEF TakeAll, Takes
<1> QED
  BY <1>1, <1>2

LEMMA TakeAllEmpty ==
  ASSUME NEW rec
  PROVE  TakeAll(rec, <<>>) = rec
<1>1. Len(<<>>) = 0
  OBVIOUS
<1>2. PICK f : Takes(f, rec, <<>>, 0) /\ TakeAll(rec, <<>>) = f[0]
  BY <1>1, TakeAllIs
<1> QED
  BY <1>2 DEF Takes

LEMMA TakeAllAppend ==
  ASSUME NEW rec, NEW S, NEW s \in Seq(S), NEW x \in S
  PROVE  TakeAll(rec, Append(s, x)) = Take(TakeAll(rec, s), x)
<1> DEFINE t == Append(s, x)
           n == Len(s)
<1>1. n \in Nat /\ Len(t) = n + 1 /\ t[n + 1] = x /\ \A i \in 1..n : s[i] = t[i]
  BY AppendFacts
<1> HIDE DEF t, n
<1>2. PICK f : Takes(f, rec, s, n) /\ TakeAll(rec, s) = f[n]
  BY <1>1, TakeAllIs DEF n
<1>3. PICK g : Takes(g, rec, t, n + 1) /\ TakeAll(rec, t) = g[n + 1]
  BY <1>1, TakeAllIs
<1>4. f[n] = g[n]
  BY <1>1, <1>2, <1>3, TakesAgree
<1>5. g[n + 1] = Take(g[n], t[n + 1])
  <2>1. n + 1 \in 0..n + 1 /\ n + 1 # 0 /\ (n + 1) - 1 = n
    BY <1>1
  <2>2. \A i \in 0..n + 1 : g[i] = IF i = 0 THEN rec ELSE Take(g[i - 1], t[i])
    BY <1>3 DEF Takes
  <2> QED
    BY <2>1, <2>2
<1>6. TakeAll(rec, t) = Take(TakeAll(rec, s), x)
  BY <1>1, <1>2, <1>3, <1>4, <1>5
<1> QED
  BY <1>6 DEF t

-----------------------------------------------------------------------------
(* The text of a stream is what it holds apart from the carriage returns.  *)

TextBytes == Lines \cup {"N"}

Strip(s) == Pick(s, {i \in DOMAIN s : s[i] # "R"})

LEMMA StripEmpty == Strip(<<>>) = <<>>
  BY PickEmpty DEF Strip

LEMMA StripAppend ==
  ASSUME NEW s \in Seq(Bytes), NEW x \in Bytes
  PROVE  Strip(Append(s, x)) = IF x = "R" THEN Strip(s) ELSE Append(Strip(s), x)
<1> DEFINE t == Append(s, x)
           at == {i \in DOMAIN s : s[i] # "R"}
           bt == {i \in DOMAIN t : t[i] # "R"}
<1>1. /\ Len(s) \in Nat /\ DOMAIN s = 1..Len(s) /\ DOMAIN t = 1..Len(s) + 1
      /\ t[Len(s) + 1] = x /\ \A i \in 1..Len(s) : t[i] = s[i]
  OBVIOUS
<1>3. (Len(s) + 1 \in bt <=> x # "R") /\ \A i \in 1..Len(s) : i \in at <=> i \in bt
  <2> HIDE DEF t
  <2>1. /\ Len(s) + 1 \in DOMAIN t
        /\ \A i \in 1..Len(s) : i \in DOMAIN s /\ i \in DOMAIN t /\ t[i] = s[i]
    BY <1>1
  <2> QED
    BY <1>1, <2>1
<1> HIDE DEF at, bt
<1>2. Pick(t, bt) = IF Len(s) + 1 \in bt THEN Append(Pick(s, bt), x) ELSE Pick(s, bt)
  BY PickAppend
<1>4. Pick(s, at) = Pick(s, bt)
  BY <1>3, PickSame
<1> QED
  BY <1>2, <1>3, <1>4 DEF Strip, at, bt

LEMMA StripType ==
  ASSUME NEW s \in Seq(Bytes)
  PROVE  Strip(s) \in Seq(TextBytes)
<1>1. \A i \in 1..Len(s) : i \in {j \in DOMAIN s : s[j] # "R"} => s[i] \in TextBytes
  <2>1. \A i \in 1..Len(s) : s[i] \in Bytes
    OBVIOUS
  <2> QED
    BY <2>1 DEF Bytes, TextBytes
<1> QED
  BY <1>1, PickType DEF Strip

LEMMA StripConcat ==
  ASSUME NEW s \in Seq(Bytes), NEW u \in Seq(Bytes)
  PROVE  Strip(s \o u) = Strip(s) \o Strip(u)
<1> DEFINE T == {v \in Seq(Bytes) : Strip(s \o v) = Strip(s) \o Strip(v)}
<1>1. <<>> \in T
  <2>1. s \o <<>> = s /\ Strip(s) \o <<>> = Strip(s)
    BY ConcatEmpty, StripType
  <2>2. Strip(s \o <<>>) = Strip(s) \o Strip(<<>>)
    BY <2>1, StripEmpty
  <2>3. <<>> \in Seq(Bytes)
    OBVIOUS
  <2> QED
    BY <2>2, <2>3
<1>2. ASSUME NEW v \in Seq(Bytes), NEW x \in Bytes, v \in T PROVE Append(v, x) \in T
  <2>1. /\ s \o Append(v, x) = Append(s \o v, x) /\ s \o v \in Seq(Bytes)
        /\ Append(v, x) \in Seq(Bytes)
    BY ConcatAppend
  <2>2. Strip(s \o v) = Strip(s) \o Strip(v)
    BY <1>2
  <2>3. Strip(Append(s \o v, x)) = IF x = "R" THEN Strip(s \o v) ELSE Append(Strip(s \o v), x)
    BY <2>1, StripAppend
  <2>4. Strip(Append(v, x)) = IF x = "R" THEN Strip(v) ELSE Append(Strip(v), x)
    BY StripAppend
  <2>5. x # "R" => Strip(s) \o Append(Strip(v), x) = Append(Strip(s) \o Strip(v), x)
    <3>1. x # "R" => x \in TextBytes
      BY DEF Bytes, TextBytes
    <3> QED
      BY <3>1, StripType, ConcatAppend
  <2>6. Strip(s \o Append(v, x)) = Strip(s) \o Strip(Append(v, x))
    BY <2>1, <2>2, <2>3, <2>4, <2>5
  <2> QED
    BY <2>1, <2>6
<1> HIDE DEF T
<1>3. u \in T
  BY <1>1, <1>2, SeqInduction
<1> QED
  BY <1>3 DEF T

LEMMA StripText ==
  ASSUME NEW s \in Seq(TextBytes)
  PROVE  Strip(s) = s /\ s \in Seq(Bytes)
<1> DEFINE T == {v \in Seq(TextBytes) : Strip(v) = v}
<1>0. TextBytes \subseteq Bytes /\ "R" \notin TextBytes
  BY DEF TextBytes, Bytes, Lines, DataLines, TextLines
<1>1. \A v \in Seq(TextBytes) : v \in Seq(Bytes)
  BY <1>0
<1>2. <<>> \in T
  BY StripEmpty
<1>3. ASSUME NEW v \in Seq(TextBytes), NEW x \in TextBytes, v \in T PROVE Append(v, x) \in T
  <2>1. Strip(Append(v, x)) = Append(Strip(v), x)
    BY <1>0, <1>1, StripAppend
  <2> QED
    BY <1>3, <2>1
<1> HIDE DEF T
<1>4. s \in T
  BY <1>2, <1>3, SeqInduction
<1> QED
  BY <1>1, <1>4 DEF T

\* Every carriage return has its newline, but one at the end may not have it yet.
Proper(s) == \A i \in 1..Len(s) - 1 : s[i] = "R" => s[i + 1] = "N"

\* What replace(b"\r\n", b"\n") makes of such bytes.
LEMMA NormalizeProper ==
  ASSUME NEW s \in Seq(Bytes), Proper(s)
  PROVE  Normalize(s) = IF EndsWith(s, "R") THEN Append(Strip(s), "R") ELSE Strip(s)
<1> DEFINE at == {i \in DOMAIN s : ~(s[i] = "R" /\ i < Len(s) /\ s[i + 1] = "N")}
<1>1. CASE s = <<>>
  BY <1>1, PickEmpty, StripEmpty DEF Normalize, EndsWith
<1> HIDE DEF at
<1>2. CASE s # <<>>
  <2>1. PICK t \in Seq(Bytes), x \in Bytes : s = Append(t, x)
    BY <1>2, NotEmpty
  <2> DEFINE n == Len(t)
             bt == {i \in DOMAIN t : t[i] # "R"}
  <2>2. n \in Nat /\ Len(s) = n + 1 /\ DOMAIN s = 1..n + 1 /\ DOMAIN t = 1..n
    BY <2>1, AppendFacts
  <2>4. s[n + 1] = x /\ \A i \in 1..n : s[i] = t[i]
    BY <2>1, AppendFacts
  <2> HIDE DEF n, bt
  <2>5. \A i \in 1..n : i \in at <=> i \in bt
    <3>1. \A i \in 1..n : i \in DOMAIN s /\ i \in DOMAIN t /\ i < Len(s) /\ i \in 1..Len(s) - 1
      BY <2>2
    <3>2. \A i \in 1..n : s[i] = "R" => s[i + 1] = "N"
      BY <3>1 DEF Proper
    <3> QED
      BY <2>4, <3>1, <3>2 DEF at, bt
  <2>6. n + 1 \in at
    BY <2>2 DEF at
  <2>7. Pick(s, at) = Append(Pick(t, at), x)
    BY <2>1, <2>6, PickAppend DEF n
  <2>8. Pick(t, at) = Strip(t)
    <3>1. Pick(t, at) = Pick(t, bt)
      BY <2>5, PickSame DEF n
    <3> QED
      BY <3>1 DEF Strip, bt
  <2>9. Normalize(s) = Append(Strip(t), x)
    BY <2>7, <2>8 DEF Normalize, at
  <2>10. EndsWith(s, "R") <=> x = "R"
    BY <1>2, <2>2, <2>4 DEF EndsWith, Last
  <2> QED
    BY <2>1, <2>9, <2>10, StripAppend
<1> QED
  BY <1>1, <1>2

-----------------------------------------------------------------------------
(* The rest of a text: what stays in the buffer when all of it was parsed. *)

\* Where the rest begins, the positions up to here are those of the text
\* whose events have ended.
Scanned(text, rest) ==
  /\ text \in Seq(TextBytes) /\ rest \in Seq(TextBytes)
  /\ Len(rest) <= Len(text)
  /\ \A i \in 1..Len(rest) : rest[i] = text[Len(text) - Len(rest) + i]
  /\ \A i \in 1..Len(rest) - 1 : ~(rest[i] = "N" /\ rest[i + 1] = "N")
  /\ \A i \in 1..Len(text) - Len(rest) : text[i] \in Lines => Closed(text, i)

Cut(text, rest) == Len(text) - Len(rest)

LEMMA NewlineIsNoLine == "N" \notin Lines /\ DataLines \subseteq Lines /\ Lines \subseteq TextBytes
  BY DEF Lines, DataLines, TextLines, TextBytes

LEMMA CutFacts ==
  ASSUME NEW text, NEW rest, Scanned(text, rest)
  PROVE  /\ Len(text) \in Nat /\ Len(rest) \in Nat /\ Cut(text, rest) \in Nat
         /\ Cut(text, rest) + Len(rest) = Len(text) /\ DOMAIN text = 1..Len(text)
         /\ \A k \in Cut(text, rest) + 1..Len(text) - 1 : ~(text[k] = "N" /\ text[k + 1] = "N")
<1>1. text \in Seq(TextBytes) /\ rest \in Seq(TextBytes) /\ Len(rest) <= Len(text)
  BY DEF Scanned
<1>2. /\ Len(text) \in Nat /\ Len(rest) \in Nat /\ Cut(text, rest) \in Nat
      /\ Cut(text, rest) + Len(rest) = Len(text) /\ DOMAIN text = 1..Len(text)
  BY <1>1 DEF Cut
<1>3. ASSUME NEW k \in Cut(text,
rest) + 1..Len(text) - 1 PROVE ~(text[k] = "N" /\ text[k + 1] = "N")
  <2> DEFINE i == k - Cut(text, rest)
  <2>1. i \in 1..Len(rest) - 1 /\ i \in 1..Len(rest) /\ i + 1 \in 1..Len(rest)
    BY <1>2
  <2>2. Cut(text, rest) + i = k /\ Cut(text, rest) + (i + 1) = k + 1
    BY <1>2
  <2> HIDE DEF i
  <2>3. rest[i] = text[k] /\ rest[i + 1] = text[k + 1]
    BY <2>1, <2>2 DEF Scanned, Cut
  <2> QED
    BY <2>1, <2>3 DEF Scanned
<1> QED
  BY <1>2, <1>3

\* No blank line lies within the rest, ...
LEMMA SeparatedWithin ==
  ASSUME NEW text, NEW rest, Scanned(text, rest),
         NEW i \in Cut(text, rest) + 1..Len(text), NEW j \in Cut(text, rest) + 1..Len(text)
  PROVE  ~Separated(text, i, j)
<1>1. \A k \in i + 1..j - 1 : k \in Cut(text, rest) + 1..Len(text) - 1
  BY CutFacts
<1> QED
  BY <1>1, CutFacts DEF Separated

\* ... and one lies before every line of it.
LEMMA SeparatedAcross ==
  ASSUME NEW text, NEW rest, Scanned(text, rest),
         NEW i \in 1..Cut(text, rest), text[i] \in Lines,
         NEW j \in Cut(text, rest) + 1..Len(text), text[j] \in Lines
  PROVE  Separated(text, i, j)
<1>1. Closed(text, i)
  BY DEF Scanned, Cut
<1>2. PICK k \in i + 1..Len(text) - 1 : text[k] = "N" /\ text[k + 1] = "N"
  BY <1>1 DEF Closed, Separated
<1>3. k \in Int /\ ~(k \in Cut(text, rest) + 1..Len(text) - 1)
  BY <1>2, CutFacts
<1>4. k <= Cut(text, rest)
  BY <1>2, <1>3, CutFacts
<1>5. k # j /\ k + 1 # j
  BY <1>2, NewlineIsNoLine
<1>6. k \in i + 1..j - 1
  BY <1>4, <1>5, CutFacts
<1> QED
  BY <1>2, <1>6 DEF Separated

\* The lines whose events have ended are those before the rest.
LEMMA ClosedIs ==
  ASSUME NEW text, NEW rest, Scanned(text, rest), NEW i \in 1..Len(text), text[i] \in Lines
  PROVE  Closed(text, i) <=> i <= Cut(text, rest)
<1>1. ASSUME i <= Cut(text, rest) PROVE Closed(text, i)
  <2>1. i \in 1..Len(text) - Len(rest)
    BY <1>1, CutFacts DEF Cut
  <2> QED
    BY <2>1 DEF Scanned
<1>2. ASSUME ~(i <= Cut(text, rest)) PROVE ~Closed(text, i)
  <2>1. i \in Cut(text, rest) + 1..Len(text) /\ Len(text) \in Cut(text, rest) + 1..Len(text)
    BY <1>2, CutFacts
  <2> QED
    BY <2>1, SeparatedWithin DEF Closed
<1> QED
  BY <1>1, <1>2

Bad(line) == line \in {"error", "garbage"}

LEMMA MalformedIs ==
  ASSUME NEW text, NEW rest, Scanned(text, rest)
  PROVE  Malformed(text) =
           {i \in 1..Cut(text, rest) :
              /\ text[i] \in DataLines
              /\ \/ Bad(text[i])
                 \/ \E j \in i + 1..Cut(text, rest) :
                      text[j] \in DataLines /\ ~Separated(text, i, j)}
<1>1. ASSUME NEW i \in DOMAIN text, text[i] \in DataLines
      PROVE  Closed(text, i) <=> i \in 1..Cut(text, rest)
  BY <1>1, ClosedIs, CutFacts, NewlineIsNoLine
<1>2. ASSUME NEW i \in 1..Cut(text, rest), text[i] \in DataLines,
             NEW j \in i + 1..Len(text), text[j] \in DataLines, ~Separated(text, i, j)
      PROVE  j \in i + 1..Cut(text, rest)
  <2>1. j \notin Cut(text, rest) + 1..Len(text)
    BY <1>2, SeparatedAcross, NewlineIsNoLine
  <2> QED
    BY <2>1, CutFacts
<1>3. /\ 1..Cut(text, rest) \subseteq DOMAIN text
      /\ \A i \in 1..Cut(text, rest) : i + 1..Cut(text, rest) \subseteq i + 1..Len(text)
  BY CutFacts
<1> QED
  BY <1>1, <1>2, <1>3 DEF Malformed, Bad

LEMMA DeliveredIs ==
  ASSUME NEW text, NEW rest, Scanned(text, rest)
  PROVE  Delivered(text) = {i \in 1..Cut(text, rest) :
                              text[i] \in DataLines /\ \A j \in Malformed(text) : i < j}
<1>1. ASSUME NEW i \in DOMAIN text, text[i] \in DataLines
      PROVE  Closed(text, i) <=> i \in 1..Cut(text, rest)
  BY <1>1, ClosedIs, CutFacts, NewlineIsNoLine
<1>2. 1..Cut(text, rest) \subseteq DOMAIN text
  BY CutFacts
<1> QED
  BY <1>1, <1>2 DEF Delivered

-----------------------------------------------------------------------------
(* One more byte of a text.                                                *)

LEMMA LongerText ==
  ASSUME NEW text \in Seq(TextBytes), NEW b \in TextBytes
  PROVE  /\ Append(text, b) \in Seq(TextBytes) /\ Len(text) \in Nat
         /\ Len(Append(text, b)) = Len(text) + 1 /\ Append(text, b)[Len(text) + 1] = b
         /\ \A i \in 1..Len(text) : Append(text, b)[i] = text[i]
         /\ \A i, j \in 1..Len(text) : Separated(Append(text, b), i, j) <=> Separated(text, i, j)
         /\ \A i \in 1..Len(text) : Closed(text, i) => Closed(Append(text, b), i)
<1> DEFINE a == Append(text, b)
<1>1. /\ a \in Seq(TextBytes) /\ Len(text) \in Nat /\ Len(a) = Len(text) + 1
      /\ a[Len(text) + 1] = b /\ \A i \in 1..Len(text) : a[i] = text[i]
  BY AppendFacts
<1> HIDE DEF a
<1>2. ASSUME NEW i \in 1..Len(text), NEW j \in 1..Len(text)
      PROVE  Separated(a, i, j) <=> Separated(text, i, j)
  <2>1. \A k \in i + 1..j - 1 : k \in 1..Len(text) /\ k + 1 \in 1..Len(text)
    BY <1>1
  <2>2. \A k \in i + 1..j - 1 : a[k] = text[k] /\ a[k + 1] = text[k + 1]
    BY <1>1, <2>1
  <2> QED
    BY <2>2 DEF Separated
<1>3. ASSUME NEW i \in 1..Len(text), Closed(text, i)
      PROVE  Closed(a, i)
  <2>1. PICK k \in i + 1..Len(text) - 1 : text[k] = "N" /\ text[k + 1] = "N"
    BY <1>3 DEF Closed, Separated
  <2>2. k \in 1..Len(text) /\ k + 1 \in 1..Len(text) /\ k \in i + 1..Len(a) - 1
    BY <1>1
  <2>3. a[k] = "N" /\ a[k + 1] = "N"
    BY <1>1, <2>1, <2>2
  <2> QED
    BY <2>2, <2>3 DEF Closed, Separated
<1> QED
  BY <1>1, <1>2, <1>3 DEF a

LEMMA StepKeeps ==
  ASSUME NEW text, NEW rest, Scanned(text, rest), NEW b \in TextBytes,
         ~(b = "N" /\ EndsWith(rest, "N"))
  PROVE  /\ Scanned(Append(text, b), Append(rest, b))
         /\ Cut(Append(text, b), Append(rest, b)) = Cut(text, rest)
<1> DEFINE a == Append(text, b)
           q == Append(rest, b)
<1>0. text \in Seq(TextBytes) /\ rest \in Seq(TextBytes)
  BY DEF Scanned
<1>1. /\ a \in Seq(TextBytes) /\ Len(text) \in Nat /\ Len(a) = Len(text) + 1
      /\ a[Len(text) + 1] = b /\ \A i \in 1..Len(text) : a[i] = text[i]
  BY <1>0, LongerText
<1>2. /\ q \in Seq(TextBytes) /\ Len(rest) \in Nat /\ Len(q) = Len(rest) + 1
      /\ q[Len(rest) + 1] = b /\ \A i \in 1..Len(rest) : q[i] = rest[i]
  BY <1>0, AppendFacts
<1>3. \A i \in 1..Len(text) : Closed(text, i) => Closed(a, i)
  BY <1>0, LongerText
<1> HIDE DEF a, q
<1>4. Cut(a, q) = Cut(text, rest) /\ Len(q) <= Len(a)
  BY <1>1, <1>2, CutFacts DEF Cut
<1>5. ASSUME NEW i \in 1..Len(q) PROVE q[i] = a[Len(a) - Len(q) + i]
  <2>1. CASE i = Len(rest) + 1
    <3>1. Len(a) - Len(q) + i = Len(text) + 1
      BY <1>1, <1>2, <2>1
    <3> QED
      BY <1>1, <1>2, <2>1, <3>1
  <2>2. CASE i # Len(rest) + 1
    <3>1. /\ i \in 1..Len(rest) /\ Len(a) - Len(q) + i = Len(text) - Len(rest) + i
          /\ Len(text) - Len(rest) + i \in 1..Len(text)
      BY <1>1, <1>2, <2>2, CutFacts
    <3>2. rest[i] = text[Len(text) - Len(rest) + i]
      BY <3>1 DEF Scanned
    <3> QED
      BY <1>1, <1>2, <3>1, <3>2
  <2> QED
    BY <2>1, <2>2
<1>6. ASSUME NEW i \in 1..Len(q) - 1 PROVE ~(q[i] = "N" /\ q[i + 1] = "N")
  <2>1. CASE i = Len(rest)
    <3>1. i \in 1..Len(rest) /\ rest # <<>>
      BY <1>2, <2>1
    <3>2. rest[i] = "N" => EndsWith(rest, "N")
      BY <2>1, <3>1 DEF EndsWith, Last
    <3> QED
      BY <1>2, <2>1, <3>1, <3>2
  <2>2. CASE i # Len(rest)
    <3>1. i \in 1..Len(rest) - 1 /\ i \in 1..Len(rest) /\ i + 1 \in 1..Len(rest)
      BY <1>2, <2>2
    <3>2. q[i] = rest[i] /\ q[i + 1] = rest[i + 1]
      BY <1>2, <3>1
    <3> QED
      BY <3>1, <3>2 DEF Scanned
  <2> QED
    BY <2>1, <2>2
<1>7. ASSUME NEW i \in 1..Len(a) - Len(q), a[i] \in Lines PROVE Closed(a, i)
  <2>1. i \in 1..Len(text) - Len(rest) /\ i \in 1..Len(text)
    BY <1>1, <1>2, CutFacts
  <2>2. Closed(text, i)
    BY <1>1, <1>7, <2>1 DEF Scanned
  <2> QED
    BY <1>3, <2>1, <2>2
<1>8. Scanned(a, q)
  BY <1>1, <1>2, <1>4, <1>5, <1>6, <1>7 DEF Scanned
<1> QED
  BY <1>4, <1>8 DEF a, q

\* The newline that ends an event leaves no rest.
LEMMA StepEnds ==
  ASSUME NEW text, NEW rest, Scanned(text, rest), EndsWith(rest, "N")
  PROVE  /\ Scanned(Append(text, "N"), <<>>)
         /\ Cut(Append(text, "N"), <<>>) = Len(text) + 1
         /\ Len(text) > 0 /\ text[Len(text)] = "N"
<1> DEFINE a == Append(text, "N")
<1>0. text \in Seq(TextBytes) /\ rest \in Seq(TextBytes) /\ "N" \in TextBytes
  BY DEF Scanned, TextBytes
<1>1. /\ a \in Seq(TextBytes) /\ Len(text) \in Nat /\ Len(a) = Len(text) + 1
      /\ a[Len(text) + 1] = "N" /\ \A i \in 1..Len(text) : a[i] = text[i]
  BY <1>0, LongerText
<1>2. \A i \in 1..Len(text) : Closed(text, i) => Closed(a, i)
  BY <1>0, LongerText
<1> HIDE DEF a
<1>3. Len(text) > 0 /\ text[Len(text)] = "N"
  <2>1. rest # <<>> /\ rest[Len(rest)] = "N"
    BY DEF EndsWith, Last
  <2>2. Len(rest) \in 1..Len(rest)
    BY <1>0, <2>1
  <2>3. rest[Len(rest)] = text[Len(text) - Len(rest) + Len(rest)]
    BY <2>2 DEF Scanned
  <2>4. Len(text) - Len(rest) + Len(rest) = Len(text) /\ Len(text) > 0
    BY <2>2, CutFacts
  <2> QED
    BY <2>1, <2>3, <2>4
<1>4. ASSUME NEW i \in 1..Len(a), a[i] \in Lines PROVE Closed(a, i)
  <2>1. i # Len(text) + 1 /\ i # Len(text)
    <3>1. Len(text) \in 1..Len(text)
      BY <1>1, <1>3
    <3> QED
      BY <1>1, <1>3, <1>4, <3>1, NewlineIsNoLine
  <2>2. /\ i \in 1..Len(text) /\ Len(text) \in 1..Len(text)
        /\ Len(text) \in i + 1..Len(a) - 1
    BY <1>1, <1>3, <2>1
  <2>3. a[Len(text)] = "N" /\ a[Len(text) + 1] = "N"
    BY <1>1, <1>3, <2>2
  <2> QED
    BY <2>2, <2>3 DEF Closed, Separated
<1>5. Len(<<>>) = 0 /\ <<>> \in Seq(TextBytes) /\ Len(a) - 0 = Len(a) /\ 0 <= Len(a)
  BY <1>1
<1>6. 1..Len(<<>>) = {} /\ 1..Len(<<>>) - 1 = {}
  BY <1>5
<1>7. Scanned(a, <<>>) /\ Cut(a, <<>>) = Len(text) + 1
  BY <1>1, <1>4, <1>5, <1>6 DEF Scanned, Cut
<1> QED
  BY <1>3, <1>7 DEF a

-----------------------------------------------------------------------------
(* What a byte does to the text's malformed and delivered lines.           *)

LEMMA TextsPrefix ==
  ASSUME NEW text \in Seq(TextBytes), NEW b \in TextBytes, NEW at, at \subseteq 1..Len(text)
  PROVE  TextsAt(Append(text, b), at) = TextsAt(text, at)
<1> DEFINE a == Append(text, b)
           here == {i \in at : text[i] \in TextLines}
           there == {i \in at : a[i] \in TextLines}
<1>1. Len(text) \in Nat /\ \A i \in 1..Len(text) : a[i] = text[i]
  BY LongerText
<1>2. here = there /\ Len(text) + 1 \notin there
  <2> HIDE DEF a
  <2>1. Len(text) + 1 \notin at
    BY <1>1
  <2> QED
    BY <1>1, <2>1
<1> HIDE DEF here, there
<1>3. Pick(a, there) = Pick(text, there)
  BY <1>2, PickAppend
<1> QED
  BY <1>2, <1>3 DEF TextsAt, here, there

\* No event with data ends: nothing changes.
LEMMA NothingEnds ==
  ASSUME NEW text, NEW rest, Scanned(text, rest), NEW b \in TextBytes,
         NEW q, Scanned(Append(text, b), q),
         Cut(text, rest) <= Cut(Append(text, b), q),
         \A i \in Cut(text, rest) + 1..Cut(Append(text, b), q) :
           Append(text, b)[i] \notin DataLines
  PROVE  /\ Malformed(Append(text, b)) = Malformed(text)
         /\ Delivered(Append(text, b)) = Delivered(text)
         /\ TextsAt(Append(text, b), Delivered(text)) = TextsAt(text, Delivered(text))
         /\ \A i \in Delivered(text) : Append(text, b)[i] = text[i]
<1> DEFINE a == Append(text, b)
           d == Cut(text, rest)
           e == Cut(a, q)
<1>0. text \in Seq(TextBytes)
  BY DEF Scanned
<1>1. /\ \A i \in 1..Len(text) : a[i] = text[i]
      /\ \A i, j \in 1..Len(text) : Separated(a, i, j) <=> Separated(text, i, j)
  BY <1>0, LongerText
<1>2. d \in Nat /\ d <= Len(text) /\ Len(text) \in Nat
  BY CutFacts
<1>3. e \in Nat /\ d <= e
  BY CutFacts
<1>4. Scanned(a, q) /\ \A i \in d + 1..e : a[i] \notin DataLines
  OBVIOUS
<1> HIDE DEF a, d, e
<1>5. /\ \A i \in 1..d : i \in 1..Len(text) /\ i \in 1..e /\ a[i] = text[i]
      /\ \A i, j \in 1..d : Separated(a, i, j) <=> Separated(text, i, j)
      /\ \A i \in 1..e : a[i] \in DataLines => i \in 1..d
  BY <1>1, <1>2, <1>3, <1>4
<1>6. Malformed(a) = {i \in 1..e : /\ a[i] \in DataLines
                                   /\ \/ Bad(a[i])
                                      \/ \E j \in i + 1..e : a[j] \in DataLines
                                                             /\ ~Separated(a, i, j)}
  BY <1>4, MalformedIs DEF e
<1>7. Malformed(text) = {i \in 1..d : /\ text[i] \in DataLines
                                      /\ \/ Bad(text[i])
                                         \/ \E j \in i + 1..d : text[j] \in DataLines
                                                                /\ ~Separated(text, i, j)}
  BY MalformedIs DEF d
<1>8. Malformed(a) = Malformed(text)
  <2>1. \A i \in 1..d : \A j \in i + 1..d : j \in 1..d /\ j \in i + 1..e
    BY <1>2, <1>3
  <2>2. \A i \in 1..d : \A j \in i + 1..e : a[j] \in DataLines => j \in i + 1..d
    BY <1>2, <1>3, <1>4
  <2> QED
    BY <1>5, <1>6, <1>7, <2>1, <2>2
<1>9. Delivered(a) = {i \in 1..e : a[i] \in DataLines /\ \A j \in Malformed(a) : i < j}
  BY <1>4, DeliveredIs DEF e
<1>10. Delivered(text) = {i \in 1..d : text[i] \in DataLines /\ \A j \in Malformed(text) : i < j}
  BY DeliveredIs DEF d
<1>11. Delivered(a) = Delivered(text) /\ Delivered(text) \subseteq 1..Len(text)
  BY <1>5, <1>8, <1>9, <1>10
<1>12. TextsAt(a, Delivered(text)) = TextsAt(text, Delivered(text))
  BY <1>0, <1>11, TextsPrefix DEF a
<1> QED
  BY <1>1, <1>8, <1>11, <1>12 DEF a

\* The data lines of the rest.
NewData(text, rest) == {i \in Cut(text, rest) + 1..Len(text) : text[i] \in DataLines}

\* An event ends.
LEMMA EventEnds ==
  ASSUME NEW text, NEW rest, Scanned(text, rest), EndsWith(rest, "N")
  PROVE  /\ Malformed(Append(text, "N")) =
              Malformed(text) \cup {i \in NewData(text, rest) :
                                      Bad(text[i]) \/ \E j \in NewData(text, rest) : i < j}
         /\ Delivered(Append(text, "N")) =
              IF Malformed(text) # {} THEN Delivered(text)
              ELSE Delivered(text)
                     \cup {i \in NewData(text, rest) :
                             \A j \in Malformed(Append(text, "N")) : i < j}
         /\ Malformed(text) \subseteq 1..Cut(text, rest)
         /\ Delivered(text) \subseteq 1..Cut(text, rest)
<1> DEFINE a == Append(text, "N")
           d == Cut(text, rest)
           n == Len(text)
           D == NewData(text, rest)
<1>0. text \in Seq(TextBytes) /\ "N" \in TextBytes
  BY DEF Scanned, TextBytes
<1>1. /\ \A i \in 1..n : a[i] = text[i]
      /\ \A i, j \in 1..n : Separated(a, i, j) <=> Separated(text, i, j)
      /\ a[n + 1] = "N"
  BY <1>0, LongerText
<1>2. d \in Nat /\ d <= n /\ n \in Nat
  BY CutFacts
<1>3. Scanned(a, <<>>) /\ Cut(a, <<>>) = n + 1
  BY StepEnds
<1>4. /\ D = {i \in d + 1..n : text[i] \in DataLines}
      /\ \A i, j \in D : ~Separated(text, i, j)
      /\ \A i \in 1..d, j \in D : text[i] \in DataLines => Separated(text, i, j)
  <2>1. D = {i \in d + 1..n : text[i] \in DataLines}
    BY DEF NewData
  <2>2. \A i, j \in D : ~Separated(text, i, j)
    BY <2>1, SeparatedWithin
  <2>3. \A i \in 1..d, j \in D : text[i] \in DataLines => Separated(text, i, j)
    BY <2>1, SeparatedAcross, NewlineIsNoLine
  <2> QED
    BY <2>1, <2>2, <2>3
<1>5. Malformed(a) = {i \in 1..n + 1 : /\ a[i] \in DataLines
                                       /\ \/ Bad(a[i])
                                          \/ \E j \in i + 1..n + 1 : a[j] \in DataLines
                                                                     /\ ~Separated(a, i, j)}
  BY <1>3, MalformedIs
<1>6. Malformed(text) = {i \in 1..d : /\ text[i] \in DataLines
                                      /\ \/ Bad(text[i])
                                         \/ \E j \in i + 1..d : text[j] \in DataLines
                                                                /\ ~Separated(text, i, j)}
  BY MalformedIs
<1>7. Delivered(a) = {i \in 1..n + 1 : a[i] \in DataLines /\ \A j \in Malformed(a) : i < j}
  BY <1>3, DeliveredIs
<1>8. Delivered(text) = {i \in 1..d : text[i] \in DataLines /\ \A j \in Malformed(text) : i < j}
  BY DeliveredIs
<1>9. \A i \in 1..n + 1 : a[i] \in DataLines <=> /\ i \in 1..n /\ text[i] \in DataLines
                                                 /\ i \in 1..d \/ i \in D
  <2> HIDE DEF a, d, n, D
  <2>1. \A i \in 1..n + 1 : i \in 1..n \/ i = n + 1
    BY <1>2
  <2>2. \A i \in 1..n : i \in 1..d \/ i \in d + 1..n
    BY <1>2
  <2> QED
    BY <1>1, <1>4, <2>1, <2>2, NewlineIsNoLine
<1> HIDE DEF a, d, n, D
<1>10. 1..d \subseteq 1..n /\ D \subseteq 1..n /\ 1..n \subseteq 1..n + 1
  BY <1>2, <1>4
<1>11. ASSUME NEW i \in 1..d PROVE i \in Malformed(a) <=> i \in Malformed(text)
  <2>1. i \in 1..n /\ i \in 1..n + 1 /\ a[i] = text[i]
    BY <1>1, <1>10
  <2>2. ASSUME text[i] \in DataLines
        PROVE  (\E j \in i + 1..n + 1 : a[j] \in DataLines /\ ~Separated(a, i, j))
                 <=> \E j \in i + 1..d : text[j] \in DataLines /\ ~Separated(text, i, j)
    <3>1. ASSUME NEW j \in i + 1..n + 1, a[j] \in DataLines, ~Separated(a, i, j)
          PROVE  j \in i + 1..d /\ text[j] \in DataLines /\ ~Separated(text, i, j)
      <4>1. j \in 1..n + 1
        BY <2>1
      <4>2. j \in 1..n /\ text[j] \in DataLines /\ (j \in 1..d \/ j \in D)
        BY <1>9, <3>1, <4>1
      <4>3. ~Separated(text, i, j)
        BY <1>1, <2>1, <3>1, <4>2
      <4>4. j \notin D
        BY <1>4, <2>2, <4>3
      <4> QED
        BY <4>2, <4>3, <4>4
    <3>2. ASSUME NEW j \in i + 1..d, text[j] \in DataLines, ~Separated(text, i, j)
          PROVE  j \in i + 1..n + 1 /\ a[j] \in DataLines /\ ~Separated(a, i, j)
      <4>1. j \in i + 1..n + 1 /\ j \in 1..n
        BY <1>2
      <4> QED
        BY <1>1, <2>1, <3>2, <4>1
    <3> QED
      BY <3>1, <3>2
  <2> QED
    BY <1>5, <1>6, <2>1, <2>2
<1>12. ASSUME NEW i \in D PROVE i \in Malformed(a) <=> Bad(text[i]) \/ \E j \in D : i < j
  <2>1. i \in 1..n /\ i \in 1..n + 1 /\ a[i] = text[i] /\ text[i] \in DataLines /\ i \in d + 1..n
    BY <1>1, <1>4, <1>10
  <2>2. ASSUME NEW j \in i + 1..n + 1, a[j] \in DataLines, ~Separated(a, i, j)
        PROVE  j \in D /\ i < j
    <3>1. j \in 1..n + 1 /\ i < j /\ j \notin 1..d
      BY <1>2, <2>1
    <3> QED
      BY <1>9, <2>2, <3>1
  <2>3. ASSUME NEW j \in D, i < j
        PROVE  j \in i + 1..n + 1 /\ a[j] \in DataLines /\ ~Separated(a, i, j)
    <3>1. j \in 1..n /\ j \in i + 1..n + 1 /\ text[j] \in DataLines
      BY <1>2, <1>4, <2>1, <2>3
    <3>2. ~Separated(text, i, j)
      BY <1>4
    <3> QED
      BY <1>1, <2>1, <3>1, <3>2
  <2> QED
    BY <1>5, <2>1, <2>2, <2>3
<1>13. Malformed(a) = Malformed(text) \cup {i \in D : Bad(text[i]) \/ \E j \in D : i < j}
  <2>1. \A i \in Malformed(a) : i \in 1..d \/ i \in D
    BY <1>5, <1>9
  <2>2. \A i \in Malformed(text) : i \in 1..d
    BY <1>6
  <2> QED
    BY <1>11, <1>12, <2>1, <2>2
<1>14. \A i \in 1..d, j \in D : i < j /\ ~(j < i)
  BY <1>2, <1>4
<1>15. Malformed(text) \subseteq 1..d /\ Delivered(text) \subseteq 1..d
  BY <1>6, <1>8
<1>16. ASSUME NEW i \in 1..d PROVE i \in Delivered(a) <=> i \in Delivered(text)
  <2>1. i \in 1..n + 1 /\ a[i] = text[i]
    BY <1>1, <1>10
  <2>2. (\A j \in Malformed(a) : i < j) <=> \A j \in Malformed(text) : i < j
    BY <1>13, <1>14
  <2> QED
    BY <1>7, <1>8, <2>1, <2>2
<1>17. ASSUME NEW i \in D PROVE i \in Delivered(a) <=> \A j \in Malformed(a) : i < j
  <2>1. i \in 1..n + 1 /\ a[i] \in DataLines
    BY <1>4, <1>9, <1>10
  <2> QED
    BY <1>7, <2>1
<1>18. \A i \in Delivered(a) : i \in 1..d \/ i \in D
  BY <1>7, <1>9
<1>19. Malformed(text) # {} => \A i \in D : i \notin Delivered(a)
  BY <1>13, <1>14, <1>15, <1>17
<1>20. Delivered(a) = IF Malformed(text) # {} THEN Delivered(text)
                      ELSE Delivered(text) \cup {i \in D : \A j \in Malformed(a) : i < j}
  BY <1>15, <1>16, <1>17, <1>18, <1>19
<1> QED
  BY <1>13, <1>15, <1>20 DEF a, d, D

-----------------------------------------------------------------------------
(* What an event adds to the record.                                       *)

\* The record holds what the text up to its rest delivers.
Recorded(text, rec) ==
  /\ rec \in Records /\ rec.error \in {"none", "stream"}
  /\ rec.error = "stream" <=> Malformed(text) # {}
  /\ rec.output = TextsAt(text, Delivered(text))
  /\ rec.done <=> \E i \in Delivered(text) : text[i] = "done"

LEMMA EventText ==
  ASSUME NEW text, NEW rest, Scanned(text, rest), EndsWith(rest, "N")
  PROVE  /\ NewData(text, rest) = {} => SemanticText(Front(rest)) = "nothing"
         /\ \A i \in NewData(text, rest) :
              /\ (Bad(text[i]) \/ \E j \in NewData(text, rest) : j # i)
                   => SemanticText(Front(rest)) = "raises"
              /\ ~Bad(text[i]) /\ NewData(text, rest) = {i}
                   => SemanticText(Front(rest)) = IF text[i] = "role" THEN "nothing" ELSE text[i]
<1> DEFINE e == Front(rest)
           d == Cut(text, rest)
           n == Len(text)
           D == NewData(text, rest)
<1>0. rest \in Seq(TextBytes) /\ rest # <<>> /\ rest[Len(rest)] = "N"
  BY DEF Scanned, EndsWith, Last
<1>1. d \in Nat /\ n \in Nat /\ Len(rest) \in Nat /\ d + Len(rest) = n
  BY CutFacts
<1>2. n > d /\ Len(rest) # 0
  BY <1>0, <1>1
<1>3. DOMAIN e = 1..Len(rest) - 1 /\ \A i \in 1..Len(rest) - 1 : e[i] = rest[i]
  BY <1>0, <1>2 DEF Front
<1>4. text[n] = "N"
  BY StepEnds
<1>5. \A i \in 1..Len(rest) - 1 : rest[i] = text[d + i]
  <2>1. \A i \in 1..Len(rest) - 1 : i \in 1..Len(rest)
    BY <1>1
  <2> QED
    BY <2>1 DEF Scanned, Cut
<1>6. D = {i \in d + 1..n : text[i] \in DataLines}
  BY DEF NewData
<1> HIDE DEF e, d, n, D
<1>7. Data(e) = {i \in 1..Len(rest) - 1 : text[d + i] \in DataLines}
  BY <1>3, <1>5 DEF Data
<1>8. \A i \in Data(e) : d + i \in D /\ e[i] = text[d + i] /\ i \in Nat
  <2>1. \A i \in 1..Len(rest) - 1 : d + i \in d + 1..n /\ i \in Nat
    BY <1>1
  <2> QED
    BY <1>3, <1>5, <1>6, <1>7, <2>1
<1>9. \A i \in D : i - d \in Data(e) /\ d + (i - d) = i /\ i \in Nat
  <2>1. \A i \in D : i \in d + 1..n /\ i # n /\ text[i] \in DataLines
    BY <1>4, <1>6, NewlineIsNoLine
  <2>2. \A i \in d + 1..n : i # n => i - d \in 1..Len(rest) - 1 /\ d + (i - d) = i /\ i \in Nat
    BY <1>1, <1>2
  <2>3. \A i \in D : i - d \in 1..Len(rest) - 1 /\ d + (i - d) = i /\ i \in Nat
    BY <2>1, <2>2
  <2> QED
    BY <1>7, <2>1, <2>3
<1>10. ASSUME D = {} PROVE SemanticText(e) = "nothing"
  <2>1. Data(e) = {}
    BY <1>8, <1>10
  <2> QED
    BY <2>1 DEF SemanticText
<1>11. ASSUME NEW i \in D, Bad(text[i]) \/ \E j \in D : j # i PROVE SemanticText(e) = "raises"
  <2>1. i - d \in Data(e) /\ e[i - d] = text[i]
    BY <1>8, <1>9
  <2>2. ASSUME NEW j \in D, j # i PROVE j - d \in Data(e) /\ j - d # i - d
    BY <1>1, <1>9, <2>2
  <2>3. \E k, l \in Data(e) : k # l \/ e[k] \in {"error", "garbage"}
    BY <1>11, <2>1, <2>2 DEF Bad
  <2>4. Data(e) # {}
    BY <2>1
  <2> QED
    BY <2>3, <2>4 DEF SemanticText
<1>12. ASSUME NEW i \in D, ~Bad(text[i]), D = {i}
       PROVE  SemanticText(e) = IF text[i] = "role" THEN "nothing" ELSE text[i]
  <2>1. i - d \in Data(e) /\ e[i - d] = text[i]
    BY <1>8, <1>9
  <2>2. ASSUME NEW k \in Data(e) PROVE k = i - d
    <3>1. d + k = i /\ k \in Nat
      BY <1>8, <1>12
    <3> QED
      BY <1>1, <3>1
  <2>3. Data(e) = {i - d}
    BY <2>1, <2>2
  <2>4. (CHOOSE k \in Data(e) : TRUE) = i - d
    BY <2>3
  <2>5. ~\E k, l \in Data(e) : k # l \/ e[k] \in {"error", "garbage"}
    BY <1>12, <2>1, <2>2 DEF Bad
  <2>6. Data(e) # {}
    BY <2>1
  <2> QED
    BY <2>1, <2>4, <2>5, <2>6 DEF SemanticText
<1> QED
  BY <1>10, <1>11, <1>12 DEF e, D

\* No record is left by an event but what it adds.
LEMMA TakeFacts ==
  ASSUME NEW rec \in Records, NEW event
  PROVE  /\ rec.error # "none" \/ SemanticText(event) = "nothing" => Take(rec, event) = rec
         /\ rec.error = "none" /\ SemanticText(event) = "raises" =>
              /\ Take(rec, event) \in Records /\ Take(rec, event).error = "stream"
              /\ Take(rec, event).output = rec.output /\ Take(rec, event).done = rec.done
         /\ rec.error = "none" /\ SemanticText(event) = "done" =>
              /\ Take(rec, event) \in Records /\ Take(rec, event).error = "none"
              /\ Take(rec, event).output = rec.output /\ Take(rec, event).done = TRUE
         /\ rec.error = "none" /\ SemanticText(event) \in TextLines =>
              /\ Take(rec, event) \in Records /\ Take(rec, event).error = "none"
              /\ Take(rec, event).output = Append(rec.output, SemanticText(event))
              /\ Take(rec, event).done = rec.done
         /\ Take(rec, event).status = rec.status
<1> DEFINE text == SemanticText(event)
<1>0. /\ rec.status \in {"none", "ok", "other"} /\ rec.error \in Errors
      /\ rec.done \in BOOLEAN /\ rec.semantic \in BOOLEAN /\ rec.output \in Seq(TextLines)
  BY DEF Records
<1>1. text \in TextLines => Append(rec.output, text) \in Seq(TextLines)
  BY <1>0, AppendFacts
<1>2. text \in TextLines => text \notin {"nothing", "raises", "done"}
  BY DEF TextLines
<1>3. "stream" \in Errors
  BY DEF Errors
<1> HIDE DEF text
<1>4. Take(rec, event) = IF rec.error # "none" \/ text = "nothing" THEN rec
                         ELSE IF text = "raises" THEN [rec EXCEPT !.error = "stream"]
                         ELSE IF text = "done" THEN [rec EXCEPT !.done = TRUE]
                         ELSE [rec EXCEPT !.semantic = TRUE, !.output = Append(@, text)]
  BY DEF Take, text
<1>5. rec.error # "none" \/ text = "nothing" => Take(rec, event) = rec
  BY <1>4
<1>6. ASSUME rec.error = "none", text = "raises"
      PROVE  /\ Take(rec, event) \in Records /\ Take(rec, event).error = "stream"
             /\ Take(rec, event).output = rec.output /\ Take(rec, event).done = rec.done
             /\ Take(rec, event).status = rec.status
  <2>1. Take(rec, event) = [rec EXCEPT !.error = "stream"]
    BY <1>4, <1>6
  <2> QED
    BY <1>3, <2>1 DEF Records
<1>7. ASSUME rec.error = "none", text = "done"
      PROVE  /\ Take(rec, event) \in Records /\ Take(rec, event).error = "none"
             /\ Take(rec, event).output = rec.output /\ Take(rec, event).done = TRUE
             /\ Take(rec, event).status = rec.status
  <2>1. Take(rec, event) = [rec EXCEPT !.done = TRUE]
    BY <1>4, <1>7
  <2> QED
    BY <1>7, <2>1 DEF Records
<1>8. ASSUME rec.error = "none", text \in TextLines
      PROVE  /\ Take(rec, event) \in Records /\ Take(rec, event).error = "none"
             /\ Take(rec, event).output = Append(rec.output, text)
             /\ Take(rec, event).done = rec.done
             /\ Take(rec, event).status = rec.status
  <2>1. Take(rec, event) = [rec EXCEPT !.semantic = TRUE, !.output = Append(rec.output, text)]
    BY <1>2, <1>4, <1>8
  <2> QED
    BY <1>1, <1>8, <2>1 DEF Records
<1>9. Take(rec, event).status = rec.status
  BY <1>4 DEF Records
<1> QED
  BY <1>5, <1>6, <1>7, <1>8, <1>9 DEF text

\* The lines of the text a longer one shares are delivered with the same texts.
LEMMA TextsOfMore ==
  ASSUME NEW text \in Seq(TextBytes), NEW b \in TextBytes, NEW at, at \subseteq 1..Len(text),
         NEW i \in 1..Len(text), \A j \in at : j < i
  PROVE  TextsAt(Append(text, b), at \cup {i}) =
           IF text[i] \in TextLines THEN Append(TextsAt(text, at), text[i]) ELSE TextsAt(text, at)
<1> DEFINE here == {j \in at : text[j] \in TextLines}
<1>1. at \cup {i} \subseteq 1..Len(text)
  OBVIOUS
<1>2. TextsAt(Append(text, b), at \cup {i}) = TextsAt(text, at \cup {i})
  BY <1>1, TextsPrefix
<1>3. here \in SUBSET Nat /\ \A j \in here : j < i
  <2>1. 1..Len(text) \subseteq Nat /\ here \subseteq at
    OBVIOUS
  <2> HIDE DEF here
  <2>2. here \subseteq Nat /\ \A j \in here : j < i
    BY <2>1
  <2> QED
    BY <2>2
<1>4. {j \in at \cup {i} : text[j] \in TextLines}
        = IF text[i] \in TextLines THEN here \cup {i} ELSE here
  OBVIOUS
<1> HIDE DEF here
<1>5. Pick(text, here \cup {i}) = Append(Pick(text, here), text[i])
  BY <1>3, PickLast
<1> QED
  BY <1>2, <1>4, <1>5 DEF TextsAt, here

LEMMA TakeEvent ==
  ASSUME NEW text, NEW rest, Scanned(text, rest), EndsWith(rest, "N"),
         NEW rec, Recorded(text, rec)
  PROVE  Recorded(Append(text, "N"), Take(rec, Front(rest)))
<1> DEFINE a == Append(text, "N")
           e == Front(rest)
           D == NewData(text, rest)
           bad == {i \in D : Bad(text[i]) \/ \E j \in D : i < j}
<1>0. text \in Seq(TextBytes) /\ "N" \in TextBytes
  BY DEF Scanned, TextBytes
<1>1. /\ \A i \in 1..Len(text) : a[i] = text[i]
      /\ Len(text) \in Nat
  BY <1>0, LongerText
<1>2. rec \in Records /\ rec.error \in {"none", "stream"}
  BY DEF Recorded
<1>3. rec.error = "stream" <=> Malformed(text) # {}
  BY DEF Recorded
<1>4. rec.output = TextsAt(text, Delivered(text)) /\ rec.done \in BOOLEAN
  BY DEF Recorded, Records
<1>5. rec.done <=> \E i \in Delivered(text) : text[i] = "done"
  BY DEF Recorded
<1>6. Malformed(a) = Malformed(text) \cup bad
  BY EventEnds
<1>7. Delivered(a) = IF Malformed(text) # {} THEN Delivered(text)
                     ELSE Delivered(text) \cup {i \in D : \A j \in Malformed(a) : i < j}
  BY EventEnds
<1>8. Delivered(text) \subseteq 1..Cut(text, rest)
  BY EventEnds
<1>9. /\ D \subseteq Cut(text, rest) + 1..Len(text) /\ \A i \in D : text[i] \in DataLines
      /\ Cut(text, rest) \in Nat /\ Cut(text, rest) <= Len(text)
  BY CutFacts DEF NewData
<1>10. /\ Delivered(text) \subseteq 1..Len(text) /\ D \subseteq 1..Len(text)
       /\ \A j \in Delivered(text), i \in D : j < i
  BY <1>1, <1>8, <1>9
<1>11. TextsAt(a, Delivered(text)) = TextsAt(text, Delivered(text))
  BY <1>0, <1>10, TextsPrefix
<1>12. \A i \in Delivered(text) : a[i] = text[i]
  BY <1>1, <1>10
<1>13. /\ D = {} => SemanticText(e) = "nothing"
       /\ \A i \in D :
            /\ (Bad(text[i]) \/ \E j \in D : j # i) => SemanticText(e) = "raises"
            /\ ~Bad(text[i]) /\ D = {i} =>
                 SemanticText(e) = IF text[i] = "role" THEN "nothing" ELSE text[i]
  BY EventText
<1> HIDE DEF a, e, D
\* The event adds neither a text nor the marker.
<1>14. ASSUME Delivered(a) = Delivered(text), NEW new \in Records,
              new.error \in {"none", "stream"}, new.error = "stream" <=> Malformed(a) # {},
              new.output = rec.output, new.done = rec.done
       PROVE  Recorded(a, new)
  BY <1>4, <1>5, <1>11, <1>12, <1>14 DEF Recorded
<1>15. CASE D = {}
  <2>1. Take(rec, e) = rec
    BY <1>2, <1>13, <1>15, TakeFacts
  <2>2. Malformed(a) = Malformed(text) /\ Delivered(a) = Delivered(text)
    BY <1>6, <1>7, <1>15
  <2> QED
    BY <1>2, <1>3, <1>14, <2>1, <2>2 DEF a, e
<1>16. CASE Malformed(text) # {}
  <2>1. rec.error # "none" /\ rec.error = "stream"
    BY <1>3, <1>16
  <2>2. Take(rec, e) = rec
    BY <1>2, <2>1, TakeFacts
  <2>3. Malformed(a) # {} /\ Delivered(a) = Delivered(text)
    BY <1>6, <1>7, <1>16
  <2> QED
    BY <1>2, <1>14, <2>1, <2>2, <2>3 DEF a, e
<1>17. ASSUME Malformed(text) = {}, NEW i \in D, Bad(text[i]) \/ \E j \in D : j # i
       PROVE  Recorded(a, Take(rec, e))
  <2>1. rec.error = "none"
    BY <1>2, <1>3, <1>17
  <2>2. SemanticText(e) = "raises"
    BY <1>13, <1>17
  <2>3. /\ Take(rec, e) \in Records /\ Take(rec, e).error = "stream"
        /\ Take(rec, e).output = rec.output /\ Take(rec, e).done = rec.done
    BY <1>2, <2>1, <2>2, TakeFacts
  <2>4. \A j, k \in D : j # k => j < k \/ k < j
    BY <1>10
  <2>5. Malformed(a) # {}
    BY <1>6, <1>17, <2>4
  <2>6. ASSUME NEW k \in D PROVE \E j \in Malformed(a) : ~(k < j)
    <3>1. \A j \in D : j \in Int
      BY <1>10
    <3>2. CASE k \in bad
      BY <1>6, <3>1, <3>2
    <3>3. CASE k \notin bad
      <4>1. ~Bad(text[k]) /\ \A j \in D : ~(k < j)
        BY <3>3
      <4>2. \E j \in D : j # k
        BY <1>17, <4>1
      <4>3. PICK j \in D : j # k
        BY <4>2
      <4>4. j < k /\ ~(k < j)
        BY <2>4, <4>1, <4>3
      <4>5. j \in bad
        BY <4>4
      <4> QED
        BY <1>6, <4>4, <4>5
    <3> QED
      BY <3>2, <3>3
  <2>7. Delivered(a) = Delivered(text)
    BY <1>7, <1>17, <2>6
  <2> QED
    BY <1>14, <2>3, <2>5, <2>7
<1>18. ASSUME Malformed(text) = {}, NEW i \in D, ~Bad(text[i]), D = {i}
       PROVE  Recorded(a, Take(rec, e))
  <2>1. rec.error = "none"
    BY <1>2, <1>3, <1>18
  <2>2. SemanticText(e) = IF text[i] = "role" THEN "nothing" ELSE text[i]
    BY <1>13, <1>18
  <2>3. Malformed(a) = {}
    <3>1. ~(i < i)
      BY <1>10
    <3> QED
      BY <1>6, <1>18, <3>1
  <2>4. Delivered(a) = Delivered(text) \cup {i}
    BY <1>7, <1>18, <2>3
  <2>5. TextsAt(a, Delivered(a)) =
          IF text[i] \in TextLines THEN Append(rec.output, text[i]) ELSE rec.output
    <3>1. i \in 1..Len(text) /\ \A j \in Delivered(text) : j < i
      BY <1>10
    <3> QED
      BY <1>0, <1>4, <1>10, <2>4, <3>1, TextsOfMore DEF a
  <2>6. (\E j \in Delivered(a) : a[j] = "done") <=> rec.done \/ text[i] = "done"
    <3>1. a[i] = text[i]
      BY <1>1, <1>10
    <3> QED
      BY <1>5, <1>12, <2>4, <3>1
  <2>7. CASE text[i] \in TextLines
    <3>1. SemanticText(e) = text[i] /\ text[i] # "done"
      BY <2>2, <2>7 DEF TextLines
    <3>2. /\ Take(rec, e) \in Records /\ Take(rec, e).error = "none"
          /\ Take(rec, e).output = Append(rec.output, text[i])
          /\ Take(rec, e).done = rec.done
      <4>1. SemanticText(e) \in TextLines
        BY <2>7, <3>1
      <4>2. /\ Take(rec, e) \in Records /\ Take(rec, e).error = "none"
            /\ Take(rec, e).output = Append(rec.output, SemanticText(e))
            /\ Take(rec, e).done = rec.done
        BY <1>2, <2>1, <4>1, TakeFacts
      <4> QED
        BY <3>1, <4>2
    <3>3. Take(rec, e).output = TextsAt(a, Delivered(a))
      BY <2>5, <2>7, <3>2
    <3>4. Take(rec, e).done <=> \E j \in Delivered(a) : a[j] = "done"
      BY <2>6, <3>1, <3>2
    <3> QED
      BY <2>3, <3>2, <3>3, <3>4 DEF Recorded
  <2>8. CASE text[i] = "done"
    <3>1. SemanticText(e) = "done" /\ text[i] \notin TextLines
      BY <2>2, <2>8 DEF TextLines
    <3>2. /\ Take(rec, e) \in Records /\ Take(rec, e).error = "none"
          /\ Take(rec, e).output = rec.output /\ Take(rec, e).done = TRUE
      BY <1>2, <2>1, <3>1, TakeFacts
    <3>3. Take(rec, e).output = TextsAt(a, Delivered(a))
      BY <2>5, <3>1, <3>2
    <3>4. Take(rec, e).done <=> \E j \in Delivered(a) : a[j] = "done"
      BY <2>6, <2>8, <3>2
    <3> QED
      BY <2>3, <3>2, <3>3, <3>4 DEF Recorded
  <2>9. CASE text[i] = "role"
    <3>1. SemanticText(e) = "nothing" /\ text[i] \notin TextLines /\ text[i] # "done"
      BY <2>2, <2>9 DEF TextLines
    <3>2. Take(rec, e) = rec
      BY <1>2, <3>1, TakeFacts
    <3>3. rec.output = TextsAt(a, Delivered(a))
      BY <2>5, <3>1
    <3>4. rec.done <=> \E j \in Delivered(a) : a[j] = "done"
      BY <2>6, <3>1
    <3> QED
      BY <1>2, <2>1, <2>3, <3>2, <3>3, <3>4 DEF Recorded
  <2> QED
    BY <1>9, <1>18, <2>7, <2>8, <2>9 DEF DataLines, Bad
<1> QED
  <2>1. CASE \E i \in D : Bad(text[i]) \/ \E j \in D : j # i
    BY <1>16, <1>17, <2>1 DEF a, e
  <2>2. CASE ~\E i \in D : Bad(text[i]) \/ \E j \in D : j # i
    <3>1. D = {} \/ \E i \in D : D = {i} /\ ~Bad(text[i])
      BY <2>2
    <3> QED
      BY <1>15, <1>16, <1>18, <3>1 DEF a, e
  <2> QED
    BY <2>1, <2>2

-----------------------------------------------------------------------------
(* Scanning a text, in whatever pieces it comes.                           *)

SplitTexts == [parts : Seq(Seq(TextBytes)), rest : Seq(TextBytes)]

\* What was taken of a text, when split is what it was split into.
ScannedInto(text, rec, split) ==
  /\ split \in SplitTexts /\ Scanned(text, split.rest)
  /\ Recorded(text, TakeAll(rec, split.parts))
  /\ TakeAll(rec, split.parts).status = rec.status

LEMMA ScanByte ==
  ASSUME NEW text, NEW rec, NEW split, ScannedInto(text, rec, split), NEW b \in TextBytes
  PROVE  ScannedInto(Append(text, b), rec, AddByte(split, b))
<1> DEFINE a == Append(text, b)
           rest == split.rest
           new == AddByte(split, b)
           sofar == TakeAll(rec, split.parts)
<1>1. /\ split \in SplitTexts /\ split.parts \in Seq(Seq(TextBytes)) /\ rest \in Seq(TextBytes)
      /\ split = [parts |-> split.parts, rest |-> rest]
  BY DEF ScannedInto, SplitTexts
<1>2. Scanned(text, rest) /\ Recorded(text, sofar) /\ sofar.status = rec.status
  BY DEF ScannedInto
<1>3. text \in Seq(TextBytes) /\ Len(text) \in Nat
  BY <1>2, CutFacts DEF Scanned
<1>4. Recorded(text, sofar) => sofar \in Records
  BY DEF Recorded
\* No event with data ends.
<1>5. ASSUME NEW q, Scanned(a, q), Cut(text, rest) <= Cut(a, q),
             \A i \in Cut(text, rest) + 1..Cut(a, q) : a[i] \notin DataLines
      PROVE  Recorded(a, sofar)
  <2>1. /\ Malformed(a) = Malformed(text) /\ Delivered(a) = Delivered(text)
        /\ TextsAt(a, Delivered(text)) = TextsAt(text, Delivered(text))
        /\ \A i \in Delivered(text) : a[i] = text[i]
    BY <1>2, <1>5, NothingEnds
  <2> QED
    BY <1>2, <2>1 DEF Recorded
<1>6. CASE ~(b = "N" /\ EndsWith(rest, "N"))
  <2>1. new = [parts |-> split.parts, rest |-> Append(rest, b)]
    <3>1. new = [split EXCEPT !.rest = Append(@, b)]
      BY <1>6 DEF AddByte
    <3> QED
      BY <1>1, <3>1 DEF SplitTexts
  <2>2. Scanned(a, Append(rest, b)) /\ Cut(a, Append(rest, b)) = Cut(text, rest)
    BY <1>2, <1>6, StepKeeps
  <2>3. Cut(text, rest) \in Nat
    BY <1>2, CutFacts
  <2>4. Recorded(a, sofar)
    <3>1. /\ Cut(text, rest) <= Cut(a, Append(rest, b))
          /\ \A i \in Cut(text, rest) + 1..Cut(a, Append(rest, b)) : a[i] \notin DataLines
      BY <2>2, <2>3
    <3> QED
      BY <1>5, <2>2, <3>1
  <2>5. new.parts = split.parts /\ new.rest = Append(rest, b) /\ new \in SplitTexts
    BY <1>1, <2>1, AppendFacts DEF SplitTexts
  <2> QED
    BY <1>2, <2>2, <2>4, <2>5 DEF ScannedInto
<1>7. CASE b = "N" /\ EndsWith(rest, "N")
  <2>1. new = [parts |-> IF rest = <<"N">> THEN split.parts ELSE Append(split.parts, Front(rest)),
               rest  |-> <<>>]
    BY <1>7 DEF AddByte
  <2>2. /\ Scanned(a, <<>>) /\ Cut(a, <<>>) = Len(text) + 1
        /\ Len(text) > 0 /\ text[Len(text)] = "N"
    BY <1>2, <1>7, StepEnds
  <2>3. <<>> \in Seq(TextBytes)
    OBVIOUS
  <2>4. CASE rest = <<"N">>
    <3>1. new.parts = split.parts /\ new.rest = <<>> /\ new \in SplitTexts
      BY <1>1, <2>1, <2>3, <2>4 DEF SplitTexts
    <3>2. Cut(text, rest) = Len(text) - 1
      BY <2>4 DEF Cut
    <3>3. a[Len(text)] = "N" /\ a[Len(text) + 1] = "N"
      <4>1. Len(text) \in 1..Len(text)
        BY <1>3, <2>2
      <4> QED
        BY <1>3, <1>7, <2>2, <4>1, LongerText
    <3>4. \A i \in Len(text)..Len(text) + 1 : a[i] \notin DataLines
      <4> HIDE DEF a
      <4>1. \A i \in Len(text)..Len(text) + 1 : i = Len(text) \/ i = Len(text) + 1
        BY <1>3
      <4> QED
        BY <3>3, <4>1, NewlineIsNoLine
    <3>5. /\ Cut(text, rest) <= Cut(a, <<>>) /\ Cut(text, rest) + 1 = Len(text)
          /\ Cut(a, <<>>) = Len(text) + 1
      BY <1>3, <2>2, <3>2
    <3>6. Recorded(a, sofar)
      BY <1>5, <2>2, <3>4, <3>5
    <3> QED
      BY <1>2, <2>2, <3>1, <3>6 DEF ScannedInto
  <2>5. CASE rest # <<"N">>
    <3>1. Front(rest) \in Seq(TextBytes)
      <4>1. rest # <<>>
        BY <1>7 DEF EndsWith
      <4> QED
        BY <1>1, <4>1 DEF Front
    <3>2. /\ new.parts = Append(split.parts, Front(rest)) /\ new.rest = <<>>
          /\ Append(split.parts, Front(rest)) \in Seq(Seq(TextBytes))
      BY <1>1, <2>1, <2>5, <3>1, AppendFacts
    <3>3. new \in SplitTexts
      BY <2>1, <2>3, <2>5, <3>2 DEF SplitTexts
    <3>4. TakeAll(rec, new.parts) = Take(sofar, Front(rest))
      BY <1>1, <3>1, <3>2, TakeAllAppend
    <3>5. Recorded(a, Take(sofar, Front(rest)))
      BY <1>2, <1>7, TakeEvent
    <3>6. Take(sofar, Front(rest)).status = rec.status
      <4>1. sofar \in Records /\ sofar.status = rec.status
        BY <1>2, <1>4
      <4> HIDE DEF sofar
      <4>2. Take(sofar, Front(rest)).status = sofar.status
        BY <4>1, TakeFacts
      <4> QED
        BY <4>1, <4>2
    <3> QED
      BY <2>2, <3>2, <3>3, <3>4, <3>5, <3>6 DEF ScannedInto
  <2> QED
    BY <2>4, <2>5
<1> QED
  BY <1>6, <1>7

\* Without a blank line there is nothing but a rest.
LEMMA SplitRest ==
  ASSUME NEW text, NEW rest, Scanned(text, rest)
  PROVE  Split(rest) = [parts |-> <<>>, rest |-> rest]
<1> DEFINE T == {v \in Seq(TextBytes) :
                   (\A i \in 1..Len(v) - 1 : ~(v[i] = "N" /\ v[i + 1] = "N"))
                     => Split(v) = [parts |-> <<>>, rest |-> v]}
<1>1. <<>> \in T
  BY SplitEmpty
<1>2. ASSUME NEW v \in Seq(TextBytes), NEW x \in TextBytes, v \in T PROVE Append(v, x) \in T
  <2> DEFINE a == Append(v, x)
  <2>1. /\ a \in Seq(TextBytes) /\ Len(a) = Len(v) + 1 /\ Len(v) \in Nat
        /\ a[Len(v) + 1] = x /\ \A i \in 1..Len(v) : a[i] = v[i]
    BY AppendFacts
  <2> HIDE DEF a
  <2>2. SUFFICES ASSUME \A i \in 1..Len(a) - 1 : ~(a[i] = "N" /\ a[i + 1] = "N")
                 PROVE  Split(a) = [parts |-> <<>>, rest |-> a]
    BY <2>1 DEF a
  <2>3. \A i \in 1..Len(v) - 1 : ~(v[i] = "N" /\ v[i + 1] = "N")
    <3>1. \A i \in 1..Len(v) - 1 : i \in 1..Len(a) - 1 /\ i \in 1..Len(v) /\ i + 1 \in 1..Len(v)
      BY <2>1
    <3> QED
      BY <2>1, <2>2, <3>1
  <2>4. Split(v) = [parts |-> <<>>, rest |-> v]
    BY <1>2, <2>3
  <2>5. ~(x = "N" /\ EndsWith(v, "N"))
    <3>1. v # <<>> => Len(v) \in 1..Len(v) /\ Len(v) \in 1..Len(a) - 1
      BY <2>1
    <3> QED
      BY <2>1, <2>2, <3>1 DEF EndsWith, Last
  <2>6. Split(a) = AddByte(Split(v), x)
    BY SplitAppend DEF a
  <2>7. Split(a) = [[parts |-> <<>>, rest |-> v] EXCEPT !.rest = Append(@, x)]
    BY <2>4, <2>5, <2>6 DEF AddByte
  <2> QED
    BY <2>7 DEF a
<1> HIDE DEF T
<1>3. rest \in T
  BY <1>1, <1>2, SeqInduction DEF Scanned
<1> QED
  BY <1>3 DEF T, Scanned

LEMMA ScanText ==
  ASSUME NEW text, NEW rest, Scanned(text, rest), NEW rec, Recorded(text, rec),
         NEW u \in Seq(TextBytes)
  PROVE  ScannedInto(text \o u, rec, Split(rest \o u))
<1> DEFINE T == {v \in Seq(TextBytes) : ScannedInto(text \o v, rec, Split(rest \o v))}
<1>0. text \in Seq(TextBytes) /\ rest \in Seq(TextBytes) /\ <<>> \in Seq(Seq(TextBytes))
  BY DEF Scanned
<1>1. <<>> \in T
  <2>1. text \o <<>> = text /\ rest \o <<>> = rest
    BY <1>0, ConcatEmpty
  <2>2. Split(rest) = [parts |-> <<>>, rest |-> rest]
    BY SplitRest
  <2>3. Split(rest).parts = <<>> /\ Split(rest).rest = rest /\ Split(rest) \in SplitTexts
    BY <1>0, <2>2 DEF SplitTexts
  <2>4. TakeAll(rec, <<>>) = rec
    BY TakeAllEmpty
  <2>5. ScannedInto(text, rec, Split(rest))
    BY <2>3, <2>4 DEF ScannedInto
  <2>6. <<>> \in Seq(TextBytes)
    OBVIOUS
  <2> QED
    BY <2>1, <2>5, <2>6
<1>2. ASSUME NEW v \in Seq(TextBytes), NEW x \in TextBytes, v \in T PROVE Append(v, x) \in T
  <2>1. text \o Append(v, x) = Append(text \o v, x) /\ rest \o Append(v, x) = Append(rest \o v, x)
    BY SMTT(30), <1>0, ConcatAppend
  <2>2. ScannedInto(text \o v, rec, Split(rest \o v))
    BY <1>2
  <2>3. Split(Append(rest \o v, x)) = AddByte(Split(rest \o v), x)
    <3>1. rest \o v \in Seq(TextBytes)
      BY <1>0
    <3> QED
      BY <3>1, SplitAppend
  <2>4. ScannedInto(Append(text \o v, x), rec, AddByte(Split(rest \o v), x))
    BY <2>2, ScanByte
  <2>5. Append(v, x) \in Seq(TextBytes)
    BY AppendFacts
  <2> QED
    BY <2>1, <2>3, <2>4, <2>5
<1> HIDE DEF T
<1>3. u \in T
  BY <1>1, <1>2, SeqInduction
<1> QED
  BY <1>3 DEF T

-----------------------------------------------------------------------------
(* parse_sse_events, for one more chunk.                                   *)

\* Before anything has arrived.
LEMMA NothingArrived ==
  ASSUME NEW rec \in Records, rec.error = "none", rec.output = <<>>, rec.done = FALSE
  PROVE  Scanned(<<>>, <<>>) /\ Recorded(<<>>, rec)
<1>1. Len(<<>>) = 0 /\ <<>> \in Seq(TextBytes) /\ DOMAIN <<>> = {}
  OBVIOUS
<1>2. 1..Len(<<>>) = {} /\ 1..Len(<<>>) - 1 = {} /\ 1..Len(<<>>) - Len(<<>>) = {}
  BY <1>1
<1>3. Scanned(<<>>, <<>>)
  BY <1>1, <1>2 DEF Scanned
<1>4. Malformed(<<>>) = {} /\ Delivered(<<>>) = {}
  BY <1>1 DEF Malformed, Delivered
<1>5. TextsAt(<<>>, Delivered(<<>>)) = <<>>
  BY PickEmpty DEF TextsAt
<1> QED
  BY <1>3, <1>4, <1>5 DEF Recorded

LEMMA SplitType ==
  ASSUME NEW s \in Seq(TextBytes)
  PROVE  Split(s) \in SplitTexts
<1> DEFINE none == <<>>
<1>1. NewRecord \in Records
  BY DEF NewRecord, Records, Errors
<1>2. Scanned(<<>>, <<>>) /\ Recorded(<<>>, NewRecord)
  BY <1>1, NothingArrived DEF NewRecord
<1>3. ScannedInto(<<>> \o s, NewRecord, Split(<<>> \o s))
  BY <1>2, ScanText
<1>4. <<>> \o s = s
  BY ConcatEmpty
<1> QED
  BY <1>3, <1>4 DEF ScannedInto

\* Two newlines at the end leave at most a third one.
LEMMA EndedRest ==
  ASSUME NEW s \in Seq(TextBytes), Len(s) >= 2, s[Len(s)] = "N", s[Len(s) - 1] = "N"
  PROVE  Split(s).rest = <<>> \/ Split(s).rest = <<"N">>
<1>1. s # <<>>
  OBVIOUS
<1>2. PICK s1 \in Seq(TextBytes), x \in TextBytes : s = Append(s1, x)
  BY <1>1, NotEmpty
<1>3. Len(s1) \in Nat /\ Len(s) = Len(s1) + 1 /\ s[Len(s1) + 1] = x
      /\ \A i \in 1..Len(s1) : s[i] = s1[i]
  BY <1>2, AppendFacts
<1>4. x = "N" /\ s1 # <<>> /\ s1[Len(s1)] = "N"
  <2>1. Len(s) - 1 = Len(s1) /\ Len(s1) \in 1..Len(s1)
    BY <1>3
  <2> QED
    BY <1>3, <2>1
<1>5. PICK s0 \in Seq(TextBytes), y \in TextBytes : s1 = Append(s0, y)
  BY <1>4, NotEmpty
<1>6. y = "N"
  <2>1. Len(s1) = Len(s0) + 1 /\ s1[Len(s0) + 1] = y
    BY <1>5, AppendFacts
  <2> QED
    BY <1>4, <2>1
<1> DEFINE r0 == Split(s0).rest
           r1 == Split(s1).rest
<1>7. r0 \in Seq(TextBytes) /\ Split(s0) \in SplitTexts /\ Split(s1) \in SplitTexts
  BY SplitType DEF SplitTexts
<1>8. Split(s1) = AddByte(Split(s0), "N") /\ Split(s) = AddByte(Split(s1), "N")
  BY <1>2, <1>4, <1>5, <1>6, SplitAppend
<1>9. CASE EndsWith(r0, "N")
  <2>1. r1 = <<>>
    BY <1>8, <1>9 DEF AddByte
  <2>2. ~EndsWith(r1, "N")
    BY <2>1 DEF EndsWith
  <2>3. Split(s) = [Split(s1) EXCEPT !.rest = Append(@, "N")]
    BY <1>8, <2>2 DEF AddByte
  <2>4. Split(s).rest = Append(<<>>, "N")
    BY <1>7, <2>1, <2>3 DEF SplitTexts
  <2> QED
    BY <2>4
<1>10. CASE ~EndsWith(r0, "N")
  <2>1. Split(s1) = [Split(s0) EXCEPT !.rest = Append(@, "N")]
    BY <1>8, <1>10 DEF AddByte
  <2>2. r1 = Append(r0, "N")
    BY <1>7, <2>1 DEF SplitTexts
  <2>3. EndsWith(Append(r0, "N"), "N")
    <3> HIDE DEF r0
    <3>1. "N" \in TextBytes
      BY DEF TextBytes
    <3>2. Len(Append(r0, "N")) = Len(r0) + 1 /\ Append(r0,
    "N")[Len(r0) + 1] = "N" /\ Len(r0) \in Nat
      BY <1>7, <3>1, AppendFacts
    <3>3. Append(r0, "N") # <<>>
      <4>1. Len(<<>>) = 0 /\ Len(Append(r0, "N")) # 0
        BY <3>2
      <4> QED
        BY <4>1
    <3> QED
      BY <3>2, <3>3 DEF EndsWith, Last
  <2>4. Split(s).rest = <<>>
    BY <1>8, <2>2, <2>3 DEF AddByte
  <2> QED
    BY <2>4
<1> QED
  BY <1>9, <1>10

\* The newline that parse_sse_events forgets was no part of an event.
LEMMA RestForgotten ==
  ASSUME NEW text, NEW rest, Scanned(text, rest), rest = <<>> \/ rest = <<"N">>
  PROVE  Scanned(text, <<>>)
<1>1. CASE rest = <<"N">>
  <2>1. text \in Seq(TextBytes) /\ Len(text) \in Nat /\ Len(rest) = 1 /\ Len(text) >= 1
    BY <1>1, CutFacts DEF Scanned
  <2>2. text[Len(text)] = "N"
    <3>1. 1 \in 1..Len(rest) /\ Len(text) - Len(rest) + 1 = Len(text) /\ rest[1] = "N"
      BY <1>1, <2>1
    <3> QED
      BY <3>1 DEF Scanned
  <2>3. ASSUME NEW i \in 1..Len(text), text[i] \in Lines PROVE Closed(text, i)
    <3>1. i # Len(text)
      BY <2>2, <2>3, NewlineIsNoLine
    <3>2. i \in 1..Len(text) - Len(rest)
      BY <2>1, <3>1
    <3> QED
      BY <2>3, <3>2 DEF Scanned
  <2>4. /\ Len(<<>>) = 0 /\ <<>> \in Seq(TextBytes) /\ Len(text) - Len(<<>>) = Len(text)
        /\ 1..Len(<<>>) = {} /\ 1..Len(<<>>) - 1 = {} /\ Len(<<>>) <= Len(text)
    BY <2>1
  <2> QED
    BY <2>1, <2>3, <2>4 DEF Scanned
<1> QED
  BY <1>1

\* What the buffer holds between two chunks: the rest, and a carriage return
\* whose newline has not come yet.
Buffered(rest, bytes) == bytes = rest \/ bytes = Append(rest, "R")

LEMMA ConcatFacts ==
  ASSUME NEW S, NEW s \in Seq(S), NEW t \in Seq(S)
  PROVE  /\ s \o t \in Seq(S) /\ Len(s \o t) = Len(s) + Len(t)
         /\ Len(s) \in Nat /\ Len(t) \in Nat
         /\ \A i \in 1..Len(s) : (s \o t)[i] = s[i]
         /\ \A i \in 1..Len(t) : (s \o t)[Len(s) + i] = t[i]
<1>1. \A i \in 1..(Len(s) + Len(t)) : (s \o t)[i] = IF i <= Len(s) THEN s[i] ELSE t[i - Len(s)]
  OBVIOUS
<1>2. s \o t \in Seq(S) /\ Len(s \o t) = Len(s) + Len(t) /\ Len(s) \in Nat /\ Len(t) \in Nat
  OBVIOUS
<1>3. \A i \in 1..Len(s) : i \in 1..(Len(s) + Len(t)) /\ i <= Len(s)
  BY <1>2
<1>4. \A i \in 1..Len(t) : /\ Len(s) + i \in 1..(Len(s) + Len(t)) /\ ~(Len(s) + i <= Len(s))
                           /\ (Len(s) + i) - Len(s) = i
  BY <1>2
<1> QED
  BY <1>1, <1>2, <1>3, <1>4

LEMMA BufferedFacts ==
  ASSUME NEW rest \in Seq(TextBytes), NEW bytes, Buffered(rest, bytes)
  PROVE  /\ bytes \in Seq(Bytes) /\ Strip(bytes) = rest /\ Len(bytes) \in Nat
         /\ \A i \in 1..Len(bytes) : bytes[i] = "R" => i = Len(bytes) /\ bytes = Append(rest, "R")
<1>0. rest \in Seq(Bytes) /\ Strip(rest) = rest /\ "R" \in Bytes /\ "R" \notin TextBytes
  BY StripText DEF Bytes, TextBytes, Lines, DataLines, TextLines
<1>1. \A i \in 1..Len(rest) : rest[i] \in TextBytes
  OBVIOUS
<1>2. CASE bytes = rest
  BY <1>0, <1>1, <1>2
<1>3. CASE bytes = Append(rest, "R")
  <2>1. bytes \in Seq(Bytes) /\ Strip(bytes) = rest
    BY <1>0, <1>3, StripAppend, AppendFacts
  <2>2. /\ Len(bytes) = Len(rest) + 1 /\ Len(rest) \in Nat
        /\ \A i \in 1..Len(rest) : bytes[i] = rest[i]
    BY <1>0, <1>3, AppendFacts
  <2>3. \A i \in 1..Len(bytes) : i \in 1..Len(rest) \/ i = Len(bytes)
    BY <2>2
  <2> QED
    BY <1>0, <1>1, <1>3, <2>1, <2>2, <2>3
<1> QED
  BY <1>2, <1>3 DEF Buffered

\* The bytes that are parsed end their lines as the service does.
LEMMA ProperInput ==
  ASSUME NEW rest \in Seq(TextBytes), NEW buf, Buffered(rest, buf),
         NEW chunk \in Seq(Bytes), Proper(chunk), chunk # <<>>,
         buf = Append(rest, "R") => chunk[1] = "N"
  PROVE  /\ Proper(buf \o chunk) /\ buf \o chunk \in Seq(Bytes) /\ buf \o chunk # <<>>
         /\ Strip(buf \o chunk) = rest \o Strip(chunk)
         /\ Last(buf \o chunk) = chunk[Len(chunk)]
<1> DEFINE x == buf \o chunk
<1>1. /\ buf \in Seq(Bytes) /\ Strip(buf) = rest
      /\ \A i \in 1..Len(buf) : buf[i] = "R" => i = Len(buf) /\ buf = Append(rest, "R")
  BY BufferedFacts
<1>2. /\ x \in Seq(Bytes) /\ Len(x) = Len(buf) + Len(chunk)
      /\ Len(buf) \in Nat /\ Len(chunk) \in Nat
      /\ \A i \in 1..Len(buf) : x[i] = buf[i]
      /\ \A i \in 1..Len(chunk) : x[Len(buf) + i] = chunk[i]
  BY <1>1, ConcatFacts
<1>3. Strip(x) = rest \o Strip(chunk)
  BY <1>1, StripConcat
<1>4. Len(chunk) # 0
  OBVIOUS
<1> HIDE DEF x
<1>5. x # <<>> /\ Last(x) = chunk[Len(chunk)]
  <2>1. Len(chunk) \in 1..Len(chunk) /\ Len(<<>>) = 0 /\ Len(x) # 0
    BY <1>2, <1>4
  <2> QED
    BY <1>2, <2>1 DEF Last
<1>6. ASSUME NEW i \in 1..Len(x) - 1, x[i] = "R" PROVE x[i + 1] = "N"
  <2>1. CASE i \in 1..Len(buf)
    <3>1. i = Len(buf) /\ buf = Append(rest, "R")
      BY <1>1, <1>2, <1>6, <2>1
    <3>2. 1 \in 1..Len(chunk)
      BY <1>2, <1>4
    <3>3. x[Len(buf) + 1] = chunk[1]
      BY <1>2, <3>2
    <3> QED
      BY <3>1, <3>3
  <2>2. CASE i \notin 1..Len(buf)
    <3> DEFINE k == i - Len(buf)
    <3>1. /\ k \in 1..Len(chunk) - 1 /\ k \in 1..Len(chunk) /\ k + 1 \in 1..Len(chunk)
          /\ Len(buf) + k = i /\ Len(buf) + (k + 1) = i + 1
      BY <1>2, <2>2
    <3> HIDE DEF k
    <3>2. x[i] = chunk[k] /\ x[i + 1] = chunk[k + 1]
      BY <1>2, <3>1
    <3> QED
      BY <1>6, <3>1, <3>2 DEF Proper
  <2> QED
    BY <2>1, <2>2
<1>7. Proper(x)
  BY <1>6 DEF Proper
<1> QED
  BY <1>2, <1>3, <1>5, <1>7 DEF x

\* However the stream was cut into chunks before, the record comes to hold what
\* the text with this chunk delivers, and the buffer its rest.
LEMMA ParseChunk ==
  ASSUME NEW text, NEW rest, Scanned(text, rest), NEW rec, Recorded(text, rec),
         NEW buf, Buffered(rest, buf),
         NEW chunk \in Seq(Bytes), Proper(chunk), chunk # <<>>,
         buf = Append(rest, "R") => chunk[1] = "N",
         NEW parsed, parsed = ParseSseEvents(buf \o chunk)
  PROVE  /\ Recorded(text \o Strip(chunk), TakeAll(rec, parsed.events))
         /\ TakeAll(rec, parsed.events).status = rec.status
         /\ \E q : /\ Scanned(text \o Strip(chunk), q) /\ Buffered(q, parsed.rest)
                   /\ parsed.rest = Append(q, "R") => chunk[Len(chunk)] = "R"
<1> DEFINE u == Strip(chunk)
           split == Split(rest \o u)
           n == Normalize(buf \o chunk)
           ended == Len(n) >= 2 /\ n[Len(n)] = "N" /\ n[Len(n) - 1] = "N"
<1>0. rest \in Seq(TextBytes)
  BY DEF Scanned
<1>1. /\ Proper(buf \o chunk) /\ buf \o chunk \in Seq(Bytes) /\ buf \o chunk # <<>>
      /\ Strip(buf \o chunk) = rest \o u /\ Last(buf \o chunk) = chunk[Len(chunk)]
  BY <1>0, ProperInput
<1>2. u \in Seq(TextBytes) /\ rest \o u \in Seq(TextBytes)
  <2>1. u \in Seq(TextBytes)
    BY StripType
  <2> QED
    BY <1>0, <2>1, ConcatFacts
<1>3. ScannedInto(text \o u, rec, split)
  BY <1>2, ScanText
<1>4. /\ Recorded(text \o u, TakeAll(rec, split.parts))
      /\ TakeAll(rec, split.parts).status = rec.status
      /\ Scanned(text \o u, split.rest)
      /\ split \in SplitTexts /\ split.rest \in Seq(TextBytes)
  BY <1>3 DEF ScannedInto, SplitTexts
<1>5. n = IF chunk[Len(chunk)] = "R" THEN Append(rest \o u, "R") ELSE rest \o u
  BY <1>1, NormalizeProper DEF EndsWith
<1>6. parsed = [events |-> Split(n).parts, rest |-> IF ended THEN <<>> ELSE Split(n).rest]
  BY DEF ParseSseEvents
<1>7. parsed.events = Split(n).parts /\ parsed.rest = IF ended THEN <<>> ELSE Split(n).rest
  BY <1>6
<1> HIDE DEF u, split, n
<1>8. CASE chunk[Len(chunk)] = "R"
  <2>1. n = Append(rest \o u, "R") /\ "R" # "N" /\ "R" \in Bytes
    BY <1>5, <1>8 DEF Bytes
  <2>2. Split(n) = AddByte(split, "R")
    <3>1. rest \o u \in Seq(Bytes)
      BY <1>2, StripText
    <3> QED
      BY <2>1, <3>1, SplitAppend DEF split
  <2>3. Split(n) = [split EXCEPT !.rest = Append(@, "R")]
    BY <2>1, <2>2 DEF AddByte
  <2>4. Split(n).parts = split.parts /\ Split(n).rest = Append(split.rest, "R")
    BY <1>4, <2>3 DEF SplitTexts
  <2>5. n[Len(n)] = "R"
    <3>1. rest \o u \in Seq(Bytes)
      BY <1>2, StripText
    <3>2. Len(n) = Len(rest \o u) + 1 /\ n[Len(rest \o u) + 1] = "R"
      BY <2>1, <3>1, AppendFacts
    <3> QED
      BY <3>2
  <2>6. parsed.events = split.parts /\ parsed.rest = Append(split.rest, "R")
    BY <1>7, <2>1, <2>4, <2>5
  <2> QED
    BY <1>4, <1>8, <2>6 DEF Buffered, u
<1>9. CASE chunk[Len(chunk)] # "R"
  <2>1. n = rest \o u /\ Split(n) = split
    BY <1>5, <1>9 DEF split
  <2>2. CASE ~ended
    <3>1. parsed.events = split.parts /\ parsed.rest = split.rest
      BY <1>7, <2>1, <2>2
    <3>2. split.rest # Append(split.rest, "R")
      <4>1. "R" \in Bytes /\ split.rest \in Seq(Bytes)
        BY <1>4, StripText DEF Bytes
      <4>2. Len(Append(split.rest, "R")) = Len(split.rest) + 1 /\ Len(split.rest) \in Nat
        BY <4>1, AppendFacts
      <4> QED
        BY <4>2
    <3> QED
      BY <1>4, <3>1, <3>2 DEF Buffered, u
  <2>3. CASE ended
    <3>1. parsed.events = split.parts /\ parsed.rest = <<>>
      BY <1>7, <2>1, <2>3
    <3>2. split.rest = <<>> \/ split.rest = <<"N">>
      BY <1>2, <2>1, <2>3, EndedRest DEF split
    <3>3. Scanned(text \o u, <<>>)
      BY <1>4, <3>2, RestForgotten
    <3>4. <<>> # Append(<<>>, "R")
      OBVIOUS
    <3> QED
      BY <1>4, <3>1, <3>3, <3>4 DEF Buffered, u
  <2> QED
    BY <2>2, <2>3
<1> QED
  BY <1>8, <1>9

-----------------------------------------------------------------------------
(* One request.                                                            *)

InFullAt(a, n) == a \in FullAnswers /\ n = Len(a.bytes)

\* What RecordIsWhatArrived says of a request.
Held(a, n, rec) ==
  /\ rec.output = TextsAt(Arrived(a, n), Delivered(Arrived(a, n)))
  /\ rec.done = \E i \in Delivered(Arrived(a, n)) : Arrived(a, n)[i] = "done"
  /\ InFullAt(a, n) => rec.error \in {"none", "timeout", "network"}

\* The task of a request that streams: what its record and its buffer hold.
Streams(a, n, buf, rec) ==
  /\ a \in Answers /\ a.sse
  /\ rec.error = "none" /\ rec.status = a.status /\ Recorded(Arrived(a, n), rec)
  /\ Scanned(Arrived(a, n), Strip(buf)) /\ Buffered(Strip(buf), buf)
  /\ buf = Append(Strip(buf), "R") => n > 0 /\ a.bytes[n] = "R"

RequestInv(ph, a, n, buf, rec) ==
  /\ ph \in {"scheduled", "waiting", "streaming", "ended"}
  /\ a \in Answers \cup {NoAnswer} /\ n \in 0..Len(a.bytes) /\ buf \in Seq(Bytes)
  /\ rec \in Records
  /\ ph \in {"scheduled", "waiting"} =>
       a = NoAnswer /\ n = 0 /\ buf = <<>> /\ rec = NewRecord
  /\ ph = "streaming" => Streams(a, n, buf, rec)
  /\ a.sse => Held(a, n, rec)
  /\ ph = "ended" /\ StrictRequestSuccess(rec) => InFullAt(a, n)

LEMMA AnswerFacts ==
  ASSUME NEW a \in Answers
  PROVE  /\ a.status \in {"ok", "other"} /\ a.sse \in BOOLEAN /\ a.bytes \in Seq(Bytes)
         /\ Len(a.bytes) \in Nat /\ Proper(a.bytes)
         /\ \A i \in 1..Len(a.bytes) : a.bytes[i] = "R" => i < Len(a.bytes) /\ a.bytes[i + 1] = "N"
<1>1. a.status \in {"ok", "other"} /\ a.sse \in BOOLEAN /\ a.bytes \in Seq(Bytes)
  BY TraceAssumption
<1>2. Len(a.bytes) \in Nat /\ DOMAIN a.bytes = 1..Len(a.bytes)
  BY <1>1
<1>3. \A i \in 1..Len(a.bytes) : a.bytes[i] = "R" => i < Len(a.bytes) /\ a.bytes[i + 1] = "N"
  BY <1>2, LineEndsAssumption
<1>4. \A i \in 1..Len(a.bytes) - 1 : i \in 1..Len(a.bytes)
  BY <1>2
<1> QED
  BY <1>1, <1>2, <1>3, <1>4 DEF Proper

LEMMA NoAnswerFacts ==
  /\ NoAnswer.sse = FALSE /\ NoAnswer.bytes = <<>> /\ Len(NoAnswer.bytes) = 0
  /\ ~InFull(NoAnswer) /\ NewRecord \in Records /\ NoAnswer \notin FullAnswers
  BY DEF NoAnswer, NewRecord, Records, Errors, InFull, FullAnswers

\* The bytes up to m are those up to n and a chunk.
LEMMA ChunkOf ==
  ASSUME NEW a \in Answers, NEW n \in 0..Len(a.bytes), NEW m \in n + 1..Len(a.bytes),
         NEW chunk, chunk = SubSeq(a.bytes, n + 1, m)
  PROVE  /\ chunk \in Seq(Bytes) /\ Len(chunk) = m - n /\ chunk # <<>> /\ Proper(chunk)
         /\ \A i \in 1..m - n : chunk[i] = a.bytes[n + i]
         /\ Arrived(a, m) = Arrived(a, n) \o Strip(chunk)
<1> DEFINE s == a.bytes
           pre == SubSeq(s, 1, n)
           all == SubSeq(s, 1, m)
<1>1. s \in Seq(Bytes) /\ Len(s) \in Nat /\ n \in Nat /\ m \in Nat /\ n < m /\ m <= Len(s)
  BY AnswerFacts
<1>2. \A i \in 1..Len(s) - 1 : s[i] = "R" => s[i + 1] = "N"
  BY AnswerFacts DEF Proper
<1> HIDE DEF s
<1>3. chunk \in Seq(Bytes) /\ Len(chunk) = m - n /\ \A i \in 1..m - n : chunk[i] = s[n + i]
  <2>1. chunk = SubSeq(s, n + 1, m)
    BY DEF s
  <2> QED
    BY SMTT(30), <1>1, <2>1
<1>4. pre \in Seq(Bytes) /\ Len(pre) = n /\ \A i \in 1..n : pre[i] = s[i]
  BY <1>1
<1>5. all \in Seq(Bytes) /\ Len(all) = m /\ \A i \in 1..m : all[i] = s[i]
  BY <1>1
<1> HIDE DEF pre, all
<1>6. all = pre \o chunk
  <2> DEFINE two == pre \o chunk
  <2>1. /\ two \in Seq(Bytes) /\ Len(two) = m
        /\ \A i \in 1..n : two[i] = s[i]
        /\ \A i \in 1..m - n : two[n + i] = s[n + i]
    <3>1. /\ two \in Seq(Bytes) /\ Len(two) = Len(pre) + Len(chunk)
          /\ \A i \in 1..Len(pre) : two[i] = pre[i]
          /\ \A i \in 1..Len(chunk) : two[Len(pre) + i] = chunk[i]
      <4>1. pre \in Seq(Bytes) /\ chunk \in Seq(Bytes)
        BY <1>3, <1>4
      <4> QED
        BY <4>1, ConcatFacts
    <3> HIDE DEF two
    <3>2. \A i \in 1..n : two[i] = s[i]
      BY <1>4, <3>1
    <3>3. \A i \in 1..m - n : two[n + i] = s[n + i]
      BY <1>3, <1>4, <3>1
    <3>4. Len(two) = m
      <4>1. Len(two) = n + (m - n)
        BY <1>3, <1>4, <3>1
      <4> QED
        BY <1>1, <4>1
    <3> QED
      BY <3>1, <3>2, <3>3, <3>4
  <2> HIDE DEF two
  <2>2. ASSUME NEW i \in 1..m PROVE two[i] = all[i]
    <3>1. CASE i \in 1..n
      BY <1>5, <2>1, <3>1
    <3>2. CASE i \notin 1..n
      <4>1. i - n \in 1..m - n /\ n + (i - n) = i
        BY <1>1, <3>2
      <4>2. two[n + (i - n)] = s[n + (i - n)]
        BY <2>1, <4>1
      <4> QED
        BY <1>5, <4>1, <4>2
    <3> QED
      BY <3>1, <3>2
  <2>3. two = all
    BY <1>5, <2>1, <2>2
  <2> QED
    BY <2>3 DEF two
<1>7. Strip(all) = Strip(pre) \o Strip(chunk)
  BY <1>3, <1>4, <1>6, StripConcat
<1>8. Arrived(a, m) = Strip(all) /\ Arrived(a, n) = Strip(pre)
  BY DEF Arrived, Strip, all, pre, s
<1>9. chunk # <<>>
  <2>1. Len(<<>>) = 0 /\ Len(chunk) # 0
    BY <1>1, <1>3
  <2> QED
    BY <2>1
<1>10. Proper(chunk)
  <2>1. \A i \in 1..Len(chunk) - 1 : /\ i \in 1..m - n /\ i + 1 \in 1..m - n
                                     /\ n + i \in 1..Len(s) - 1 /\ n + (i + 1) = (n + i) + 1
    BY <1>1, <1>3
  <2> QED
    BY <1>2, <1>3, <2>1 DEF Proper
<1> QED
  BY <1>3, <1>7, <1>8, <1>9, <1>10 DEF s

LEMMA ArrivedNothing ==
  ASSUME NEW a
  PROVE  Arrived(a, 0) = <<>>
<1>1. SubSeq(a.bytes, 1, 0) = <<>>
  OBVIOUS
<1> QED
  BY <1>1, PickEmpty DEF Arrived

LEMMA HeldIs ==
  ASSUME NEW a, NEW n, NEW rec, Recorded(Arrived(a, n), rec), NEW new,
         new.output = rec.output, new.done = rec.done,
         InFullAt(a, n) => new.error \in {"none", "timeout", "network"}
  PROVE  Held(a, n, new)
<1>1. rec.done \in BOOLEAN
  BY DEF Recorded, Records
<1> QED
  BY <1>1 DEF Recorded, Held

LEMMA RequestInit == RequestInv("scheduled", NoAnswer, 0, <<>>, NewRecord)
<1>1. 0 \in 0..Len(NoAnswer.bytes) /\ <<>> \in Seq(Bytes)
  BY NoAnswerFacts
<1> QED
  BY <1>1, NoAnswerFacts DEF RequestInv

LEMMA RequestDispatched ==
  ASSUME NEW a, NEW n, NEW buf, NEW rec, RequestInv("scheduled", a, n, buf, rec)
  PROVE  RequestInv("waiting", a, n, buf, rec)
  BY DEF RequestInv

LEMMA RequestAnswered ==
  ASSUME NEW old, NEW n, NEW buf, NEW rec, RequestInv("waiting", old, n, buf, rec),
         NEW a \in Answers,
         NEW new, new = [rec EXCEPT !.status = a.status,
                                    !.error = IF a.sse THEN "none" ELSE "content"]
  PROVE  RequestInv(IF a.sse THEN "streaming" ELSE "ended", a, n, buf, new)
<1>1. n = 0 /\ buf = <<>> /\ rec = NewRecord
  BY DEF RequestInv
<1>2. a.status \in {"ok", "other"} /\ a.sse \in BOOLEAN /\ Len(a.bytes) \in Nat
  BY AnswerFacts
<1>3. /\ new.status = a.status /\ new.error = IF a.sse THEN "none" ELSE "content"
      /\ new.done = FALSE /\ new.output = <<>> /\ new \in Records
  <2> DEFINE error == IF a.sse THEN "none" ELSE "content"
  <2>1. error \in Errors
    BY DEF Errors
  <2> HIDE DEF error
  <2>2. new = [rec EXCEPT !.status = a.status, !.error = error] /\ rec \in Records
    BY <1>1, NoAnswerFacts DEF error
  <2>3. rec.done = FALSE /\ rec.output = <<>>
    BY <1>1 DEF NewRecord
  <2>4. a.status \in {"none", "ok", "other"}
    BY <1>2
  <2>5. new \in Records /\ new.status = a.status /\ new.error = error
    BY <2>1, <2>2, <2>4 DEF Records
  <2>6. new.done = rec.done /\ new.output = rec.output
    BY <2>2 DEF Records
  <2> QED
    BY <2>3, <2>5, <2>6 DEF error
<1>4. 0 \in 0..Len(a.bytes) /\ <<>> \in Seq(Bytes) /\ Arrived(a, 0) = <<>>
  BY <1>2, ArrivedNothing
<1>5. CASE a.sse
  <2>1. Scanned(<<>>, <<>>) /\ Recorded(<<>>, new)
    BY <1>3, <1>5, NothingArrived
  <2>2. Strip(<<>>) = <<>> /\ <<>> # Append(<<>>, "R")
    BY StripEmpty
  <2>3. Streams(a, 0, <<>>, new)
    BY <1>3, <1>4, <1>5, <2>1, <2>2 DEF Streams, Buffered
  <2>4. Held(a, 0, new)
    BY <1>3, <1>4, <1>5, <2>1, HeldIs
  <2> QED
    BY <1>1, <1>3, <1>4, <1>5, <2>3, <2>4 DEF RequestInv
<1>6. CASE ~a.sse
  <2>1. ~StrictRequestSuccess(new)
    BY <1>3, <1>6 DEF StrictRequestSuccess
  <2> QED
    BY <1>1, <1>3, <1>4, <1>6, <2>1 DEF RequestInv
<1> QED
  BY <1>5, <1>6

\* An answer that is in full has no malformed line, and all its lines are in
\* events that have ended.
LEMMA FullFacts ==
  ASSUME NEW a, NEW n, InFullAt(a, n)
  PROVE  /\ a \in Answers /\ n = Len(a.bytes) /\ Malformed(Arrived(a, n)) = {}
         /\ \A i \in DOMAIN Arrived(a, n) :
              Arrived(a, n)[i] \in Lines => Closed(Arrived(a, n), i)
         /\ n # 0
<1>1. a \in Answers /\ InFull(a) /\ n = Len(a.bytes)
  BY DEF InFullAt, FullAnswers
<1>2. /\ Malformed(Arrived(a, n)) = {}
      /\ \E i \in DOMAIN Arrived(a, n) : Arrived(a, n)[i] = "done"
      /\ \A i \in DOMAIN Arrived(a, n) : Arrived(a, n)[i] \in Lines => Closed(Arrived(a, n), i)
  BY <1>1 DEF InFull
<1>3. n # 0
  <2>1. DOMAIN <<>> = {}
    OBVIOUS
  <2> QED
    BY <1>2, <2>1, ArrivedNothing
<1> QED
  BY <1>1, <1>2, <1>3

LEMMA RequestChunk ==
  ASSUME NEW a, NEW n, NEW buf, NEW rec, RequestInv("streaming", a, n, buf, rec),
         NEW m \in n + 1..Len(a.bytes),
         NEW parsed, parsed = ParseSseEvents(buf \o SubSeq(a.bytes, n + 1, m)),
         NEW new, new = TakeAll(rec, parsed.events)
  PROVE  /\ RequestInv(IF new.error = "none" THEN "streaming" ELSE "ended", a, m, parsed.rest, new)
         /\ InFullAt(a, m) => new.error = "none"
         /\ ~InFullAt(a, n)
<1> DEFINE chunk == SubSeq(a.bytes, n + 1, m)
           text == Arrived(a, n)
           more == Arrived(a, m)
           rest == Strip(buf)
<1>1. /\ a \in Answers /\ a.sse /\ rec.error = "none" /\ rec.status = a.status
      /\ Recorded(text, rec) /\ Scanned(text, rest) /\ Buffered(rest, buf)
      /\ buf = Append(rest, "R") => n > 0 /\ a.bytes[n] = "R"
      /\ n \in 0..Len(a.bytes) /\ rec \in Records
  BY DEF RequestInv, Streams
<1>2. /\ chunk \in Seq(Bytes) /\ Len(chunk) = m - n /\ chunk # <<>> /\ Proper(chunk)
      /\ \A i \in 1..m - n : chunk[i] = a.bytes[n + i]
      /\ more = text \o Strip(chunk)
  BY <1>1, ChunkOf
<1>3. Len(a.bytes) \in Nat /\ n \in Nat /\ m \in Nat /\ n < m /\ m <= Len(a.bytes)
  BY <1>1, AnswerFacts
<1>4. parsed = ParseSseEvents(buf \o chunk)
  OBVIOUS
<1> HIDE DEF chunk, text, more, rest
<1>5. buf = Append(rest, "R") => chunk[1] = "N"
  <2>1. ASSUME buf = Append(rest, "R") PROVE chunk[1] = "N"
    <3>1. n \in 1..Len(a.bytes) /\ a.bytes[n] = "R"
      BY <1>1, <1>3, <2>1
    <3>2. a.bytes[n + 1] = "N"
      BY <1>1, <3>1, AnswerFacts
    <3>3. 1 \in 1..m - n
      BY <1>3
    <3> QED
      BY <1>2, <3>2, <3>3
  <2> QED
    BY <2>1
<1>6. /\ Recorded(more, new) /\ new.status = rec.status
      /\ \E q : /\ Scanned(more, q) /\ Buffered(q, parsed.rest)
                /\ parsed.rest = Append(q, "R") => chunk[Len(chunk)] = "R"
  <2>1. Scanned(text, rest) /\ Recorded(text, rec) /\ Buffered(rest, buf)
    BY <1>1
  <2>2. chunk \in Seq(Bytes) /\ chunk # <<>> /\ Proper(chunk)
    BY <1>2
  <2>3. /\ Recorded(text \o Strip(chunk), TakeAll(rec, parsed.events))
        /\ TakeAll(rec, parsed.events).status = rec.status
        /\ \E q : /\ Scanned(text \o Strip(chunk), q) /\ Buffered(q, parsed.rest)
                  /\ parsed.rest = Append(q, "R") => chunk[Len(chunk)] = "R"
    BY <1>4, <1>5, <2>1, <2>2, ParseChunk
  <2> QED
    BY <1>2, <2>3
<1>7. PICK q : /\ Scanned(more, q) /\ Buffered(q, parsed.rest)
               /\ parsed.rest = Append(q, "R") => chunk[Len(chunk)] = "R"
  BY <1>6
<1>8. q \in Seq(TextBytes)
  BY <1>7 DEF Scanned
<1>9. parsed.rest \in Seq(Bytes) /\ Strip(parsed.rest) = q
  BY <1>7, <1>8, BufferedFacts
<1>10. chunk[Len(chunk)] = a.bytes[m] /\ m > 0
  <2>1. m - n \in 1..m - n /\ n + (m - n) = m
    BY <1>3
  <2> QED
    BY <1>2, <1>3, <2>1
<1>11. /\ new \in Records /\ new.error \in {"none", "stream"}
       /\ new.error = "stream" <=> Malformed(more) # {}
  BY <1>6 DEF Recorded
<1>12. InFullAt(a, m) => new.error = "none"
  BY <1>11, FullFacts DEF more
<1>13. Held(a, m, new)
  BY <1>6, <1>12, HeldIs DEF more
<1>14. ~InFullAt(a, n)
  BY <1>3 DEF InFullAt
<1>15. m \in 0..Len(a.bytes)
  BY <1>3
<1>16. new.error = "none" => Streams(a, m, parsed.rest, new)
  BY <1>1, <1>6, <1>7, <1>9, <1>10 DEF Streams, more
<1>17. new.error # "none" => ~StrictRequestSuccess(new)
  BY DEF StrictRequestSuccess
<1>18. RequestInv(IF new.error = "none" THEN "streaming" ELSE "ended", a, m, parsed.rest, new)
  BY <1>1, <1>9, <1>11, <1>13, <1>15, <1>16, <1>17 DEF RequestInv
<1> QED
  BY <1>12, <1>14, <1>18

\* A line of the rest is a line that no blank line follows, and the other way round.
LEMMA LineLeft ==
  ASSUME NEW text, NEW buf, Scanned(text, Strip(buf)), Buffered(Strip(buf), buf)
  PROVE  (\E i \in DOMAIN buf : buf[i] \in Lines)
           <=> \E i \in DOMAIN text : text[i] \in Lines /\ ~Closed(text, i)
<1> DEFINE rest == Strip(buf)
           d == Cut(text, rest)
<1>1. Scanned(text, rest) /\ rest \in Seq(TextBytes)
  BY DEF Scanned
<1>2. Buffered(rest, buf)
  OBVIOUS
<1>3. /\ Len(text) \in Nat /\ Len(rest) \in Nat /\ d \in Nat
      /\ d + Len(rest) = Len(text) /\ DOMAIN text = 1..Len(text)
  BY <1>1, CutFacts
<1>4. \A i \in 1..Len(rest) : rest[i] = text[d + i]
  BY <1>1 DEF Scanned, Cut
<1>5. \A i \in 1..Len(text) : text[i] \in Lines => (Closed(text, i) <=> i <= d)
  BY <1>1, ClosedIs
<1>6. "R" \in Bytes /\ rest \in Seq(Bytes) /\ "R" \notin Lines
  BY <1>1, StripText DEF Bytes, Lines, DataLines, TextLines
<1> HIDE DEF rest, d
<1>7. (\E i \in DOMAIN buf : buf[i] \in Lines) <=> \E i \in 1..Len(rest) : rest[i] \in Lines
  <2>1. CASE buf = rest
    BY <1>1, <2>1
  <2>2. CASE buf = Append(rest, "R")
    <3>1. /\ Len(buf) = Len(rest) + 1 /\ buf[Len(rest) + 1] = "R" /\ buf \in Seq(Bytes)
          /\ \A i \in 1..Len(rest) : buf[i] = rest[i]
      BY <1>6, <2>2, AppendFacts
    <3>2. /\ DOMAIN buf = 1..Len(rest) + 1
          /\ \A i \in 1..Len(rest) + 1 : i \in 1..Len(rest) \/ i = Len(rest) + 1
          /\ \A i \in 1..Len(rest) : i \in 1..Len(rest) + 1
      BY <1>3, <3>1
    <3> QED
      BY <1>6, <3>1, <3>2
  <2> QED
    BY <1>2, <2>1, <2>2 DEF Buffered
<1>8. ASSUME NEW i \in 1..Len(rest), rest[i] \in Lines
      PROVE  d + i \in 1..Len(text) /\ text[d + i] \in Lines /\ ~Closed(text, d + i)
  <2>1. d + i \in 1..Len(text) /\ ~(d + i <= d)
    BY <1>3
  <2> QED
    BY <1>4, <1>5, <1>8, <2>1
<1>9. ASSUME NEW i \in 1..Len(text), text[i] \in Lines, ~Closed(text, i)
      PROVE  i - d \in 1..Len(rest) /\ rest[i - d] \in Lines
  <2>1. i - d \in 1..Len(rest) /\ d + (i - d) = i
    BY <1>3, <1>5, <1>9
  <2> QED
    BY <1>4, <1>9, <2>1
<1> QED
  BY <1>3, <1>7, <1>8, <1>9

LEMMA ErrorSet ==
  ASSUME NEW rec \in Records, NEW error \in Errors, NEW new, new = [rec EXCEPT !.error = error]
  PROVE  /\ new \in Records /\ new.error = error /\ new.status = rec.status
         /\ new.output = rec.output /\ new.done = rec.done /\ new.semantic = rec.semantic
<1>1. new \in Records /\ new.error = error
  BY DEF Records
<1>2. new.status = rec.status /\ new.output = rec.output
  BY DEF Records
<1>3. new.done = rec.done /\ new.semantic = rec.semantic
  BY DEF Records
<1> QED
  BY <1>1, <1>2, <1>3

\* A texts' sequence that is not blank comes from a text line.
LEMMA TextsFrom ==
  ASSUME NEW text \in Seq(TextBytes), NEW at,
         \A i \in DOMAIN text : text[i] \notin {"t1", "t2"}
  PROVE  Blank(TextsAt(text, at))
<1> DEFINE here == {i \in at : text[i] \in TextLines}
<1>1. \A i \in 1..Len(text) : i \in here => text[i] \in {"blank"}
  BY DEF TextLines
<1> HIDE DEF here
<1>2. Pick(text, here) \in Seq({"blank"})
  BY <1>1, PickType
<1>3. TextsAt(text, at) \in Seq({"blank"})
  BY <1>2 DEF TextsAt, here
<1>4. \A i \in DOMAIN TextsAt(text, at) : TextsAt(text, at)[i] \in {"blank"}
  BY <1>3
<1> QED
  BY <1>4 DEF Blank

LEMMA RequestEof ==
  ASSUME NEW a, NEW n, NEW buf, NEW rec, RequestInv("streaming", a, n, buf, rec),
         n = Len(a.bytes), NEW error,
         error = IF \E i \in DOMAIN buf : buf[i] \in Lines THEN "incomplete" ELSE rec.error,
         NEW new, new = [rec EXCEPT !.error = error]
  PROVE  RequestInv("ended", a, n, buf, new)
<1> DEFINE text == Arrived(a, n)
           rest == Strip(buf)
           left == \E i \in DOMAIN buf : buf[i] \in Lines
<1>1. /\ a \in Answers /\ a.sse /\ rec.error = "none" /\ rec.status = a.status
      /\ n \in 0..Len(a.bytes) /\ rec \in Records /\ buf \in Seq(Bytes)
  BY DEF RequestInv, Streams
<1>2. Recorded(text, rec) /\ Scanned(text, rest) /\ Buffered(rest, buf)
  BY DEF RequestInv, Streams
<1>3. left <=> \E i \in DOMAIN text : text[i] \in Lines /\ ~Closed(text, i)
  BY <1>2, LineLeft
<1>4. text \in Seq(TextBytes)
  BY <1>2 DEF Scanned
<1>5. error = IF left THEN "incomplete" ELSE "none"
  BY <1>1
<1>6. error \in Errors
  BY <1>5 DEF Errors
<1> HIDE DEF text, rest, left
<1>7. /\ new \in Records /\ new.error = error /\ new.status = rec.status
      /\ new.output = rec.output /\ new.done = rec.done /\ new.semantic = rec.semantic
  BY <1>1, <1>6, ErrorSet
<1>8. InFullAt(a, n) => new.error \in {"none", "timeout", "network"}
  <2>1. InFullAt(a, n) => ~left
    BY <1>3, FullFacts DEF text
  <2> QED
    BY <1>5, <1>7, <2>1
<1>9. Held(a, n, new)
  BY <1>2, <1>7, <1>8, HeldIs DEF text
<1>10. ASSUME StrictRequestSuccess(new) PROVE InFullAt(a, n)
  <2>1. new.status = "ok" /\ new.error = "none" /\ new.done /\ ~Blank(new.output)
    BY <1>10 DEF StrictRequestSuccess
  <2>2. a.status = "ok" /\ rec.done /\ ~Blank(rec.output) /\ ~left
    BY <1>1, <1>5, <1>7, <2>1
  <2>3. Malformed(text) = {}
    BY <1>1, <1>2 DEF Recorded
  <2>4. \A i \in DOMAIN text : text[i] \in Lines => Closed(text, i)
    BY <1>3, <2>2
  <2>5. \E i \in DOMAIN text : text[i] = "done"
    <3>1. PICK i \in Delivered(text) : text[i] = "done"
      BY <1>2, <2>2 DEF Recorded
    <3> QED
      BY <3>1 DEF Delivered
  <2>6. \E i \in DOMAIN text : text[i] \in {"t1", "t2"}
    <3>1. rec.output = TextsAt(text, Delivered(text))
      BY <1>2 DEF Recorded
    <3> QED
      BY <1>4, <2>2, <3>1, TextsFrom
  <2>7. text = Arrived(a, Len(a.bytes))
    BY DEF text
  <2>8. InFull(a)
    BY <1>1, <2>2, <2>3, <2>4, <2>5, <2>6, <2>7 DEF InFull
  <2> QED
    BY <1>1, <2>8 DEF InFullAt, FullAnswers
<1> QED
  BY <1>1, <1>7, <1>9, <1>10 DEF RequestInv

LEMMA RequestRaises ==
  ASSUME NEW ph \in {"waiting", "streaming"}, NEW a, NEW n, NEW buf, NEW rec,
         RequestInv(ph, a, n, buf, rec), NEW error \in {"timeout", "network"},
         NEW new, new = [rec EXCEPT !.error = error]
  PROVE  RequestInv("ended", a, n, buf, new)
<1>1. rec \in Records /\ error \in Errors
  BY DEF RequestInv, Errors
<1>2. /\ new \in Records /\ new.error = error /\ new.status = rec.status
      /\ new.output = rec.output /\ new.done = rec.done /\ new.semantic = rec.semantic
  BY <1>1, ErrorSet
<1>3. /\ a \in Answers \cup {NoAnswer} /\ n \in 0..Len(a.bytes) /\ buf \in Seq(Bytes)
      /\ a.sse => Held(a, n, rec)
  BY DEF RequestInv
<1>4. a.sse => Held(a, n, new)
  <2>1. new.error \in {"none", "timeout", "network"}
    BY <1>2
  <2> QED
    BY <1>2, <1>3, <2>1 DEF Held
<1>5. ~StrictRequestSuccess(new)
  <2>1. new.error # "none"
    BY <1>2
  <2> QED
    BY <2>1 DEF StrictRequestSuccess
<1> QED
  BY <1>2, <1>3, <1>4, <1>5 DEF RequestInv


-----------------------------------------------------------------------------
(* The client.                                                             *)

Phases == {"scheduled", "waiting", "streaming", "ended"}

RequestsInv ==
  /\ manifest \in Manifests
  /\ phase \in [Requests -> Phases] /\ answer \in [Requests -> Answers \cup {NoAnswer}]
  /\ sent \in [Requests -> Nat] /\ buffer \in [Requests -> Seq(Bytes)]
  /\ record \in [Requests -> Records]
  /\ \A r \in Requests : RequestInv(phase[r], answer[r], sent[r], buffer[r], record[r])

Positions == {"load", "gather", "rows", "meta", "report", "ended"}
RowsFiles == [by : {"nobody", "earlier", "this"}, count : Nat, cut : BOOLEAN]
WholeRows == rowsFile = [by |-> "this", count |-> Len(manifest), cut |-> FALSE]
AllEnded  == \A r \in Requests : phase[r] = "ended"
MetaFiles == {"absent", "earlier", "cut", "clean", "anonymous", "failures"}
Verdicts  == IF Failures = {} THEN {"clean", "anonymous"} ELSE {"failures"}

\* The files are written once every request has ended, the rows first; the
\* exit status is what the files say.
FilesInv ==
  /\ pc \in Positions /\ rowsFile \in RowsFiles
  /\ metaFile \in MetaFiles
  /\ exit \in {"none", "zero", "failed", "killed"}
  /\ pc \in {"load", "gather", "rows"} => rowsFile.by # "this"
  /\ pc \in {"rows", "meta", "report"} \/ rowsFile.by = "this" => AllEnded
  /\ pc \in {"meta", "report"} => WholeRows
  /\ pc = "report" => metaFile \in Verdicts
  /\ pc # "ended" => exit = "none"
  /\ exit = "zero" => WholeRows /\ metaFile \in {"clean", "anonymous"} /\ Failures = {}

IInv == RequestsInv /\ FilesInv

LEMMA Replaced ==
  ASSUME NEW f, NEW S, NEW T, f \in [S -> T], NEW x \in S, NEW y \in T,
         NEW g, g = [f EXCEPT ![x] = y]
  PROVE  g \in [S -> T] /\ g[x] = y /\ \A z \in S \ {x} : g[z] = f[z]
  OBVIOUS

LEMMA Kept ==
  ASSUME NEW f, NEW S, NEW T, f \in [S -> T], NEW x \in S
  PROVE  f = [f EXCEPT ![x] = f[x]]
  OBVIOUS

LEMMA RequestTypes ==
  ASSUME NEW ph, NEW a, NEW n, NEW buf, NEW rec, RequestInv(ph, a, n, buf, rec)
  PROVE  /\ ph \in Phases /\ a \in Answers \cup {NoAnswer} /\ n \in Nat
         /\ buf \in Seq(Bytes) /\ rec \in Records
<1>1. Len(a.bytes) \in Nat
  BY AnswerFacts, NoAnswerFacts DEF RequestInv
<1> QED
  BY <1>1 DEF RequestInv, Phases

\* A step of one request keeps the invariant of all of them.
LEMMA OneRequest ==
  ASSUME RequestsInv, manifest' = manifest, NEW r \in Requests,
         NEW ph, NEW a, NEW n, NEW buf, NEW rec, RequestInv(ph, a, n, buf, rec),
         phase' = [phase EXCEPT ![r] = ph], answer' = [answer EXCEPT ![r] = a],
         sent' = [sent EXCEPT ![r] = n], buffer' = [buffer EXCEPT ![r] = buf],
         record' = [record EXCEPT ![r] = rec]
  PROVE  RequestsInv'
<1>1. Requests' = Requests
  BY DEF Requests
<1>2. /\ ph \in Phases /\ a \in Answers \cup {NoAnswer} /\ n \in Nat
      /\ buf \in Seq(Bytes) /\ rec \in Records
  BY RequestTypes
<1>3. phase' \in [Requests -> Phases] /\ phase'[r] = ph
      /\ \A q \in Requests \ {r} : phase'[q] = phase[q]
  BY <1>2, Replaced DEF RequestsInv
<1>4. answer' \in [Requests -> Answers \cup {NoAnswer}] /\ answer'[r] = a
      /\ \A q \in Requests \ {r} : answer'[q] = answer[q]
  BY <1>2, Replaced DEF RequestsInv
<1>5. sent' \in [Requests -> Nat] /\ sent'[r] = n
      /\ \A q \in Requests \ {r} : sent'[q] = sent[q]
  BY <1>2, Replaced DEF RequestsInv
<1>6. buffer' \in [Requests -> Seq(Bytes)] /\ buffer'[r] = buf
      /\ \A q \in Requests \ {r} : buffer'[q] = buffer[q]
  BY <1>2, Replaced DEF RequestsInv
<1>7. record' \in [Requests -> Records] /\ record'[r] = rec
      /\ \A q \in Requests \ {r} : record'[q] = record[q]
  BY <1>2, Replaced DEF RequestsInv
<1>8. ASSUME NEW q \in Requests
      PROVE  RequestInv(phase'[q], answer'[q], sent'[q], buffer'[q], record'[q])
  <2>1. CASE q = r
    BY <2>1, <1>3, <1>4, <1>5, <1>6, <1>7
  <2>2. CASE q # r
    <3>1. RequestInv(phase[q], answer[q], sent[q], buffer[q], record[q])
      BY DEF RequestsInv
    <3> QED
      BY <2>2, <3>1, <1>3, <1>4, <1>5, <1>6, <1>7
  <2> QED
    BY <2>1, <2>2
<1> QED
  BY <1>1, <1>3, <1>4, <1>5, <1>6, <1>7, <1>8 DEF RequestsInv

LEMMA RequestsKept ==
  ASSUME RequestsInv, UNCHANGED <<manifest, requestVars>>
  PROVE  RequestsInv' /\ Requests' = Requests /\ (AllEnded' <=> AllEnded) /\ Failures' = Failures
  BY DEF requestVars, RequestsInv, Requests, AllEnded, Failures

\* While the requests run, main waits for them.
LEMMA FilesKept ==
  ASSUME FilesInv, pc = "gather", UNCHANGED <<pc, fileVars, exit>>
  PROVE  FilesInv'
  BY DEF FilesInv, fileVars, Positions, RowsFiles

LEMMA DispatchStep ==
  ASSUME RequestsInv, NEW r \in Requests, Dispatch(r)
  PROVE  RequestsInv'
<1>1. /\ RequestInv("waiting", answer[r], sent[r], buffer[r], record[r])
  <2>1. RequestInv("scheduled", answer[r], sent[r], buffer[r], record[r])
    BY DEF RequestsInv, Dispatch
  <2> QED
    BY <2>1, RequestDispatched
<1>2. /\ answer = [answer EXCEPT ![r] = answer[r]] /\ sent = [sent EXCEPT ![r] = sent[r]]
      /\ buffer = [buffer EXCEPT ![r] = buffer[r]] /\ record = [record EXCEPT ![r] = record[r]]
  BY Kept DEF RequestsInv
<1>3. phase' = [phase EXCEPT ![r] = "waiting"] /\ manifest' = manifest
  BY DEF Dispatch
<1>4. answer' = [answer EXCEPT ![r] = answer[r]] /\ sent' = [sent EXCEPT ![r] = sent[r]]
  BY <1>2 DEF Dispatch
<1>5. buffer' = [buffer EXCEPT ![r] = buffer[r]] /\ record' = [record EXCEPT ![r] = record[r]]
  BY <1>2 DEF Dispatch
<1> QED
  BY <1>1, <1>3, <1>4, <1>5, OneRequest

\* A request answered: its record has the status, and an error unless it streams.
LEMMA RespondStep ==
  ASSUME RequestsInv, NEW r \in Requests, Respond(r)
  PROVE  /\ RequestsInv'
         /\ \E a \in Answers :
              /\ answer' = [answer EXCEPT ![r] = a] /\ sent[r] = 0
              /\ phase' = [phase EXCEPT ![r] = IF a.sse THEN "streaming" ELSE "ended"]
              /\ ~a.sse => record'[r].error # "none"
              /\ \A q \in Requests \ {r} : record'[q] = record[q]
<1>1. PICK a \in Answers :
        /\ answer' = [answer EXCEPT ![r] = a]
        /\ record' = [record EXCEPT ![r].status = a.status,
                                    ![r].error = IF a.sse THEN "none" ELSE "content"]
        /\ phase' = [phase EXCEPT ![r] = IF a.sse THEN "streaming" ELSE "ended"]
  BY DEF Respond
<1> DEFINE new == [record[r] EXCEPT !.status = a.status,
                                    !.error = IF a.sse THEN "none" ELSE "content"]
<1>2. RequestInv("waiting", answer[r], sent[r], buffer[r],
record[r]) /\ record \in [Requests -> Records]
  BY DEF RequestsInv, Respond
<1>3. RequestInv(IF a.sse THEN "streaming" ELSE "ended", a, sent[r], buffer[r], new)
  BY <1>2, RequestAnswered
<1>4. sent[r] = 0
  BY <1>2 DEF RequestInv
<1>5. record' = [record EXCEPT ![r] = new]
  BY <1>1, <1>2
<1>6. ~a.sse => new.error # "none"
  <2>1. record[r] \in Records
    BY <1>2
  <2> QED
    BY <2>1 DEF Records
<1> HIDE DEF new
<1>7. sent = [sent EXCEPT ![r] = sent[r]] /\ buffer = [buffer EXCEPT ![r] = buffer[r]]
  BY Kept DEF RequestsInv
<1>8. /\ sent' = [sent EXCEPT ![r] = sent[r]] /\ buffer' = [buffer EXCEPT ![r] = buffer[r]]
      /\ manifest' = manifest
  BY <1>7 DEF Respond
<1>9. RequestsInv'
  <2> DEFINE ph == IF a.sse THEN "streaming" ELSE "ended"
  <2>1. RequestInv(ph, a, sent[r], buffer[r], new) /\ phase' = [phase EXCEPT ![r] = ph]
    BY <1>1, <1>3
  <2>2. answer' = [answer EXCEPT ![r] = a]
    BY <1>1
  <2> HIDE DEF ph
  <2> QED
    BY <1>5, <1>8, <2>1, <2>2, OneRequest
<1>10. new \in Records
  BY <1>3, RequestTypes
<1>11. record'[r] = new /\ \A q \in Requests \ {r} : record'[q] = record[q]
  BY <1>2, <1>5, <1>10, Replaced
<1> QED
  BY <1>1, <1>4, <1>6, <1>9, <1>11

\* A chunk parsed: an answer that has arrived in full by it had not before, and
\* leaves the request streaming.
LEMMA ChunkStep ==
  ASSUME RequestsInv, NEW r \in Requests, Chunk(r)
  PROVE  /\ RequestsInv'
         /\ \E m, new :
              /\ sent' = [sent EXCEPT ![r] = m] /\ record' = [record EXCEPT ![r] = new]
              /\ phase' = [phase EXCEPT ![r] = IF new.error = "none" THEN "streaming" ELSE "ended"]
              /\ m \in Nat /\ new \in Records
              /\ InFullAt(answer[r], m) => new.error = "none"
         /\ ~InFullAt(answer[r], sent[r])
<1>1. PICK m \in sent[r] + 1 .. Len(answer[r].bytes) :
        LET chunk  == SubSeq(answer[r].bytes, sent[r] + 1, m)
            parsed == ParseSseEvents(buffer[r] \o chunk)
            rec    == TakeAll(record[r], parsed.events)
        IN /\ sent'   = [sent EXCEPT ![r] = m]
           /\ buffer' = [buffer EXCEPT ![r] = parsed.rest]
           /\ record' = [record EXCEPT ![r] = rec]
           /\ phase'  = [phase EXCEPT ![r] = IF rec.error = "none" THEN @ ELSE "ended"]
  BY DEF Chunk
<1> DEFINE parsed == ParseSseEvents(buffer[r] \o SubSeq(answer[r].bytes, sent[r] + 1, m))
           new == TakeAll(record[r], parsed.events)
<1>2. /\ sent' = [sent EXCEPT ![r] = m] /\ buffer' = [buffer EXCEPT ![r] = parsed.rest]
      /\ record' = [record EXCEPT ![r] = new]
      /\ phase' = [phase EXCEPT ![r] = IF new.error = "none" THEN phase[r] ELSE "ended"]
  BY <1>1
<1>3. phase[r] = "streaming" /\ manifest' = manifest /\ answer' = answer
  BY DEF Chunk
<1>4. RequestInv("streaming", answer[r], sent[r], buffer[r], record[r])
  BY <1>3 DEF RequestsInv
<1>5. /\ RequestInv(IF new.error = "none" THEN "streaming" ELSE "ended",
                    answer[r], m, parsed.rest, new)
      /\ InFullAt(answer[r], m) => new.error = "none"
      /\ ~InFullAt(answer[r], sent[r])
  BY <1>4, RequestChunk
<1> HIDE DEF parsed, new
<1>6. phase' = [phase EXCEPT ![r] = IF new.error = "none" THEN "streaming" ELSE "ended"]
  BY <1>2, <1>3
<1>7. answer = [answer EXCEPT ![r] = answer[r]]
  BY Kept DEF RequestsInv
<1>8. answer' = [answer EXCEPT ![r] = answer[r]]
  BY <1>3, <1>7
<1>9. RequestsInv'
  BY <1>2, <1>3, <1>5, <1>6, <1>8, OneRequest
<1>10. m \in Nat /\ new \in Records
  BY <1>5, RequestTypes
<1> QED
  BY <1>2, <1>5, <1>6, <1>9, <1>10

LEMMA EofStep ==
  ASSUME RequestsInv, NEW r \in Requests, Eof(r)
  PROVE  RequestsInv'
<1> DEFINE error == IF \E i \in DOMAIN buffer[r] : buffer[r][i] \in Lines
                    THEN "incomplete" ELSE record[r].error
           new == [record[r] EXCEPT !.error = error]
<1>1. /\ phase[r] = "streaming" /\ sent[r] = Len(answer[r].bytes)
      /\ phase' = [phase EXCEPT ![r] = "ended"]
      /\ manifest' = manifest /\ answer' = answer /\ sent' = sent /\ buffer' = buffer
  BY DEF Eof
<1>2. record \in [Requests -> Records]
  BY DEF RequestsInv
<1>3. record' = [record EXCEPT ![r] = new]
  BY <1>2 DEF Eof
<1>4. RequestInv("streaming", answer[r], sent[r], buffer[r], record[r])
  BY <1>1 DEF RequestsInv
<1>5. RequestInv("ended", answer[r], sent[r], buffer[r], new)
  BY <1>1, <1>4, RequestEof
<1> HIDE DEF new
<1>6. /\ answer = [answer EXCEPT ![r] = answer[r]] /\ sent = [sent EXCEPT ![r] = sent[r]]
      /\ buffer = [buffer EXCEPT ![r] = buffer[r]]
  BY Kept DEF RequestsInv
<1> QED
  BY <1>1, <1>3, <1>5, <1>6, OneRequest

LEMMA RaisesStep ==
  ASSUME RequestsInv, NEW r \in Requests, phase[r] \in {"waiting", "streaming"},
         NEW error \in {"timeout", "network"}, Raises(r, error)
  PROVE  /\ RequestsInv'
         /\ \E new \in Records : record' = [record EXCEPT ![r] = new] /\ new.error # "none"
<1> DEFINE new == [record[r] EXCEPT !.error = error]
<1>1. /\ phase' = [phase EXCEPT ![r] = "ended"]
      /\ manifest' = manifest /\ answer' = answer /\ sent' = sent /\ buffer' = buffer
  BY DEF Raises
<1>2. record \in [Requests -> Records] /\ record[r] \in Records
  BY DEF RequestsInv
<1>3. record' = [record EXCEPT ![r] = new]
  BY <1>2 DEF Raises
<1>4. RequestInv(phase[r], answer[r], sent[r], buffer[r], record[r])
  BY DEF RequestsInv
<1>5. RequestInv("ended", answer[r], sent[r], buffer[r], new)
  BY <1>4, RequestRaises
<1>6. new \in Records /\ new.error # "none"
  BY <1>2, ErrorSet DEF Errors
<1> HIDE DEF new
<1>7. /\ answer = [answer EXCEPT ![r] = answer[r]] /\ sent = [sent EXCEPT ![r] = sent[r]]
      /\ buffer = [buffer EXCEPT ![r] = buffer[r]]
  BY Kept DEF RequestsInv
<1> QED
  BY <1>1, <1>3, <1>5, <1>6, <1>7, OneRequest

\* No record fails exactly when the validator's success predicate holds of all.
LEMMA SamePredicates ==
  ASSUME NEW rec
  PROVE  FailedRecord(rec) <=> ~StrictRequestSuccess(rec)
  BY DEF FailedRecord, StrictRequestSuccess

LEMMA IInvInit == Init => IInv
<1> SUFFICES ASSUME Init PROVE IInv
  OBVIOUS
<1>1. /\ manifest \in Manifests /\ pc = "load" /\ exit = "none"
      /\ phase  = [r \in Requests |-> "scheduled"] /\ answer = [r \in Requests |-> NoAnswer]
      /\ sent = [r \in Requests |-> 0] /\ buffer = [r \in Requests |-> <<>>]
      /\ record = [r \in Requests |-> NewRecord]
  BY DEF Init
<1>2. RequestsInv
  <2>1. /\ "scheduled" \in Phases /\ NoAnswer \in Answers \cup {NoAnswer} /\ 0 \in Nat
        /\ <<>> \in Seq(Bytes) /\ NewRecord \in Records
    BY RequestInit, RequestTypes
  <2>2. \A r \in Requests : RequestInv(phase[r], answer[r], sent[r], buffer[r], record[r])
    BY <1>1, RequestInit
  <2>3. /\ phase \in [Requests -> Phases] /\ answer \in [Requests -> Answers \cup {NoAnswer}]
        /\ sent \in [Requests -> Nat] /\ buffer \in [Requests -> Seq(Bytes)]
        /\ record \in [Requests -> Records]
    BY <1>1, <2>1
  <2> QED
    BY <1>1, <2>2, <2>3 DEF RequestsInv
<1>3. \/ rowsFile = [by |-> "nobody", count |-> 0, cut |-> FALSE] /\ metaFile = "absent"
      \/ rowsFile = [by |-> "earlier", count |-> 0, cut |-> FALSE] /\ metaFile = "earlier"
  BY DEF Init
<1>4. rowsFile \in RowsFiles /\ rowsFile.by # "this"
  <2>1. PICK by \in {"nobody", "earlier"} : rowsFile = [by |-> by, count |-> 0, cut |-> FALSE]
    BY <1>3
  <2> QED
    BY <2>1 DEF RowsFiles
<1>5. FilesInv
  BY <1>1, <1>3, <1>4 DEF FilesInv, Positions, MetaFiles
<1> QED
  BY <1>2, <1>5 DEF IInv

LEMMA LengthType ==
  ASSUME RequestsInv
  PROVE  Len(manifest) \in Nat /\ Requests = 1..Len(manifest)
<1>1. manifest \in Seq([id : STRING, offset : Nat, body : STRING])
  BY TraceAssumption DEF RequestsInv
<1> QED
  BY <1>1 DEF Requests

LEMMA MainStep ==
  ASSUME IInv, Main \/ Kill
  PROVE  IInv'
<1>1. UNCHANGED <<manifest, requestVars>>
  BY DEF Main, Load, Gather, WriteRows, WriteMetadata, MetadataRaises, Report, Kill
<1>2. RequestsInv /\ FilesInv
  BY DEF IInv
<1>3. /\ RequestsInv' /\ Requests' = Requests /\ (AllEnded' <=> AllEnded)
      /\ Failures' = Failures /\ manifest' = manifest
  BY <1>1, <1>2, RequestsKept
<1> SUFFICES FilesInv'
  BY <1>3 DEF IInv
<1>4. CASE Load
  BY <1>2, <1>3, <1>4 DEF Load, FilesInv, fileVars, Positions, WholeRows, Verdicts
<1>5. CASE Gather
  <2>1. AllEnded
    BY <1>5 DEF Gather, AllEnded
  <2> QED
    BY <1>2, <1>3, <1>5, <2>1 DEF Gather, FilesInv, fileVars, Positions, WholeRows, Verdicts
<1>6. CASE WriteRows
  <2>1. WholeRows'
    BY <1>3, <1>6 DEF WriteRows, WholeRows
  <2>2. rowsFile' \in RowsFiles
    BY <1>2, <1>6, LengthType DEF WriteRows, RowsFiles
  <2>3. /\ pc = "rows" /\ pc' = "meta" /\ metaFile' = metaFile /\ exit' = exit
    BY <1>6 DEF WriteRows
  <2> QED
    BY <1>2, <1>3, <2>1, <2>2, <2>3 DEF FilesInv, Positions
<1>7. CASE WriteMetadata
  <2>1. metaFile' \in Verdicts' /\ metaFile' \in MetaFiles
    BY <1>3, <1>7 DEF WriteMetadata, Verdicts, MetaFiles
  <2>2. pc = "meta" /\ pc' = "report" /\ rowsFile' = rowsFile /\ exit' = exit
    BY <1>7 DEF WriteMetadata
  <2>3. WholeRows' <=> WholeRows
    BY <1>3, <2>2 DEF WholeRows
  <2> QED
    BY <1>2, <1>3, <2>1, <2>2, <2>3 DEF FilesInv, Positions
<1>8. CASE MetadataRaises
  BY <1>2, <1>3, <1>8 DEF MetadataRaises, FilesInv, fileVars, Positions
<1>9. CASE Report
  <2>1. pc = "report" /\ pc' = "ended" /\ rowsFile' = rowsFile /\ metaFile' = metaFile
    BY <1>9 DEF Report, fileVars
  <2>2. WholeRows' /\ metaFile \in Verdicts
    BY <1>2, <1>3, <2>1 DEF FilesInv, WholeRows
  <2>3. exit' \in {"zero", "failed"} /\ (exit' = "zero" => Failures = {})
    BY <1>9 DEF Report
  <2>4. exit' = "zero" => metaFile' \in {"clean", "anonymous"} /\ Failures' = {}
    BY <1>3, <2>1, <2>2, <2>3 DEF Verdicts
  <2> QED
    BY <1>2, <1>3, <2>1, <2>2, <2>3, <2>4 DEF FilesInv, Positions
<1>10. CASE Kill
  <2>1. pc # "ended" /\ pc' = "ended" /\ exit' = "killed"
    BY <1>10 DEF Kill
  <2>2. /\ rowsFile' \in RowsFiles
        /\ metaFile' \in MetaFiles
        /\ rowsFile'.by = "this" => AllEnded
    <3>1. CASE UNCHANGED fileVars
      BY <1>2, <3>1 DEF FilesInv, fileVars
    <3>2. CASE pc = "rows" /\ metaFile' = metaFile /\
               \E n \in 0 .. Len(manifest), cut \in BOOLEAN :
                 rowsFile' = [by |-> "this", count |-> n, cut |-> cut]
      <4>1. AllEnded
        BY <1>2, <3>2 DEF FilesInv
      <4>2. PICK n \in 0 .. Len(manifest), cut \in BOOLEAN :
              rowsFile' = [by |-> "this", count |-> n, cut |-> cut]
        BY <3>2
      <4>3. n \in Nat
        BY <1>2, LengthType
      <4>4. rowsFile' \in RowsFiles
        BY <4>2, <4>3 DEF RowsFiles
      <4> QED
        BY <1>2, <3>2, <4>1, <4>4 DEF FilesInv
    <3>3. CASE pc = "meta" /\ metaFile' = "cut" /\ rowsFile' = rowsFile
      BY <1>2, <3>3 DEF FilesInv, MetaFiles
    <3> QED
      BY <1>10, <3>1, <3>2, <3>3 DEF Kill
  <2> QED
    BY <1>3, <2>1, <2>2 DEF FilesInv, Positions
<1> QED
  BY <1>4, <1>5, <1>6, <1>7, <1>8, <1>9, <1>10 DEF Main

LEMMA IInvStep == IInv /\ [Next]_vars => IInv'
<1> SUFFICES ASSUME IInv, [Next]_vars PROVE IInv'
  OBVIOUS
<1>1. RequestsInv /\ FilesInv
  BY DEF IInv
<1>2. CASE UNCHANGED vars
  <2>1. UNCHANGED <<manifest, requestVars>> /\ UNCHANGED <<pc, rowsFile, metaFile, exit>>
    BY <1>2 DEF vars, fileVars
  <2>2. /\ RequestsInv' /\ (AllEnded' <=> AllEnded) /\ Failures' = Failures
        /\ manifest' = manifest
    BY <1>1, <2>1, RequestsKept
  <2>3. (WholeRows' <=> WholeRows) /\ Verdicts' = Verdicts
    BY <2>1, <2>2 DEF WholeRows, Verdicts
  <2> QED
    BY <1>1, <2>1, <2>2, <2>3 DEF IInv, FilesInv
<1>3. CASE Main \/ Kill
  BY <1>3, MainStep
<1>4. CASE Ended
  <2>1. UNCHANGED vars
    BY <1>4 DEF Ended
  <2> QED
    BY <1>2, <2>1
<1>5. ASSUME NEW r \in Requests,
             Dispatch(r) \/ Respond(r) \/ Chunk(r) \/ Eof(r) \/ Disconnect(r) \/ Deadline(r)
      PROVE  IInv'
  <2>1. pc = "gather" /\ UNCHANGED <<pc, fileVars, exit>>
    BY <1>5 DEF Dispatch, Respond, Chunk, Eof, Disconnect, Deadline, Raises
  <2>2. FilesInv'
    BY <1>1, <2>1, FilesKept
  <2>3. Disconnect(r) \/ Deadline(r) => RequestsInv'
    BY <1>1, RaisesStep DEF Disconnect, Deadline
  <2>4. RequestsInv'
    BY <1>1, <1>5, <2>3, DispatchStep, RespondStep, ChunkStep, EofStep
  <2> QED
    BY <2>2, <2>4 DEF IInv
<1> QED
  BY <1>2, <1>3, <1>4, <1>5 DEF Next

LEMMA Invariance == Spec => []IInv
  BY IInvInit, IInvStep, PTL DEF Spec

\* The types of a run's state, for every trace, every set of answers and every
\* cut into chunks: never more bytes than the answer has.
THEOREM TypeCorrect == Spec => []TypeOK
<1>1. IInv => TypeOK
  <2> SUFFICES ASSUME IInv PROVE TypeOK
    OBVIOUS
  <2>1. \A r \in Requests : sent[r] \in 0 .. Len(answer[r].bytes) /\ buffer[r] \in Seq(Bytes)
    BY DEF IInv, RequestsInv, RequestInv
  <2>2. /\ manifest \in Manifests /\ phase \in [Requests -> Phases]
        /\ answer \in [Requests -> Answers \cup {NoAnswer}] /\ record \in [Requests -> Records]
    BY DEF IInv, RequestsInv
  <2>3. /\ pc \in Positions /\ rowsFile \in RowsFiles
        /\ metaFile \in MetaFiles
        /\ exit \in {"none", "zero", "failed", "killed"}
    BY DEF IInv, FilesInv
  <2> QED
    BY <2>1, <2>2, <2>3 DEF TypeOK, Phases, Positions, RowsFiles, MetaFiles
<1> QED
  BY <1>1, Invariance, PTL

\* _dispatch_one, parse_sse_events: however the stream is cut into chunks and
\* wherever it ends, a record holds the texts of exactly the events that had
\* ended, up to the first malformed one, and an answer in full fails only for
\* the deadline or the connection.
THEOREM RecordIsWhatArrivedHolds == Spec => []RecordIsWhatArrived
<1>1. IInv => RecordIsWhatArrived
  <2> SUFFICES ASSUME IInv, NEW r \in Requests, answer[r].sse
               PROVE  LET text == Arrived(answer[r], sent[r])
                          at   == Delivered(text)
                      IN /\ record[r].output = TextsAt(text, at)
                         /\ record[r].done = \E i \in at : text[i] = "done"
                         /\ r \in AnsweredInFull =>
                              record[r].error \in {"none", "timeout", "network"}
    BY DEF RecordIsWhatArrived
  <2>1. Held(answer[r], sent[r], record[r])
    BY DEF IInv, RequestsInv, RequestInv
  <2> QED
    BY <2>1 DEF Held, AnsweredInFull, InFullAt
<1> QED
  BY <1>1, Invariance, PTL

\* main_async, validate_family: exit 0 on the frozen trace comes with files the
\* validator accepts, unless the metadata lack the identity of benchmark or runtime.
THEOREM ExitZeroIsAcceptedHolds == Spec => []ExitZeroIsAccepted
<1>1. IInv => ExitZeroIsAccepted
  <2> SUFFICES ASSUME IInv, exit = "zero", manifest = Frozen
               PROVE  Accepted <=> metaFile # "anonymous"
    BY DEF ExitZeroIsAccepted
  <2>1. WholeRows /\ metaFile \in {"clean", "anonymous"} /\ Failures = {}
    BY DEF IInv, FilesInv
  <2>2. \A r \in Requests : StrictRequestSuccess(record[r])
    BY <2>1, SamePredicates DEF Failures
  <2>3. \A i \in DOMAIN Frozen : \E r \in Requests : manifest[r] = Frozen[i]
    BY DEF Requests
  <2>4. rowsFile.by = "this" /\ ~rowsFile.cut /\ rowsFile.count = Len(Frozen)
    BY <2>1 DEF WholeRows
  <2> QED
    BY <2>1, <2>2, <2>3, <2>4 DEF Accepted
<1> QED
  BY <1>1, Invariance, PTL

-----------------------------------------------------------------------------
(* The refinement of ReplayedTrace.                                        *)

Decided(ph, rec) == IF ph # "ended" THEN "pending"
                    ELSE IF StrictRequestSuccess(rec) THEN "served" ELSE "failed"

Evidence == pc = "ended" /\ Accepted
abstractVars == <<AnsweredInFull, Outcome, Evidence>>

LEMMA OutcomeIs ==
  /\ Outcome = [r \in Requests |-> Decided(phase[r], record[r])]
  /\ AnsweredInFull = {r \in Requests : InFullAt(answer[r], sent[r])}
  BY DEF Outcome, Decided, AnsweredInFull, InFullAt

LEMMA OutcomeNext ==
  /\ Outcome' = [r \in Requests' |-> Decided(phase'[r], record'[r])]
  /\ AnsweredInFull' = {r \in Requests' : InFullAt(answer'[r], sent'[r])}
  BY DEF Outcome, Decided, AnsweredInFull, InFullAt, FullAnswers

\* What the abstract variables become when one request takes a step.
LEMMA OneOutcome ==
  ASSUME manifest' = manifest, NEW r \in Requests,
         \A q \in Requests \ {r} : /\ phase'[q] = phase[q] /\ record'[q] = record[q]
                                   /\ answer'[q] = answer[q] /\ sent'[q] = sent[q]
  PROVE  /\ Outcome' = [Outcome EXCEPT ![r] = Decided(phase'[r], record'[r])]
         /\ InFullAt(answer'[r], sent'[r]) => AnsweredInFull' = AnsweredInFull \cup {r}
         /\ (InFullAt(answer[r], sent[r]) <=> InFullAt(answer'[r], sent'[r])) =>
              AnsweredInFull' = AnsweredInFull
<1>1. Requests' = Requests
  BY DEF Requests
<1>2. Outcome' = [q \in Requests |-> Decided(phase'[q], record'[q])]
  BY <1>1, OutcomeNext
<1>3. Outcome = [q \in Requests |-> Decided(phase[q], record[q])]
  BY OutcomeIs
<1>4. \A q \in Requests \ {r} : Decided(phase'[q], record'[q]) = Decided(phase[q], record[q])
  OBVIOUS
<1>5. Outcome' = [Outcome EXCEPT ![r] = Decided(phase'[r], record'[r])]
  BY <1>2, <1>3, <1>4
<1>6. /\ \A q \in Requests : q \in AnsweredInFull <=> InFullAt(answer[q], sent[q])
      /\ \A q \in Requests : q \in AnsweredInFull' <=> InFullAt(answer'[q], sent'[q])
      /\ AnsweredInFull \subseteq Requests /\ AnsweredInFull' \subseteq Requests
  BY <1>1, OutcomeIs, OutcomeNext
<1>7. \A q \in Requests \ {r} : q \in AnsweredInFull <=> q \in AnsweredInFull'
  BY <1>6
<1> QED
  BY <1>5, <1>6, <1>7

\* A step of a request that has not ended decides it, or answers it in full, or
\* neither: an answer that becomes full does not end the request by itself.
LEMMA RequestRefines ==
  ASSUME RequestsInv', manifest' = manifest, pc = "gather", pc' = "gather",
         NEW r \in Requests, phase[r] # "ended",
         \A q \in Requests \ {r} : /\ phase'[q] = phase[q] /\ record'[q] = record[q]
                                   /\ answer'[q] = answer[q] /\ sent'[q] = sent[q],
         InFullAt(answer[r], sent[r]) => InFullAt(answer'[r], sent'[r]),
         phase'[r] = "ended" /\ InFullAt(answer'[r], sent'[r]) => InFullAt(answer[r], sent[r])
  PROVE  [Replayed!Next]_abstractVars
<1>1. /\ Outcome' = [Outcome EXCEPT ![r] = Decided(phase'[r], record'[r])]
      /\ InFullAt(answer'[r], sent'[r]) => AnsweredInFull' = AnsweredInFull \cup {r}
      /\ (InFullAt(answer[r], sent[r]) <=> InFullAt(answer'[r], sent'[r])) =>
           AnsweredInFull' = AnsweredInFull
  BY OneOutcome
<1>2. Evidence' = Evidence
  BY DEF Evidence
<1>3. /\ DOMAIN Outcome = Requests /\ Outcome[r] = "pending"
      /\ r \in AnsweredInFull <=> InFullAt(answer[r], sent[r])
  BY OutcomeIs DEF Decided
<1>4. Outcome = [Outcome EXCEPT ![r] = "pending"]
  BY <1>3, OutcomeIs
<1>5. r \in Replayed!Requests
  BY <1>3 DEF Replayed!Requests
<1>6. CASE phase'[r] # "ended" /\ InFullAt(answer'[r], sent'[r])
  <2>1. Outcome' = Outcome
    BY <1>1, <1>4, <1>6 DEF Decided
  <2>2. Replayed!Answer(r)
    BY <1>1, <1>2, <1>3, <1>6, <2>1 DEF Replayed!Answer, Evidence
  <2> QED
    BY <1>5, <2>2 DEF Replayed!Next
<1>7. CASE phase'[r] # "ended" /\ ~InFullAt(answer'[r], sent'[r])
  <2>1. Outcome' = Outcome
    BY <1>1, <1>4, <1>7 DEF Decided
  <2>2. AnsweredInFull' = AnsweredInFull
    BY <1>1, <1>7
  <2> QED
    BY <1>2, <2>1, <2>2 DEF abstractVars
<1>8. CASE phase'[r] = "ended"
  <2>1. AnsweredInFull' = AnsweredInFull
    BY <1>1, <1>8
  <2>2. CASE StrictRequestSuccess(record'[r])
    <3>1. Outcome' = [Outcome EXCEPT ![r] = "served"]
      BY <1>1, <1>8, <2>2 DEF Decided
    <3>2. RequestInv(phase'[r], answer'[r], sent'[r], buffer'[r], record'[r])
      BY DEF RequestsInv, Requests
    <3>3. r \in AnsweredInFull
      BY <1>3, <1>8, <2>2, <3>2 DEF RequestInv
    <3>4. Replayed!Serve(r)
      BY <1>2, <1>3, <2>1, <3>1, <3>3 DEF Replayed!Serve, Evidence
    <3> QED
      BY <1>5, <3>4 DEF Replayed!Next
  <2>3. CASE ~StrictRequestSuccess(record'[r])
    <3>1. Outcome' = [Outcome EXCEPT ![r] = "failed"]
      BY <1>1, <1>8, <2>3 DEF Decided
    <3>2. Replayed!Fail(r)
      BY <1>2, <1>3, <2>1, <3>1 DEF Replayed!Fail, Evidence
    <3> QED
      BY <1>5, <3>2 DEF Replayed!Next
  <2> QED
    BY <2>2, <2>3
<1> QED
  BY <1>6, <1>7, <1>8

\* main writes and ends without touching a request, and what it leaves is
\* accepted only when all were served.
LEMMA MainRefines ==
  ASSUME FilesInv', UNCHANGED <<manifest, requestVars>>, pc # "ended"
  PROVE  [Replayed!Next]_abstractVars
<1>1. Requests' = Requests /\ phase' = phase /\ record' = record /\ answer' = answer /\ sent' = sent
  BY DEF Requests, requestVars
<1>2. Outcome' = Outcome /\ AnsweredInFull' = AnsweredInFull
  BY <1>1, OutcomeIs, OutcomeNext
<1>3. CASE ~Evidence'
  <2>1. ~Evidence
    BY DEF Evidence
  <2>2. Evidence' = Evidence
    BY <1>3, <2>1 DEF Evidence
  <2> QED
    BY <1>2, <2>2 DEF abstractVars
<1>4. CASE Evidence'
  <2>1. Accepted' /\ rowsFile'.by = "this"
    BY <1>4 DEF Evidence, Accepted
  <2>2. \A r \in Requests : phase'[r] = "ended"
    BY <1>1, <2>1 DEF FilesInv, AllEnded
  <2>3. \A r \in Requests : StrictRequestSuccess(record'[r])
    BY <1>1, <2>1 DEF Accepted, StrictRequestSuccess, Blank
  <2>4. \A r \in Requests : Outcome[r] = "served"
    BY <1>1, <2>2, <2>3, OutcomeIs DEF Decided
  <2>5. \A r \in Replayed!Requests : Outcome[r] = "served"
    BY <2>4, OutcomeIs DEF Replayed!Requests
  <2>6. Evidence' = TRUE
    BY <1>4 DEF Evidence
  <2> QED
    BY <1>2, <2>5, <2>6 DEF Replayed!Next, Replayed!Accept, Evidence
<1> QED
  BY <1>3, <1>4

LEMMA RefinementInit == Init => Replayed!Init
<1> SUFFICES ASSUME Init PROVE Replayed!Init
  OBVIOUS
<1>1. /\ manifest \in Manifests /\ pc = "load" /\ phase = [r \in Requests |-> "scheduled"]
      /\ answer = [r \in Requests |-> NoAnswer]
  BY DEF Init
<1>2. Outcome = [r \in DOMAIN manifest |-> "pending"]
  BY <1>1, OutcomeIs DEF Decided, Requests
<1>3. AnsweredInFull = {}
  BY <1>1, OutcomeIs, NoAnswerFacts DEF InFullAt
<1>4. Evidence = FALSE
  BY <1>1 DEF Evidence
<1>5. DOMAIN manifest \in {DOMAIN m : m \in Manifests}
  BY <1>1
<1> QED
  BY <1>2, <1>3, <1>4, <1>5 DEF Replayed!Init, Evidence

LEMMA RefinementStep == IInv /\ [Next]_vars => [Replayed!Next]_abstractVars
<1> SUFFICES ASSUME IInv, [Next]_vars PROVE [Replayed!Next]_abstractVars
  OBVIOUS
<1>1. IInv'
  BY IInvStep
<1>2. RequestsInv /\ FilesInv /\ RequestsInv' /\ FilesInv'
  BY <1>1 DEF IInv
<1>3. CASE UNCHANGED vars
  <2>1. UNCHANGED <<manifest, requestVars, rowsFile, metaFile, pc>>
    BY <1>3 DEF vars, fileVars
  <2>2. Outcome' = Outcome /\ AnsweredInFull' = AnsweredInFull
    BY <2>1, OutcomeIs, OutcomeNext DEF requestVars, Requests
  <2>3. Evidence' = Evidence
    BY <2>1 DEF requestVars, Requests, Evidence, Accepted
  <2> QED
    BY <2>2, <2>3 DEF abstractVars
<1>4. CASE Main \/ Kill
  <2>1. UNCHANGED <<manifest, requestVars>> /\ pc # "ended"
    BY <1>4 DEF Main, Load, Gather, WriteRows, WriteMetadata, MetadataRaises, Report, Kill
  <2> QED
    BY <1>2, <2>1, MainRefines
<1>5. CASE Ended
  <2>1. UNCHANGED vars
    BY <1>5 DEF Ended
  <2> QED
    BY <1>3, <2>1
<1>6. ASSUME NEW r \in Requests,
             Dispatch(r) \/ Respond(r) \/ Chunk(r) \/ Eof(r) \/ Disconnect(r) \/ Deadline(r)
      PROVE  [Replayed!Next]_abstractVars
  <2>1. pc = "gather" /\ pc' = "gather" /\ manifest' = manifest /\ phase[r] # "ended"
    BY <1>6 DEF Dispatch, Respond, Chunk, Eof, Disconnect, Deadline, Raises
  <2>2. /\ phase \in [Requests -> Phases] /\ answer \in [Requests -> Answers \cup {NoAnswer}]
        /\ sent \in [Requests -> Nat] /\ record \in [Requests -> Records]
    BY <1>2 DEF RequestsInv
  <2> DEFINE Others == \A q \in Requests \ {r} :
                         /\ phase'[q] = phase[q] /\ record'[q] = record[q]
                         /\ answer'[q] = answer[q] /\ sent'[q] = sent[q]
  <2>3. ASSUME UNCHANGED <<answer, sent>>, Others
        PROVE  [Replayed!Next]_abstractVars
    BY <1>2, <2>1, <2>3, RequestRefines
  <2>4. CASE Dispatch(r)
    <3>1. Others
      BY <2>2, <2>4 DEF Dispatch
    <3> QED
      BY <2>3, <2>4, <3>1 DEF Dispatch
  <2>5. CASE Eof(r)
    <3>1. Others
      BY <2>2, <2>5 DEF Eof
    <3> QED
      BY <2>3, <2>5, <3>1 DEF Eof
  <2>6. CASE Disconnect(r) \/ Deadline(r)
    <3>1. PICK error \in {"timeout", "network"} : Raises(r, error)
      BY <2>6 DEF Disconnect, Deadline
    <3>2. Others
      BY <2>2, <3>1 DEF Raises
    <3> QED
      BY <2>3, <3>1, <3>2 DEF Raises
  <2>7. CASE Respond(r)
    <3>1. PICK a \in Answers :
            /\ answer' = [answer EXCEPT ![r] = a] /\ sent[r] = 0
            /\ phase' = [phase EXCEPT ![r] = IF a.sse THEN "streaming" ELSE "ended"]
            /\ \A q \in Requests \ {r} : record'[q] = record[q]
      BY <1>2, <2>7, RespondStep
    <3>2. sent' = sent
      BY <2>7 DEF Respond
    <3>3. Others
      BY <2>2, <3>1, <3>2
    <3>4. ~InFullAt(answer'[r], sent'[r])
      BY <3>1, <3>2, FullFacts
    <3>5. ~InFullAt(answer[r], sent[r])
      BY <3>1, FullFacts
    <3> QED
      BY <1>2, <2>1, <3>3, <3>4, <3>5, RequestRefines
  <2>8. CASE Chunk(r)
    <3>1. ~InFullAt(answer[r], sent[r])
      BY <1>2, <2>8, ChunkStep
    <3>2. PICK m, new :
            /\ sent' = [sent EXCEPT ![r] = m] /\ record' = [record EXCEPT ![r] = new]
            /\ phase' = [phase EXCEPT ![r] = IF new.error = "none" THEN "streaming" ELSE "ended"]
            /\ InFullAt(answer[r], m) => new.error = "none"
      BY <1>2, <2>8, ChunkStep
    <3>3. answer' = answer
      BY <2>8 DEF Chunk
    <3>4. Others
      BY <2>2, <3>2, <3>3
    <3>5. phase'[r] = "ended" => ~InFullAt(answer'[r], sent'[r])
      BY <2>2, <3>2, <3>3
    <3> QED
      BY <1>2, <2>1, <3>1, <3>4, <3>5, RequestRefines
  <2> QED
    BY <1>6, <2>4, <2>5, <2>6, <2>7, <2>8
<1> QED
  BY <1>3, <1>4, <1>5, <1>6 DEF Next

\* run.py and validate.py implement ReplayedTrace: each request is decided once
\* and served only if it was answered in full; the files left, however the
\* client ended, are accepted only when every request of the trace was served.
THEOREM RequestTraceImplementsReplayedTrace == Spec => ServedInFull
<1>1. IInv /\ [Next]_vars =>
        [Replayed!Next]_<<AnsweredInFull, Outcome, pc = "ended" /\ Accepted>>
  BY RefinementStep DEF abstractVars, Evidence
<1> QED
  BY <1>1, RefinementInit, Invariance, PTL DEF Spec, ServedInFull, Replayed!Spec

=============================================================================
