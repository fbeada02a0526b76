--------------------------- MODULE JsonTextProofs ---------------------------
(****************************************************************************)
(* Writing a text and reading it back, for texts of any length: the         *)
(* recursive functions that read a text (ReadFrom) and put it together      *)
(* (FlattenSeq) are unfolded step by step, by induction on the number of    *)
(* symbols or parts, and what JsonWriter makes of a string, of a member and *)
(* of an object is shown to take the reader from where it is to the end of  *)
(* that value, with the strings of the value added to what it has read.     *)
(****************************************************************************)
EXTENDS SubmitBodyProofs, WellFoundedInduction

\* Induction, for a set of numbers.
LEMMA NatSetInduction ==
    ASSUME NEW T, T \subseteq Nat, 0 \in T, \A n \in T : n + 1 \in T
    PROVE  T = Nat
<1> DEFINE R == {p \in Nat \X Nat : p[1] < p[2]}
           U == Nat \ T
<1>1. SUFFICES ASSUME U # {} PROVE FALSE
  OBVIOUS
<1>2. \E x \in U : \A y \in U : ~ (<<y, x>> \in R)
  <2>1. IsWellFoundedOn(R, Nat)
    BY NatLessThanWellFounded DEF OpToRel
  <2>2. U \subseteq Nat
    OBVIOUS
  <2> HIDE DEF R, U
  <2> QED
    BY <2>1, <2>2, <1>1, WFMin
<1>3. PICK x \in U : \A y \in U : ~ (<<y, x>> \in R)
  BY <1>2
<1>4. x # 0 /\ x - 1 \in Nat
  OBVIOUS
<1>5. x - 1 \in U
  BY <1>4
<1>6. <<x - 1, x>> \in R
  BY <1>4
<1> QED
  BY <1>3, <1>5, <1>6

\* f is how the reader goes through the text, starting as r.
Course(f, r, text) ==
    f = [n \in 0 .. Len(text) |-> IF n = 0 THEN r ELSE ReadJson(f[n - 1], text[n])]

\* There is such a way.
LEMMA CourseExists ==
    ASSUME NEW r, NEW text, Len(text) \in Nat
    PROVE  \E f : Course(f, r, text)
<1> DEFINE Step(g, n) == IF n = 0 THEN r ELSE ReadJson(g[n - 1], text[n])
           T == {n \in Nat : \E f : f = [k \in 0 .. n |-> Step(f, k)]}
<1>1. 0 \in T
  <2> DEFINE f == [k \in 0 .. 0 |-> r]
  <2>1. f = [k \in 0 .. 0 |-> Step(f, k)]
    OBVIOUS
  <2> QED
    BY <2>1
<1>2. ASSUME NEW n \in T PROVE n + 1 \in T
  <2>1. PICK f : f = [k \in 0 .. n |-> Step(f, k)]
    OBVIOUS
  <2> DEFINE g == [k \in 0 .. n + 1 |-> IF k <= n THEN f[k] ELSE ReadJson(f[n], text[n + 1])]
  <2>2. \A k \in 0 .. n + 1 : g[k] = Step(g, k)
    <3> SUFFICES ASSUME NEW k \in 0 .. n + 1 PROVE g[k] = Step(g, k)
      OBVIOUS
    <3>1. CASE k = 0
      BY <3>1, <2>1
    <3>2. CASE k \in 1 .. n
      BY <3>2, <2>1
    <3>3. CASE k = n + 1
      BY <3>3, <2>1
    <3> QED
      BY <3>1, <3>2, <3>3
  <2>3. g = [k \in 0 .. n + 1 |-> Step(g, k)]
    BY <2>2
  <2> HIDE DEF g, Step
  <2>4. \E h : h = [k \in 0 .. n + 1 |-> Step(h, k)]
    BY <2>3
  <2>5. n + 1 \in Nat
    OBVIOUS
  <2> QED
    BY <2>4, <2>5
<1>3. T = Nat
  <2> HIDE DEF T
  <2>1. T \subseteq Nat BY DEF T
  <2> QED  BY <1>1, <1>2, <2>1, NatSetInduction
<1>4. Len(text) \in T
  BY <1>3
<1> QED
  BY <1>4 DEF Course

\* ReadFrom takes it.
LEMMA ReadFromCourse ==
    ASSUME NEW r, NEW text, Len(text) \in Nat
    PROVE  \E f : Course(f, r, text) /\ ReadFrom(r, text) = f[Len(text)]
<1> DEFINE f == CHOOSE f : Course(f, r, text)
<1>1. Course(f, r, text)
  BY CourseExists
<1>2. ReadFrom(r, text) = f[Len(text)]
  BY DEF ReadFrom, Course
<1> QED
  BY <1>1, <1>2

\* The way through a text is determined step by step.
Steps(f, r, text, N) ==
    /\ f[0] = r
    /\ \A n \in 1 .. N : f[n] = ReadJson(f[n - 1], text[n])

\* The way of a text of a known length.
LEMMA CourseAt ==
    ASSUME NEW r, NEW text, NEW N \in Nat, Len(text) = N, NEW f, Course(f, r, text)
    PROVE  Steps(f, r, text, N)
BY DEF Course, Steps

\* Two ways that begin alike stay alike as long as the symbols are the same.
Alike(f, g, N) ==
    /\ f[0] = g[0]
    /\ \A n \in 1 .. N : f[n - 1] = g[n - 1] => f[n] = g[n]

\* By induction they are the same.
LEMMA SameCourse ==
    ASSUME NEW N \in Nat, NEW f, NEW g, Alike(f, g, N)
    PROVE  \A n \in 0 .. N : f[n] = g[n]
<1> USE DEF Alike
<1> DEFINE T == {n \in Nat : n <= N => f[n] = g[n]}
<1>1. 0 \in T
  OBVIOUS
<1>2. \A n \in T : n + 1 \in T
  <2> SUFFICES ASSUME NEW n \in T, n + 1 <= N PROVE f[n + 1] = g[n + 1]
    OBVIOUS
  <2>1. f[n] = g[n] /\ n + 1 \in 1 .. N /\ n + 1 - 1 = n
    OBVIOUS
  <2> QED
    BY <2>1
<1>3. T \subseteq Nat
  OBVIOUS
<1>4. T = Nat
  <2> HIDE DEF T
  <2> QED
    BY <1>1, <1>2, <1>3, NatSetInduction
<1> QED
  BY <1>4

\* Reading nothing.
LEMMA ReadNothing == \A r : ReadFrom(r, <<>>) = r
<1> SUFFICES ASSUME NEW r PROVE ReadFrom(r, <<>>) = r
  OBVIOUS
<1>1. Len(<<>>) = 0
  OBVIOUS
<1>2. PICK f : Course(f, r, <<>>) /\ ReadFrom(r, <<>>) = f[Len(<<>>)]
  BY <1>1, ReadFromCourse
<1>3. f[0] = r
  BY <1>1, <1>2, CourseAt DEF Steps
<1> QED
  BY <1>1, <1>2, <1>3

\* Reading one symbol.
LEMMA ReadOne ==
    ASSUME NEW r, NEW c
    PROVE  ReadFrom(r, <<c>>) = ReadJson(r, c)
<1>1. Len(<<c>>) = 1 /\ <<c>>[1] = c
  OBVIOUS
<1>2. PICK f : Course(f, r, <<c>>) /\ ReadFrom(r, <<c>>) = f[Len(<<c>>)]
  BY <1>1, ReadFromCourse
<1>3. f[0] = r /\ \A n \in 1 .. 1 : f[n] = ReadJson(f[n - 1], <<c>>[n])
  <2>1. Steps(f, r, <<c>>, 1)
    BY <1>1, <1>2, CourseAt
  <2> QED
    BY <2>1 DEF Steps
<1>4. f[1] = ReadJson(f[0], c)
  BY <1>1, <1>3
<1> QED
  BY <1>1, <1>2, <1>3, <1>4

\* A text made of two.
LEMMA TwoTexts ==
    ASSUME NEW S, NEW s \in Seq(S), NEW t \in Seq(S)
    PROVE  /\ Len(s) \in Nat /\ Len(t) \in Nat /\ Len(s \o t) = Len(s) + Len(t)
           /\ \A n \in 1 .. Len(s) : (s \o t)[n] = s[n]
           /\ \A n \in 1 .. Len(t) : (s \o t)[Len(s) + n] = t[n]
OBVIOUS

\* u is s followed by t.
Joins(s, L, t, M, u) ==
    /\ Len(s) = L /\ Len(t) = M /\ Len(u) = L + M
    /\ \A n \in 1 .. L : u[n] = s[n]
    /\ \A n \in 1 .. M : u[L + n] = t[n]

\* Reading a text made of two is reading the one and then the other.
LEMMA ReadTwo ==
    ASSUME NEW r, NEW s, NEW t, NEW u, NEW L \in Nat, NEW M \in Nat, NEW q,
           Joins(s, L, t, M, u), q = ReadFrom(r, s)
    PROVE  ReadFrom(r, u) = ReadFrom(q, t)
<1> USE DEF Joins
<1>1. L + M \in Nat /\ Len(u) \in Nat
  OBVIOUS
<1>2. PICK f : Course(f, r, u) /\ ReadFrom(r, u) = f[L + M]
  BY <1>1, ReadFromCourse
<1>3. PICK g : Course(g, r, s) /\ q = g[L]
  BY ReadFromCourse
<1>4. PICK h : Course(h, q, t) /\ ReadFrom(q, t) = h[M]
  BY ReadFromCourse
<1>5. f[0] = r /\ \A n \in 1 .. L + M : f[n] = ReadJson(f[n - 1], u[n])
  <2>1. Steps(f, r, u, L + M)
    BY <1>1, <1>2, CourseAt
  <2> QED
    BY <2>1 DEF Steps
<1>6. g[0] = r /\ \A n \in 1 .. L : g[n] = ReadJson(g[n - 1], s[n])
  <2>1. Steps(g, r, s, L)
    BY <1>3, CourseAt
  <2> QED
    BY <2>1 DEF Steps
<1>7. h[0] = q /\ \A n \in 1 .. M : h[n] = ReadJson(h[n - 1], t[n])
  <2>1. Steps(h, q, t, M)
    BY <1>4, CourseAt
  <2> QED
    BY <2>1 DEF Steps
<1>8. f[L] = q
  <2>1. \A n \in 1 .. L : f[n - 1] = g[n - 1] => f[n] = g[n]
    BY <1>5, <1>6
  <2>2. Alike(f, g, L)
    BY <1>5, <1>6, <2>1 DEF Alike
  <2>3. \A n \in 0 .. L : f[n] = g[n]
    BY <2>2, SameCourse
  <2> QED
    BY <1>3, <2>3
<1>9. f[L + M] = h[M]
  <2> DEFINE e == [n \in 0 .. M |-> f[L + n]]
  <2>1. e[0] = h[0]
    BY <1>7, <1>8
  <2>2. ASSUME NEW n \in 1 .. M, e[n - 1] = h[n - 1] PROVE e[n] = h[n]
    <3>1. f[L + n - 1] = h[n - 1]
      BY <2>2
    <3>2. L + n \in 1 .. L + M
      OBVIOUS
    <3>3. f[L + n] = ReadJson(f[L + n - 1], t[n])
      BY <1>5, <3>2
    <3>4. h[n] = ReadJson(h[n - 1], t[n])
      BY <1>7
    <3> QED
      BY <3>1, <3>3, <3>4
  <2>3. Alike(e, h, M)
    BY <2>1, <2>2 DEF Alike
  <2>4. \A n \in 0 .. M : e[n] = h[n]
    <3> HIDE DEF e
    <3> QED
      BY <2>3, SameCourse
  <2> QED
    BY <2>4
<1> QED
  BY <1>2, <1>4, <1>9

\* The same, for texts of symbols.
LEMMA ReadConcat ==
    ASSUME NEW S, NEW r, NEW s \in Seq(S), NEW t \in Seq(S)
    PROVE  ReadFrom(r, s \o t) = ReadFrom(ReadFrom(r, s), t)
<1>1. Len(s) \in Nat /\ Len(t) \in Nat /\ Joins(s, Len(s), t, Len(t), s \o t)
  BY TwoTexts DEF Joins
<1> QED
  BY <1>1, ReadTwo
-----------------------------------------------------------------------------
\* f is how a text is put together from parts.
Gathers(f, parts) ==
    f = [n \in 1 .. Len(parts) |-> IF n = 1 THEN parts[n] ELSE f[n - 1] \o parts[n]]

\* There is such a function.
LEMMA GatherExists ==
    ASSUME NEW parts, Len(parts) \in Nat
    PROVE  \E f : Gathers(f, parts)
<1> DEFINE Step(g, n) == IF n = 1 THEN parts[n] ELSE g[n - 1] \o parts[n]
           T == {n \in Nat : \E f : f = [k \in 1 .. n |-> Step(f, k)]}
<1>1. 0 \in T
  <2> DEFINE f == [k \in 1 .. 0 |-> 0]
  <2>1. f = [k \in 1 .. 0 |-> Step(f, k)]
    OBVIOUS
  <2> HIDE DEF f, Step
  <2>2. \E h : h = [k \in 1 .. 0 |-> Step(h, k)]
    BY <2>1
  <2> QED
    BY <2>2
<1>2. ASSUME NEW n \in T PROVE n + 1 \in T
  <2>1. PICK f : f = [k \in 1 .. n |-> Step(f, k)]
    OBVIOUS
  <2> DEFINE g == [k \in 1 .. n + 1 |-> IF k <= n THEN f[k] ELSE Step(f, k)]
  <2>2. \A k \in 1 .. n + 1 : g[k] = Step(g, k)
    <3> SUFFICES ASSUME NEW k \in 1 .. n + 1 PROVE g[k] = Step(g, k)
      OBVIOUS
    <3>1. CASE k = 1
      BY <3>1, <2>1
    <3>2. CASE k \in 2 .. n
      <4>1. k \in 1 .. n /\ k - 1 \in 1 .. n /\ k # 1
        BY <3>2
      <4>2. g[k] = f[k] /\ g[k - 1] = f[k - 1]
        BY <4>1
      <4>3. f[k] = f[k - 1] \o parts[k]
        BY <2>1, <4>1
      <4> QED
        BY <4>1, <4>2, <4>3
    <3>3. CASE k = n + 1
      BY <3>3, <2>1
    <3> QED
      BY <3>1, <3>2, <3>3
  <2>3. g = [k \in 1 .. n + 1 |-> Step(g, k)]
    BY <2>2
  <2> HIDE DEF g, Step
  <2>4. \E h : h = [k \in 1 .. n + 1 |-> Step(h, k)]
    BY <2>3
  <2>5. n + 1 \in Nat
    OBVIOUS
  <2> QED
    BY <2>4, <2>5
<1>3. T = Nat
  <2> HIDE DEF T
  <2>1. T \subseteq Nat
    BY DEF T
  <2> QED
    BY <1>1, <1>2, <2>1, NatSetInduction
<1>4. Len(parts) \in T
  BY <1>3
<1> QED
  BY <1>4 DEF Gathers

\* FlattenSeq is its last value.
LEMMA FlattenGathers ==
    ASSUME NEW parts, Len(parts) \in Nat \ {0}
    PROVE  \E f : Gathers(f, parts) /\ FlattenSeq(parts) = f[Len(parts)]
<1> DEFINE f == CHOOSE f : Gathers(f, parts)
<1>1. Gathers(f, parts)
  BY GatherExists
<1>2. FlattenSeq(parts) = f[Len(parts)]
  BY DEF FlattenSeq, Gathers
<1> QED
  BY <1>1, <1>2

\* Each part takes the reader from one of the sets of Q into the next one.
Stages(Q, parts) ==
    \A n \in 1 .. Len(parts) : \A r \in Q[n - 1] : ReadFrom(r, parts[n]) \in Q[n]

\* Reading a text made of parts takes the reader from the first set to the last.
LEMMA ReadFlat ==
    ASSUME NEW S, NEW parts \in Seq(Seq(S)), NEW Q, Stages(Q, parts), NEW r \in Q[0]
    PROVE  /\ FlattenSeq(parts) \in Seq(S)
           /\ ReadFrom(r, FlattenSeq(parts)) \in Q[Len(parts)]
<1> SUFFICES ASSUME NEW N \in Nat, N = Len(parts)
             PROVE  /\ FlattenSeq(parts) \in Seq(S)
                    /\ ReadFrom(r, FlattenSeq(parts)) \in Q[N]
  OBVIOUS
<1>1. CASE N = 0
  <2>1. parts = <<>>
    BY <1>1, EmptySeq
  <2>2. FlattenSeq(parts) = <<>>
    BY <1>1, <2>1 DEF FlattenSeq
  <2> QED
    BY <1>1, <2>2, ReadNothing
<1>2. CASE N # 0
  <2>1. PICK f : Gathers(f, parts) /\ FlattenSeq(parts) = f[N]
    BY <1>2, FlattenGathers
  <2>2. \A n \in 1 .. N : f[n] = IF n = 1 THEN parts[n] ELSE f[n - 1] \o parts[n]
    BY <2>1 DEF Gathers
  <2> DEFINE T == {n \in Nat : n + 1 <= N =>
                        f[n + 1] \in Seq(S) /\ ReadFrom(r, f[n + 1]) \in Q[n + 1]}
  <2>3. 0 \in T
    <3>1. 1 \in 1 .. N /\ parts[1] \in Seq(S)
      BY <1>2
    <3>2. f[1] = parts[1]
      BY <2>2, <3>1
    <3>3. ReadFrom(r, parts[1]) \in Q[1]
      BY <3>1 DEF Stages
    <3> QED
      BY <3>1, <3>2, <3>3
  <2>4. ASSUME NEW n \in T PROVE n + 1 \in T
    <3> SUFFICES ASSUME NEW m \in Nat, m = n + 1, NEW k, k = m + 1, k <= N
                 PROVE  f[k] \in Seq(S) /\ ReadFrom(r, f[k]) \in Q[k]
      OBVIOUS
    <3>1. f[m] \in Seq(S) /\ ReadFrom(r, f[m]) \in Q[m]
      OBVIOUS
    <3>2. k \in 1 .. N /\ k # 1 /\ k - 1 = m
      OBVIOUS
    <3>3. f[k] = f[m] \o parts[k]
      BY <2>2, <3>2
    <3>4. parts[k] \in Seq(S) /\ ReadFrom(ReadFrom(r, f[m]), parts[k]) \in Q[k]
      BY <3>1, <3>2 DEF Stages
    <3>5. ReadFrom(r, f[k]) = ReadFrom(ReadFrom(r, f[m]), parts[k])
      BY <3>1, <3>3, <3>4, ReadConcat
    <3> QED
      BY <3>1, <3>3, <3>4, <3>5
  <2>5. T = Nat
    <3>1. T \subseteq Nat
      OBVIOUS
    <3> HIDE DEF T
    <3> QED
      BY <2>3, <2>4, <3>1, NatSetInduction
  <2>6. N - 1 \in T /\ N - 1 + 1 = N
    <3> HIDE DEF T
    <3> QED
      BY <1>2, <2>5
  <2> QED
    BY <2>1, <2>6
<1> QED
  BY <1>1, <1>2
-----------------------------------------------------------------------------
(* Strings.                                                                 *)

\* The reader on a text made of any symbols.
ReaderOf(S) ==
    [place : ReaderPlaces, open : Seq(Nat), escaped : BOOLEAN, plain : BOOLEAN,
     text : Seq(S), name : Seq(S), names : SUBSET Seq(S),
     fields : SUBSET (Seq(S) \X Seq(S)), strings : Seq(Seq(S)), tidy : BOOLEAN]

\* Symbols that a text written by the host may be made of.
Alphabet(S) == Marks \cup Control \cup Escapes \cup Range(KeyOrder) \subseteq S

\* Reading two symbols.
LEMMA ReadPair ==
    ASSUME NEW r, NEW b, NEW c
    PROVE  ReadFrom(r, <<b, c>>) = ReadJson(ReadJson(r, b), c)
<1>1. Len(<<b, c>>) = 2 /\ <<b, c>>[1] = b /\ <<b, c>>[2] = c
  OBVIOUS
<1>2. PICK f : Course(f, r, <<b, c>>) /\ ReadFrom(r, <<b, c>>) = f[2]
  BY <1>1, ReadFromCourse
<1>3. f[0] = r /\ \A n \in 1 .. 2 : f[n] = ReadJson(f[n - 1], <<b, c>>[n])
  <2>1. Steps(f, r, <<b, c>>, 2)
    BY <1>1, <1>2, CourseAt
  <2> QED
    BY <2>1 DEF Steps
<1>4. f[1] = ReadJson(f[0], b)
  BY <1>1, <1>3
<1>5. f[2] = ReadJson(f[1], c)
  BY <1>1, <1>3
<1> QED
  BY <1>2, <1>3, <1>4, <1>5

\* Reading a text between two others.
LEMMA ReadThree ==
    ASSUME NEW S, NEW r, NEW s \in Seq(S), NEW t \in Seq(S), NEW u \in Seq(S)
    PROVE  /\ s \o t \o u \in Seq(S)
           /\ ReadFrom(r, s \o t \o u) = ReadFrom(ReadFrom(ReadFrom(r, s), t), u)
<1>1. s \o t \in Seq(S) /\ s \o t \o u \in Seq(S)
  BY ConcatProperties
<1>2. ReadFrom(r, s \o t \o u) = ReadFrom(ReadFrom(r, s \o t), u)
  <2>1. \A v \in Seq(S) : ReadFrom(r, v \o u) = ReadFrom(ReadFrom(r, v), u)
    BY ReadConcat
  <2> QED
    BY <1>1, <2>1, Zenon
<1>3. ReadFrom(r, s \o t) = ReadFrom(ReadFrom(r, s), t)
  BY ReadConcat
<1> QED
  BY <1>1, <1>2, <1>3

\* The text of one symbol.
Single(s, c) == s = <<c>>

\* Reading a text between two symbols.
LEMMA ReadBetween ==
    ASSUME NEW S, NEW b \in S, NEW text \in Seq(S), NEW c \in S, NEW r
    PROVE  /\ <<b>> \o text \o <<c>> \in Seq(S)
           /\ ReadFrom(r, <<b>> \o text \o <<c>>)
                = ReadJson(ReadFrom(ReadJson(r, b), text), c)
<1>1. ASSUME NEW s, NEW u, Single(s, b), Single(u, c)
      PROVE  /\ s \o text \o u \in Seq(S)
             /\ ReadFrom(r, s \o text \o u) = ReadJson(ReadFrom(ReadJson(r, b), text), c)
  <2>1. s \in Seq(S) /\ u \in Seq(S)
    BY <1>1 DEF Single
  <2>2. /\ ReadFrom(r, s) = ReadJson(r, b)
        /\ \A q : ReadFrom(q, u) = ReadJson(q, c)
    BY <1>1, ReadOne DEF Single
  <2>3. s \o text \o u \in Seq(S)
    BY <2>1, ReadThree
  <2>4. ReadFrom(r, s \o text \o u) = ReadFrom(ReadFrom(ReadFrom(r, s), text), u)
    BY <2>1, ReadThree
  <2> QED
    BY <2>2, <2>3, <2>4
<1>2. Single(<<b>>, b) /\ Single(<<c>>, c)
  BY DEF Single
<1> QED
  BY <1>1, <1>2, Zenon

\* An element added at the end stands before what follows.
Shifts(S, s, c, t) ==
    <<c>> \o t \in Seq(S) /\ Append(s, c) \o t = s \o (<<c>> \o t)

\* A symbol may go to either.
LEMMA AppendThen ==
    ASSUME NEW S, NEW s \in Seq(S), NEW c \in S, NEW t \in Seq(S)
    PROVE  Shifts(S, s, c, t)
<1>1. ASSUME NEW m, Single(m, c)
      PROVE  m \o t \in Seq(S) /\ Append(s, c) \o t = s \o (m \o t)
  <2>1. m \in Seq(S) /\ Append(s, c) = s \o m
    BY <1>1, AppendIsConcat DEF Single
  <2>2. (s \o m) \o t = s \o (m \o t)
    BY <2>1, ConcatAssociative
  <2>3. m \o t \in Seq(S)
    BY <2>1, ConcatProperties
  <2> QED
    BY <2>1, <2>2, <2>3
<1>2. Single(<<c>>, c)
  BY DEF Single
<1> QED
  BY <1>1, <1>2, Zenon DEF Shifts

\* Three texts one after the other.
Associates(s, t, u) == (s \o t) \o u = s \o (t \o u)

\* They may be put together in any order.
LEMMA Association ==
    ASSUME NEW S, NEW s \in Seq(S), NEW t \in Seq(S), NEW u \in Seq(S)
    PROVE  Associates(s, t, u)
BY ConcatAssociative DEF Associates

\* No two control characters have the same letter, and it is no mark.
LEMMA LetterBack ==
    ASSUME NEW c \in Control
    PROVE  Letter[c] \in Escapes \ Marks /\ Unescaped(Letter[c]) = c
<1>1. \A d \in Control : Letter[d] = Letter[c] => d = c
  BY DEF Control, Letter
<1>2. Letter[c] \in Escapes
  BY DEF Escapes
<1>3. Letter[c] \notin Marks
  BY Letters DEF Marks, Quote, Backslash
<1> QED
  BY <1>1, <1>2, <1>3 DEF Unescaped

\* s is r with another text of the string that it is in.
Grown(S, r, text, s) ==
    /\ s \in ReaderOf(S)
    /\ s.place = r.place /\ s.open = r.open /\ s.strings = r.strings
    /\ s.text = text /\ ~ s.escaped

\* In a string, reading what a symbol is written as yields the symbol.
LEMMA ReadEscaped ==
    ASSUME NEW S, Alphabet(S), NEW c \in S, NEW r \in ReaderOf(S), Inside(r), ~ r.escaped
    PROVE  /\ EscapeSymbol(c) \in Seq(S)
           /\ Grown(S, r, Append(r.text, c), ReadFrom(r, EscapeSymbol(c)))
<1> USE DEF ReaderOf, Grown
<1>0. Append(r.text, c) \in Seq(S)
  OBVIOUS
<1> DEFINE q == ReadJson(r, Backslash)
<1>1. /\ q = [r EXCEPT !.escaped = TRUE, !.plain = FALSE]
      /\ q.escaped /\ Inside(q) /\ q.text = r.text /\ q.place = r.place
      /\ q.open = r.open /\ q.strings = r.strings /\ q \in ReaderOf(S)
  <2>1. q = ReadInside(r, Backslash)
    BY DEF ReadJson
  <2>2. q = [r EXCEPT !.escaped = TRUE, !.plain = FALSE]
    BY <2>1 DEF ReadInside, Quote, Backslash
  <2> HIDE DEF q
  <2> QED
    BY <2>2 DEF Inside
<1> HIDE DEF q
<1>2. ASSUME NEW b \in Escapes, Unescaped(b) = c
      PROVE  Grown(S, r, Append(r.text, c), ReadFrom(r, <<Backslash, b>>))
  <2> DEFINE s == ReadJson(q, b)
  <2>1. ReadFrom(r, <<Backslash, b>>) = s
    BY ReadPair DEF q
  <2>2. s = ReadInside(q, b)
    BY <1>1 DEF ReadJson
  <2>3. s = [q EXCEPT !.escaped = FALSE, !.text = Append(@, Unescaped(b)),
                      !.tidy = @ /\ Tidy(q, b)]
    BY <1>1, <2>2 DEF ReadInside
  <2>4. (q.tidy /\ Tidy(q, b)) \in BOOLEAN
    BY <1>1 DEF Tidy
  <2> HIDE DEF s
  <2>5. PICK t \in Seq(S), tidy \in BOOLEAN :
            /\ s = [q EXCEPT !.escaped = FALSE, !.text = t, !.tidy = tidy]
            /\ t = Append(r.text, c)
    <3>1. s = [q EXCEPT !.escaped = FALSE, !.text = Append(r.text, c),
                        !.tidy = q.tidy /\ Tidy(q, b)]
      BY <1>1, <1>2, <2>3
    <3> QED
      BY <1>0, <2>4, <3>1
  <2>6. /\ s \in ReaderOf(S) /\ ~ s.escaped /\ s.text = t
        /\ s.place = q.place /\ s.open = q.open /\ s.strings = q.strings
    BY <1>1, <2>5
  <2> QED
    BY <1>1, <2>1, <2>5, <2>6
<1>3. CASE c \in {Quote, Backslash}
  <2>1. EscapeSymbol(c) = <<Backslash, c>>
    BY <1>3 DEF EscapeSymbol
  <2>2. c \in Escapes /\ Unescaped(c) = c
    BY <1>3, UnescapedMark DEF Escapes
  <2>3. Backslash \in S
    BY DEF Alphabet, Marks
  <2> QED
    BY <1>2, <2>1, <2>2, <2>3
<1>4. CASE c \in Control
  <2>1. c \notin {Quote, Backslash}
    BY <1>4, Symbols DEF Quote, Backslash
  <2>2. EscapeSymbol(c) = <<Backslash, Letter[c]>>
    BY <1>4, <2>1 DEF EscapeSymbol, Control
  <2>3. Letter[c] \in Escapes /\ Unescaped(Letter[c]) = c
    BY <1>4, LetterBack
  <2>4. Backslash \in S /\ Letter[c] \in S
    BY <2>3 DEF Alphabet, Marks
  <2>5. Grown(S, r, Append(r.text, c), ReadFrom(r, EscapeSymbol(c)))
    BY <1>2, <2>2, <2>3, Zenon
  <2>6. \A b, d \in S : <<b, d>> \in Seq(S)
    OBVIOUS
  <2>7. EscapeSymbol(c) \in Seq(S)
    BY <2>2, <2>4, <2>6, Zenon
  <2> QED
    BY <2>5, <2>7
<1>5. CASE c \notin Control \cup {Quote, Backslash}
  <2>1. EscapeSymbol(c) = <<c>>
    BY <1>5 DEF EscapeSymbol, Control
  <2>2. ReadFrom(r, <<c>>) = ReadInside(r, c)
    BY ReadOne DEF ReadJson
  <2>3. ReadInside(r, c) = [r EXCEPT !.text = Append(@, c)]
    BY <1>5 DEF ReadInside
  <2>4. PICK t \in Seq(S) : t = Append(r.text, c) /\ ReadFrom(r, <<c>>) = [r EXCEPT !.text = t]
    BY <1>0, <2>2, <2>3
  <2>5. Grown(S, r, t, ReadFrom(r, <<c>>))
    BY <2>4
  <2>6. <<c>> \in Seq(S)
    OBVIOUS
  <2> HIDE DEF Grown, ReaderOf
  <2> QED
    BY <2>1, <2>4, <2>5, <2>6
<1> QED
  BY <1>3, <1>4, <1>5

\* In a string, reading what a text is written as yields the text.
LEMMA ReadEscape ==
    ASSUME NEW S, Alphabet(S), NEW text \in Seq(S), NEW r \in ReaderOf(S), Inside(r),
           ~ r.escaped, r.text = <<>>
    PROVE  Escape(text) \in Seq(S) /\ Grown(S, r, text, ReadFrom(r, Escape(text)))
<1> DEFINE parts == [k \in DOMAIN text |-> EscapeSymbol(text[k])]
           Q == [n \in 0 .. Len(text) |-> {s \in ReaderOf(S) : Grown(S, r, SubSeq(text, 1, n), s)}]
<1>1. Len(text) \in Nat /\ DOMAIN text = 1 .. Len(text)
  OBVIOUS
<1>2. \A k \in 1 .. Len(text) : text[k] \in S /\ EscapeSymbol(text[k]) \in Seq(S)
  <2> SUFFICES ASSUME NEW k \in 1 .. Len(text)
               PROVE  text[k] \in S /\ EscapeSymbol(text[k]) \in Seq(S)
    OBVIOUS
  <2>1. text[k] \in S
    OBVIOUS
  <2> QED
    BY <2>1, ReadEscaped
<1>3. parts \in Seq(Seq(S)) /\ Len(parts) = Len(text)
  BY <1>1, <1>2
<1>4. r \in Q[0]
  <2>1. SubSeq(text, 1, 0) = <<>>
    BY SubSeqEmpty
  <2>2. Grown(S, r, <<>>, r)
    BY DEF Grown
  <2>3. Q[0] = {s \in ReaderOf(S) : Grown(S, r, SubSeq(text, 1, 0), s)}
    BY <1>1
  <2> HIDE DEF Q
  <2> QED
    BY <2>1, <2>2, <2>3
<1>5. Stages(Q, parts)
  <2> SUFFICES ASSUME NEW n \in 1 .. Len(text), NEW q \in Q[n - 1]
               PROVE  ReadFrom(q, parts[n]) \in Q[n]
    BY <1>3 DEF Stages
  <2>1. n - 1 \in 0 .. Len(text) /\ n \in 0 .. Len(text) /\ parts[n] = EscapeSymbol(text[n])
    BY <1>1
  <2>2. q \in ReaderOf(S) /\ Grown(S, r, SubSeq(text, 1, n - 1), q)
    BY <2>1
  <2>3. Inside(q) /\ ~ q.escaped /\ q.text = SubSeq(text, 1, n - 1)
    BY <2>2 DEF Grown, Inside
  <2>4. Grown(S, q, Append(q.text, text[n]), ReadFrom(q, parts[n]))
    BY <1>2, <2>1, <2>2, <2>3, ReadEscaped
  <2>5. Append(q.text, text[n]) = SubSeq(text, 1, n)
    <3>1. 1 \in 1 .. Len(text) /\ n \in 1 .. Len(text) /\ text[n] \in S
      BY <1>1, <1>2
    <3>2. SubSeq(text, 1, n) = SubSeq(text, 1, n - 1) \o <<text[n]>>
      BY <3>1, SubSeqRecursiveSecond
    <3>3. q.text \in Seq(S)
      BY <2>2 DEF ReaderOf
    <3> QED
      BY <2>3, <3>1, <3>2, <3>3, AppendIsConcat
  <2>6. Grown(S, r, SubSeq(text, 1, n), ReadFrom(q, parts[n]))
    BY <2>2, <2>4, <2>5 DEF Grown
  <2> QED
    BY <2>1, <2>6 DEF Grown
<1>6. Escape(text) \in Seq(S) /\ ReadFrom(r, Escape(text)) \in Q[Len(text)]
  <2> HIDE DEF parts, Q
  <2>1. Escape(text) = FlattenSeq(parts)
    BY DEF Escape, parts
  <2> QED
    BY <1>3, <1>4, <1>5, <2>1, ReadFlat
<1>7. SubSeq(text, 1, Len(text)) = text
  BY SubSeqFull
<1>8. Q[Len(text)] = {s \in ReaderOf(S) : Grown(S, r, SubSeq(text, 1, Len(text)), s)}
  BY <1>1
<1> HIDE DEF Q
<1> QED
  BY <1>6, <1>7, <1>8

\* What reading a string makes of the reader r.
Told(S, r, place, text, s) ==
    /\ s \in ReaderOf(S)
    /\ s.place = place /\ s.open = r.open /\ ~ s.escaped
    /\ s.text = text /\ s.strings = Append(r.strings, text)

\* Where a key or a value may come, a string that JsonValue has written is read as
\* the text it was given, whatever characters that has.
THEOREM ReadQuoted ==
    ASSUME NEW S, Alphabet(S), NEW text \in Seq(S), NEW r \in ReaderOf(S), ~ r.escaped,
           r.place \in {"first", "member", "value"}
    PROVE  /\ Quoted(text) \in Seq(S)
           /\ Told(S, r, IF r.place = "value" THEN "after" ELSE "colon", text,
                   ReadFrom(r, Quoted(text)))
<1> USE DEF ReaderOf
<1> DEFINE q == ReadJson(r, Quote)
           e == ReadFrom(q, Escape(text))
<1>1. /\ q \in ReaderOf(S) /\ Inside(q) /\ ~ q.escaped /\ q.text = <<>>
      /\ q.place = IF r.place = "value" THEN "string" ELSE "key"
      /\ q.open = r.open /\ q.strings = r.strings
  <2>1. ~ Inside(r) /\ Quote \notin White
    BY DEF Inside, White, Quote
  <2>2. q = ReadMark(r, Quote)
    BY <2>1 DEF ReadJson
  <2> HIDE DEF q
  <2>3. PICK place \in {"string", "key"} :
            /\ place = IF r.place = "value" THEN "string" ELSE "key"
            /\ q = [r EXCEPT !.place = place, !.plain = TRUE, !.text = <<>>]
    <3>1. CASE r.place = "value"
      <4>1. StartsString(r, Quote)
        BY <3>1 DEF StartsString
      <4>2. q = [r EXCEPT !.place = "string", !.plain = TRUE, !.text = <<>>]
        BY <2>2, <4>1, ReadMarkCases
      <4> QED
        BY <3>1, <4>2
    <3>2. CASE r.place # "value"
      <4>1. StartsKey(r, Quote)
        BY <3>2 DEF StartsKey
      <4>2. q = [r EXCEPT !.place = "key", !.plain = TRUE, !.text = <<>>]
        BY <2>2, <4>1, ReadMarkCases
      <4> QED
        BY <3>2, <4>2
    <3> QED
      BY <3>1, <3>2
  <2>4. place \in ReaderPlaces /\ <<>> \in Seq(S)
    BY DEF ReaderPlaces
  <2>5. /\ q \in ReaderOf(S) /\ ~ q.escaped /\ q.text = <<>> /\ q.place = place
        /\ q.open = r.open /\ q.strings = r.strings
    BY <2>3, <2>4
  <2> QED
    BY <2>3, <2>5 DEF Inside
<1>2. Escape(text) \in Seq(S) /\ Grown(S, q, text, e)
  <2> HIDE DEF q
  <2> QED
    BY <1>1, ReadEscape
<1>3. Quote \in S
  BY DEF Alphabet, Marks
<1>4. Quoted(text) \in Seq(S) /\ ReadFrom(r, Quoted(text)) = ReadJson(e, Quote)
  BY <1>2, <1>3, ReadBetween DEF Quoted
<1> HIDE DEF q, e
<1>5. ReadJson(e, Quote) = EndString(e)
  <2>1. Inside(e) /\ ~ e.escaped
    BY <1>1, <1>2 DEF Grown, Inside
  <2> QED
    BY <2>1 DEF ReadJson, ReadInside, Quote, Backslash
<1>6. /\ e \in ReaderOf(S) /\ e.place = q.place /\ e.open = r.open /\ ~ e.escaped
      /\ e.text = text /\ e.strings = r.strings
  BY <1>1, <1>2 DEF Grown
<1>7. Told(S, r, IF r.place = "value" THEN "after" ELSE "colon", text, EndString(e))
  <2>1. Append(e.strings, e.text) \in Seq(Seq(S))
    BY <1>6
  <2>2. (e.fields \cup {<<e.name, e.text>>}) \in SUBSET (Seq(S) \X Seq(S))
    BY <1>6
  <2>3. PICK fields \in SUBSET (Seq(S) \X Seq(S)), strings \in Seq(Seq(S)),
             place \in {"colon", "after"} :
            /\ EndString(e) = [e EXCEPT !.place = place, !.fields = fields, !.strings = strings]
            /\ place = IF e.place = "key" THEN "colon" ELSE "after"
            /\ strings = Append(r.strings, text)
    BY <1>6, <2>1, <2>2 DEF EndString
  <2>4. place = IF r.place = "value" THEN "after" ELSE "colon"
    BY <1>1, <1>6, <2>3
  <2>5. Told(S, r, place, text, EndString(e))
    <3> DEFINE s == EndString(e)
    <3>0. place \in ReaderPlaces /\ e \in ReaderOf(S)
      BY <1>6 DEF ReaderPlaces
    <3>1. s \in ReaderOf(S)
      <4> HIDE DEF s
      <4>1. s = [e EXCEPT !.place = place, !.fields = fields, !.strings = strings]
        BY <2>3 DEF s
      <4> QED
        BY <3>0, <4>1
    <3>2. /\ s.place = place /\ s.open = e.open /\ s.escaped = e.escaped
          /\ s.text = e.text /\ s.strings = strings
      BY <1>6, <2>3
    <3> HIDE DEF s
    <3>3. Told(S, r, place, text, s)
      BY <1>6, <2>3, <3>1, <3>2 DEF Told
    <3> QED
      BY <3>3 DEF s
  <2> QED
    BY <2>4, <2>5
<1> QED
  BY <1>4, <1>5, <1>7

\* A new reader, before any text.
LEMMA NewReaderOf ==
    \A S : /\ NewReader \in ReaderOf(S) /\ NewReader.place = "start" /\ ~ NewReader.escaped
           /\ NewReader.open = <<>> /\ NewReader.strings = <<>>
BY DEF NewReader, ReaderOf, ReaderPlaces

\* What a text is written as is made of the same symbols.
LEMMA QuotedText ==
    ASSUME NEW S, Alphabet(S), NEW text \in Seq(S)
    PROVE  Quoted(text) \in Seq(S)
<1> DEFINE r == Goto(NewReader, "value")
<1>1. r \in ReaderOf(S) /\ ~ r.escaped /\ r.place = "value"
  BY NewReaderOf DEF Goto, ReaderOf, ReaderPlaces
<1> QED
  BY <1>1, ReadQuoted
-----------------------------------------------------------------------------
(* Objects.                                                                 *)

\* Here a value is to come, inside of an object.
Expects(r) == r.place = "value" /\ r.open # <<>> /\ ~ r.escaped

\* s is r after more text: in a certain place, none of the objects closed, and one of
\* the lists of strings in M added.
Gained(S, r, place, M, s) ==
    /\ s \in ReaderOf(S)
    /\ s.place = place /\ s.open = r.open /\ ~ s.escaped
    /\ \E strings \in M : s.strings = r.strings \o strings

\* A text is a JSON value, and its strings are one of the lists in M.
Means(S, text, M) ==
    /\ text \in Seq(S) /\ M \subseteq Seq(Seq(S))
    /\ \A r \in ReaderOf(S) : Expects(r) => Gained(S, r, "after", M, ReadFrom(r, text))

\* A string as a value.
LEMMA StringMeans ==
    ASSUME NEW S, Alphabet(S), NEW text \in Seq(S)
    PROVE  Means(S, Serialize(String(text)), {<<text>>})
<1>1. Serialize(String(text)) = Quoted(text)
  BY DEF Serialize, String
<1>2. ASSUME NEW r \in ReaderOf(S), Expects(r)
      PROVE  /\ Quoted(text) \in Seq(S)
             /\ Gained(S, r, "after", {<<text>>}, ReadFrom(r, Quoted(text)))
  <2>1. Quoted(text) \in Seq(S) /\ Told(S, r, "after", text, ReadFrom(r, Quoted(text)))
    BY <1>2, ReadQuoted DEF Expects
  <2>2. r.strings \in Seq(Seq(S))
    BY DEF ReaderOf
  <2>3. Append(r.strings, text) = r.strings \o <<text>>
    BY <2>2, AppendIsConcat
  <2> QED
    BY <2>1, <2>3 DEF Told, Gained
<1>3. Quoted(text) \in Seq(S)
  BY QuotedText
<1>4. {<<text>>} \subseteq Seq(Seq(S))
  OBVIOUS
<1> QED
  BY <1>1, <1>2, <1>3, <1>4 DEF Means

\* A number or a literal as a value.
LEMMA ScalarMeans ==
    ASSUME NEW S, NEW c \in S, Scalar(c)
    PROVE  Means(S, <<c>>, {<<>>})
<1>1. ASSUME NEW r \in ReaderOf(S), Expects(r)
      PROVE  Gained(S, r, "after", {<<>>}, ReadFrom(r, <<c>>))
  <2>1. c \notin White /\ ~ Inside(r) /\ IsScalar(r, c)
    BY <1>1 DEF Scalar, Expects, Inside, IsScalar
  <2>2. ReadFrom(r, <<c>>) = Goto(r, "after")
    <3>1. ReadJson(r, c) = ReadMark(r, c)
      BY <2>1 DEF ReadJson
    <3>2. ReadMark(r, c) = Goto(r, "after")
      BY <2>1, ReadMarkCases
    <3> QED
      BY <3>1, <3>2, ReadOne
  <2>3. r.strings \o <<>> = r.strings
    BY ConcatEmptySeq DEF ReaderOf
  <2>4. /\ Goto(r, "after") \in ReaderOf(S)
        /\ Goto(r, "after").place = "after" /\ Goto(r, "after").open = r.open
        /\ Goto(r, "after").escaped = r.escaped /\ Goto(r, "after").strings = r.strings
    BY DEF Goto, ReaderOf, ReaderPlaces
  <2> QED
    BY <1>1, <2>2, <2>3, <2>4 DEF Gained, Expects
<1>2. <<c>> \in Seq(S) /\ {<<>>} \subseteq Seq(Seq(S))
  OBVIOUS
<1> QED
  BY <1>1, <1>2 DEF Means

\* A key and its value.
LEMMA ReadMember ==
    ASSUME NEW S, Alphabet(S), NEW key \in S, NEW text, NEW M, Means(S, text, M),
           NEW r \in ReaderOf(S), r.place \in {"first", "member"}, r.open # <<>>, ~ r.escaped
    PROVE  /\ KeyAndValue(key, text) \in Seq(S)
           /\ Gained(S, r, "after", {<< <<key>> >> \o strings : strings \in M},
                     ReadFrom(r, KeyAndValue(key, text)))
<1> DEFINE q == ReadFrom(r, Quoted(<<key>>))
           v == ReadJson(q, ":")
           s == ReadFrom(v, text)
<1>1. <<key>> \in Seq(S)
  OBVIOUS
<1>2. Quoted(<<key>>) \in Seq(S) /\ Told(S, r, "colon", <<key>>, q)
  BY <1>1, ReadQuoted
<1>3. ":" \in S /\ <<":">> \in Seq(S) /\ text \in Seq(S) /\ M \subseteq Seq(Seq(S))
  <2>1. ":" \in S
    BY DEF Alphabet, Marks
  <2>2. <<":">> \in Seq(S)
    BY <2>1
  <2> QED
    BY <2>1, <2>2 DEF Means
<1>4. /\ KeyAndValue(key, text) \in Seq(S)
      /\ ReadFrom(r, KeyAndValue(key, text)) = s
  <2>1. /\ Quoted(<<key>>) \o <<":">> \o text \in Seq(S)
        /\ ReadFrom(r, Quoted(<<key>>) \o <<":">> \o text)
             = ReadFrom(ReadFrom(q, <<":">>), text)
    <3>1. \A colon \in Seq(S) :
             /\ Quoted(<<key>>) \o colon \o text \in Seq(S)
             /\ ReadFrom(r, Quoted(<<key>>) \o colon \o text)
                  = ReadFrom(ReadFrom(q, colon), text)
      <4> HIDE DEF Quoted
      <4> QED
        BY <1>2, <1>3, ReadThree
    <3> QED
      BY <1>3, <3>1, Zenon
  <2> QED
    BY <2>1, ReadOne DEF KeyAndValue
<1>5. /\ v \in ReaderOf(S) /\ v.place = "value" /\ v.open = q.open /\ ~ v.escaped
      /\ v.strings = q.strings
  <2> HIDE DEF q
  <2>1. q \in ReaderOf(S) /\ q.place = "colon" /\ ~ q.escaped
    BY <1>2 DEF Told
  <2>2. ~ Inside(q) /\ ":" \notin White /\ GivesValue(q, ":")
    BY <2>1 DEF Inside, White, GivesValue
  <2>3. v = IF Len(q.open) = 1
              THEN [q EXCEPT !.place = "value", !.name = q.text, !.names = @ \cup {q.text}]
              ELSE Goto(q, "value")
    BY <2>2, ReadMarkCases DEF ReadJson
  <2>4. (q.names \cup {q.text}) \in SUBSET Seq(S) /\ q.text \in Seq(S)
    BY <2>1 DEF ReaderOf
  <2> HIDE DEF v
  <2> QED
    BY <2>1, <2>3, <2>4 DEF Goto, ReaderOf, ReaderPlaces
<1> HIDE DEF q, v, s
<1>6. PICK strings \in M : s.strings = v.strings \o strings
  BY <1>2, <1>5 DEF Means, Expects, Gained, Told, s
<1>7. s \in ReaderOf(S) /\ s.place = "after" /\ s.open = r.open /\ ~ s.escaped
  BY <1>2, <1>5 DEF Means, Expects, Gained, Told, s
<1>8. s.strings = r.strings \o (<< <<key>> >> \o strings)
  <2>1. v.strings = Append(r.strings, <<key>>)
    BY <1>2, <1>5 DEF Told
  <2>2. r.strings \in Seq(Seq(S)) /\ strings \in Seq(Seq(S)) /\ <<key>> \in Seq(S)
    BY <1>1, <1>3 DEF ReaderOf
  <2>3. Append(r.strings, <<key>>) \o strings = r.strings \o (<< <<key>> >> \o strings)
    <3>1. Shifts(Seq(S), r.strings, <<key>>, strings)
      BY <2>2, AppendThen
    <3> QED
      BY <3>1 DEF Shifts
  <2> QED
    BY <1>6, <2>1, <2>3
<1> QED
  BY <1>4, <1>7, <1>8 DEF Gained

\* The keys are symbols.
LEMMA KeyNames ==
    ASSUME NEW S, Alphabet(S), NEW n \in 1 .. 17
    PROVE  KeyOrder[n] \in S
<1>1. KeyOrder[n] \in Range(KeyOrder)
  <2>1. DOMAIN KeyOrder = 1 .. 17
    BY DEF KeyOrder
  <2> HIDE DEF KeyOrder
  <2> QED
    BY <2>1 DEF Range
<1> QED
  BY <1>1 DEF Alphabet

\* Going through the keys, L[n] has the lists of strings that the members up to the
\* n-th key may consist of, if the member of a key has one of those in M[key].
Recounts(S, object, M, L) ==
    /\ <<>> \in L[0]
    /\ \A n \in 0 .. 17 : L[n] \subseteq Seq(Seq(S))
    /\ \A n \in 1 .. 17 : \A strings \in L[n - 1] :
          IF KeyOrder[n] \in DOMAIN object
            THEN /\ Means(S, object[KeyOrder[n]], M[KeyOrder[n]])
                 /\ \A more \in M[KeyOrder[n]] :
                        strings \o (<< <<KeyOrder[n]>> >> \o more) \in L[n]
            ELSE strings \in L[n]

Started(object, n) == \E k \in 1 .. n : KeyOrder[k] \in DOMAIN object

\* Where the reader is between two members.
Between(object, n) == IF Started(object, n) THEN "after" ELSE "first"

\* One more key.
LEMMA ReadNext ==
    ASSUME NEW S, Alphabet(S), NEW object, NEW M, NEW L, Recounts(S, object, M, L),
           NEW r \in ReaderOf(S), r.open # <<>>, Lists(r) = 0, NEW n \in 1 .. 17,
           NEW q, Gained(S, r, Between(object, n - 1), L[n - 1], q)
    PROVE  /\ Member(object, n) \in Seq(S)
           /\ Gained(S, r, Between(object, n), L[n], ReadFrom(q, Member(object, n)))
<1> DEFINE key == KeyOrder[n]
<1>1. Started(object, n) <=> Started(object, n - 1) \/ key \in DOMAIN object
  <2>1. 1 .. n = 1 .. n - 1 \cup {n}
    OBVIOUS
  <2> QED
    BY <2>1, Zenon DEF Started
<1>2. PICK strings \in L[n - 1] : q.strings = r.strings \o strings
  BY DEF Gained
<1>3. CASE key \notin DOMAIN object
  <2>1. Member(object, n) = <<>> /\ <<>> \in Seq(S)
    BY <1>3 DEF Member
  <2>2. ReadFrom(q, <<>>) = q
    BY ReadNothing
  <2>3. strings \in L[n] /\ Between(object, n) = Between(object, n - 1)
    BY <1>1, <1>3 DEF Recounts, Between
  <2> QED
    BY <1>2, <2>1, <2>2, <2>3 DEF Gained
<1>4. CASE key \in DOMAIN object
  <2> DEFINE comma == IF Started(object, n - 1) THEN <<",">> ELSE <<>>
             text == KeyAndValue(key, object[key])
             p == ReadFrom(q, comma)
             s == ReadFrom(p, text)
  <2>1. key \in S /\ Means(S, object[key], M[key])
    BY <1>2, <1>4, KeyNames DEF Recounts
  <2>2. comma \in Seq(S)
    <3>1. "," \in S
      BY DEF Alphabet, Marks
    <3>2. <<",">> \in Seq(S)
      <4>1. \A c \in S : <<c>> \in Seq(S)
        OBVIOUS
      <4> QED
        BY <3>1, <4>1, Zenon
    <3>3. <<>> \in Seq(S)
      OBVIOUS
    <3> QED
      BY <3>2, <3>3
  <2>3. /\ p \in ReaderOf(S) /\ p.place \in {"first", "member"}
        /\ p.open = r.open /\ ~ p.escaped /\ p.strings = q.strings
    <3>1. q \in ReaderOf(S) /\ q.open = r.open /\ ~ q.escaped
      BY DEF Gained
    <3>2. CASE ~ Started(object, n - 1)
      <4>1. p = q
        BY <3>2, ReadNothing
      <4>2. q.place = "first"
        BY <3>2 DEF Gained, Between
      <4> QED
        BY <3>1, <4>1, <4>2
    <3>3. CASE Started(object, n - 1)
      <4>1. q.place = "after"
        BY <3>3 DEF Gained, Between
      <4>2. ~ Inside(q) /\ "," \notin White /\ Continues(q, ",") /\ ~ (Lists(q) > 0)
        BY <3>1, <4>1 DEF Inside, White, Continues, Lists
      <4>3. ReadJson(q, ",") = ReadMark(q, ",")
        BY <4>2 DEF ReadJson
      <4>4. ReadMark(q, ",") = Goto(q, "member")
        BY <4>2, ReadMarkCases
      <4>5. p = Goto(q, "member")
        BY <3>3, <4>3, <4>4, ReadOne
      <4> HIDE DEF p
      <4> QED
        BY <3>1, <4>5 DEF Goto, ReaderOf, ReaderPlaces
    <3> QED
      BY <3>2, <3>3
  <2>4. Member(object, n) = comma \o text
    BY <1>4 DEF Member, Started
  <2> HIDE DEF p, comma, key
  <2>5. /\ text \in Seq(S)
        /\ Gained(S, p, "after", {<< <<key>> >> \o more : more \in M[key]}, s)
    BY <2>1, <2>3, ReadMember
  <2> HIDE DEF text
  <2>6. comma \o text \in Seq(S) /\ ReadFrom(q, comma \o text) = s
    BY <2>2, <2>5, ReadConcat, ConcatProperties DEF p
  <2> HIDE DEF s
  <2>7. PICK more \in M[key] : s.strings = p.strings \o (<< <<key>> >> \o more)
    BY <2>5 DEF Gained
  <2>8. s.strings = r.strings \o (strings \o (<< <<key>> >> \o more))
    <3>1. << <<key>> >> \o more \in Seq(Seq(S))
      <4>1. <<key>> \in Seq(S) /\ more \in Seq(Seq(S))
        BY <2>1 DEF Means
      <4>2. Shifts(Seq(S), more, <<key>>, more)
        BY <4>1, AppendThen
      <4> QED
        BY <4>2 DEF Shifts
    <3>2. r.strings \in Seq(Seq(S)) /\ strings \in Seq(Seq(S))
      <4>1. n - 1 \in 0 .. 17
        OBVIOUS
      <4>2. L[n - 1] \subseteq Seq(Seq(S))
        BY <4>1 DEF Recounts
      <4> QED
        BY <1>2, <4>2 DEF ReaderOf
    <3> HIDE DEF key
    <3>3. Associates(r.strings, strings, << <<key>> >> \o more)
      BY <3>1, <3>2, Association
    <3> QED
      BY <1>2, <2>3, <2>7, <3>3 DEF Associates
  <2>9. strings \o (<< <<key>> >> \o more) \in L[n]
    BY <1>2, <1>4 DEF Recounts, key
  <2>10. Between(object, n) = "after"
    BY <1>1, <1>4 DEF Between, key
  <2> QED
    BY <2>3, <2>4, <2>5, <2>6, <2>8, <2>9, <2>10 DEF Gained
<1> QED
  BY <1>3, <1>4

\* All the keys.
LEMMA ReadMembers ==
    ASSUME NEW S, Alphabet(S), NEW object, NEW M, NEW L, Recounts(S, object, M, L),
           NEW r \in ReaderOf(S), r.open # <<>>, Lists(r) = 0, r.place = "first", ~ r.escaped,
           NEW text, text = FlattenSeq([n \in DOMAIN KeyOrder |-> Member(object, n)])
    PROVE  text \in Seq(S) /\ Gained(S, r, Between(object, 17), L[17], ReadFrom(r, text))
<1> DEFINE parts == [n \in DOMAIN KeyOrder |-> Member(object, n)]
           Q == [n \in 0 .. 17 |-> {s \in ReaderOf(S) : Gained(S, r, Between(object, n), L[n], s)}]
<1>1. Gained(S, r, Between(object, 0), L[0], r)
  <2>1. ~ Started(object, 0)
    BY DEF Started
  <2>2. r.strings \o <<>> = r.strings
    BY ConcatEmptySeq DEF ReaderOf
  <2> QED
    BY <2>1, <2>2 DEF Gained, Between, Recounts
<1>2. \A n \in 1 .. 17 : \A q \in Q[n - 1] :
         Member(object, n) \in Seq(S) /\ ReadFrom(q, Member(object, n)) \in Q[n]
  <2> SUFFICES ASSUME NEW n \in 1 .. 17, NEW q \in Q[n - 1]
               PROVE  Member(object, n) \in Seq(S) /\ ReadFrom(q, Member(object, n)) \in Q[n]
    OBVIOUS
  <2>1. n - 1 \in 0 .. 17 /\ n \in 0 .. 17
    OBVIOUS
  <2>2. Gained(S, r, Between(object, n - 1), L[n - 1], q)
    BY <2>1
  <2>3. /\ Member(object, n) \in Seq(S)
        /\ Gained(S, r, Between(object, n), L[n], ReadFrom(q, Member(object, n)))
    BY <2>2, ReadNext
  <2> QED
    BY <2>1, <2>3 DEF Gained
<1>3. r \in Q[0]
  BY <1>1
<1>4. \A n \in 1 .. 17 : Member(object, n) \in Seq(S)
  <2> DEFINE T == {n \in Nat : n <= 17 => \E q : q \in Q[n]}
  <2>1. 0 \in T
    BY <1>3
  <2>2. ASSUME NEW n \in T PROVE n + 1 \in T
    <3> HIDE DEF Q
    <3>1. CASE n + 1 <= 17
      <4>1. n + 1 \in 1 .. 17 /\ n + 1 - 1 = n
        BY <3>1
      <4>2. PICK q : q \in Q[n]
        BY <3>1
      <4>3. ReadFrom(q, Member(object, n + 1)) \in Q[n + 1]
        BY <1>2, <4>1, <4>2
      <4> QED
        BY <4>3
    <3> QED
      BY <3>1
  <2>3. T = Nat
    <3>1. T \subseteq Nat
      OBVIOUS
    <3> HIDE DEF T
    <3> QED
      BY <2>1, <2>2, <3>1, NatSetInduction
  <2>4. \A n \in 1 .. 17 : \E q : q \in Q[n - 1]
    <3> SUFFICES ASSUME NEW n \in 1 .. 17 PROVE \E q : q \in Q[n - 1]
      OBVIOUS
    <3> HIDE DEF Q
    <3>1. n - 1 \in Nat /\ n - 1 <= 17
      OBVIOUS
    <3>2. n - 1 \in T
      BY <2>3, <3>1
    <3> QED
      BY <3>1, <3>2
  <2> HIDE DEF Q, T
  <2> QED
    BY <1>2, <2>4
<1>5. DOMAIN KeyOrder = 1 .. 17
  BY DEF KeyOrder
<1>6. parts \in Seq(Seq(S)) /\ Len(parts) = 17
  <2> HIDE DEF KeyOrder
  <2> QED
    BY <1>4, <1>5
<1>7. Stages(Q, parts)
  <2> HIDE DEF KeyOrder
  <2>1. \A n \in 1 .. 17 : parts[n] = Member(object, n)
    BY <1>5
  <2> HIDE DEF Q, parts
  <2> QED
    BY <1>2, <1>6, <2>1 DEF Stages
<1>8. text \in Seq(S) /\ ReadFrom(r, text) \in Q[17]
  <2>1. text = FlattenSeq(parts)
    OBVIOUS
  <2> HIDE DEF Q, parts
  <2> QED
    BY <1>3, <1>6, <1>7, <2>1, ReadFlat
<1> QED
  BY <1>8

\* The objects that are open when another one was opened and has ended.
LEMMA FrontAppend ==
    ASSUME NEW open \in Seq(Nat)
    PROVE  /\ Append(open, 0) \in Seq(Nat) /\ Append(open, 0) # <<>>
           /\ Len(Append(open, 0)) = Len(open) + 1
           /\ Append(open, 0)[Len(Append(open, 0))] = 0
           /\ Front(Append(open, 0)) = open
<1>1. /\ Append(open, 0) \in Seq(Nat) /\ Append(open, 0) # <<>>
      /\ Len(Append(open, 0)) = Len(open) + 1
      /\ Append(open, 0)[Len(open) + 1] = 0
      /\ \A k \in 1 .. Len(open) : Append(open, 0)[k] = open[k]
  BY AppendProperties
<1> DEFINE more == Append(open, 0)
<1> HIDE DEF more
<1>2. Len(open) \in Nat
  OBVIOUS
<1>3. Len(more) - 1 = Len(open)
  BY <1>1, <1>2 DEF more
<1>4. Front(more) = SubSeq(more, 1, Len(open))
  BY <1>3 DEF Front
<1>5. \A k \in 1 .. Len(open) : more[k] \in Nat
  BY <1>1 DEF more
<1>6. /\ SubSeq(more, 1, Len(open)) \in Seq(Nat)
      /\ Len(SubSeq(more, 1, Len(open))) = IF 1 <= Len(open) THEN Len(open) - 1 + 1 ELSE 0
      /\ \A k \in 1 .. Len(open) - 1 + 1 : SubSeq(more, 1, Len(open))[k] = more[1 + k - 1]
  BY <1>2, <1>5, SubSeqProperties
<1>7. Len(SubSeq(more, 1, Len(open))) = Len(open)
  <2>1. CASE 1 <= Len(open)
    BY <1>2, <1>6, <2>1
  <2>2. CASE ~ (1 <= Len(open))
    BY <1>2, <1>6, <2>2
  <2> QED
    BY <2>1, <2>2
<1>8. \A k \in 1 .. Len(open) : SubSeq(more, 1, Len(open))[k] = open[k]
  <2> SUFFICES ASSUME NEW k \in 1 .. Len(open) PROVE SubSeq(more, 1, Len(open))[k] = open[k]
    OBVIOUS
  <2>1. k \in 1 .. Len(open) - 1 + 1 /\ 1 + k - 1 = k
    BY <1>2
  <2>2. SubSeq(more, 1, Len(open))[k] = more[1 + k - 1]
    BY <1>6, <2>1
  <2> QED
    BY <1>1, <2>1, <2>2 DEF more
<1>9. SubSeq(more, 1, Len(open)) = open
  BY <1>6, <1>7, <1>8, SeqEqual
<1> QED
  BY <1>1, <1>4, <1>9 DEF more

\* A text between two symbols, and reading it.
Encloses(whole, b, text, c) == whole = <<b>> \o text \o <<c>>

\* Reading it is reading a symbol, the text and a symbol.
LEMMA ReadEnclosed ==
    ASSUME NEW S, NEW b \in S, NEW text \in Seq(S), NEW c \in S, NEW r,
           NEW whole, Encloses(whole, b, text, c)
    PROVE  whole \in Seq(S) /\ ReadFrom(r, whole) = ReadJson(ReadFrom(ReadJson(r, b), text), c)
<1>1. /\ <<b>> \o text \o <<c>> \in Seq(S)
      /\ ReadFrom(r, <<b>> \o text \o <<c>>) = ReadJson(ReadFrom(ReadJson(r, b), text), c)
  BY ReadBetween
<1> QED
  BY <1>1 DEF Encloses

\* The braces of an object.
LeftBrace == "{"
RightBrace == "}"

\* An object, where a value or the document is to come.
LEMMA ReadObject ==
    ASSUME NEW S, Alphabet(S), NEW object, NEW M, NEW L, Recounts(S, object, M, L),
           NEW value, value = [type |-> "object", object |-> object],
           NEW r \in ReaderOf(S), ~ r.escaped, r.place \in {"start", "value"}
    PROVE  /\ Serialize(value) \in Seq(S)
           /\ Gained(S, r, IF r.open = <<>> THEN "done" ELSE "after", L[17],
                     ReadFrom(r, Serialize(value)))
<1> DEFINE members == FlattenSeq([n \in DOMAIN KeyOrder |-> Member(object, n)])
           q == ReadJson(r, LeftBrace)
           p == ReadFrom(q, members)
           s == ReadJson(p, RightBrace)
           end == IF r.open = <<>> THEN "done" ELSE "after"
<1>1. r.open \in Seq(Nat)
  BY DEF ReaderOf
<1>2. /\ q \in ReaderOf(S) /\ q.place = "first" /\ q.open = Append(r.open, 0)
      /\ ~ q.escaped /\ q.strings = r.strings
  <2>1. ~ Inside(r) /\ LeftBrace \notin White /\ OpensObject(r, LeftBrace)
    BY DEF Inside, White, OpensObject, LeftBrace
  <2>2. q = ReadMark(r, LeftBrace)
    BY <2>1 DEF ReadJson
  <2>3. q = [r EXCEPT !.place = "first", !.open = Append(@, 0)]
    BY <2>1, <2>2, ReadMarkCases
  <2>4. Append(r.open, 0) \in Seq(Nat)
    BY <1>1, FrontAppend
  <2> HIDE DEF q
  <2> QED
    BY <2>3, <2>4 DEF ReaderOf, ReaderPlaces
<1>3. q.open # <<>> /\ Lists(q) = 0
  BY <1>1, <1>2, FrontAppend DEF Lists
<1>4. members \in Seq(S) /\ Gained(S, q, Between(object, 17), L[17], p)
  <2> HIDE DEF q
  <2> QED
    BY <1>2, <1>3, ReadMembers
<1>5. LeftBrace \in S /\ RightBrace \in S
  BY DEF Alphabet, Marks, LeftBrace, RightBrace
<1>6. Encloses(Serialize(value), LeftBrace, members, RightBrace)
  BY DEF Serialize, Encloses, LeftBrace, RightBrace
<1> HIDE DEF members
<1>7. Serialize(value) \in Seq(S) /\ ReadFrom(r, Serialize(value)) = s
  <2>1. members \in Seq(S)
    BY <1>4
  <2> QED
    BY <1>5, <1>6, <2>1, ReadEnclosed
<1> HIDE DEF q, p
<1>8. PICK strings \in L[17] : p.strings = r.strings \o strings
  BY <1>2, <1>4 DEF Gained
<1>9. /\ p \in ReaderOf(S) /\ p.place \in {"first", "after"} /\ ~ p.escaped
      /\ p.open = Append(r.open, 0)
  BY <1>2, <1>4 DEF Gained, Between
<1>10. s = [p EXCEPT !.place = IF Len(p.open) = 1 THEN "done" ELSE "after", !.open = Front(@)]
  <2>1. ~ Inside(p) /\ RightBrace \notin White /\ Lists(p) = 0
    BY <1>1, <1>9, FrontAppend DEF Inside, White, Lists, RightBrace
  <2>2. ClosesObject(p, RightBrace)
    BY <1>9, <2>1 DEF ClosesObject, RightBrace
  <2>3. s = ReadMark(p, RightBrace)
    BY <2>1 DEF ReadJson
  <2> QED
    BY <2>2, <2>3, ReadMarkCases
<1>11. Front(p.open) = r.open /\ (Len(p.open) = 1 <=> r.open = <<>>)
  <2>1. Front(p.open) = r.open /\ Len(p.open) = Len(r.open) + 1
    BY <1>1, <1>9, FrontAppend
  <2>2. Len(r.open) \in Nat /\ (Len(r.open) = 0 <=> r.open = <<>>)
    BY <1>1, EmptySeq
  <2> QED
    BY <2>1, <2>2
<1>12. s = [p EXCEPT !.place = end, !.open = r.open] /\ end \in {"done", "after"}
  BY <1>10, <1>11
<1> HIDE DEF s, end
<1>13. /\ s \in ReaderOf(S) /\ s.place = end /\ s.open = r.open /\ ~ s.escaped
       /\ s.strings = p.strings
  BY <1>1, <1>9, <1>12 DEF ReaderOf, ReaderPlaces
<1> QED
  BY <1>7, <1>8, <1>13 DEF Gained, end

\* An object as a value.
LEMMA ObjectMeans ==
    ASSUME NEW S, Alphabet(S), NEW object, NEW M, NEW L, Recounts(S, object, M, L),
           NEW value, value = [type |-> "object", object |-> object]
    PROVE  Means(S, Serialize(value), L[17])
<1>1. ASSUME NEW r \in ReaderOf(S), Expects(r)
      PROVE  Gained(S, r, "after", L[17], ReadFrom(r, Serialize(value)))
  <2>1. ~ r.escaped /\ r.place = "value" /\ r.open # <<>>
    BY <1>1 DEF Expects
  <2> QED
    BY <2>1, ReadObject
<1>2. Serialize(value) \in Seq(S)
  BY NewReaderOf, ReadObject
<1>3. L[17] \subseteq Seq(Seq(S))
  BY DEF Recounts
<1> QED
  BY <1>1, <1>2, <1>3 DEF Means

\* An object as a document.
LEMMA ObjectRead ==
    ASSUME NEW S, Alphabet(S), NEW object, NEW M, NEW L, Recounts(S, object, M, L),
           NEW value, value = [type |-> "object", object |-> object]
    PROVE  /\ ReadAll(Serialize(value)).place = "done"
           /\ ReadAll(Serialize(value)).strings \in L[17]
<1>1. Gained(S, NewReader, "done", L[17], ReadAll(Serialize(value)))
  BY NewReaderOf, ReadObject DEF ReadAll
<1>2. PICK strings \in L[17] : ReadAll(Serialize(value)).strings = <<>> \o strings
  BY <1>1, NewReaderOf DEF Gained
<1>3. strings \in Seq(Seq(S))
  BY DEF Recounts
<1>4. <<>> \o strings = strings
  BY <1>3, ConcatEmptySeq
<1> QED
  BY <1>1, <1>2, <1>4 DEF Gained
=============================================================================
