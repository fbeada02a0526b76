------------------------- MODULE SubmitFieldsProofs -------------------------
(****************************************************************************)
(* What ExtractStringValue takes out of a body is what the client gave the *)
(* field where it is first mentioned, for any set of bodies.  The JSON      *)
(* reader goes through the text once, while the host's four calls of        *)
(* std::string::find jump over it; Traced says for each place of the reader *)
(* where in the body it has come past the marks that these searches look    *)
(* for.                                                                     *)
(****************************************************************************)
EXTENDS SubmitBodyProofs, FiniteSetTheorems

FieldNames == {"modelId", "toolId", "templateId"}

\* The quoted name n begins at k.
MarkerAt(n, k) ==
    /\ k \in 1 .. Len(body) - 2
    /\ body[k] = Quote /\ body[k + 1] = n /\ body[k + 2] = Quote

Blank(first, last) == \A h \in first .. last : body[h] \in White

\* The name n at k, the colon of its member at m.
Headed(n, k, m) ==
    /\ MarkerAt(n, k)
    /\ m \in k + 3 .. Len(body) /\ body[m] = ":" /\ Blank(k + 3, m - 1)

\* The value's text begins after q.
Valued(n, k, m, q) ==
    /\ Headed(n, k, m)
    /\ q \in m + 1 .. Len(body) /\ body[q] = Quote /\ Blank(m + 1, q - 1)

NoQuote(first, last) == \A h \in first .. last : body[h] # Quote

\* The member n with the plain string text as its value, before the place at.
Laid(n, text, at) ==
    \E k, m, q, e \in 1 .. Len(body) :
        /\ Valued(n, k, m, q)
        /\ e > q /\ e < at /\ body[e] = Quote /\ NoQuote(q + 1, e - 1)
        /\ text = SubSeq(body, q + 1, e - 1)

\* Directly in the outermost object.
Own(r) == Len(r.open) = 1 /\ Lists(r) = 0

\* The reader r has come to the place at of the body.
TracedKey(r, at) ==
    r.place = "key" /\ ~ r.escaped =>
        /\ r.text = <<>> => at > 1 /\ body[at - 1] = Quote
        /\ \A n \in FieldNames :
              r.text = <<n>> => at > 2 /\ body[at - 2] = Quote /\ body[at - 1] = n

TracedColon(r, at) ==
    r.place = "colon" =>
        \A n \in FieldNames : r.text = <<n>> =>
            \E k \in 1 .. at - 3 : MarkerAt(n, k) /\ Blank(k + 3, at - 1)

TracedValue(r, at) ==
    r.place = "value" /\ Own(r) =>
        \A n \in FieldNames : r.name = <<n>> =>
            \E k, m \in 1 .. at - 1 : Headed(n, k, m) /\ Blank(m + 1, at - 1)

TracedString(r, at) ==
    r.place = "string" /\ r.plain /\ Own(r) =>
        \A n \in FieldNames : r.name = <<n>> =>
            \E k, m, q \in 1 .. at - 1 :
                /\ Valued(n, k, m, q)
                /\ NoQuote(q + 1, at - 1)
                /\ r.text = SubSeq(body, q + 1, at - 1)

TracedFields(r, at) ==
    \A field \in r.fields, n \in FieldNames :
        field[1] = <<n>> => Laid(n, field[2], at)

Flags(r) ==
    /\ Inside(r) /\ r.escaped => ~ r.plain
    /\ r.place = "list" => Lists(r) > 0

Trace(r, at) ==
    /\ Flags(r) /\ TracedKey(r, at) /\ TracedColon(r, at) /\ TracedValue(r, at)
    /\ TracedString(r, at) /\ TracedFields(r, at)

Traced == Trace(reader, i)

\* The job's fields are what ExtractStringValue finds in the body.
JobFields ==
    pc = "accepted" =>
        \A name \in FieldNames :
            job[name] = ExtractStringValue(name, IF name = "modelId" THEN DefaultModel ELSE <<>>)

FInv == Traced /\ JobFields
-----------------------------------------------------------------------------
(* What a symbol does to the string, the name and the fields that the       *)
(* reader keeps.                                                            *)

InsideTrace(r, c, s) ==
    /\ s.open = r.open /\ s.name = r.name
    /\ \/ s.place = "invalid" /\ s.fields = r.fields
       \/ /\ r.escaped /\ ~ s.escaped /\ c \in Escapes
          /\ s.place = r.place /\ s.plain = r.plain
          /\ s.text = Append(r.text, Unescaped(c)) /\ s.fields = r.fields
       \/ /\ ~ r.escaped /\ s.escaped /\ ~ s.plain /\ s.place = r.place
          /\ s.fields = r.fields
       \/ /\ ~ r.escaped /\ c = Quote
          /\ s.place = IF r.place = "key" THEN "colon" ELSE "after"
          /\ s.text = r.text
          /\ s.fields = IF r.place = "string" /\ r.plain /\ Len(r.open) = 1 /\ Lists(r) = 0
                          THEN r.fields \cup {<<r.name, r.text>>} ELSE r.fields
       \/ /\ ~ r.escaped /\ ~ s.escaped /\ c # Quote /\ s.place = r.place
          /\ s.plain = r.plain
          /\ s.text = Append(r.text, c) /\ s.fields = r.fields

\* Each symbol of a string does one of these.
LEMMA ReadInsideTrace ==
    ASSUME NEW r \in Reader, NEW c, NEW s, s = ReadInside(r, c)
    PROVE  InsideTrace(r, c, s)
<1> USE DEF InsideTrace
<1>1. CASE r.escaped /\ c \in Escapes
  <2>1. s = [r EXCEPT !.escaped = FALSE, !.text = Append(@, Unescaped(c)),
                      !.tidy = @ /\ Tidy(r, c)]
    BY <1>1 DEF ReadInside
  <2>2. /\ s.open = r.open /\ s.name = r.name /\ ~ s.escaped /\ s.place = r.place
        /\ s.plain = r.plain /\ s.fields = r.fields
        /\ s.text = Append(r.text, Unescaped(c))
    BY <2>1 DEF Reader
  <2> QED
    BY <1>1, <2>2
<1>2. CASE ~ r.escaped /\ c = Backslash
  <2>1. s = [r EXCEPT !.escaped = TRUE, !.plain = FALSE]
    BY <1>2 DEF ReadInside, Quote, Backslash
  <2> QED
    BY <1>2, <2>1 DEF Reader
<1>3. CASE ~ r.escaped /\ c = Quote
  <2>1. s = EndString(r)
    BY <1>3 DEF ReadInside, Quote, Backslash
  <2> QED
    BY <1>3, <2>1 DEF EndString, Reader
<1>4. CASE ~ r.escaped /\ c \notin {Backslash, Quote} \cup Control
  <2>1. s = [r EXCEPT !.text = Append(@, c)]
    BY <1>4 DEF ReadInside
  <2> QED
    BY <1>4, <2>1 DEF Reader
<1>5. CASE s = Goto(r, "invalid")
  BY <1>5 DEF Goto, Reader
<1> QED
  BY <1>1, <1>2, <1>3, <1>4, <1>5 DEF ReadInside

MarkTrace(r, c, s) ==
    /\ s.fields = r.fields
    /\ s.place # "colon"
    /\ s.place = "list" => Lists(s) > 0
    /\ s.place = "key" => c = Quote /\ s.text = <<>>
    /\ s.place = "string" =>
          /\ c = Quote /\ s.text = <<>> /\ r.place \in {"value", "list"}
          /\ s.open = r.open /\ s.name = r.name
    /\ s.place = "value" /\ Len(s.open) = 1 /\ Lists(s) = 0 =>
          /\ c = ":" /\ r.place = "colon" /\ s.name = r.text

\* Each mark does this.
LEMMA ReadMarkTrace ==
    ASSUME NEW r \in Reader, Shape(r), NEW c, NEW s, s = ReadMark(r, c)
    PROVE  MarkTrace(r, c, s)
<1>0. r.open \in Seq(Nat)
  BY DEF Reader
<1>1. CASE OpensObject(r, c)
  <2>1. s = [r EXCEPT !.place = "first", !.open = Append(@, 0)]
    BY <1>1, ReadMarkCases
  <2> QED
    BY <2>1 DEF Reader, MarkTrace
<1>2. CASE ClosesObject(r, c)
  <2>1. s = [r EXCEPT !.place = IF Len(r.open) = 1 THEN "done" ELSE "after",
                      !.open = Front(@)]
    BY <1>2, ReadMarkCases
  <2> QED
    BY <2>1 DEF Reader, MarkTrace
<1>3. CASE OpensList(r, c)
  <2>1. s = [r EXCEPT !.place = "list", !.open[Len(r.open)] = @ + 1]
    BY <1>3, ReadMarkCases
  <2>2. /\ s.place = "list" /\ s.fields = r.fields
        /\ s.open = [r.open EXCEPT ![Len(r.open)] = r.open[Len(r.open)] + 1]
    BY <2>1 DEF Reader
  <2>3. r.open # <<>>
    BY <1>3 DEF OpensList, Shape
  <2>4. r.open[Len(r.open)] \in Nat /\ Len(r.open) \in Nat \ {0}
    BY <1>0, <2>3, FrontOpen
  <2>5. Len(s.open) = Len(r.open)
    BY <1>0, <2>2, <2>3, <2>4, CountLists
  <2>6. Lists(s) = r.open[Len(r.open)] + 1
    BY <1>0, <2>2, <2>4, <2>5 DEF Lists
  <2> QED
    BY <2>2, <2>4, <2>6 DEF MarkTrace
<1>4. CASE ClosesList(r, c)
  <2>1. s = [r EXCEPT !.place = "after", !.open[Len(r.open)] = @ - 1]
    BY <1>4, ReadMarkCases
  <2> QED
    BY <2>1 DEF Reader, MarkTrace
<1>5. CASE StartsKey(r, c)
  <2>1. s = [r EXCEPT !.place = "key", !.plain = TRUE, !.text = <<>>]
    BY <1>5, ReadMarkCases
  <2>2. c = Quote /\ r.place \in {"first", "member"}
    BY <1>5 DEF StartsKey
  <2> QED
    BY <2>1, <2>2 DEF Reader, MarkTrace
<1>6. CASE StartsString(r, c)
  <2>1. s = [r EXCEPT !.place = "string", !.plain = TRUE, !.text = <<>>]
    BY <1>6, ReadMarkCases
  <2>2. c = Quote /\ r.place \in {"value", "list"}
    BY <1>6 DEF StartsString
  <2> QED
    BY <2>1, <2>2 DEF Reader, MarkTrace
<1>7. CASE GivesValue(r, c)
  <2>1. c = ":" /\ r.place = "colon"
    BY <1>7 DEF GivesValue
  <2>2. s = IF Len(r.open) = 1
              THEN [r EXCEPT !.place = "value", !.name = r.text, !.names = @ \cup {r.text}]
              ELSE Goto(r, "value")
    BY <1>7, ReadMarkCases
  <2>3. CASE Len(r.open) = 1
    BY <2>1, <2>2, <2>3 DEF Reader, MarkTrace
  <2>4. CASE Len(r.open) # 1
    BY <2>1, <2>2, <2>4 DEF Goto, Reader, MarkTrace
  <2> QED
    BY <2>3, <2>4
<1>8. CASE Continues(r, c)
  <2>1. s = Goto(r, IF Lists(r) > 0 THEN "value" ELSE "member")
    BY <1>8, ReadMarkCases
  <2>2. s.fields = r.fields /\ s.open = r.open
    BY <2>1 DEF Goto, Reader
  <2>3. Lists(s) = Lists(r)
    BY <2>2 DEF Lists
  <2>4. CASE Lists(r) > 0
    <3>1. s.place = "value"
      BY <2>1, <2>4 DEF Goto, Reader
    <3>2. Lists(s) # 0
      BY <2>3, <2>4
    <3> QED
      BY <2>2, <3>1, <3>2 DEF MarkTrace
  <2>5. CASE ~ (Lists(r) > 0)
    <3>1. s.place = "member"
      BY <2>1, <2>5 DEF Goto, Reader
    <3> QED
      BY <2>2, <3>1 DEF MarkTrace
  <2> QED
    BY <2>4, <2>5
<1>9. CASE IsScalar(r, c)
  <2>1. s = Goto(r, "after")
    BY <1>9, ReadMarkCases
  <2> QED
    BY <2>1 DEF Goto, Reader, MarkTrace
<1>10. CASE s = Goto(r, "invalid")
  BY <1>10 DEF Goto, Reader, MarkTrace
<1> QED
  BY <1>1, <1>2, <1>3, <1>4, <1>5, <1>6, <1>7, <1>8, <1>9, <1>10, ReadMarkCases
-----------------------------------------------------------------------------
(* The trace that the reader leaves in the body.                            *)

\* No escape stands for a symbol that is a field's name.
LEMMA UnescapedNoName ==
    ASSUME NEW c \in Escapes
    PROVE  Unescaped(c) \notin FieldNames
<1>1. CASE \E d \in Control : Letter[d] = c
  <2>1. Unescaped(c) \in Control
    BY <1>1 DEF Unescaped
  <2> QED
    BY <2>1, Symbols DEF FieldNames
<1>2. CASE ~ \E d \in Control : Letter[d] = c
  <2>1. Unescaped(c) = c
    BY <1>2 DEF Unescaped
  <2>2. c \in {Quote, Backslash, "/"}
    BY <1>2 DEF Escapes
  <2> QED
    BY <2>1, <2>2 DEF FieldNames, Quote, Backslash
<1> QED
  BY <1>1, <1>2

\* A text of one symbol has that one appended last.
LEMMA AppendOne ==
    ASSUME NEW text \in Text, NEW x \in Symbol
    PROVE  /\ Append(text, x) # <<>>
           /\ \A n : Append(text, x) = <<n>> => text = <<>> /\ x = n
<1>1. Len(Append(text, x)) = Len(text) + 1 /\ Append(text, x)[Len(text) + 1] = x
  BY DEF Text
<1>2. Len(text) \in Nat /\ (Len(text) = 0 => text = <<>>)
  BY DEF Text
<1>3. Append(text, x) # <<>>
  BY <1>1, <1>2
<1>4. ASSUME NEW n, Append(text, x) = <<n>>
      PROVE  text = <<>> /\ x = n
  <2>1. Len(<<n>>) = 1 /\ <<n>>[1] = n
    OBVIOUS
  <2>2. Len(text) = 0
    BY <1>1, <1>2, <1>4, <2>1
  <2> QED
    BY <1>1, <1>2, <1>4, <2>1, <2>2
<1> QED
  BY <1>3, <1>4

\* A text of one symbol is not the empty one.
LEMMA OneSymbol == \A n : <<n>> # <<>>
<1> SUFFICES ASSUME NEW n PROVE <<n>> # <<>>
  OBVIOUS
<1>1. Len(<<n>>) = 1 /\ Len(<<>>) = 0
  OBVIOUS
<1> QED
  BY <1>1

\* A stretch without other symbols than white space, or without quotes, goes on.
LEMMA SpanGrows ==
    ASSUME NEW at \in Nat, NEW first \in Int
    PROVE  /\ Blank(first, at - 1) /\ body[at] \in White => Blank(first, at)
           /\ NoQuote(first, at - 1) /\ body[at] # Quote => NoQuote(first, at)
<1>1. \A h \in first .. at : h = at \/ h \in first .. at - 1
  OBVIOUS
<1> QED
  BY <1>1 DEF Blank, NoQuote

\* A member that lies before a place lies before the next one.
LEMMA LaidGrows ==
    ASSUME NEW at \in Int, NEW n, NEW text, Laid(n, text, at)
    PROVE  Laid(n, text, at + 1)
<1>1. PICK k, m, q, e \in 1 .. Len(body) :
          /\ Valued(n, k, m, q)
          /\ e > q /\ e < at /\ body[e] = Quote /\ NoQuote(q + 1, e - 1)
          /\ text = SubSeq(body, q + 1, e - 1)
  BY DEF Laid
<1>2. e < at + 1
  BY <1>1
<1> QED
  BY <1>1, <1>2 DEF Laid

\* As long as no field is added, those there are go on to be traced.
LEMMA FieldsGrow ==
    ASSUME NEW at \in Int, NEW r, NEW s, TracedFields(r, at), s.fields = r.fields
    PROVE  TracedFields(s, at + 1)
BY LaidGrows DEF TracedFields

\* A symbol of a string continues the trace.
LEMMA TraceInside ==
    ASSUME body \in Seq(STRING), NEW at \in 1 .. Len(body),
           NEW r \in Reader, Shape(r), Inside(r), Trace(r, at),
           NEW s, s = ReadInside(r, body[at])
    PROVE  Trace(s, at + 1)
<1> DEFINE c == body[at]
<1>0. /\ c \in STRING /\ c \in Symbol /\ Len(body) \in Nat
      /\ r.text \in Text /\ at + 1 - 1 = at /\ at \in Nat
  BY DEF Symbol, Reader
<1>1. InsideTrace(r, c, s)
  BY ReadInsideTrace
<1>2. s.open = r.open /\ s.name = r.name /\ (Own(s) <=> Own(r)) /\ Lists(s) = Lists(r)
  BY <1>1 DEF InsideTrace, Own, Lists
<1> DEFINE Same == s.fields = r.fields => TracedFields(s, at + 1)
<1>a. Same
  BY <1>0, FieldsGrow DEF Trace
<1>3. CASE s.place = "invalid" /\ s.fields = r.fields
  BY <1>3, <1>a DEF Trace, Flags, Inside, TracedKey, TracedColon, TracedValue, TracedString
<1>4. CASE /\ r.escaped /\ ~ s.escaped /\ c \in Escapes
           /\ s.place = r.place /\ s.plain = r.plain
           /\ s.text = Append(r.text, Unescaped(c)) /\ s.fields = r.fields
  <2>1. ~ s.plain
    BY <1>4 DEF Trace, Flags
  <2>2. Unescaped(c) \in Symbol /\ Unescaped(c) \notin FieldNames
    BY <1>0, <1>4, UnescapedText, UnescapedNoName
  <2>3. s.text # <<>> /\ \A n \in FieldNames : s.text # <<n>>
    BY <1>0, <1>4, <2>2, AppendOne
  <2> QED
    BY <1>4, <1>a, <2>1, <2>3 DEF Trace, Flags, Inside, TracedKey, TracedColon, TracedValue,
                                  TracedString
<1>5. CASE /\ ~ r.escaped /\ s.escaped /\ ~ s.plain /\ s.place = r.place
           /\ s.fields = r.fields
  BY <1>5, <1>a DEF Trace, Flags, Inside, TracedKey, TracedColon, TracedValue, TracedString
<1>6. CASE /\ ~ r.escaped /\ c = Quote
           /\ s.place = IF r.place = "key" THEN "colon" ELSE "after"
           /\ s.text = r.text
           /\ s.fields = IF r.place = "string" /\ r.plain /\ Len(r.open) = 1 /\ Lists(r) = 0
                           THEN r.fields \cup {<<r.name, r.text>>} ELSE r.fields
  <2>1. TracedColon(s, at + 1)
    <3> SUFFICES ASSUME r.place = "key", NEW n \in FieldNames, r.text = <<n>>
                 PROVE  \E k \in 1 .. at + 1 - 3 : MarkerAt(n, k) /\ Blank(k + 3, at + 1 - 1)
      BY <1>6 DEF TracedColon
    <3>1. at > 2 /\ body[at - 2] = Quote /\ body[at - 1] = n
      BY <1>6 DEF Trace, TracedKey
    <3>2. MarkerAt(n, at - 2)
      BY <1>0, <1>6, <3>1 DEF MarkerAt
    <3>3. Blank(at - 2 + 3, at + 1 - 1)
      BY <1>0 DEF Blank
    <3> QED
      BY <1>0, <3>1, <3>2, <3>3
  <2>2. TracedFields(s, at + 1)
    <3>1. CASE r.place = "string" /\ r.plain /\ Own(r)
      <4>1. ASSUME NEW n \in FieldNames, r.name = <<n>>
            PROVE  Laid(n, r.text, at + 1)
        <5>1. PICK k, m, q \in 1 .. at - 1 :
                  /\ Valued(n, k, m, q)
                  /\ NoQuote(q + 1, at - 1)
                  /\ r.text = SubSeq(body, q + 1, at - 1)
          BY <3>1, <4>1 DEF Trace, TracedString
        <5>2. k \in 1 .. Len(body) /\ m \in 1 .. Len(body) /\ q \in 1 .. Len(body)
              /\ at > q /\ at < at + 1
          BY <1>0
        <5> QED
          BY <1>6, <5>1, <5>2 DEF Laid
      <4>2. s.fields = r.fields \cup {<<r.name, r.text>>}
        BY <1>6, <3>1 DEF Own
      <4>3. ASSUME NEW field \in r.fields, NEW n \in FieldNames, field[1] = <<n>>
            PROVE  Laid(n, field[2], at + 1)
        <5>1. Laid(n, field[2], at)
          BY <4>3 DEF Trace, TracedFields
        <5> QED
          BY <1>0, <5>1, LaidGrows
      <4> QED
        BY <4>1, <4>2, <4>3 DEF TracedFields
    <3>2. CASE ~ (r.place = "string" /\ r.plain /\ Own(r))
      BY <1>6, <1>a, <3>2 DEF Own
    <3> QED
      BY <3>1, <3>2
  <2>3. s.place \in {"colon", "after"}
    BY <1>6
  <2> QED
    BY <2>1, <2>2, <2>3 DEF Trace, Flags, Inside, TracedKey, TracedValue, TracedString
<1>7. CASE /\ ~ r.escaped /\ ~ s.escaped /\ c # Quote /\ s.place = r.place
           /\ s.plain = r.plain
           /\ s.text = Append(r.text, c) /\ s.fields = r.fields
  <2>1. s.text # <<>> /\ \A n \in FieldNames : s.text = <<n>> => r.text = <<>> /\ c = n
    BY <1>0, <1>7, AppendOne
  <2>2. TracedKey(s, at + 1)
    <3> SUFFICES ASSUME r.place = "key", NEW n \in FieldNames, s.text = <<n>>
                 PROVE  at + 1 > 2 /\ body[at + 1 - 2] = Quote /\ body[at + 1 - 1] = n
      BY <1>7, <2>1 DEF TracedKey
    <3>1. at > 1 /\ body[at - 1] = Quote
      BY <1>7, <2>1 DEF Trace, TracedKey
    <3> QED
      BY <1>0, <2>1, <3>1
  <2>3. TracedString(s, at + 1)
    <3> SUFFICES ASSUME s.place = "string", s.plain, Own(s), NEW n \in FieldNames,
                        s.name = <<n>>
                 PROVE  \E k, m, q \in 1 .. at + 1 - 1 :
                            /\ Valued(n, k, m, q)
                            /\ NoQuote(q + 1, at + 1 - 1)
                            /\ s.text = SubSeq(body, q + 1, at + 1 - 1)
      BY DEF TracedString
    <3>0. r.place = "string" /\ r.plain /\ Own(r) /\ r.name = <<n>>
      BY <1>2, <1>7
    <3>1. PICK k, m, q \in 1 .. at - 1 :
              /\ Valued(n, k, m, q)
              /\ NoQuote(q + 1, at - 1)
              /\ r.text = SubSeq(body, q + 1, at - 1)
      BY <3>0 DEF Trace, TracedString
    <3>2. NoQuote(q + 1, at)
      BY <1>0, <1>7, <3>1, SpanGrows
    <3>3. s.text = SubSeq(body, q + 1, at)
      <4>1. SubSeq(body, q + 1, at) = SubSeq(body, q + 1, at - 1) \o <<body[at]>>
        <5>1. q + 1 \in 1 .. Len(body) /\ at \in q + 1 .. Len(body)
          BY <1>0
        <5> QED
          BY <5>1, SubSeqRecursiveSecond
      <4>2. Append(r.text, c) = r.text \o <<c>>
        BY <1>0, AppendIsConcat DEF Text
      <4> QED
        BY <1>7, <3>1, <4>1, <4>2
    <3>4. k \in 1 .. at /\ m \in 1 .. at /\ q \in 1 .. at
      BY <1>0
    <3> QED
      BY <1>0, <3>1, <3>2, <3>3, <3>4
  <2>4. Flags(s) /\ TracedFields(s, at + 1)
    BY <1>7, <1>a DEF Trace, Flags, Inside
  <2> QED
    BY <1>7, <2>2, <2>3, <2>4 DEF Trace, Inside, TracedColon, TracedValue
<1> QED
  BY <1>1, <1>3, <1>4, <1>5, <1>6, <1>7 DEF InsideTrace

\* A mark continues the trace.
LEMMA TraceMark ==
    ASSUME body \in Seq(STRING), NEW at \in 1 .. Len(body),
           NEW r \in Reader, Shape(r), ~ Inside(r), Trace(r, at),
           NEW s, s = ReadMark(r, body[at])
    PROVE  Trace(s, at + 1)
<1> DEFINE c == body[at]
<1>0. /\ c \in STRING /\ Len(body) \in Nat /\ at + 1 - 1 = at /\ at \in Nat
      /\ \A n : <<n>> # <<>>
  OBVIOUS
<1>1. MarkTrace(r, c, s)
  BY ReadMarkTrace
<1>2. Inside(s) => ~ s.escaped
  <2>1. MarkEffect(r, c, s)
    BY <1>0, ReadMarkEffect
  <2> QED
    BY <2>1 DEF MarkEffect, Shape, Inside
<1>3. Flags(s) /\ TracedFields(s, at + 1) /\ TracedColon(s, at + 1)
  <2>1. TracedFields(s, at + 1)
    BY <1>0, <1>1, FieldsGrow DEF MarkTrace, Trace
  <2> QED
    BY <1>1, <1>2, <2>1 DEF MarkTrace, Trace, Flags, TracedColon
<1>4. TracedKey(s, at + 1)
  <2> SUFFICES ASSUME s.place = "key" PROVE TracedKey(s, at + 1)
    BY DEF TracedKey
  <2>1. c = Quote /\ s.text = <<>>
    BY <1>1 DEF MarkTrace
  <2>2. at + 1 > 1 /\ body[at + 1 - 1] = Quote
    BY <1>0, <2>1
  <2>3. \A n \in FieldNames : s.text # <<n>>
    BY <2>1, OneSymbol
  <2> QED
    BY <2>2, <2>3 DEF TracedKey
<1>5. TracedValue(s, at + 1)
  <2> SUFFICES ASSUME s.place = "value", Own(s), NEW n \in FieldNames, s.name = <<n>>
               PROVE  \E k, m \in 1 .. at + 1 - 1 : Headed(n, k, m) /\ Blank(m + 1, at + 1 - 1)
    BY DEF TracedValue
  <2>1. c = ":" /\ r.place = "colon" /\ r.text = <<n>>
    BY <1>1 DEF MarkTrace, Own
  <2>2. PICK k \in 1 .. at - 3 : MarkerAt(n, k) /\ Blank(k + 3, at - 1)
    BY <2>1 DEF Trace, TracedColon
  <2>3. k \in 1 .. at /\ at \in k + 3 .. Len(body) /\ at \in 1 .. at
    BY <1>0
  <2>4. Headed(n, k, at)
    BY <2>1, <2>2, <2>3 DEF Headed
  <2>5. Blank(at + 1, at + 1 - 1)
    BY <1>0 DEF Blank
  <2> QED
    BY <1>0, <2>3, <2>4, <2>5
<1>6. TracedString(s, at + 1)
  <2> SUFFICES ASSUME s.place = "string", s.plain, Own(s), NEW n \in FieldNames,
                      s.name = <<n>>
               PROVE  \E k, m, q \in 1 .. at + 1 - 1 :
                          /\ Valued(n, k, m, q)
                          /\ NoQuote(q + 1, at + 1 - 1)
                          /\ s.text = SubSeq(body, q + 1, at + 1 - 1)
    BY DEF TracedString
  <2>1. /\ c = Quote /\ s.text = <<>> /\ r.place \in {"value", "list"}
        /\ Own(r) /\ r.name = <<n>>
    BY <1>1 DEF MarkTrace, Own, Lists
  <2>2. r.place = "value"
    BY <2>1 DEF Trace, Flags, Own
  <2>3. PICK k, m \in 1 .. at - 1 : Headed(n, k, m) /\ Blank(m + 1, at - 1)
    BY <2>1, <2>2 DEF Trace, TracedValue
  <2>4. k \in 1 .. at /\ m \in 1 .. at /\ at \in 1 .. at /\ at \in m + 1 .. Len(body)
    BY <1>0
  <2>5. Valued(n, k, m, at)
    BY <2>1, <2>3, <2>4 DEF Valued
  <2>6. NoQuote(at + 1, at + 1 - 1)
    BY <1>0 DEF NoQuote
  <2>7. s.text = SubSeq(body, at + 1, at + 1 - 1)
    <3>1. at + 1 \in Int /\ at + 1 - 1 \in Int /\ at + 1 - 1 < at + 1
      BY <1>0
    <3>2. SubSeq(body, at + 1, at + 1 - 1) = <<>>
      BY <3>1, SubSeqEmpty
    <3> QED
      BY <2>1, <3>2
  <2> QED
    BY <1>0, <2>4, <2>5, <2>6, <2>7
<1> QED
  BY <1>3, <1>4, <1>5, <1>6 DEF Trace

\* White space between the marks.
LEMMA TraceWhite ==
    ASSUME body \in Seq(STRING), NEW at \in 1 .. Len(body),
           NEW r \in Reader, ~ Inside(r), Trace(r, at), body[at] \in White
    PROVE  Trace(r, at + 1)
<1>0. Len(body) \in Nat /\ at + 1 - 1 = at /\ at \in Nat
  OBVIOUS
<1>1. TracedColon(r, at + 1)
  <2> SUFFICES ASSUME r.place = "colon", NEW n \in FieldNames, r.text = <<n>>
               PROVE  \E k \in 1 .. at + 1 - 3 : MarkerAt(n, k) /\ Blank(k + 3, at + 1 - 1)
    BY DEF TracedColon
  <2>1. PICK k \in 1 .. at - 3 : MarkerAt(n, k) /\ Blank(k + 3, at - 1)
    BY DEF Trace, TracedColon
  <2>2. k \in 1 .. at + 1 - 3 /\ k + 3 \in Int
    BY <1>0
  <2> QED
    BY <1>0, <2>1, <2>2, SpanGrows
<1>2. TracedValue(r, at + 1)
  <2> SUFFICES ASSUME r.place = "value", Own(r), NEW n \in FieldNames, r.name = <<n>>
               PROVE  \E k, m \in 1 .. at + 1 - 1 : Headed(n, k, m) /\ Blank(m + 1, at + 1 - 1)
    BY DEF TracedValue
  <2>1. PICK k, m \in 1 .. at - 1 : Headed(n, k, m) /\ Blank(m + 1, at - 1)
    BY DEF Trace, TracedValue
  <2>2. k \in 1 .. at + 1 - 1 /\ m \in 1 .. at + 1 - 1 /\ m + 1 \in Int
    BY <1>0
  <2> QED
    BY <1>0, <2>1, <2>2, SpanGrows
<1>3. TracedFields(r, at + 1)
  BY <1>0, FieldsGrow DEF Trace
<1> QED
  BY <1>1, <1>2, <1>3 DEF Trace, Inside, TracedKey, TracedString

\* A trace is a matter of the body, the reader and its place only.
LEMMA TraceSameBody ==
    ASSUME body' = body, Trace(reader', i')
    PROVE  Traced'
<1>1. \A n, k : MarkerAt(n, k)' <=> MarkerAt(n, k)
  BY DEF MarkerAt
<1>2. \A first, last : /\ Blank(first, last)' <=> Blank(first, last)
                       /\ NoQuote(first, last)' <=> NoQuote(first, last)
  BY DEF Blank, NoQuote
<1>3. \A n, k, m : Headed(n, k, m)' <=> Headed(n, k, m)
  BY <1>1, <1>2 DEF Headed
<1>4. \A n, k, m, q : Valued(n, k, m, q)' <=> Valued(n, k, m, q)
  BY <1>2, <1>3 DEF Valued
<1>5. TracedKey(reader, i)'
  BY DEF Trace, TracedKey
<1>6. TracedColon(reader, i)'
  BY <1>1, <1>2 DEF Trace, TracedColon
<1>7. TracedValue(reader, i)'
  BY <1>2, <1>3 DEF Trace, TracedValue, Own, Lists
<1>8. TracedString(reader, i)'
  BY <1>2, <1>4 DEF Trace, TracedString, Own, Lists
<1>9. Flags(reader)' /\ TracedFields(reader, i)'
  <2>1. Flags(reader)'
    BY DEF Trace, Flags, Inside, Lists
  <2>2. \A field \in reader'.fields, n \in FieldNames :
            field[1] = <<n>> => Laid(n, field[2], i')
    BY DEF Trace, TracedFields
  <2>3. \A field \in reader'.fields, n \in FieldNames :
            field[1] = <<n>> =>
                \E k, m, q, e \in 1 .. Len(body') :
                    /\ Valued(n, k, m, q)'
                    /\ e > q /\ e < i' /\ body'[e] = Quote /\ NoQuote(q + 1, e - 1)'
                    /\ field[2] = SubSeq(body', q + 1, e - 1)
    <3> SUFFICES ASSUME NEW field \in reader'.fields, NEW n \in FieldNames, field[1] = <<n>>
                 PROVE  \E k, m, q, e \in 1 .. Len(body') :
                            /\ Valued(n, k, m, q)'
                            /\ e > q /\ e < i' /\ body'[e] = Quote /\ NoQuote(q + 1, e - 1)'
                            /\ field[2] = SubSeq(body', q + 1, e - 1)
      OBVIOUS
    <3>1. PICK k, m, q, e \in 1 .. Len(body) :
              /\ Valued(n, k, m, q)
              /\ e > q /\ e < i' /\ body[e] = Quote /\ NoQuote(q + 1, e - 1)
              /\ field[2] = SubSeq(body, q + 1, e - 1)
      BY <2>2 DEF Laid
    <3>2. Valued(n, k, m, q)' /\ NoQuote(q + 1, e - 1)'
      BY <1>2, <1>4, <3>1
    <3> QED
      BY <3>1, <3>2
  <2>4. TracedFields(reader, i)'
    BY <2>3 DEF TracedFields, Laid
  <2> QED
    BY <2>1, <2>4
<1> QED
  BY <1>5, <1>6, <1>7, <1>8, <1>9 DEF Traced, Trace

\* The scan of a symbol goes on tracing.
LEMMA TracedStep ==
    ASSUME Typed, ScannerOK, Traced, ScanCharacter
    PROVE  Traced'
<1>1. /\ i \in 1 .. Len(body) /\ i' = i + 1 /\ body' = body
      /\ reader' = ReadJson(reader, body[i])
  BY ScanEffect DEF Typed, ScannerOK, given
<1>2. body \in Seq(STRING) /\ reader \in Reader /\ Shape(reader)
  BY DEF Typed
<1>3. Trace(reader', i')
  <2>1. CASE Inside(reader)
    <3>1. reader' = ReadInside(reader, body[i])
      BY <1>1, <2>1 DEF ReadJson
    <3> QED
      BY <1>1, <1>2, <2>1, <3>1, TraceInside DEF Traced
  <2>2. CASE ~ Inside(reader) /\ body[i] \in White
    <3>1. reader' = reader
      BY <1>1, <2>2 DEF ReadJson
    <3> QED
      BY <1>1, <1>2, <2>2, <3>1, TraceWhite DEF Traced
  <2>3. CASE ~ Inside(reader) /\ body[i] \notin White
    <3>1. reader' = ReadMark(reader, body[i])
      BY <1>1, <2>3 DEF ReadJson
    <3> QED
      BY <1>1, <1>2, <2>3, <3>1, TraceMark DEF Traced
  <2> QED
    BY <2>1, <2>2, <2>3
<1> QED
  BY <1>1, <1>3, TraceSameBody
-----------------------------------------------------------------------------
(* What the searches find.                                                  *)

\* A piece of one symbol.
LEMMA SymbolAt ==
    ASSUME body \in Seq(STRING), NEW k \in 1 .. Len(body)
    PROVE  SubSeq(body, k, k) = <<body[k]>>
<1>1. Len(body) \in Nat /\ k \in k .. Len(body) /\ k \in Int /\ k - 1 \in Int /\ k - 1 < k
  OBVIOUS
<1>2. SubSeq(body, k, k) = SubSeq(body, k, k - 1) \o <<body[k]>>
  BY <1>1, SubSeqRecursiveSecond
<1>3. SubSeq(body, k, k - 1) = <<>>
  BY <1>1, SubSeqEmpty
<1>4. \A x : <<>> \o <<x>> = <<x>>
  OBVIOUS
<1> QED
  BY <1>2, <1>3, <1>4

\* A text is known by its length and its symbols.
LEMMA ThreeSymbols ==
    ASSUME NEW S, NEW x \in S, NEW y \in S, NEW z \in S,
           NEW seq \in Seq(S), Len(seq) = 3, seq[1] = x, seq[2] = y, seq[3] = z
    PROVE  seq = <<x, y, z>>
OBVIOUS

\* A quoted name is mentioned where it begins.
LEMMA MarkerMentioned ==
    ASSUME body \in Seq(STRING), NEW n, NEW k, MarkerAt(n, k)
    PROVE  k \in Mentions(n)
<1>1. /\ Len(body) \in Nat /\ k \in 1 .. Len(body) - 2
      /\ body[k] = Quote /\ body[k + 1] = n /\ body[k + 2] = Quote
  BY DEF MarkerAt
<1>2. /\ SubSeq(body, k, k + 2) \in Seq(STRING)
      /\ Len(SubSeq(body, k, k + 2)) = 3
      /\ SubSeq(body, k, k + 2)[1] = body[k]
      /\ SubSeq(body, k, k + 2)[2] = body[k + 1]
      /\ SubSeq(body, k, k + 2)[3] = body[k + 2]
  <2>1. /\ k \in Int /\ k + 2 \in Int /\ \A h \in k .. k + 2 : body[h] \in STRING
        /\ k <= k + 2 /\ k + 2 - k + 1 = 3
        /\ k + 1 - 1 = k /\ k + 2 - 1 = k + 1 /\ k + 3 - 1 = k + 2
    BY <1>1
  <2>2. /\ SubSeq(body, k, k + 2) \in Seq(STRING)
        /\ Len(SubSeq(body, k, k + 2)) = IF k <= k + 2 THEN k + 2 - k + 1 ELSE 0
        /\ \A h \in 1 .. k + 2 - k + 1 : SubSeq(body, k, k + 2)[h] = body[k + h - 1]
    BY <2>1, SubSeqProperties
  <2> QED
    BY <2>1, <2>2
<1>3. n \in STRING /\ Quote \in STRING
  BY <1>1
<1>4. SubSeq(body, k, k + 2) = <<Quote, n, Quote>>
  <2> DEFINE seq == SubSeq(body, k, k + 2)
  <2>1. /\ seq \in Seq(STRING) /\ Len(seq) = 3
        /\ seq[1] = Quote /\ seq[2] = n /\ seq[3] = Quote
    BY <1>1, <1>2
  <2> HIDE DEF seq
  <2>2. seq = <<Quote, n, Quote>>
    BY <1>3, <2>1, ThreeSymbols
  <2> QED
    BY <2>2 DEF seq
<1> QED
  BY <1>1, <1>4 DEF Mentions

\* The first place of all is the one that find returns.
LEMMA FindFirst ==
    ASSUME NEW text, NEW from, NEW p \in Int,
           LET places == {k \in from .. Len(body) - Len(text) + 1 :
                              SubSeq(body, k, k + Len(text) - 1) = text}
           IN  p \in places /\ \A k \in places : p <= k
    PROVE  Find(text, from) = p
<1> DEFINE places == {k \in from .. Len(body) - Len(text) + 1 :
                          SubSeq(body, k, k + Len(text) - 1) = text}
<1>1. p \in places /\ (\A k \in places : p <= k) /\ places \subseteq Int
  OBVIOUS
<1>2. Find(text, from) = IF places = {} THEN 0 ELSE Min(places)
  BY DEF Find
<1> HIDE DEF places
<1>3. Min(places) = p
  <2>1. \A x \in places : (\A y \in places : x <= y) => x = p
    BY <1>1
  <2> QED
    BY <1>1, <2>1 DEF Min
<1> QED
  BY <1>1, <1>2, <1>3

\* The search for one symbol ends at the first one from the given place on.
LEMMA FindSymbol ==
    ASSUME body \in Seq(STRING), NEW x, NEW from \in Nat \ {0}, NEW p \in from .. Len(body),
           body[p] = x, \A h \in from .. p - 1 : body[h] # x
    PROVE  Find(<<x>>, from) = p
<1> DEFINE places == {k \in from .. Len(body) - Len(<<x>>) + 1 :
                          SubSeq(body, k, k + Len(<<x>>) - 1) = <<x>>}
<1>1. Len(<<x>>) = 1 /\ Len(body) \in Nat /\ p \in Int
  OBVIOUS
<1>2. places = {k \in from .. Len(body) : SubSeq(body, k, k) = <<x>>}
  <2>1. Len(body) - Len(<<x>>) + 1 = Len(body)
    BY <1>1
  <2>2. \A k \in from .. Len(body) : k + Len(<<x>>) - 1 = k
    BY <1>1
  <2> QED
    BY <2>1, <2>2
<1>3. \A k \in from .. Len(body) : SubSeq(body, k, k) = <<x>> <=> body[k] = x
  <2> SUFFICES ASSUME NEW k \in from .. Len(body)
               PROVE  SubSeq(body, k, k) = <<x>> <=> body[k] = x
    OBVIOUS
  <2>1. SubSeq(body, k, k) = <<body[k]>>
    BY <1>1, SymbolAt
  <2> QED
    BY <2>1
<1>4. p \in places
  BY <1>2, <1>3
<1>5. \A k \in places : p <= k
  BY <1>1, <1>2, <1>3
<1> QED
  BY <1>1, <1>4, <1>5, FindFirst

\* The search for a quoted name ends at its first mention.
LEMMA FindMarker ==
    ASSUME body \in Seq(STRING), NEW n
    PROVE  /\ Mentions(n) = {} => Find(<<Quote, n, Quote>>, 1) = 0
           /\ \A k \in Mentions(n) :
                 (\A j \in Mentions(n) : k <= j) => Find(<<Quote, n, Quote>>, 1) = k
<1> DEFINE text == <<Quote, n, Quote>>
           places == {k \in 1 .. Len(body) - Len(text) + 1 :
                          SubSeq(body, k, k + Len(text) - 1) = text}
<1>1. Len(text) = 3 /\ Len(body) \in Nat
  OBVIOUS
<1>2. places = Mentions(n)
  <2>1. Len(body) - Len(text) + 1 = Len(body) - 2
    BY <1>1
  <2>2. \A k \in 1 .. Len(body) - 2 : k + Len(text) - 1 = k + 2
    BY <1>1
  <2> HIDE DEF text
  <2>3. places = {k \in 1 .. Len(body) - 2 : SubSeq(body, k, k + 2) = text}
    BY <2>1, <2>2
  <2> QED
    BY <2>3 DEF Mentions, text
<1>3. Mentions(n) = {} => Find(text, 1) = 0
  BY <1>2 DEF Find
<1>4. ASSUME NEW k \in Mentions(n), \A j \in Mentions(n) : k <= j
      PROVE  Find(text, 1) = k
  <2>1. k \in Int
    BY <1>1 DEF Mentions
  <2> HIDE DEF places
  <2>2. k \in places /\ \A j \in places : k <= j
    BY <1>2, <1>4
  <2> QED
    BY <2>1, <2>2, FindFirst DEF places
<1> QED
  BY <1>3, <1>4

\* A field that has left its trace before the scanner's place, where its quoted name
\* has been met once, is what the four searches of ExtractStringValue find.
LEMMA ExtractLaid ==
    ASSUME body \in Seq(STRING), i \in Int, NEW n \in FieldNames, NEW text, NEW default,
           Laid(n, text, i), Cardinality(MentionsSoFar(n)) = 1
    PROVE  ExtractStringValue(n, default) = text
<1>1. PICK k, m, q, e \in 1 .. Len(body) :
          /\ Valued(n, k, m, q)
          /\ e > q /\ e < i /\ body[e] = Quote /\ NoQuote(q + 1, e - 1)
          /\ text = SubSeq(body, q + 1, e - 1)
  BY DEF Laid
<1>2. /\ MarkerAt(n, k)
      /\ m \in k + 3 .. Len(body) /\ body[m] = ":" /\ Blank(k + 3, m - 1)
      /\ q \in m + 1 .. Len(body) /\ body[q] = Quote /\ Blank(m + 1, q - 1)
  BY <1>1 DEF Valued, Headed
<1>3. Len(body) \in Nat /\ Quote \notin White /\ ":" \notin White
  BY DEF Quote, White
<1>4. Find(<<Quote, n, Quote>>, 1) = k
  <2>1. k \in Mentions(n)
    BY <1>2, MarkerMentioned
  <2>2. k \in MentionsSoFar(n)
    <3>1. k + 2 < i
      BY <1>1, <1>2, <1>3
    <3> QED
      BY <2>1, <3>1 DEF MentionsSoFar
  <2>3. IsFiniteSet(MentionsSoFar(n))
    <3>1. MentionsSoFar(n) \in SUBSET (1 .. Len(body))
      BY <1>3 DEF MentionsSoFar, Mentions
    <3>2. IsFiniteSet(1 .. Len(body))
      BY <1>3, FS_Interval
    <3> QED
      BY <3>1, <3>2, FS_Subset
  <2>4. MentionsSoFar(n) = {k}
    BY <2>2, <2>3, FS_Singleton
  <2>5. \A j \in Mentions(n) : k <= j
    <3> SUFFICES ASSUME NEW j \in Mentions(n), j < k PROVE FALSE
      <4>1. \A j \in Mentions(n) : j \in Int
        BY <1>3 DEF Mentions
      <4> QED
        BY <2>1, <4>1
    <3>1. j \in Int /\ k + 2 < i
      BY <1>3, <2>2 DEF MentionsSoFar, Mentions
    <3>2. j + 2 < i
      BY <3>1
    <3>3. j \in MentionsSoFar(n)
      BY <3>2 DEF MentionsSoFar
    <3> QED
      BY <2>4, <3>1, <3>3
  <2> QED
    BY <2>1, <2>5, FindMarker
<1>5. Find(<<":">>, k + 3) = m
  <2>1. k + 3 \in Nat \ {0} /\ m \in k + 3 .. Len(body) /\ body[m] = ":"
    BY <1>2
  <2>2. \A h \in k + 3 .. m - 1 : body[h] # ":"
    BY <1>2, <1>3 DEF Blank
  <2> QED
    BY <2>1, <2>2, FindSymbol
<1>6. Find(<<Quote>>, m + 1) = q
  <2>1. m + 1 \in Nat \ {0} /\ q \in m + 1 .. Len(body) /\ body[q] = Quote
    BY <1>2
  <2>2. \A h \in m + 1 .. q - 1 : body[h] # Quote
    BY <1>2, <1>3 DEF Blank
  <2> QED
    BY <2>1, <2>2, FindSymbol
<1>7. Find(<<Quote>>, q + 1) = e
  <2>1. q + 1 \in Nat \ {0} /\ e \in q + 1 .. Len(body) /\ body[e] = Quote
    BY <1>1
  <2>2. \A h \in q + 1 .. e - 1 : body[h] # Quote
    BY <1>1 DEF NoQuote
  <2> QED
    BY <2>1, <2>2, FindSymbol
<1>8. k # 0 /\ m # 0 /\ q # 0 /\ e # 0
  BY <1>1
<1> QED
  BY <1>1, <1>4, <1>5, <1>6, <1>7, <1>8 DEF ExtractStringValue, ValueAfter

\* A name that occurs nowhere is given its default.
LEMMA ExtractAbsent ==
    ASSUME body \in Seq(STRING), NEW n, NEW default, Mentions(n) = {}
    PROVE  ExtractStringValue(n, default) = default
<1>1. Find(<<Quote, n, Quote>>, 1) = 0
  BY FindMarker
<1> QED
  BY <1>1 DEF ExtractStringValue, ValueAfter
-----------------------------------------------------------------------------
\* The invariant holds at the start.
LEMMA FInvInit == Init => FInv
<1> SUFFICES ASSUME Init PROVE FInv
  OBVIOUS
<1>1. reader.place = "start" /\ reader.fields = {}
  BY DEF Init, NewReader
<1>2. Traced
  BY <1>1 DEF Traced, Trace, Flags, Inside, TracedKey, TracedColon, TracedValue,
              TracedString, TracedFields
<1>3. JobFields
  BY DEF Init, JobFields
<1> QED
  BY <1>2, <1>3 DEF FInv

\* What is extracted depends on the body only.
LEMMA SameBody ==
    ASSUME body' = body
    PROVE  \A n, default : ExtractStringValue(n, default)' = ExtractStringValue(n, default)
<1>1. \A text, from : Find(text, from)' = Find(text, from)
  BY DEF Find
<1> QED
  BY <1>1 DEF ExtractStringValue, ValueAfter

\* Every step of the handler keeps the invariant.
LEMMA FInvStep == SInv /\ FInv /\ [Next]_vars => FInv'
<1> SUFFICES ASSUME SInv, FInv, [Next]_vars PROVE FInv'
  OBVIOUS
<1>0. Typed /\ ScannerOK /\ Traced /\ JobFields
  BY DEF SInv, FInv
<1>1. CASE ScanCharacter
  <2>1. Traced'
    BY <1>0, <1>1, TracedStep
  <2>2. pc' # "accepted"
    BY <1>1, ScanEffect
  <2> QED
    BY <2>1, <2>2 DEF FInv, JobFields
\* All other steps leave the reader and the body alone.
<1>2. ASSUME UNCHANGED <<given, scanner, reader>>
      PROVE  Traced' /\ body' = body
  <2>1. body' = body /\ reader' = reader /\ i' = i
    BY <1>2 DEF given, scanner
  <2>2. Trace(reader', i')
    BY <1>0, <2>1 DEF Traced
  <2> QED
    BY <2>1, <2>2, TraceSameBody
<1>3. ASSUME \/ CheckShape \/ CheckSize \/ EndScan \/ RefuseMissing \/ RefuseUnknown
             \/ AcceptFields \/ RefuseModel \/ Show
      PROVE  UNCHANGED <<given, scanner, reader>> /\ pc' # "accepted"
  BY <1>3 DEF CheckShape, CheckSize, EndScan, RefuseMissing, RefuseUnknown, AcceptFields,
              RefuseModel, Show, Refuse, ContinueAt
<1>4. CASE Accept
  <2>1. /\ UNCHANGED <<given, scanner, reader>>
        /\ job'["modelId"] = ExtractStringValue("modelId", DefaultModel)
        /\ job'["toolId"] = ExtractStringValue("toolId", <<>>)
        /\ job'["templateId"] = ExtractStringValue("templateId", <<>>)
    BY <1>4 DEF Accept, ModelId
  <2>2. JobFields'
    BY <1>2, <2>1, SameBody DEF JobFields, FieldNames
  <2> QED
    BY <1>2, <2>1, <2>2 DEF FInv
<1>5. CASE UNCHANGED vars
  <2>1. UNCHANGED <<given, scanner, reader, pc, job>>
    BY <1>5 DEF vars
  <2>2. JobFields'
    BY <1>0, <1>2, <2>1, SameBody DEF JobFields
  <2> QED
    BY <1>2, <2>1, <2>2 DEF FInv
<1> QED
  BY <1>1, <1>2, <1>3, <1>4, <1>5 DEF Next, FInv, JobFields

\* Whatever the body, and wherever the scan stands in it: what the host takes out of
\* the body for a field, and gives the job, is the plain string of the first member
\* that mentions the field's quoted name, provided that nothing before its key does,
\* and the default if nothing at all mentions it.  Later members of the same name
\* change nothing.
THEOREM FieldsReadHolds == Spec => []FieldsRead
<1>1. Spec => []FInv
  <2>1. SInv /\ FInv /\ [Next]_vars => FInv'
    BY FInvStep
  <2> QED
    BY FInvInit, SubmitInvariance, <2>1, PTL DEF Spec
<1>2. SInv /\ FInv => FieldsRead
  <2> SUFFICES ASSUME SInv, FInv PROVE FieldsRead
    OBVIOUS
  <2> DEFINE default(name) == IF name = "modelId" THEN DefaultModel ELSE <<>>
             taken(name) == IF pc = "accepted" THEN job[name]
                              ELSE ExtractStringValue(name, default(name))
  <2>0. body \in Seq(STRING) /\ i \in Int
    BY DEF SInv, Typed, ScannerOK
  <2>1. \A name \in FieldNames : taken(name) = ExtractStringValue(name, default(name))
    BY DEF FInv, JobFields
  <2> HIDE DEF default, taken
  <2>2. ASSUME NEW name \in FieldNames, Mentions(name) = {}
        PROVE  taken(name) = default(name)
    BY <2>0, <2>1, <2>2, ExtractAbsent
  <2>3. ASSUME NEW name \in FieldNames, NEW field \in reader.fields,
               field[1] = <<name>>, Cardinality(MentionsSoFar(name)) = 1
        PROVE  taken(name) = field[2]
    <3>1. Laid(name, field[2], i)
      BY <2>3 DEF FInv, Traced, Trace, TracedFields
    <3> QED
      BY <2>0, <2>1, <2>3, <3>1, ExtractLaid
  <2> SUFFICES ASSUME NEW name \in FieldNames
               PROVE  /\ Mentions(name) = {} => taken(name) = default(name)
                      /\ \A field \in reader.fields :
                            field[1] = <<name>> /\ Cardinality(MentionsSoFar(name)) = 1
                            => taken(name) = field[2]
    BY DEF FieldsRead, FieldNames, default, taken
  <2> QED
    BY <2>2, <2>3
<1> QED
  BY SubmitInvariance, <1>1, <1>2, PTL
=============================================================================
