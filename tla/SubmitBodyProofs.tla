-------------------------- MODULE SubmitBodyProofs --------------------------
(****************************************************************************)
(* Theorems about SubmitBody, for any set of bodies and any limits.  The    *)
(* heart of it is LockStep: as long as the text before the scanner's place  *)
(* is the beginning of a tidy document, the few variables of the scanner    *)
(* say what the JSON reader knows about strings, depth and names.           *)
(****************************************************************************)
EXTENDS SubmitBody, SequenceTheorems, TLAPS

Symbol == STRING \cup Control
Text == Seq(Symbol)

Reader ==
    [place : ReaderPlaces, open : Seq(Nat), escaped : BOOLEAN, plain : BOOLEAN,
     text : Text, name : Text, names : SUBSET Text, fields : SUBSET (Text \X Text),
     strings : Seq(Text), tidy : BOOLEAN]

\* The reader is inside of an object from its first brace to its last.
Shape(r) ==
    /\ r.place \in {"start", "done"} => r.open = <<>>
    /\ r.place \notin {"start", "done", "invalid"} => r.open # <<>>
    /\ r.escaped => r.place \in {"key", "string", "invalid"}

Typed ==
    /\ route \in Routes
    /\ body \in Seq(STRING)
    /\ in_string \in BOOLEAN
    /\ escape \in BOOLEAN
    /\ current \in Seq(Range(body))
    /\ reader \in Reader
    /\ Shape(reader)

\* Text gathers only in strings of the outermost object.  ScannerOK needs it: a
\* string inside of another object ends without clearing current.
Gathering == current # <<>> => in_string /\ depth = 1

Followed == reader.place # "invalid" /\ reader.tidy

\* A string that has just ended in a list of strings or as a value is no key, but
\* the scanner takes it for one if a colon follows.  The text is no JSON then, which
\* the reader finds out only at the colon.
LockStep ==
    Followed =>
        /\ in_string <=> Inside(reader)
        /\ depth = Len(reader.open)
        /\ escape <=> reader.escaped /\ depth = 1
        /\ reader.place = "key" /\ depth = 1 => current = reader.text
        /\ reader.place = "colon" /\ depth = 1 =>
              keys = reader.names \cup (IF ColonAhead(i) THEN {reader.text} ELSE {})
        /\ reader.place = "after" => ColonAhead(i) \/ keys = reader.names
        /\ reader.place # "after" /\ ~ (reader.place = "colon" /\ depth = 1) =>
              keys = reader.names

\* What the handler has made sure of by the time it reaches a place.
Passed ==
    /\ pc \in {"shape", "size"} => reader.place = "start"
    /\ pc \in {"scan", "fields", "model", "accepted", "shown"} => Len(body) <= MaxBody
    /\ pc \in {"model", "accepted", "shown"} => Missing = {} /\ Unknown = {}

SInv == Typed /\ Gathering /\ ScannerOK /\ LockStep /\ Passed /\ Verdict
-----------------------------------------------------------------------------
(* The reader.                                                              *)

\* The control characters, and what may stand behind a backslash.
LEMMA Symbols ==
    /\ Control = {"LF", "CR", "HT", "BS", "FF", "VT", "US"}
    /\ Escapes = {Quote, Backslash, "/", "n", "r", "t", "b", "f", "u000b", "u001f"}
BY DEF Control, Letter, Escapes

\* What a control character is written as.
LEMMA Letters ==
    \A d \in Control : Letter[d] \in {"n", "r", "t", "b", "f", "u000b", "u001f"}
<1> SUFFICES ASSUME NEW d \in Control
             PROVE  Letter[d] \in {"n", "r", "t", "b", "f", "u000b", "u001f"}
  OBVIOUS
<1>1. CASE d \in {"LF", "CR", "HT"}
  BY <1>1 DEF Letter
<1>2. CASE d \in {"BS", "FF", "VT", "US"}
  BY <1>2 DEF Letter
<1> QED
  BY <1>1, <1>2, Symbols

\* An escaped mark stands for itself.
LEMMA UnescapedMark ==
    ASSUME NEW c \in {Quote, Backslash, "/"}
    PROVE  Unescaped(c) = c
<1>1. c \notin {"n", "r", "t", "b", "f", "u000b", "u001f"}
  BY DEF Quote, Backslash
<1>2. ~ \E d \in Control : Letter[d] = c
  BY <1>1, Letters
<1> QED
  BY <1>2 DEF Unescaped

\* An escape stands for a symbol.
LEMMA UnescapedText ==
    ASSUME NEW c \in Symbol
    PROVE  Unescaped(c) \in Symbol
<1>1. CASE \E d \in Control : Letter[d] = c
  <2>1. Unescaped(c) \in Control
    BY <1>1 DEF Unescaped
  <2> QED
    BY <2>1 DEF Symbol
<1>2. CASE ~ \E d \in Control : Letter[d] = c
  BY <1>2 DEF Unescaped
<1> QED
  BY <1>1, <1>2

\* The objects that stay open when the innermost one ends.
LEMMA FrontOpen ==
    ASSUME NEW open \in Seq(Nat), open # <<>>
    PROVE  /\ Len(open) \in Nat \ {0}
           /\ open[Len(open)] \in Nat
           /\ Front(open) \in Seq(Nat)
           /\ Len(Front(open)) = Len(open) - 1
<1>1. Len(open) \in Nat \ {0}
  OBVIOUS
<1>2. open[Len(open)] \in Nat
  BY <1>1
<1>3. \A k \in 1 .. Len(open) - 1 : open[k] \in Nat
  BY <1>1
<1>4. Len(open) - 1 \in Int
  BY <1>1
<1>5. /\ SubSeq(open, 1, Len(open) - 1) \in Seq(Nat)
      /\ Len(SubSeq(open, 1, Len(open) - 1))
            = IF 1 <= Len(open) - 1 THEN Len(open) - 1 - 1 + 1 ELSE 0
  BY <1>3, <1>4, SubSeqProperties
<1>6. Len(SubSeq(open, 1, Len(open) - 1)) = Len(open) - 1
  <2>1. \A n \in Nat \ {0} : (IF 1 <= n - 1 THEN n - 1 - 1 + 1 ELSE 0) = n - 1
    OBVIOUS
  <2> QED
    BY <1>1, <1>5, <2>1, Zenon
<1> QED
  BY <1>1, <1>2, <1>5, <1>6 DEF Front

\* Counting a list changes no other object that is open.
LEMMA CountLists ==
    ASSUME NEW open \in Seq(Nat), open # <<>>, NEW n \in Nat
    PROVE  /\ [open EXCEPT ![Len(open)] = n] \in Seq(Nat)
           /\ Len([open EXCEPT ![Len(open)] = n]) = Len(open)
           /\ [open EXCEPT ![Len(open)] = n] # <<>>
<1>1. Len(open) \in Nat \ {0}
  OBVIOUS
<1>2. /\ [open EXCEPT ![Len(open)] = n] \in Seq(Nat)
      /\ Len([open EXCEPT ![Len(open)] = n]) = Len(open)
  BY <1>1
<1> QED
  BY <1>1, <1>2

\* A new reader is one.
LEMMA NewReaderType == NewReader \in Reader /\ Shape(NewReader)
BY DEF NewReader, Reader, Shape, ReaderPlaces, Text, Symbol

\* What a symbol of a string does to the reader.
InsideEffect(r, c, s) ==
    /\ s.open = r.open /\ s.names = r.names
    /\ \/ s.place = "invalid"
       \/ /\ r.escaped /\ ~ s.escaped /\ s.place = r.place
          /\ s.text = Append(r.text, Unescaped(c))
          /\ s.tidy = (r.tidy /\ Tidy(r, c))
       \/ /\ ~ r.escaped /\ c = Backslash /\ s.escaped /\ s.place = r.place
          /\ s.text = r.text /\ s.tidy = r.tidy
       \/ /\ ~ r.escaped /\ c = Quote /\ ~ s.escaped
          /\ s.place = IF r.place = "key" THEN "colon" ELSE "after"
          /\ s.text = r.text /\ s.tidy = r.tidy
       \/ /\ ~ r.escaped /\ c \notin {Backslash, Quote}
          /\ ~ s.escaped /\ s.place = r.place
          /\ s.text = Append(r.text, c) /\ s.tidy = r.tidy

\* Each symbol of a string leads to a reader, in one of the five ways.
LEMMA ReadInsideEffect ==
    ASSUME NEW r \in Reader, Shape(r), Inside(r), NEW c \in STRING, NEW s, s = ReadInside(r, c)
    PROVE  s \in Reader /\ Shape(s) /\ InsideEffect(r, c, s)
<1> USE DEF InsideEffect
<1>0. c \in Symbol /\ r.text \in Text /\ r.open # <<>> /\ r.open \in Seq(Nat)
  BY DEF Symbol, Reader, Shape, Inside
<1>1. CASE r.escaped /\ c \in Escapes
  <2>1. s = [r EXCEPT !.escaped = FALSE, !.text = Append(@, Unescaped(c)),
                      !.tidy = @ /\ Tidy(r, c)]
    BY <1>1 DEF ReadInside
  <2>2. Append(r.text, Unescaped(c)) \in Text
    BY <1>0, UnescapedText DEF Text
  <2>3. (r.tidy /\ Tidy(r, c)) \in BOOLEAN
    BY DEF Tidy, Reader
  <2>4. s \in Reader
    BY <2>1, <2>2, <2>3 DEF Reader
  <2>5. /\ s.place = r.place /\ s.open = r.open /\ s.names = r.names /\ ~ s.escaped
        /\ s.text = Append(r.text, Unescaped(c))
        /\ s.tidy = (r.tidy /\ Tidy(r, c))
    BY <2>1 DEF Reader
  <2>6. Shape(s)
    BY <2>5 DEF Shape
  <2> QED
    BY <1>1, <2>4, <2>5, <2>6
<1>2. CASE ~ r.escaped /\ c = Backslash
  <2>1. s = [r EXCEPT !.escaped = TRUE, !.plain = FALSE]
    BY <1>2 DEF ReadInside, Quote, Backslash
  <2>2. s \in Reader /\ Shape(s)
    BY <2>1 DEF Reader, Shape, Inside
  <2> QED
    BY <1>2, <2>1, <2>2 DEF Reader
<1>3. CASE ~ r.escaped /\ c = Quote
  <2>1. s = EndString(r)
    BY <1>3 DEF ReadInside, Quote, Backslash
  <2>2. Append(r.strings, r.text) \in Seq(Text)
    BY <1>0 DEF Reader
  <2>3. r.fields \cup {<<r.name, r.text>>} \in SUBSET (Text \X Text)
    BY <1>0 DEF Reader
  <2>4. s.place = (IF r.place = "key" THEN "colon" ELSE "after") /\ s.place \in ReaderPlaces
    BY <2>1 DEF EndString, Reader, ReaderPlaces
  <2>5. s \in Reader
    BY <2>1, <2>2, <2>3, <2>4 DEF EndString, Reader
  <2>6. /\ s.open = r.open /\ s.names = r.names /\ ~ s.escaped
        /\ s.text = r.text /\ s.tidy = r.tidy
    BY <2>1, <1>3 DEF EndString, Reader
  <2>7. Shape(s)
    BY <2>4, <2>6, <1>0 DEF Shape
  <2> QED
    BY <1>3, <2>4, <2>5, <2>6, <2>7
<1>4. CASE ~ r.escaped /\ c \notin {Backslash, Quote} \cup Control
  <2>1. s = [r EXCEPT !.text = Append(@, c)]
    BY <1>4 DEF ReadInside
  <2>2. Append(r.text, c) \in Text
    BY <1>0 DEF Text
  <2>3. s \in Reader /\ Shape(s)
    BY <2>1, <2>2 DEF Reader, Shape
  <2>4. /\ s.open = r.open /\ s.names = r.names /\ ~ s.escaped /\ s.place = r.place
        /\ s.text = Append(r.text, c) /\ s.tidy = r.tidy
    BY <2>1, <1>4 DEF Reader
  <2> QED
    BY <1>4, <2>3, <2>4
<1>5. CASE s = Goto(r, "invalid")
  BY <1>5 DEF Goto, Reader, Shape, ReaderPlaces
<1> QED
  BY <1>1, <1>2, <1>3, <1>4, <1>5 DEF ReadInside

\* The marks are apart, so each has its effect.
LEMMA ReadMarkCases ==
    ASSUME NEW r, NEW c
    PROVE  /\ OpensObject(r, c) =>
              ReadMark(r, c) = [r EXCEPT !.place = "first", !.open = Append(@, 0)]
           /\ ClosesObject(r, c) =>
              ReadMark(r, c) = [r EXCEPT !.place = IF Len(r.open) = 1 THEN "done" ELSE "after",
                          !.open = Front(@)]
           /\ OpensList(r, c) =>
              ReadMark(r, c) = [r EXCEPT !.place = "list", !.open[Len(r.open)] = @ + 1]
           /\ ClosesList(r, c) =>
              ReadMark(r, c) = [r EXCEPT !.place = "after", !.open[Len(r.open)] = @ - 1]
           /\ StartsKey(r, c) =>
              ReadMark(r, c) = [r EXCEPT !.place = "key", !.plain = TRUE, !.text = <<>>]
           /\ StartsString(r, c) =>
              ReadMark(r, c) = [r EXCEPT !.place = "string", !.plain = TRUE, !.text = <<>>]
           /\ GivesValue(r, c) =>
              ReadMark(r, c) = IF Len(r.open) = 1
                  THEN [r EXCEPT !.place = "value", !.name = r.text,
                                 !.names = @ \cup {r.text}]
                  ELSE Goto(r, "value")
           /\ Continues(r, c) =>
              ReadMark(r, c) = Goto(r, IF Lists(r) > 0 THEN "value" ELSE "member")
           /\ IsScalar(r, c) =>
              ReadMark(r, c) = Goto(r, "after")
           /\ \/ OpensObject(r, c)
              \/ ClosesObject(r, c)
              \/ OpensList(r, c)
              \/ ClosesList(r, c)
              \/ StartsKey(r, c)
              \/ StartsString(r, c)
              \/ GivesValue(r, c)
              \/ Continues(r, c)
              \/ IsScalar(r, c)
              \/ ReadMark(r, c) = Goto(r, "invalid")
<1> USE DEF OpensObject, ClosesObject, OpensList, ClosesList, StartsKey, StartsString,
            GivesValue, Continues, IsScalar, Scalar, Marks, Quote, ReadMark
<1>1. ASSUME OpensObject(r, c) PROVE ReadMark(r, c) = [r EXCEPT !.place = "first", !.open = Append(@, 0)]
  BY <1>1
<1>2. ASSUME ClosesObject(r, c) PROVE ReadMark(r, c) = [r EXCEPT !.place = IF Len(r.open) = 1 THEN "done" ELSE "after",
                      !.open = Front(@)]
  BY <1>2
<1>3. ASSUME OpensList(r, c) PROVE ReadMark(r, c) = [r EXCEPT !.place = "list", !.open[Len(r.open)] = @ + 1]
  BY <1>3
<1>4. ASSUME ClosesList(r, c) PROVE ReadMark(r, c) = [r EXCEPT !.place = "after", !.open[Len(r.open)] = @ - 1]
  BY <1>4
<1>5. ASSUME StartsKey(r, c) PROVE ReadMark(r, c) = [r EXCEPT !.place = "key", !.plain = TRUE, !.text = <<>>]
  BY <1>5
<1>6. ASSUME StartsString(r, c) PROVE ReadMark(r, c) = [r EXCEPT !.place = "string", !.plain = TRUE, !.text = <<>>]
  BY <1>6
<1>7. ASSUME GivesValue(r, c) PROVE ReadMark(r, c) = IF Len(r.open) = 1
              THEN [r EXCEPT !.place = "value", !.name = r.text,
                             !.names = @ \cup {r.text}]
              ELSE Goto(r, "value")
  BY <1>7
<1>8. ASSUME Continues(r, c) PROVE ReadMark(r, c) = Goto(r, IF Lists(r) > 0 THEN "value" ELSE "member")
  BY <1>8
<1>9. ASSUME IsScalar(r, c) PROVE ReadMark(r, c) = Goto(r, "after")
  BY <1>9
<1>10. ASSUME ~ ( \/ OpensObject(r, c) \/ ClosesObject(r, c) \/ OpensList(r, c) \/ ClosesList(r, c)
                  \/ StartsKey(r, c) \/ StartsString(r, c) \/ GivesValue(r, c)
                  \/ Continues(r, c) \/ IsScalar(r, c) )
       PROVE  ReadMark(r, c) = Goto(r, "invalid")
  BY <1>10
<1> HIDE DEF OpensObject, ClosesObject, OpensList, ClosesList, StartsKey, StartsString,
            GivesValue, Continues, IsScalar, Scalar, Marks, Quote, ReadMark
<1> QED
  BY <1>1, <1>2, <1>3, <1>4, <1>5, <1>6, <1>7, <1>8, <1>9, <1>10

\* What a mark does to the reader, as far as the scanner follows it.
MarkEffect(r, c, s) ==
    /\ s.tidy = r.tidy /\ s.escaped = r.escaped
    /\ \/ s.place = "invalid"
       \/ /\ c = "{" /\ s.place = "first"
          /\ r.place \in {"start", "value", "list"}
          /\ Len(s.open) = Len(r.open) + 1 /\ s.names = r.names
       \/ /\ c = "}" /\ s.place \in {"done", "after"}
          /\ r.place \in {"first", "after"}
          /\ Len(s.open) = Len(r.open) - 1 /\ s.names = r.names
       \/ /\ c = Quote /\ s.place \in {"key", "string"} /\ s.text = <<>>
          /\ r.place \in {"first", "member", "value", "list"}
          /\ Len(s.open) = Len(r.open) /\ s.names = r.names
       \/ /\ c = ":" /\ s.place = "value"
          /\ r.place = "colon"
          /\ Len(s.open) = Len(r.open)
          /\ s.names = r.names \cup (IF Len(r.open) = 1 THEN {r.text} ELSE {})
       \/ /\ c \notin {"{", "}", Quote, ":"} \cup Space
          /\ s.place \in {"list", "value", "member", "after"}
          /\ r.place \in {"value", "list", "after"}
          /\ Len(s.open) = Len(r.open) /\ s.names = r.names

\* Each mark leads to a reader, in one of the six ways.
LEMMA ReadMarkEffect ==
    ASSUME NEW r \in Reader, Shape(r), ~ Inside(r), NEW c \in STRING, NEW s, s = ReadMark(r, c)
    PROVE  s \in Reader /\ Shape(s) /\ MarkEffect(r, c, s)
<1> USE DEF MarkEffect
<1>0. /\ r.open \in Seq(Nat)
      /\ r.place \in ReaderPlaces
      /\ r.escaped => r.place = "invalid"
  BY DEF Shape, Inside, Reader
<1>1. CASE OpensObject(r, c)
  <2>1. s = [r EXCEPT !.place = "first", !.open = Append(@, 0)]
    BY <1>1, ReadMarkCases
  <2>2. /\ Append(r.open, 0) \in Seq(Nat)
        /\ Append(r.open, 0) # <<>>
        /\ Len(Append(r.open, 0)) = Len(r.open) + 1
    BY <1>0
  <2>3. s \in Reader /\ s.place = "first" /\ s.open = Append(r.open, 0)
    BY <2>1, <2>2 DEF Reader, ReaderPlaces
  <2>4. s.names = r.names /\ s.tidy = r.tidy /\ s.escaped = r.escaped
    BY <2>1 DEF Reader
  <2>5. c = "{" /\ r.place \in {"start", "value", "list"}
    BY <1>1 DEF OpensObject
  <2>6. Shape(s)
    BY <1>0, <2>2, <2>3, <2>4, <2>5 DEF Shape
  <2> QED
    BY <2>2, <2>3, <2>4, <2>5, <2>6
<1>2. CASE ClosesObject(r, c)
  <2>1. s = [r EXCEPT !.place = IF Len(r.open) = 1 THEN "done" ELSE "after",
                      !.open = Front(@)]
    BY <1>2, ReadMarkCases
  <2>2. c = "}" /\ r.place \in {"first", "after"} /\ r.open # <<>>
    BY <1>2 DEF ClosesObject, Shape
  <2>3. /\ Len(r.open) \in Nat \ {0}
        /\ Front(r.open) \in Seq(Nat)
        /\ Len(Front(r.open)) = Len(r.open) - 1
    BY <1>0, <2>2, FrontOpen
  <2>4. /\ s.place = IF Len(r.open) = 1 THEN "done" ELSE "after"
        /\ s.open = Front(r.open)
        /\ s.names = r.names /\ s.tidy = r.tidy /\ s.escaped = r.escaped
    BY <2>1 DEF Reader
  <2>5. s \in Reader
    BY <2>1, <2>3 DEF Reader, ReaderPlaces
  <2>6. s.open = <<>> <=> Len(r.open) = 1
    <3>1. \A q \in Seq(Nat) : q = <<>> <=> Len(q) = 0
      OBVIOUS
    <3>2. Front(r.open) = <<>> <=> Len(Front(r.open)) = 0
      BY <2>3, <3>1
    <3> QED
      BY <2>3, <2>4, <3>2
  <2>7. Shape(s)
    BY <1>0, <2>2, <2>4, <2>6 DEF Shape
  <2> QED
    BY <2>2, <2>3, <2>4, <2>5, <2>7
<1>3. ASSUME NEW n \in Nat, NEW place \in {"list", "after"},
             s = [r EXCEPT !.place = place, !.open[Len(r.open)] = n], r.open # <<>>,
             r.place # "invalid"
      PROVE  /\ s \in Reader /\ Shape(s)
             /\ s.place = place /\ Len(s.open) = Len(r.open)
             /\ s.names = r.names /\ s.tidy = r.tidy /\ s.escaped = r.escaped
  <2>1. /\ s.place = place
        /\ s.open = [r.open EXCEPT ![Len(r.open)] = n]
        /\ s.names = r.names /\ s.tidy = r.tidy /\ s.escaped = r.escaped
    BY <1>3 DEF Reader
  <2>2. /\ s.open \in Seq(Nat)
        /\ Len(s.open) = Len(r.open)
        /\ s.open # <<>>
    BY <1>0, <1>3, <2>1, CountLists
  <2>3. s \in Reader
    BY <1>0, <1>3, <2>1, <2>2 DEF Reader, ReaderPlaces
  <2>4. Shape(s)
    BY <1>0, <1>3, <2>1, <2>2 DEF Shape
  <2> QED
    BY <2>1, <2>2, <2>3, <2>4
<1>4. CASE OpensList(r, c)
  <2>1. s = [r EXCEPT !.place = "list", !.open[Len(r.open)] = r.open[Len(r.open)] + 1]
    BY <1>4, ReadMarkCases
  <2>2. c = "[" /\ r.place \in {"value", "list"} /\ r.open # <<>>
    BY <1>4 DEF OpensList, Shape
  <2>3. r.open[Len(r.open)] + 1 \in Nat
    BY <1>0, <2>2, FrontOpen
  <2>4. /\ s \in Reader /\ Shape(s)
        /\ s.place = "list" /\ Len(s.open) = Len(r.open)
        /\ s.names = r.names /\ s.tidy = r.tidy /\ s.escaped = r.escaped
    BY <1>3, <2>1, <2>2, <2>3
  <2>5. c \notin {"{", "}", Quote, ":"} \cup Space
    BY <2>2 DEF Quote, Space
  <2> QED
    BY <2>2, <2>4, <2>5
<1>5. CASE ClosesList(r, c)
  <2>1. s = [r EXCEPT !.place = "after", !.open[Len(r.open)] = r.open[Len(r.open)] - 1]
    BY <1>5, ReadMarkCases
  <2>2. c = "]" /\ r.place \in {"list", "after"} /\ r.open # <<>> /\ r.open[Len(r.open)] > 0
    BY <1>5 DEF ClosesList, Shape, Lists
  <2>3. r.open[Len(r.open)] - 1 \in Nat
    BY <1>0, <2>2, FrontOpen
  <2>4. /\ s \in Reader /\ Shape(s)
        /\ s.place = "after" /\ Len(s.open) = Len(r.open)
        /\ s.names = r.names /\ s.tidy = r.tidy /\ s.escaped = r.escaped
    BY <1>3, <2>1, <2>2, <2>3
  <2>5. c \notin {"{", "}", Quote, ":"} \cup Space
    BY <2>2 DEF Quote, Space
  <2> QED
    BY <2>2, <2>4, <2>5
\* The other marks open and close nothing.
<1>6. ASSUME NEW place \in {"key", "string", "value", "member", "after", "invalid"},
             s \in Reader, s.place = place, s.open = r.open, s.escaped = r.escaped,
             r.place \notin {"start", "done", "invalid"} \/ place = "invalid"
      PROVE  Shape(s)
  BY <1>0, <1>6 DEF Shape
<1>7. CASE StartsKey(r, c)
  <2>1. s = [r EXCEPT !.place = "key", !.plain = TRUE, !.text = <<>>]
    BY <1>7, ReadMarkCases
  <2>2. c = Quote /\ r.place \in {"first", "member"}
    BY <1>7 DEF StartsKey
  <2>3. /\ s.place = "key" /\ s.open = r.open /\ s.text = <<>>
        /\ s.names = r.names /\ s.tidy = r.tidy /\ s.escaped = r.escaped
    BY <2>1 DEF Reader
  <2>4. s \in Reader
    <3>1. <<>> \in Text
      BY DEF Text
    <3> QED
      BY <2>1, <3>1 DEF Reader, ReaderPlaces
  <2> QED
    BY <1>6, <2>2, <2>3, <2>4
<1>8. CASE StartsString(r, c)
  <2>1. s = [r EXCEPT !.place = "string", !.plain = TRUE, !.text = <<>>]
    BY <1>8, ReadMarkCases
  <2>2. c = Quote /\ r.place \in {"value", "list"}
    BY <1>8 DEF StartsString
  <2>3. /\ s.place = "string" /\ s.open = r.open /\ s.text = <<>>
        /\ s.names = r.names /\ s.tidy = r.tidy /\ s.escaped = r.escaped
    BY <2>1 DEF Reader
  <2>4. s \in Reader
    <3>1. <<>> \in Text
      BY DEF Text
    <3> QED
      BY <2>1, <3>1 DEF Reader, ReaderPlaces
  <2> QED
    BY <1>6, <2>2, <2>3, <2>4
<1>9. CASE GivesValue(r, c)
  <2>1. c = ":" /\ r.place = "colon"
    BY <1>9 DEF GivesValue
  <2>2. CASE Len(r.open) = 1
    <3>1. s = [r EXCEPT !.place = "value", !.name = r.text, !.names = @ \cup {r.text}]
      BY <1>9, <2>2, ReadMarkCases
    <3>2. /\ s.place = "value" /\ s.open = r.open /\ s.names = r.names \cup {r.text}
          /\ s.tidy = r.tidy /\ s.escaped = r.escaped
      BY <3>1 DEF Reader
    <3>3. s \in Reader
      <4>1. r.text \in Text /\ r.names \cup {r.text} \in SUBSET Text
        BY DEF Reader
      <4> QED
        BY <3>1, <4>1 DEF Reader, ReaderPlaces
    <3> QED
      BY <1>6, <2>1, <2>2, <3>2, <3>3
  <2>3. CASE Len(r.open) # 1
    <3>1. s = [r EXCEPT !.place = "value"]
      BY <1>9, <2>3, ReadMarkCases DEF Goto
    <3>2. /\ s.place = "value" /\ s.open = r.open /\ s.names = r.names
          /\ s.tidy = r.tidy /\ s.escaped = r.escaped
      BY <3>1 DEF Reader
    <3>3. s \in Reader
      BY <3>1 DEF Reader, ReaderPlaces
    <3>4. s.names = r.names \cup (IF Len(r.open) = 1 THEN {r.text} ELSE {})
      BY <2>3, <3>2
    <3> QED
      BY <1>6, <2>1, <3>2, <3>3, <3>4
  <2> QED
    BY <2>2, <2>3
\* A comma, a scalar, and what is none of JSON.
<1>10. ASSUME NEW place \in {"value", "member", "after", "invalid"}, s = Goto(r, place)
       PROVE  /\ s \in Reader
              /\ s.place = place /\ s.open = r.open
              /\ s.names = r.names /\ s.tidy = r.tidy /\ s.escaped = r.escaped
  BY <1>10 DEF Goto, Reader, ReaderPlaces
<1>11. CASE Continues(r, c)
  <2>1. c = "," /\ r.place = "after"
    BY <1>11 DEF Continues
  <2>2. PICK place \in {"value", "member"} : s = Goto(r, place)
    BY <1>11, ReadMarkCases
  <2>3. c \notin {"{", "}", Quote, ":"} \cup Space
    BY <2>1 DEF Quote, Space
  <2> QED
    BY <1>6, <1>10, <2>1, <2>2, <2>3
<1>12. CASE IsScalar(r, c)
  <2>1. Scalar(c) /\ r.place \in {"value", "list"}
    BY <1>12 DEF IsScalar
  <2>2. s = Goto(r, "after")
    BY <1>12, ReadMarkCases
  <2>3. c \notin {"{", "}", Quote, ":"} \cup Space
    BY <2>1, Symbols DEF Scalar, Marks, White, Space
  <2> QED
    BY <1>6, <1>10, <2>1, <2>2, <2>3
<1>13. CASE s = Goto(r, "invalid")
  BY <1>6, <1>10, <1>13
<1> QED
  BY <1>1, <1>2, <1>4, <1>5, <1>7, <1>8, <1>9, <1>11, <1>12, <1>13, ReadMarkCases

\* Every symbol leaves the reader a reader.
LEMMA ReadJsonType ==
    ASSUME NEW r \in Reader, Shape(r), NEW c \in STRING
    PROVE  ReadJson(r, c) \in Reader /\ Shape(ReadJson(r, c))
<1>1. CASE Inside(r)
  BY <1>1, ReadInsideEffect DEF ReadJson
<1>2. CASE ~ Inside(r) /\ c \in White
  BY <1>2 DEF ReadJson
<1>3. CASE ~ Inside(r) /\ c \notin White
  BY <1>3, ReadMarkEffect DEF ReadJson
<1> QED
  BY <1>1, <1>2, <1>3
-----------------------------------------------------------------------------
(* Looking for a colon.                                                     *)

\* ColonFollows looks ahead from k as from the place after it, if k is white space.
LEMMA ColonAt ==
    ASSUME body \in Seq(STRING), NEW k \in 1 .. Len(body)
    PROVE  /\ body[k] = ":" => ColonAhead(k)
           /\ body[k] \notin Space \cup {":"} => ~ ColonAhead(k)
           /\ body[k] \in Space => (ColonAhead(k) <=> ColonAhead(k + 1))
<1>1. body[k] = ":" => ColonAhead(k)
  BY DEF ColonAhead
<1>2. ASSUME ColonAhead(k), body[k] # ":"
      PROVE  body[k] \in Space /\ ColonAhead(k + 1)
  <2>1. PICK j \in k .. Len(body) :
            body[j] = ":" /\ \A h \in k .. j - 1 : body[h] \in Space
    BY <1>2 DEF ColonAhead
  <2>2. j \in k + 1 .. Len(body) /\ k \in k .. j - 1
    BY <1>2, <2>1
  <2>3. \A h \in k + 1 .. j - 1 : body[h] \in Space
    BY <2>1
  <2> QED
    BY <2>1, <2>2, <2>3 DEF ColonAhead
<1>3. ASSUME ColonAhead(k + 1), body[k] \in Space
      PROVE  ColonAhead(k)
  <2>1. PICK j \in k + 1 .. Len(body) :
            body[j] = ":" /\ \A h \in k + 1 .. j - 1 : body[h] \in Space
    BY <1>3 DEF ColonAhead
  <2>2. \A h \in k .. j - 1 : h = k \/ h \in k + 1 .. j - 1
    BY <2>1
  <2> QED
    BY <1>3, <2>1, <2>2 DEF ColonAhead
<1>4. ":" \notin Space
  BY DEF Space
<1> QED
  BY <1>1, <1>2, <1>3, <1>4
-----------------------------------------------------------------------------
(* One step of the scan.                                                    *)

\* What the seven branches of the loop have in common and where they differ.
LEMMA ScanEffect ==
    ASSUME ScanCharacter
    PROVE  /\ pc = "scan" /\ i <= Len(body)
           /\ i' = i + 1
           /\ reader' = ReadJson(reader, body[i])
           /\ UNCHANGED <<given, pc, error, job, reply>>
           /\ ~ in_string => keys' = keys /\ current' = current /\ escape' = escape
BY DEF ScanCharacter, OpenBrace, CloseBrace, ToggleString, TakeEscaped, StartEscape,
       TakeCharacter, SkipCharacter, Advance, KeyText

\* Every branch of the loop keeps the scanner's types and its clean state.
LEMMA ScannerStep ==
    ASSUME Typed, Gathering, ScannerOK, ScanCharacter
    PROVE  Typed' /\ Gathering' /\ ScannerOK'
<1>0. /\ i \in 1 .. Len(body) /\ Len(body) \in Nat
      /\ body[i] \in STRING /\ body[i] \in Range(body)
  <2>1. i \in 1 .. Len(body) /\ Len(body) \in Nat
    BY ScanEffect DEF Typed, ScannerOK
  <2> QED
    BY <2>1 DEF Typed, Range
<1>1. reader' \in Reader /\ Shape(reader)'
  BY <1>0, ScanEffect, ReadJsonType DEF Typed, Shape
<1>2. /\ route' = route /\ body' = body /\ pc' = pc /\ i' = i + 1
      /\ i' \in 1 .. Len(body) + 1
  BY <1>0, ScanEffect DEF given
<1>3. /\ current \in Seq(Range(body)) /\ keys \subseteq Seq(Range(body))
      /\ in_string \in BOOLEAN /\ escape \in BOOLEAN /\ depth \in Int
      /\ escape => in_string /\ depth = 1
      /\ current # <<>> => in_string /\ depth = 1
  BY DEF Typed, Gathering, ScannerOK
<1>4. <<>> \in Seq(Range(body)) /\ Append(current, body[i]) \in Seq(Range(body))
  BY <1>0, <1>3
<1>5. /\ current' \in {current, <<>>, Append(current, body[i])}
      /\ keys' \in {keys, keys \cup {current}}
  BY DEF ScanCharacter, OpenBrace, CloseBrace, ToggleString, TakeEscaped, StartEscape,
         TakeCharacter, SkipCharacter
<1>6. current' \in Seq(Range(body)) /\ keys' \subseteq Seq(Range(body))
  BY <1>3, <1>4, <1>5
<1> DEFINE Flags ==
        /\ in_string \in BOOLEAN /\ escape \in BOOLEAN
        /\ escape => in_string /\ depth = 1
        /\ current # <<>> => in_string /\ depth = 1
<1>7. depth' \in Int /\ Flags'
  <2>1. CASE OpenBrace
    <3>1. ~ escape' /\ current' = <<>> /\ ~ in_string' /\ in_string' \in BOOLEAN
          /\ escape' \in BOOLEAN
      BY <1>3, <2>1, Zenon DEF OpenBrace
    <3>2. depth' = depth + 1
      BY <2>1 DEF OpenBrace
    <3> QED
      BY <1>3, <3>1, <3>2
  <2>2. CASE CloseBrace
    <3>1. ~ escape' /\ current' = <<>> /\ ~ in_string' /\ in_string' \in BOOLEAN
          /\ escape' \in BOOLEAN
      BY <1>3, <2>2, Zenon DEF CloseBrace
    <3>2. depth' = depth - 1
      BY <2>2 DEF CloseBrace
    <3> QED
      BY <1>3, <3>1, <3>2
  <2>3. CASE ToggleString
    <3>1. ~ escape' /\ escape' \in BOOLEAN /\ depth' = depth
      BY <1>3, <2>3, Zenon DEF ToggleString
    <3>2. in_string' \in BOOLEAN /\ in_string' = ~ in_string
      BY <1>3, <2>3 DEF ToggleString
    <3>3. current' = <<>>
      BY <1>3, <2>3 DEF ToggleString
    <3> QED
      BY <1>3, <3>1, <3>2, <3>3
  <2>4. CASE TakeEscaped
    BY <1>3, <2>4 DEF TakeEscaped, KeyText
  <2>5. CASE StartEscape
    BY <1>3, <2>5 DEF StartEscape, KeyText
  <2>6. CASE TakeCharacter
    BY <1>3, <2>6 DEF TakeCharacter, KeyText
  <2>7. CASE SkipCharacter
    BY <1>3, <2>7 DEF SkipCharacter
  <2> QED
    BY <2>1, <2>2, <2>3, <2>4, <2>5, <2>6, <2>7 DEF ScanCharacter
<1>8. pc' = "scan"
  BY <1>2, ScanEffect
<1> QED
  BY <1>1, <1>2, <1>3, <1>6, <1>7, <1>8 DEF Typed, Gathering, ScannerOK, Places

\* The scanner in a string of the outermost object.
LEMMA ScanText ==
    ASSUME ScanCharacter, in_string, depth = 1
    PROVE  /\ depth' = depth
           /\ escape =>
                 /\ in_string' /\ ~ escape' /\ keys' = keys
                 /\ current' = Append(current, body[i])
           /\ ~ escape /\ body[i] = Quote =>
                 /\ ~ in_string' /\ ~ escape'
                 /\ keys' = keys \cup (IF ColonAhead(i + 1) THEN {current} ELSE {})
           /\ ~ escape /\ body[i] = Backslash =>
                 in_string' /\ escape' /\ keys' = keys /\ current' = current
           /\ ~ escape /\ body[i] \notin {Quote, Backslash} =>
                 /\ in_string' /\ ~ escape' /\ keys' = keys
                 /\ current' = Append(current, body[i])
<1>1. \/ ToggleString
      \/ TakeEscaped
      \/ StartEscape
      \/ TakeCharacter
  BY DEF ScanCharacter, OpenBrace, CloseBrace, SkipCharacter
<1>2. Quote # Backslash
  BY DEF Quote, Backslash
<1>3. CASE ToggleString
  BY <1>2, <1>3 DEF ToggleString, ColonFollows
<1>4. CASE TakeEscaped
  BY <1>4 DEF TakeEscaped, KeyText
<1>5. CASE StartEscape
  BY <1>2, <1>5 DEF StartEscape, KeyText
<1>6. CASE TakeCharacter
  BY <1>6 DEF TakeCharacter, KeyText
<1> QED
  BY <1>1, <1>3, <1>4, <1>5, <1>6

\* The scanner in a string of an object further inside.
LEMMA ScanInner ==
    ASSUME ScanCharacter, in_string, depth # 1, ~ escape
    PROVE  /\ depth' = depth /\ ~ escape' /\ keys' = keys
           /\ in_string' <=> body[i] # Quote
<1>1. ToggleString \/ SkipCharacter
  BY DEF ScanCharacter, OpenBrace, CloseBrace, TakeEscaped, StartEscape, TakeCharacter, KeyText
<1>2. CASE ToggleString
  BY <1>2 DEF ToggleString
<1>3. CASE SkipCharacter
  BY <1>3 DEF SkipCharacter
<1> QED
  BY <1>1, <1>2, <1>3

\* The scanner outside of strings.
LEMMA ScanOutside ==
    ASSUME ScanCharacter, ~ in_string, ~ escape
    PROVE  /\ ~ escape' /\ keys' = keys /\ current' = current
           /\ in_string' <=> body[i] = Quote
           /\ body[i] = "{" => depth' = depth + 1
           /\ body[i] = "}" => depth' = depth - 1
           /\ body[i] \notin {"{", "}"} => depth' = depth
<1>1. \/ OpenBrace
      \/ CloseBrace
      \/ ToggleString
      \/ SkipCharacter
  BY DEF ScanCharacter, TakeEscaped, StartEscape, TakeCharacter, KeyText
<1>2. Quote \notin {"{", "}"}
  BY DEF Quote
<1>3. CASE OpenBrace
  BY <1>2, <1>3 DEF OpenBrace
<1>4. CASE CloseBrace
  BY <1>2, <1>4 DEF CloseBrace
<1>5. CASE ToggleString
  BY <1>2, <1>5 DEF ToggleString
<1>6. CASE SkipCharacter
  BY <1>2, <1>6 DEF SkipCharacter
<1> QED
  BY <1>1, <1>3, <1>4, <1>5, <1>6

\* Every branch of the loop does what the reader does, unless the text is no tidy
\* document.
LEMMA LockStepStep ==
    ASSUME Typed, Gathering, ScannerOK, LockStep, ScanCharacter
    PROVE  LockStep'
<1> DEFINE c == body[i]
           r == reader
           s == ReadJson(reader, body[i])
<1>0. /\ i \in 1 .. Len(body) /\ i' = i + 1 /\ body' = body
      /\ c \in STRING
      /\ r \in Reader /\ Shape(r)
      /\ reader' = s
  <2>1. i \in 1 .. Len(body) /\ i' = i + 1 /\ body' = body /\ reader' = s
    BY ScanEffect DEF Typed, ScannerOK, given
  <2> QED
    BY <2>1 DEF Typed
<1>1. ColonAhead(i)' <=> ColonAhead(i + 1)
  BY <1>0 DEF ColonAhead
<1> DEFINE Agree ==
        /\ in_string <=> Inside(reader)
        /\ depth = Len(reader.open)
        /\ escape <=> reader.escaped /\ depth = 1
        /\ reader.place = "key" /\ depth = 1 => current = reader.text
        /\ reader.place = "colon" /\ depth = 1 =>
              keys = reader.names \cup (IF ColonAhead(i) THEN {reader.text} ELSE {})
        /\ reader.place = "after" => ColonAhead(i) \/ keys = reader.names
        /\ reader.place # "after" /\ ~ (reader.place = "colon" /\ depth = 1) =>
              keys = reader.names
<1> SUFFICES ASSUME Followed' PROVE Agree'
  BY DEF LockStep
<1>2. s.place # "invalid" /\ s.tidy
  BY <1>0 DEF Followed
<1>3. CASE Inside(r)
  <2>1. s = ReadInside(r, c)
    BY <1>3 DEF ReadJson
  <2>0. InsideEffect(r, c, s)
    BY <1>0, <1>3, <2>1, ReadInsideEffect
  <2>2. /\ s.open = r.open /\ s.names = r.names
        /\ \/ /\ r.escaped /\ ~ s.escaped /\ s.place = r.place
              /\ s.text = Append(r.text, Unescaped(c))
              /\ s.tidy = (r.tidy /\ Tidy(r, c))
           \/ /\ ~ r.escaped /\ c = Backslash /\ s.escaped /\ s.place = r.place
              /\ s.text = r.text /\ s.tidy = r.tidy
           \/ /\ ~ r.escaped /\ c = Quote /\ ~ s.escaped
              /\ s.place = IF r.place = "key" THEN "colon" ELSE "after"
              /\ s.text = r.text /\ s.tidy = r.tidy
           \/ /\ ~ r.escaped /\ c \notin {Backslash, Quote}
              /\ ~ s.escaped /\ s.place = r.place
              /\ s.text = Append(r.text, c) /\ s.tidy = r.tidy
    BY <1>2, <2>0, Zenon DEF InsideEffect
  <2>3. r.tidy /\ Agree
    <3>1. r.tidy
      BY <1>2, <2>2
    <3>2. r.place # "invalid"
      BY <1>3 DEF Inside
    <3> QED
      BY <3>1, <3>2 DEF LockStep, Followed
  <2>4. in_string /\ keys = r.names /\ depth = Len(r.open)
    BY <1>3, <2>3 DEF Inside
  <2>5. CASE depth = 1
    <3>1. escape <=> r.escaped
      BY <2>3, <2>5
    <3>2. depth' = 1 /\ s.open = r.open
      BY <2>2, <2>4, <2>5, ScanText
    <3>3. CASE r.escaped
      <4>1. /\ in_string' /\ ~ escape' /\ keys' = keys
            /\ current' = Append(current, c)
        BY <2>4, <2>5, <3>1, <3>3, ScanText
      <4>2. /\ ~ s.escaped /\ s.place = r.place
            /\ s.text = Append(r.text, Unescaped(c)) /\ Tidy(r, c)
        BY <1>2, <2>2, <3>3
      <4>3. r.place = "key" => s.text = Append(r.text, c)
        BY <2>4, <2>5, <4>2, UnescapedMark DEF Tidy
      <4>4. r.place = "key" => current' = s.text
        BY <2>3, <2>5, <4>1, <4>3
      <4> QED
        BY <1>0, <1>3, <2>2, <2>4, <2>5, <3>2, <4>1, <4>2, <4>4 DEF Inside
    <3>4. CASE ~ r.escaped /\ c = Quote
      <4>1. /\ ~ in_string' /\ ~ escape'
            /\ keys' = keys \cup (IF ColonAhead(i + 1) THEN {current} ELSE {})
        BY <2>4, <2>5, <3>1, <3>4, ScanText
      <4>2. /\ ~ s.escaped /\ s.text = r.text
            /\ s.place = IF r.place = "key" THEN "colon" ELSE "after"
        BY <2>2, <3>4 DEF Quote, Backslash
      <4>3. r.place = "key" => current = s.text
        BY <2>3, <2>5, <4>2
      <4>4. s.place = "colon" =>
               keys' = s.names \cup (IF ColonAhead(i + 1) THEN {s.text} ELSE {})
        BY <2>2, <2>4, <4>1, <4>2, <4>3
      <4>5. s.place # "colon" => s.place = "after" /\ (ColonAhead(i + 1) \/ keys' = s.names)
        BY <2>2, <2>4, <4>1, <4>2
      <4> QED
        BY <1>0, <1>1, <2>2, <2>4, <2>5, <3>2, <4>1, <4>2, <4>4, <4>5 DEF Inside
    <3>5. CASE ~ r.escaped /\ c = Backslash
      <4>1. in_string' /\ escape' /\ keys' = keys /\ current' = current
        BY <2>4, <2>5, <3>1, <3>5, ScanText
      <4>2. s.escaped /\ s.place = r.place /\ s.text = r.text
        BY <2>2, <3>5 DEF Quote, Backslash
      <4>3. r.place = "key" => current' = s.text
        BY <2>3, <2>5, <4>1, <4>2
      <4> QED
        BY <1>0, <1>3, <2>2, <2>4, <2>5, <3>2, <4>1, <4>2, <4>3 DEF Inside
    <3>6. CASE ~ r.escaped /\ c \notin {Quote, Backslash}
      <4>1. /\ in_string' /\ ~ escape' /\ keys' = keys
            /\ current' = Append(current, c)
        BY <2>4, <2>5, <3>1, <3>6, ScanText
      <4>2. ~ s.escaped /\ s.place = r.place /\ s.text = Append(r.text, c)
        BY <2>2, <3>6
      <4>3. r.place = "key" => current' = s.text
        BY <2>3, <2>5, <4>1, <4>2
      <4> QED
        BY <1>0, <1>3, <2>2, <2>4, <2>5, <3>2, <4>1, <4>2, <4>3 DEF Inside
    <3> QED
      BY <3>3, <3>4, <3>5, <3>6
  <2>6. CASE depth # 1
    <3>1. ~ escape
      BY <2>3, <2>6
    <3>2. /\ depth' = depth /\ ~ escape' /\ keys' = keys
          /\ in_string' <=> c # Quote
      BY <2>4, <2>6, <3>1, ScanInner
    <3>3. CASE c = Quote
      <4>1. ~ r.escaped
        BY <1>2, <2>2, <2>4, <2>6, <3>3 DEF Tidy, Quote, Backslash
      <4>2. s.place \in {"colon", "after"}
        BY <2>2, <3>3, <4>1 DEF Quote, Backslash
      <4> QED
        BY <1>0, <2>2, <2>4, <2>6, <3>2, <3>3, <4>2 DEF Inside
    <3>4. CASE c # Quote
      <4>1. s.place = r.place
        BY <2>2, <3>4
      <4> QED
        BY <1>0, <1>3, <2>2, <2>4, <2>6, <3>2, <3>4, <4>1 DEF Inside
    <3> QED
      BY <3>3, <3>4
  <2> QED
    BY <2>5, <2>6
<1>4. CASE ~ Inside(r) /\ c \in White
  <2>1. s = r
    BY <1>4 DEF ReadJson
  <2>2. Agree
    BY <1>2, <2>1 DEF LockStep, Followed
  <2>3. ~ in_string /\ ~ escape
    BY <1>4, <2>2 DEF ScannerOK
  <2>4. c \in Space /\ c \notin {"{", "}", Quote}
    BY <1>4 DEF White, Space, Quote
  <2>5. /\ ~ in_string' /\ ~ escape' /\ depth' = depth
        /\ keys' = keys /\ current' = current
    BY <2>3, <2>4, ScanOutside
  <2>6. ColonAhead(i) <=> ColonAhead(i + 1)
    BY <1>0, <2>4, ColonAt DEF Typed
  <2>7. ~ r.escaped \/ depth # 1
    BY <2>2, <2>3
  <2> QED
    BY <1>0, <1>1, <1>4, <2>1, <2>2, <2>5, <2>6, <2>7 DEF Inside
<1>5. CASE ~ Inside(r) /\ c \notin White
  <2>1. s = ReadMark(r, c)
    BY <1>5 DEF ReadJson
  <2>0. MarkEffect(r, c, s)
    BY <1>0, <1>5, <2>1, ReadMarkEffect
  <2>2. /\ s.tidy = r.tidy /\ s.escaped = r.escaped
        /\ r.place # "invalid"
        /\ \/ /\ c = "{" /\ s.place = "first"
              /\ r.place \in {"start", "value", "list"}
              /\ Len(s.open) = Len(r.open) + 1 /\ s.names = r.names
           \/ /\ c = "}" /\ s.place \in {"done", "after"}
              /\ r.place \in {"first", "after"}
              /\ Len(s.open) = Len(r.open) - 1 /\ s.names = r.names
           \/ /\ c = Quote /\ s.place \in {"key", "string"} /\ s.text = <<>>
              /\ r.place \in {"first", "member", "value", "list"}
              /\ Len(s.open) = Len(r.open) /\ s.names = r.names
           \/ /\ c = ":" /\ s.place = "value"
              /\ r.place = "colon"
              /\ Len(s.open) = Len(r.open)
              /\ s.names = r.names \cup (IF Len(r.open) = 1 THEN {r.text} ELSE {})
           \/ /\ c \notin {"{", "}", Quote, ":"} \cup Space
              /\ s.place \in {"list", "value", "member", "after"}
              /\ r.place \in {"value", "list", "after"}
              /\ Len(s.open) = Len(r.open) /\ s.names = r.names
    BY <1>2, <2>0 DEF MarkEffect
  <2>3. Agree
    BY <1>2, <2>2 DEF LockStep, Followed
  <2>4. ~ in_string /\ ~ escape /\ ~ r.escaped /\ current = <<>>
    BY <1>0, <1>5, <2>2, <2>3 DEF ScannerOK, Shape, Inside
  <2>5. /\ ~ escape' /\ keys' = keys /\ current' = <<>>
        /\ in_string' <=> c = Quote
        /\ c = "{" => depth' = depth + 1
        /\ c = "}" => depth' = depth - 1
        /\ c \notin {"{", "}"} => depth' = depth
    BY <2>4, ScanOutside
  \* In the place of a colon there is one; in that after a value there is none.
  <2>6. keys = s.names
    <3>1. CASE r.place \in {"start", "value", "list", "first", "member"}
      BY <2>2, <2>3, <3>1
    <3>2. CASE r.place = "after"
      <4>1. c \notin Space \cup {":"} /\ s.names = r.names
        BY <2>2, <3>2 DEF Space, Quote
      <4>2. ~ ColonAhead(i)
        BY <1>0, <4>1, ColonAt DEF Typed
      <4> QED
        BY <2>3, <3>2, <4>1, <4>2
    <3>3. CASE r.place = "colon"
      <4>1. /\ c = ":"
            /\ s.names = r.names \cup (IF Len(r.open) = 1 THEN {r.text} ELSE {})
        BY <2>2, <3>3
      <4>2. ColonAhead(i)
        BY <1>0, <4>1, ColonAt DEF Typed
      <4>3. CASE depth = 1
        BY <2>3, <3>3, <4>1, <4>2, <4>3
      <4>4. CASE depth # 1
        BY <2>3, <3>3, <4>1, <4>4
      <4> QED
        BY <4>3, <4>4
    <3> QED
      BY <2>2, <3>1, <3>2, <3>3
  <2>7. depth' = Len(s.open)
    BY <2>2, <2>3, <2>5 DEF Quote
  <2>8. c = Quote <=> Inside(s)
    BY <2>2 DEF Inside, Quote
  <2>9. s.place # "colon" /\ (s.place = "key" => current' = s.text)
    BY <2>2, <2>5
  <2> QED
    BY <1>0, <2>2, <2>4, <2>5, <2>6, <2>7, <2>8, <2>9 DEF Inside
<1> QED
  BY <1>3, <1>4, <1>5 DEF Inside
-----------------------------------------------------------------------------
(* The whole handler.                                                       *)

\* The invariant holds at the start.
LEMMA SInvInit == Init => SInv
<1> SUFFICES ASSUME Init PROVE SInv
  OBVIOUS
<1>1. /\ reader \in Reader /\ Shape(reader) /\ reader.place = "start"
      /\ reader.open = <<>> /\ ~ reader.escaped /\ reader.names = {}
  BY NewReaderType DEF Init, NewReader
<1>2. body \in Seq(STRING) /\ Len(body) \in Nat
  BY BodiesAssumption DEF Init
<1>3. Typed
  <2>1. <<>> \in Seq(Range(body))
    OBVIOUS
  <2> QED
    BY <1>1, <1>2, <2>1 DEF Init, Typed
<1>4. Gathering /\ ScannerOK
  BY <1>2 DEF Init, Gathering, ScannerOK, Places
<1>5. LockStep
  BY <1>1 DEF Init, LockStep, Inside
<1>6. Passed
  BY <1>1 DEF Init, Passed
<1>7. Verdict
  BY <1>1 DEF Init, Verdict, WellRead
<1> QED
  BY <1>3, <1>4, <1>5, <1>6, <1>7 DEF SInv

\* Before and after the scan nothing of it changes.
LEMMA QuietStep ==
    ASSUME Typed, Gathering, ScannerOK, LockStep,
           UNCHANGED <<given, scanner, reader>>, pc' \in Places
    PROVE  Typed' /\ Gathering' /\ ScannerOK' /\ LockStep'
<1>1. UNCHANGED <<route, body, i, in_string, escape, depth, current, keys, reader>>
  BY DEF given, scanner
<1>2. Typed' /\ Gathering'
  BY <1>1 DEF Typed, Gathering, Shape
<1>3. ScannerOK'
  BY <1>1 DEF ScannerOK
<1>4. LockStep'
  BY <1>1 DEF LockStep, Followed, Inside, ColonAhead
<1> QED
  BY <1>2, <1>3, <1>4

\* At the end of a tidy document the scanner has found its names.
LEMMA AllNames ==
    ASSUME Typed, LockStep, ScannerOK, WellRead
    PROVE  keys = reader.names /\ ~ in_string /\ depth = 0
BY DEF LockStep, Followed, WellRead, Inside, Typed, Shape

\* The tests of the two loops over the fields, as questions about sets of names.
LEMMA RequiredKeys ==
    ASSUME Typed
    PROVE  /\ Missing = {} <=> RequiredNames \subseteq keys
           /\ \A k \in Missing : <<Required[route][k]>> \in RequiredNames \ keys
           /\ Unknown = keys \ AllowedNames
<1>1. RequiredNames = {<<Required[route][k]>> : k \in DOMAIN Required[route]}
  BY DEF RequiredNames, Range
<1>2. Unknown = keys \ AllowedNames
  BY DEF Unknown, AllowedNames, RequiredNames
<1> QED
  BY <1>1, <1>2 DEF Missing

\* Every step of the handler keeps the invariant.
LEMMA SInvStep == SInv /\ [Next]_vars => SInv'
<1> SUFFICES ASSUME SInv, [Next]_vars PROVE SInv'
  OBVIOUS
<1>0. Typed /\ Gathering /\ ScannerOK /\ LockStep /\ Passed /\ Verdict
  BY DEF SInv
<1>1. CASE ScanCharacter
  <2>1. Typed' /\ Gathering' /\ ScannerOK' /\ LockStep'
    BY <1>0, <1>1, ScannerStep, LockStepStep
  <2>2. pc = "scan" /\ pc' = pc /\ body' = body
    BY <1>1, ScanEffect DEF given
  <2>3. Passed' /\ Verdict'
    BY <1>0, <2>2 DEF Passed, Verdict
  <2> QED
    BY <2>1, <2>3 DEF SInv
<1>2. ASSUME UNCHANGED <<given, scanner, reader>>, pc' \in Places,
             Passed', Verdict'
      PROVE  SInv'
  BY <1>0, <1>2, QuietStep DEF SInv
<1>3. UNCHANGED <<given, scanner, reader>> =>
          /\ UNCHANGED <<route, body, keys, reader>>
          /\ Missing' = Missing /\ Unknown' = Unknown /\ WellRead' = WellRead
          /\ RequiredNames' = RequiredNames /\ AllowedNames' = AllowedNames
  BY DEF given, scanner, Missing, Unknown, WellRead, RequiredNames, AllowedNames
<1>4. ASSUME NEW code, NEW field, NEW reason, Refuse(code, field, reason)
      PROVE  /\ UNCHANGED <<given, scanner, reader>>
             /\ pc' = "refused" /\ pc' \in Places
             /\ error' = [code |-> code, field |-> field, reason |-> reason]
             /\ Passed'
  BY <1>4 DEF Refuse, Places, Passed
<1>5. CASE CheckShape
  <2>1. reader.place = "start"
    BY <1>0, <1>5 DEF CheckShape, Passed
  <2>2. CASE Refuse("bad_request", <<"body">>, "invalid_shape")
    <3>1. Verdict'
      BY <1>3, <1>4, <2>1, <2>2 DEF Verdict, WellRead
    <3> QED
      BY <1>2, <1>4, <2>2, <3>1
  <2>3. CASE ContinueAt("size")
    <3>1. UNCHANGED <<given, scanner, reader>> /\ pc' = "size" /\ pc' \in Places
      BY <2>3 DEF ContinueAt, Places
    <3>2. Passed' /\ Verdict'
      BY <1>3, <2>1, <3>1 DEF Passed, Verdict
    <3> QED
      BY <1>2, <3>1, <3>2
  <2> QED
    BY <1>5, <2>2, <2>3 DEF CheckShape
<1>6. CASE CheckSize
  <2>1. reader.place = "start"
    BY <1>0, <1>6 DEF CheckSize, Passed
  <2>2. CASE Len(body) > MaxBody
    <3>1. Refuse("payload_too_large", <<"body">>, "too_large")
      BY <1>6, <2>2 DEF CheckSize
    <3>2. Verdict'
      BY <1>3, <1>4, <2>1, <2>2, <3>1 DEF Verdict, WellRead
    <3> QED
      BY <1>2, <1>4, <3>1, <3>2
  <2>3. CASE ~ (Len(body) > MaxBody)
    <3>1. UNCHANGED <<given, scanner, reader>> /\ pc' = "scan" /\ pc' \in Places
      BY <1>6, <2>3 DEF CheckSize, ContinueAt, Places
    <3>2. Len(body) <= MaxBody
      BY <1>0, <2>3, LimitsAssumption DEF Typed
    <3>3. Passed' /\ Verdict'
      BY <1>3, <3>1, <3>2 DEF Passed, Verdict
    <3> QED
      BY <1>2, <3>1, <3>3
  <2> QED
    BY <2>2, <2>3
<1>7. CASE EndScan
  <2>1. UNCHANGED <<given, scanner, reader>> /\ pc' = "fields" /\ pc' \in Places
    BY <1>7 DEF EndScan, ContinueAt, Places
  <2>2. Passed' /\ Verdict'
    BY <1>0, <1>3, <1>7, <2>1 DEF Passed, Verdict, EndScan
  <2> QED
    BY <1>2, <2>1, <2>2
\* From here on a tidy document's keys are its names.
<1>8. WellRead => keys = reader.names
  BY <1>0, AllNames
<1>9. pc \in {"fields", "model"} => ~ (Len(body) > MaxBody)
  BY <1>0, LimitsAssumption DEF Passed, Typed
<1>10. CASE RefuseMissing
  <2>1. PICK k \in Missing : Refuse("bad_request", <<Required[route][k]>>, "required")
    BY <1>10 DEF RefuseMissing
  <2>2. <<Required[route][k]>> \in RequiredNames \ keys
    BY <1>0, RequiredKeys
  <2>3. Verdict'
    BY <1>3, <1>4, <1>8, <1>9, <1>10, <2>1, <2>2 DEF Verdict, RefuseMissing
  <2> QED
    BY <1>2, <1>4, <2>1, <2>3
<1>11. CASE RefuseUnknown
  <2>1. PICK key \in Unknown : Refuse("bad_request", key, "unknown")
    BY <1>11 DEF RefuseUnknown
  <2>2. key \in keys \ AllowedNames /\ RequiredNames \subseteq keys
    BY <1>0, <1>11, RequiredKeys DEF RefuseUnknown
  <2>3. Verdict'
    BY <1>3, <1>4, <1>8, <1>9, <1>11, <2>1, <2>2 DEF Verdict, RefuseUnknown
  <2> QED
    BY <1>2, <1>4, <2>1, <2>3
<1>12. CASE AcceptFields
  <2>1. /\ UNCHANGED <<given, scanner, reader>> /\ pc' = "model" /\ pc' \in Places
        /\ Missing = {} /\ Unknown = {} /\ pc = "fields"
    BY <1>12 DEF AcceptFields, ContinueAt, Places
  <2>2. Passed' /\ Verdict'
    BY <1>0, <1>3, <2>1 DEF Passed, Verdict
  <2> QED
    BY <1>2, <2>1, <2>2
<1>13. pc = "model" => RequiredNames \subseteq keys /\ keys \subseteq AllowedNames
  BY <1>0, RequiredKeys DEF Passed
<1>14. CASE RefuseModel
  <2>1. pc = "model" /\ Refuse("bad_request", <<"modelId">>, "too_large")
    BY <1>14 DEF RefuseModel
  <2>2. Verdict'
    BY <1>3, <1>4, <1>8, <1>9, <1>13, <2>1 DEF Verdict
  <2> QED
    BY <1>2, <1>4, <2>1, <2>2
<1>15. CASE Accept
  <2>1. /\ UNCHANGED <<given, scanner, reader>> /\ pc' = "accepted" /\ pc' \in Places
        /\ pc = "model"
    BY <1>15 DEF Accept, Places
  <2>2. Passed'
    BY <1>0, <1>3, <2>1 DEF Passed
  <2>3. Len(body) <= MaxBody
    BY <1>0, <2>1 DEF Passed
  <2>4. Verdict'
    BY <1>3, <1>8, <1>13, <2>1, <2>3 DEF Verdict
  <2> QED
    BY <1>2, <2>1, <2>2, <2>4
<1>16. CASE Show
  <2>1. /\ UNCHANGED <<given, scanner, reader>> /\ pc' = "shown" /\ pc' \in Places
        /\ pc = "accepted"
    BY <1>16 DEF Show, Places
  <2>2. Passed' /\ Verdict'
    BY <1>0, <1>3, <2>1 DEF Passed, Verdict
  <2> QED
    BY <1>2, <2>1, <2>2
<1>17. CASE UNCHANGED vars
  <2>1. UNCHANGED <<given, scanner, reader>> /\ pc' = pc /\ error' = error
    BY <1>17 DEF vars
  <2>2. Passed' /\ Verdict' /\ pc' \in Places
    BY <1>0, <1>3, <2>1 DEF Passed, Verdict, ScannerOK
  <2> QED
    BY <1>2, <2>1, <2>2
<1> QED
  BY <1>1, <1>5, <1>6, <1>7, <1>10, <1>11, <1>12, <1>14, <1>15, <1>16, <1>17 DEF Next

\* In every reachable state the scanner is in step with the JSON reader.
THEOREM SubmitInvariance == Spec => []SInv
<1>1. SInv /\ [Next]_vars => SInv'
  BY SInvStep
<1> QED
  BY SInvInit, <1>1, PTL DEF Spec

\* On any body, JSON or not, the scanner keeps its types and carries neither an
\* escape nor text from one string into the next (routes.cpp 108-152).
THEOREM ScannerHolds == Spec => []ScannerOK
<1>1. SInv => ScannerOK
  BY DEF SInv
<1> QED
  BY SubmitInvariance, <1>1, PTL

\* On any tidy document the scanner finds exactly the names of the outermost
\* object (ExtractTopLevelKeys), whatever is nested in it and however it is spaced.
THEOREM KeysExactHolds == Spec => []KeysExact
<1>1. SInv => KeysExact
  BY AllNames DEF SInv, KeysExact
<1> QED
  BY SubmitInvariance, <1>1, PTL

\* The verdict of HandleSubmit on a tidy document is the right one for its members,
\* and names a member that is to blame.
THEOREM VerdictHolds == Spec => []Verdict
<1>1. SInv => Verdict
  BY DEF SInv
<1> QED
  BY SubmitInvariance, <1>1, PTL
=============================================================================
