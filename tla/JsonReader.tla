----------------------------- MODULE JsonReader -----------------------------
(****************************************************************************)
(* What a text means as JSON, one symbol at a time.  This models no code of *)
(* the host, which has no JSON parser: it is the measure of the texts the   *)
(* host takes and gives.                                                    *)
(*                                                                          *)
(* The reader knows its place in the text and, for each object it is inside *)
(* of, how many lists are open in it.  A symbol that is no mark of JSON is a*)
(* number or a literal.                                                     *)
(****************************************************************************)
EXTENDS JsonWriter

White == {" ", "LF", "CR", "HT"}
Control == DOMAIN Letter
Marks == {"{", "}", "[", "]", ":", ",", Quote, Backslash, "/"}
Scalar(c) == c \notin Marks \cup White \cup Control

Escapes == {Quote, Backslash, "/"} \cup {Letter[c] : c \in Control}
Unescaped(c) ==
    IF \E d \in Control : Letter[d] = c THEN CHOOSE d \in Control : Letter[d] = c ELSE c

ReaderPlaces ==
    {"start",           \* before the document
     "first", "member", \* where a key may come: in an empty object, after a comma
     "key", "colon",    \* in a key, after it
     "value", "list",   \* where a value may come; likewise in an empty list
     "string",          \* in a string that is no key
     "after",           \* after a value
     "done", "invalid"} \* after the document; the text is none

NewReader ==
    [place   |-> "start",
     open    |-> <<>>,  \* for each open object, how many lists are open in it
     escaped |-> FALSE, \* after a backslash in a string
     plain   |-> TRUE,  \* no backslash in this string so far
     text    |-> <<>>,  \* the string so far, or the last one
     name    |-> <<>>,  \* the last key of the outermost object
     names   |-> {},    \* all its keys
     fields  |-> {},    \* of its members that are plain strings, key and text
     strings |-> <<>>,  \* all strings, in their order
     tidy    |-> TRUE]  \* see Tidy

Lists(r) == r.open[Len(r.open)]
Goto(r, place) == [r EXCEPT !.place = place]
Inside(r) == r.place \in {"key", "string"}

\* Texts that can be read without knowing all of JSON: a string of an inner object
\* contains no quote, and a key of the outermost one no escape but that of a
\* character by itself.
Tidy(r, c) ==
    /\ Len(r.open) # 1 => c # Quote
    /\ Len(r.open) = 1 /\ r.place = "key" => c \in {Quote, Backslash, "/"}

EndString(r) ==
    [r EXCEPT !.place = IF r.place = "key" THEN "colon" ELSE "after",
              !.fields = IF r.place = "string" /\ r.plain /\ Len(r.open) = 1 /\ Lists(r) = 0
                           THEN @ \cup {<<r.name, r.text>>} ELSE @,
              !.strings = Append(@, r.text)]

ReadInside(r, c) ==
    CASE r.escaped /\ c \in Escapes ->
             [r EXCEPT !.escaped = FALSE, !.text = Append(@, Unescaped(c)),
                       !.tidy = @ /\ Tidy(r, c)]
      [] ~ r.escaped /\ c = Backslash -> [r EXCEPT !.escaped = TRUE, !.plain = FALSE]
      [] ~ r.escaped /\ c = Quote -> EndString(r)
      [] ~ r.escaped /\ c \notin {Backslash, Quote} \cup Control ->
             [r EXCEPT !.text = Append(@, c)]
      [] OTHER -> Goto(r, "invalid")

OpensObject(r, c) == c = "{" /\ r.place \in {"start", "value", "list"}
ClosesObject(r, c) ==
    c = "}" /\ r.place \in {"first", "after"} /\ Lists(r) = 0
OpensList(r, c) == c = "[" /\ r.place \in {"value", "list"}
ClosesList(r, c) == c = "]" /\ r.place \in {"list", "after"} /\ Lists(r) > 0
StartsKey(r, c) == c = Quote /\ r.place \in {"first", "member"}
StartsString(r, c) == c = Quote /\ r.place \in {"value", "list"}
GivesValue(r, c) == c = ":" /\ r.place = "colon"
Continues(r, c) == c = "," /\ r.place = "after"
IsScalar(r, c) == Scalar(c) /\ r.place \in {"value", "list"}

ReadMark(r, c) ==
    CASE OpensObject(r, c) -> [r EXCEPT !.place = "first", !.open = Append(@, 0)]
      [] ClosesObject(r, c) ->
             [r EXCEPT !.place = IF Len(r.open) = 1 THEN "done" ELSE "after",
                       !.open = Front(@)]
      [] OpensList(r, c) -> [r EXCEPT !.place = "list", !.open[Len(r.open)] = @ + 1]
      [] ClosesList(r, c) -> [r EXCEPT !.place = "after", !.open[Len(r.open)] = @ - 1]
      [] StartsKey(r, c) -> [r EXCEPT !.place = "key", !.plain = TRUE, !.text = <<>>]
      [] StartsString(r, c) -> [r EXCEPT !.place = "string", !.plain = TRUE, !.text = <<>>]
      [] GivesValue(r, c) ->
             IF Len(r.open) = 1
               THEN [r EXCEPT !.place = "value", !.name = r.text, !.names = @ \cup {r.text}]
               ELSE Goto(r, "value")
      [] Continues(r, c) -> Goto(r, IF Lists(r) > 0 THEN "value" ELSE "member")
      [] IsScalar(r, c) -> Goto(r, "after")
      [] OTHER -> Goto(r, "invalid")

ReadJson(r, c) ==
    CASE Inside(r) -> ReadInside(r, c)
      [] ~ Inside(r) /\ c \in White -> r
      [] OTHER -> ReadMark(r, c)

\* The reader r after a text.
ReadFrom(r, text) ==
    LET read[n \in 0 .. Len(text)] ==
            IF n = 0 THEN r ELSE ReadJson(read[n - 1], text[n])
    IN  read[Len(text)]

ReadAll(text) == ReadFrom(NewReader, text)
=============================================================================
