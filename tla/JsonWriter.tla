----------------------------- MODULE JsonWriter -----------------------------
(****************************************************************************)
(* The writer of every response body: JsonValue of                          *)
(* src/server/json_writer.cpp, with the envelopes of routes.cpp and         *)
(* src/http/error_envelopes.cpp that are built with it.                     *)
(*                                                                          *)
(* A text is a sequence of symbols.  Characters that mean something to JSON *)
(* are symbols of their own, any other run of characters (a name, a number) *)
(* is one symbol.  Bytes of 0x80 and above are copied as they are           *)
(* (json_writer.cpp:72) and belong to such runs; bytes that are not valid   *)
(* UTF-8, of which the host makes no valid JSON text either, are not in the *)
(* alphabet.                                                                *)
(****************************************************************************)
EXTENDS Naturals, SequencesExt

Quote == "\""
Backslash == "\\"

\* Control characters, by what follows the backslash.
Letter == [LF |-> "n", CR |-> "r", HT |-> "t", BS |-> "b", FF |-> "f",
           VT |-> "u000b", US |-> "u001f"]
-----------------------------------------------------------------------------
Number(symbol) == [type |-> "number", scalar |-> <<symbol>>]
String(text) == [type |-> "string", scalar |-> text]
Bool(symbol) == [type |-> "bool", scalar |-> <<symbol>>]
Object == [type |-> "object", object |-> <<>>]

\* Mutant: a quote in a value is written as it is.
EscapeSymbolRaw(c) ==
    IF c = Backslash THEN <<Backslash, c>>
    ELSE IF c \in DOMAIN Letter THEN <<Backslash, Letter[c]>> ELSE <<c>>

EscapeSymbol(c) ==
    IF c \in {Quote, Backslash} THEN <<Backslash, c>>
    ELSE IF c \in DOMAIN Letter THEN <<Backslash, Letter[c]>> ELSE <<c>>

Escape(text) == FlattenSeq([i \in DOMAIN text |-> EscapeSymbol(text[i])])

Quoted(text) == <<Quote>> \o Escape(text) \o <<Quote>>

\* The keys the host writes, in the order of std::map.
KeyOrder ==
    <<"code", "createdTick", "details", "error", "field", "job", "jobId", "message",
      "modelId", "ok", "reason", "requestId", "requestType", "result", "status",
      "templateId", "toolId">>

KeyAndValue(key, text) == Quoted(<<key>>) \o <<":">> \o text

\* The members of an object, a comma before every one but the first.
Member(object, n) ==
    IF KeyOrder[n] \notin DOMAIN object THEN <<>>
    ELSE (IF \E k \in 1 .. n - 1 : KeyOrder[k] \in DOMAIN object THEN <<",">> ELSE <<>>)
             \o KeyAndValue(KeyOrder[n], object[KeyOrder[n]])

\* An object owns its members and nothing changes one after it was set, so it
\* holds each as the text that it is going to be written as.
Serialize(value) ==
    IF value.type = "string" THEN Quoted(value.scalar)
    ELSE IF value.type # "object" THEN value.scalar
    ELSE <<"{">> \o FlattenSeq([n \in DOMAIN KeyOrder |-> Member(value.object, n)]) \o <<"}">>

\* insert_or_assign, on a value that becomes an object if it is none.
Set(value, key, member) ==
    LET old == IF value.type = "object" THEN value.object ELSE <<>>
    IN  [type |-> "object",
         object |-> [k \in {key} \cup DOMAIN old |->
                        IF k = key THEN Serialize(member) ELSE old[k]]]
-----------------------------------------------------------------------------
Ok(result) == Set(Set(Object, "ok", Bool("true")), "result", result)

ErrorDetails(field, reason) ==
    Set(Set(Object, "field", String(field)), "reason", String(<<reason>>))

MakeErrorEnvelope(code, message, details) ==
    LET error == Set(Set(Set(Object, "code", String(<<code>>)),
                         "details", details),
                     "message", String(<<message>>))
    IN  Set(Set(Object, "error", error), "ok", Bool("false"))

JobToJson(job) ==
    LET member == [createdTick |-> Number(job.tick), jobId |-> String(<<job.id>>),
                   modelId |-> String(job.modelId), requestId |-> String(<<job.request>>),
                   requestType |-> String(<<job.route>>), status |-> String(<<job.status>>),
                   templateId |-> String(job.templateId), toolId |-> String(job.toolId)]
    IN  [type |-> "object", object |-> [key \in DOMAIN member |-> Serialize(member[key])]]
=============================================================================
