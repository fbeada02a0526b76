----------------------------- MODULE SubmitBody -----------------------------
(****************************************************************************)
(* HandleSubmit of src/routes/routes.cpp up to the call of the provider:    *)
(* how the body of a submit is looked at, character by character, without   *)
(* a JSON parser.  One scanner collects the top-level keys, another reader  *)
(* searches the text for the value of a field; the two must agree with each *)
(* other and with what the client wrote.                                    *)
(*                                                                          *)
(* What the client wrote is what a JSON reader makes of the body.  It reads *)
(* along with the scanner, in the history variable reader, which no step of *)
(* the handler looks at.                                                    *)
(****************************************************************************)
EXTENDS JsonReader, FiniteSetsExt

CONSTANTS
    Routes,             \* of {"chat", "tool", "build"}
    Bodies,             \* the bodies that clients send, JSON or not
    MaxBody,            \* AppConfig::max_body_bytes, in symbols
    MaxField,           \* AppConfig::max_field_bytes, in symbols
    DefaultModel        \* AppConfig::default_model_id, a text

ASSUME RoutesAssumption == Routes \subseteq {"chat", "tool", "build"}
ASSUME BodiesAssumption == \A text \in Bodies : text \in Seq(STRING)
ASSUME LimitsAssumption == MaxBody \in Nat /\ MaxField \in Nat
ASSUME ModelAssumption == DefaultModel \in Seq(STRING)

VARIABLES
    route,              \* where the body was posted to
    body,               \* request.body
    pc,                 \* the check that comes next
    i, in_string, escape, depth, current, keys,     \* ExtractTopLevelKeys
    error,              \* code, field and reason of the refusal
    job,                \* the fields of the job that come from the body
    reply,              \* response.body
    reader              \* history: what the text before body[i] means

scanner == <<i, in_string, escape, depth, current, keys>>
given == <<route, body>>
vars == <<given, pc, scanner, error, job, reply, reader>>

Init ==
    /\ route \in Routes
    /\ body \in Bodies
    /\ pc = "shape"
    /\ i = 1
    /\ in_string = FALSE
    /\ escape = FALSE
    /\ depth = 0
    /\ current = <<>>
    /\ keys = {}
    /\ error = <<>>
    /\ job = <<>>
    /\ reply = <<>>
    /\ reader = NewReader
-----------------------------------------------------------------------------
Required == [chat  |-> <<"payload">>,
             tool  |-> <<"payload", "toolId">>,
             build |-> <<"language", "payload", "templateId">>]
Optional == {"modelId"}

\* Mutant: only the first required field is asked for.
MissingFirst == {k \in {1} : <<Required[route][k]>> \notin keys}

\* By their place in the order of the set.
Missing == {k \in DOMAIN Required[route] : <<Required[route][k]>> \notin keys}

Unknown == keys \ {<<field>> : field \in Range(Required[route]) \cup Optional}

\* WriteError: the handler ends here.  The message of the envelope is a fixed
\* text for each reason; the reason stands for it.
Refuse(code, field, reason) ==
    /\ pc' = "refused"
    /\ error' = [code |-> code, field |-> field, reason |-> reason]
    /\ reply' = Serialize(MakeErrorEnvelope(code, reason, ErrorDetails(field, reason)))
    /\ UNCHANGED <<given, scanner, job, reader>>

ContinueAt(place) ==
    /\ pc' = place
    /\ UNCHANGED <<given, scanner, error, job, reply, reader>>

CheckShape ==
    /\ pc = "shape"
    /\ IF body = <<>> \/ Head(body) # "{" \/ Last(body) # "}"
         THEN Refuse("bad_request", <<"body">>, "invalid_shape")
         ELSE ContinueAt("size")

CheckSize ==
    /\ pc = "size"
    /\ IF Len(body) > MaxBody
         THEN Refuse("payload_too_large", <<"body">>, "too_large")
         ELSE ContinueAt("scan")
-----------------------------------------------------------------------------
(* ExtractTopLevelKeys, one character at a time.                            *)

Advance ==
    /\ pc = "scan"
    /\ i' = i + 1
    /\ reader' = ReadJson(reader, body[i])
    /\ UNCHANGED <<given, pc, error, job, reply>>

OpenBrace ==
    /\ ~ in_string /\ body[i] = "{"
    /\ depth' = depth + 1
    /\ Advance
    /\ UNCHANGED <<in_string, escape, current, keys>>

CloseBrace ==
    /\ ~ in_string /\ body[i] = "}"
    /\ depth' = depth - 1
    /\ Advance
    /\ UNCHANGED <<in_string, escape, current, keys>>

\* Mutant: a space between key and colon hides the key.
ColonFollowsAtOnce == i < Len(body) /\ body[i + 1] = ":"

\* std::isspace.
Space == {" ", "LF", "VT", "FF", "CR", "HT"}

\* From place k on, after white space, a colon.
ColonAhead(k) ==
    \E j \in k .. Len(body) :
        body[j] = ":" /\ \A h \in k .. j - 1 : body[h] \in Space

ColonFollows == ColonAhead(i + 1)

\* Mutant: only a key's text is cleared.
ToggleStringKeepsText ==
    /\ body[i] = Quote /\ ~ escape
    /\ in_string' = ~ in_string
    /\ IF in_string /\ depth = 1 /\ ColonFollows
         THEN keys' = keys \cup {current} /\ current' = <<>>
         ELSE UNCHANGED <<keys, current>>
    /\ Advance
    /\ UNCHANGED <<escape, depth>>

ToggleString ==
    /\ body[i] = Quote /\ ~ escape
    /\ in_string' = ~ in_string
    /\ IF in_string /\ depth = 1
         THEN /\ keys' = keys \cup (IF ColonFollows THEN {current} ELSE {})
              /\ current' = <<>>
         ELSE UNCHANGED <<keys, current>>
    /\ Advance
    /\ UNCHANGED <<escape, depth>>

KeyText == in_string /\ depth = 1 /\ ~ (body[i] = Quote /\ ~ escape)

TakeEscaped ==
    /\ KeyText /\ escape
    /\ current' = Append(current, body[i])
    /\ escape' = FALSE
    /\ Advance
    /\ UNCHANGED <<in_string, depth, keys>>

StartEscape ==
    /\ KeyText /\ ~ escape /\ body[i] = Backslash
    /\ escape' = TRUE
    /\ Advance
    /\ UNCHANGED <<in_string, depth, current, keys>>

TakeCharacter ==
    /\ KeyText /\ ~ escape /\ body[i] # Backslash
    /\ current' = Append(current, body[i])
    /\ Advance
    /\ UNCHANGED <<in_string, escape, depth, keys>>

\* Outside strings, and inside those of nested objects, where a backslash means
\* nothing to the scanner.
SkipCharacter ==
    /\ ~ (in_string /\ depth = 1)
    /\ body[i] \notin (IF in_string THEN {Quote} ELSE {"{", "}", Quote})
    /\ Advance
    /\ UNCHANGED <<in_string, escape, depth, current, keys>>

ScanCharacter ==
    i <= Len(body) /\ ( \/ OpenBrace \/ CloseBrace \/ ToggleString \/ TakeEscaped
                        \/ StartEscape \/ TakeCharacter \/ SkipCharacter )

EndScan ==
    /\ pc = "scan"
    /\ i > Len(body)
    /\ ContinueAt("fields")
-----------------------------------------------------------------------------
RefuseMissing ==
    /\ pc = "fields"
    /\ \E k \in Missing :
          /\ \A other \in Missing : k <= other
          /\ Refuse("bad_request", <<Required[route][k]>>, "required")

\* Of several unknown keys the smallest is named.
RefuseUnknown ==
    /\ pc = "fields"
    /\ Missing = {}
    /\ \E key \in Unknown : Refuse("bad_request", key, "unknown")

AcceptFields ==
    /\ pc = "fields"
    /\ Missing = {} /\ Unknown = {}
    /\ ContinueAt("model")

\* std::string::find: the first place from a given one on, or 0.
Find(text, from) ==
    LET places == {k \in from .. Len(body) - Len(text) + 1 :
                       SubSeq(body, k, k + Len(text) - 1) = text}
    IN  IF places = {} THEN 0 ELSE Min(places)

\* The string that follows the key at the given place, which is 0 for none.
ValueAfter(at, default) ==
    LET colon  == IF at = 0 THEN 0 ELSE Find(<<":">>, at + 3)
        first  == IF colon = 0 THEN 0 ELSE Find(<<Quote>>, colon + 1)
        second == IF first = 0 THEN 0 ELSE Find(<<Quote>>, first + 1)
    IN  IF second = 0 THEN default ELSE SubSeq(body, first + 1, second - 1)

\* Mutant: std::string::rfind, the last mention of the key.
ExtractLastMentioned(key, default) ==
    LET places == {k \in 1 .. Len(body) - 2 : SubSeq(body, k, k + 2) = <<Quote, key, Quote>>}
    IN  ValueAfter(IF places = {} THEN 0 ELSE Max(places), default)

\* ExtractStringValue(...).value_or(default).
ExtractStringValue(key, default) == ValueAfter(Find(<<Quote, key, Quote>>, 1), default)

ModelId == ExtractStringValue("modelId", DefaultModel)

RefuseModel ==
    /\ pc = "model"
    /\ Len(ModelId) > MaxField
    /\ Refuse("bad_request", <<"modelId">>, "too_large")

\* The request is submitted, a job created and both ids returned.
Accept ==
    /\ pc = "model"
    /\ Len(ModelId) <= MaxField
    /\ pc' = "accepted"
    /\ job' = [id |-> "1", tick |-> "1", request |-> "req-000001", route |-> route,
               status |-> "WAITING", modelId |-> ModelId,
               toolId |-> ExtractStringValue("toolId", <<>>),
               templateId |-> ExtractStringValue("templateId", <<>>)]
    /\ reply' = Serialize(Ok(Set(Set(Object, "jobId", String(<<"1">>)),
                                 "requestId", String(<<"req-000001">>))))
    /\ UNCHANGED <<given, scanner, error, reader>>

\* A get of the job, which is complete by then.
Show ==
    /\ pc = "accepted"
    /\ pc' = "shown"
    /\ job' = [job EXCEPT !.status = "COMPLETE"]
    /\ reply' = Serialize(Ok(Set(Object, "job", JobToJson(job'))))
    /\ UNCHANGED <<given, scanner, error, reader>>

Next ==
    \/ CheckShape \/ CheckSize \/ ScanCharacter \/ EndScan
    \/ RefuseMissing \/ RefuseUnknown \/ AcceptFields
    \/ RefuseModel \/ Accept \/ Show

Spec == Init /\ [][Next]_vars
-----------------------------------------------------------------------------
Places == {"shape", "size", "scan", "fields", "model", "refused", "accepted", "shown"}

\* ScannerOK: the types of the scanner's variables, and that on any body, well
\* formed or not, it carries neither an escape nor text from one string into the
\* next.
ScannerOK ==
    /\ pc \in Places
    /\ i \in 1 .. Len(body) + 1
    /\ depth \in Int
    /\ keys \subseteq Seq(Range(body))
    /\ escape => in_string /\ depth = 1
    /\ ~ in_string => current = <<>>

\* The documents the scanner is made for, read to their end.
WellRead == reader.place = "done" /\ reader.tidy

\* KeysExact: at the end of the scan the keys are those that JSON gives the body's
\* outermost object, whatever its strings, lists and inner objects contain, unless
\* it is not tidy (see Tidy).
KeysExact ==
    pc = "fields" /\ WellRead => keys = reader.names /\ ~ in_string /\ depth = 0

RequiredNames == {<<field>> : field \in Range(Required[route])}
AllowedNames == RequiredNames \cup {<<field>> : field \in Optional}

\* Verdict: a tidy document is refused for a missing or an unknown field exactly
\* when it lacks a required member or, having all, has one that the route does not
\* know, and the refusal names such a member.  It is accepted only if neither is
\* the case.  A body of the right shape, tidy or not, is refused for its size exactly
\* when it is too large.
Verdict ==
    /\ pc = "accepted" => Len(body) <= MaxBody
    /\ pc = "refused" /\ error.reason # "invalid_shape" =>
          (error.code = "payload_too_large" <=> Len(body) > MaxBody)
    /\ WellRead =>
          /\ pc = "accepted" =>
                RequiredNames \subseteq reader.names /\ reader.names \subseteq AllowedNames
          /\ pc = "refused" =>
                /\ error.reason = "required" => error.field \in RequiredNames \ reader.names
                /\ error.reason = "unknown" =>
                      /\ RequiredNames \subseteq reader.names
                      /\ error.field \in reader.names \ AllowedNames
                /\ error.reason \notin {"required", "unknown"} =>
                      /\ error.reason = "too_large" /\ error.field = <<"modelId">>
                      /\ RequiredNames \subseteq reader.names
                      /\ reader.names \subseteq AllowedNames

Mentions(name) ==
    {k \in 1 .. Len(body) - 2 : SubSeq(body, k, k + 2) = <<Quote, name, Quote>>}

\* Where the scan has already come past the quoted name.
MentionsSoFar(name) == {k \in Mentions(name) : k + 2 < i}

\* FieldsRead: the first mention of a field decides what the job has for it.  Once
\* the scan has come past a member of the outermost object whose value is a plain
\* string, and has met the quoted name in its key only, what the host takes out of
\* the body is that value, whatever still follows, a second member of the same
\* name included; a field that the body does not mention has its default.  Of a
\* name that is mentioned before its member, or a value with an escape in it,
\* nothing is said.
FieldsRead ==
    \A name \in {"modelId", "toolId", "templateId"} :
        LET default == IF name = "modelId" THEN DefaultModel ELSE <<>>
            taken   == IF pc = "accepted" THEN job[name] ELSE ExtractStringValue(name, default)
        IN  /\ Mentions(name) = {} => taken = default
            /\ \A field \in reader.fields :
                  field[1] = <<name>> /\ Cardinality(MentionsSoFar(name)) = 1 => taken = field[2]

\* EnvelopeReadable: whatever the body contained, the answer is a JSON document in
\* which the client reads the refused field and the reason, or the fields of the
\* job, as the host has them: nothing the client sent breaks it.
EnvelopeReadable ==
    LET read == ReadAll(reply)
    IN  /\ pc = "refused" =>
              /\ read.place = "done"
              /\ read.strings = << <<"error">>, <<"code">>, <<error.code>>,
                                   <<"details">>, <<"field">>, error.field,
                                   <<"reason">>, <<error.reason>>,
                                   <<"message">>, <<error.reason>>, <<"ok">> >>
        /\ pc = "shown" =>
              /\ read.place = "done"
              /\ \A name \in {"modelId", "toolId", "templateId"} :
                    \E k \in DOMAIN read.strings :
                       read.strings[k] = <<name>> /\ read.strings[k + 1] = job[name]
=============================================================================
