---------------------------- MODULE MCSubmitBody ----------------------------
(****************************************************************************)
(* Bodies for SubmitBody: every document of at most two members out of a    *)
(* few names and values and every complete tool request with a third member,*)
(* the latter and the short ones with and without white space, and some     *)
(* bodies that are no JSON.                                                 *)
(****************************************************************************)
EXTENDS SubmitBody

Str(text) == [kind |-> "string", text |-> text]
Lst(value) == [kind |-> "list", items |-> <<value, value>>]
Obj(key, value) == [kind |-> "object", members |-> << <<key, value>> >>]

Texts == {<<"v">>, <<"v", "v", "v">>, <<"v", Quote, "v">>, <<"v", Backslash>>,
          <<"{">>, <<"modelId">>}
Values ==
    {Str(text) : text \in Texts}
        \cup {[kind |-> "number"], Lst(Str(<<"v", Quote, ":">>)),
              Obj(<<"x">>, Str(<<"}">>)), Obj(<<"modelId">>, Str(<<"v">>)),
              Obj(<<"x">>, Str(<<"v", Quote>>)), Lst(Obj(<<"x">>, Str(<<"v">>)))}

Members == {<<"payload">>, <<"toolId">>, <<"modelId">>, <<"x", Quote>>} \X Values

MemberLists ==
    UNION {[1 .. n -> Members] : n \in 0 .. 2}
        \cup {<< <<<<"payload">>, Str(<<"v">>)>>, <<<<"toolId">>, Str(<<"t">>)>>, m>> :
                 m \in Members}
-----------------------------------------------------------------------------
(* How a client writes a document out.                                      *)
EncodeSymbol(c) == IF c \in {Quote, Backslash} THEN <<Backslash, c>> ELSE <<c>>
Written(text) ==
    <<Quote>> \o FlattenSeq([k \in DOMAIN text |-> EncodeSymbol(text[k])]) \o <<Quote>>

Joined(parts) ==
    FlattenSeq([k \in DOMAIN parts |-> (IF k = 1 THEN <<>> ELSE <<",">>) \o parts[k]])

RECURSIVE WrittenValue(_, _)
WrittenMembers(list, space) ==
    <<"{">> \o Joined([k \in DOMAIN list |->
                Written(list[k][1]) \o space \o <<":">> \o space
                    \o WrittenValue(list[k][2], space)]) \o <<"}">>
WrittenValue(value, space) ==
    CASE value.kind = "string" -> Written(value.text)
      [] value.kind = "number" -> <<"7">>
      [] value.kind = "list"   -> <<"[">> \o Joined([k \in DOMAIN value.items |->
                                     WrittenValue(value.items[k], space)]) \o <<"]">>
      [] value.kind = "object" -> WrittenMembers(value.members, space)

\* Does a string of an object inside the document contain a quote?
RECURSIVE HasQuote(_, _)
HasQuote(value, nested) ==
    CASE value.kind = "string" -> nested /\ Quote \in Range(value.text)
      [] value.kind = "number" -> FALSE
      [] value.kind = "list"   -> \E v \in Range(value.items) : HasQuote(v, nested)
      [] value.kind = "object" -> \E m \in Range(value.members) :
                                      Quote \in Range(m[1]) \/ HasQuote(m[2], TRUE)

Documents ==
    {WrittenMembers(list, <<>>) : list \in MemberLists}
        \cup {WrittenMembers(list, <<"HT">>) : list \in {m \in MemberLists : Len(m) # 2}}

\* The reader that SubmitBody measures the host by reads a document as it was meant.
ASSUME ReaderReads ==
    \A list \in MemberLists, space \in {<<>>, <<"HT">>} :
        LET read == ReadAll(WrittenMembers(list, space))
        IN  /\ read.place = "done"
            /\ read.names = {member[1] : member \in Range(list)}
            /\ read.fields = {<<member[1], member[2].text>> :
                   member \in {m \in Range(list) :
                       m[2].kind = "string"
                           /\ Range(m[2].text) \cap {Quote, Backslash} = {}}}
            /\ read.tidy <=> \A member \in Range(list) : ~ HasQuote(member[2], FALSE)

MCBodies ==
    Documents
        \cup {<<>>, <<"[", "]">>, <<"{", "7">>, <<"{", Quote, "}">>,
              <<"{", Quote, "payload", Quote, ":", "7", ",",
                Quote, "LF", "US", Quote, ":", "7", "}">>,
              <<"{", Quote, "payload", Quote, ":", Quote, "LF", Backslash, Quote, "}">>,
              <<"{", Quote, "payload", Quote, ":", "7", "}", "}">>,
              <<"{", Quote, "payload", Backslash, "n", Quote, " ", ":", "7", "}">>,
              <<"{", Quote, "payload", Quote, ":", Quote, "7", Quote, ":", "}">>}
MCDefaultModel == <<"m">>
=============================================================================
