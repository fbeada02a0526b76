--------------------------- MODULE EnvelopeProofs ---------------------------
(****************************************************************************)
(* The replies of HandleSubmit and HandleJobGet, for any body: what the     *)
(* writer makes of an object is told member by member (Tells), in the order *)
(* of the keys, as the list of strings that the reader finds in it.  A      *)
(* refusal is known string by string; of a job it is enough that each of    *)
(* its fields follows its name (Has).  What is read of a whole object is in *)
(* JsonTextProofs.                                                          *)
(****************************************************************************)
EXTENDS SubmitFieldsProofs, JsonTextProofs

\* What the host writes consists of: what it is sent, and words of its own.
Words ==
    {"bad_request", "payload_too_large", "body", "payload", "toolId", "templateId",
     "language", "modelId", "invalid_shape", "too_large", "required", "unknown",
     "chat", "tool", "build", "1", "req-000001", "WAITING", "COMPLETE", "true", "false"}
Signs == STRING \cup Words \cup Marks \cup Control \cup Escapes \cup Range(KeyOrder)

\* An object as a value.
ObjectOf(f) == [type |-> "object", object |-> f]

\* A member more.
With(f, key, text) == [k \in {key} \cup DOMAIN f |-> IF k = key THEN text ELSE f[k]]

\* Set on an object.
LEMMA SetMember ==
    ASSUME NEW f, NEW key, NEW member
    PROVE  Set(ObjectOf(f), key, member) = ObjectOf(With(f, key, Serialize(member)))
BY DEF Set, ObjectOf, With

\* All that the writer needs is among them.
LEMMA SignsAlphabet == Alphabet(Signs)
BY DEF Alphabet, Signs

\* No key comes twice.
LEMMA KeysDiffer == \A m, n \in 1 .. 17 : m # n => KeyOrder[m] # KeyOrder[n]
BY DEF KeyOrder

\* A key, and what its value consists of.
Entry(key, strings) == << <<key>> >> \o strings

\* One of the lists and a member more.
After(lists, key, M) == {pair[1] \o Entry(key, pair[2]) : pair \in lists \X M}

Nothing == {<<>>}

\* They are lists of texts.
LEMMA AfterMembers ==
    ASSUME NEW S, NEW key \in S, NEW lists \in SUBSET Seq(Seq(S)), NEW M \in SUBSET Seq(Seq(S))
    PROVE  /\ After(lists, key, M) \subseteq Seq(Seq(S))
           /\ \A list \in lists, more \in M : list \o Entry(key, more) \in After(lists, key, M)
<1>1. ASSUME NEW list \in lists, NEW more \in M
      PROVE  list \o Entry(key, more) \in Seq(Seq(S))
  <2>1. Entry(key, more) \in Seq(Seq(S))
    BY DEF Entry
  <2>2. \A x, y \in Seq(Seq(S)) : x \o y \in Seq(Seq(S))
    OBVIOUS
  <2> QED
    BY <2>1, <2>2, Zenon
<1>2. ASSUME NEW pair \in lists \X M
      PROVE  pair[1] \in lists /\ pair[2] \in M
  OBVIOUS
<1>3. ASSUME NEW list \in lists, NEW more \in M
      PROVE  list \o Entry(key, more) \in After(lists, key, M)
  <2>1. <<list, more>> \in lists \X M /\ <<list, more>>[1] = list /\ <<list, more>>[2] = more
    OBVIOUS
  <2> QED
    BY <2>1 DEF After
<1> QED
  BY <1>1, <1>2, <1>3 DEF After

\* The members of the object f have keys before the b-th one, and lists says what
\* its members consist of.
Tells(S, f, b, lists) ==
    /\ \E M, L : Recounts(S, f, M, L) /\ \A n \in b - 1 .. 17 : L[n] = lists
    /\ \A n \in b .. 17 : KeyOrder[n] \notin DOMAIN f

\* An empty object.
LEMMA TellsNothing ==
    ASSUME NEW S
    PROVE  Tells(S, <<>>, 1, Nothing)
<1> DEFINE L == [n \in 0 .. 17 |-> Nothing]
<1> DEFINE none == <<>>
<1>1. DOMAIN none = {}
  OBVIOUS
<1>2. Nothing \subseteq Seq(Seq(S)) /\ <<>> \in Nothing
  BY DEF Nothing
<1>3. \A n \in 0 .. 17 : L[n] = Nothing
  OBVIOUS
<1> HIDE DEF L
<1> HIDE DEF none
<1>4. Recounts(S, none, none, L)
  <2>1. 0 \in 0 .. 17
    OBVIOUS
  <2>2. <<>> \in L[0] /\ \A n \in 0 .. 17 : L[n] \subseteq Seq(Seq(S))
    BY <1>2, <1>3, <2>1, Zenon
  <2>3. ASSUME NEW n \in 1 .. 17, NEW strings \in L[n - 1]
        PROVE  KeyOrder[n] \notin DOMAIN none /\ strings \in L[n]
    <3>1. L[n - 1] = L[n]
      BY <1>3
    <3> QED
      BY <1>1, <3>1
  <2> QED
    BY <2>2, <2>3, Zenon DEF Recounts
<1>5. Tells(S, none, 1, Nothing)
  <2>1. \A n \in 1 - 1 .. 17 : L[n] = Nothing
    BY <1>3
  <2>2. \A n \in 1 .. 17 : KeyOrder[n] \notin DOMAIN none
    BY <1>1
  <2> QED
    BY <1>4, <2>1, <2>2, Zenon DEF Tells
<1> QED
  BY <1>5 DEF none

\* A member more, behind the others.
LEMMA TellsMore ==
    ASSUME NEW S, Alphabet(S), NEW f, NEW b \in 1 .. 18, NEW lists, Tells(S, f, b, lists),
           NEW c \in 1 .. 17, b <= c, NEW text, NEW B, Means(S, text, B)
    PROVE  Tells(S, With(f, KeyOrder[c], text), c + 1, After(lists, KeyOrder[c], B))
<1>1. PICK M, L : Recounts(S, f, M, L) /\ \A n \in b - 1 .. 17 : L[n] = lists
  BY DEF Tells
<1> DEFINE key == KeyOrder[c]
           g == With(f, key, text)
           more == After(lists, key, B)
           K == [n \in 0 .. 17 |-> IF n < c THEN L[n] ELSE more]
           N == [k \in {key} \cup DOMAIN f |-> IF k = key THEN B ELSE M[k]]
<1>2. /\ <<>> \in L[0] /\ \A n \in 0 .. 17 : L[n] \subseteq Seq(Seq(S))
      /\ key \in S
  BY <1>1, KeyNames DEF Recounts
<1>3. L[c - 1] = lists /\ L[17] = lists
  BY <1>1
<1>4. lists \in SUBSET Seq(Seq(S))
  BY <1>2, <1>3
<1>5. B \in SUBSET Seq(Seq(S))
  BY DEF Means
<1>6. /\ more \in SUBSET Seq(Seq(S))
      /\ \A list \in lists, m \in B : list \o (<< <<key>> >> \o m) \in more
  BY <1>2, <1>4, <1>5, AfterMembers DEF Entry
<1>7. /\ DOMAIN g = {key} \cup DOMAIN f
      /\ g[key] = text
      /\ \A k \in DOMAIN f : k # key => g[k] = f[k]
  BY DEF With
<1>8. N[key] = B /\ \A k \in DOMAIN f : k # key => N[k] = M[k]
  OBVIOUS
<1>9. \A n \in 1 .. 17 : n # c => KeyOrder[n] # key
  BY KeysDiffer
<1> HIDE DEF g, more, N
<1>10. /\ \A n \in 0 .. c - 1 : K[n] = L[n]
       /\ \A n \in c .. 17 : K[n] = more
  OBVIOUS
<1> HIDE DEF K
<1>11. <<>> \in K[0]
  BY <1>2, <1>10
<1>12. ASSUME NEW n \in 0 .. 17
       PROVE  K[n] \subseteq Seq(Seq(S))
  <2>1. CASE n < c
    <3>1. n \in 0 .. c - 1
      BY <2>1
    <3>2. K[n] = L[n] /\ L[n] \subseteq Seq(Seq(S))
      BY <1>2, <1>10, <3>1, Zenon
    <3> QED
      BY <3>2
  <2>2. CASE n >= c
    <3>1. K[n] = more
      BY <1>10, <2>2
    <3> QED
      BY <1>6, <3>1
  <2> QED
    BY <2>1, <2>2
<1>13. ASSUME NEW n \in 1 .. 17, NEW strings \in K[n - 1]
       PROVE  IF KeyOrder[n] \in DOMAIN g
                THEN /\ Means(S, g[KeyOrder[n]], N[KeyOrder[n]])
                     /\ \A m \in N[KeyOrder[n]] :
                            strings \o (<< <<KeyOrder[n]>> >> \o m) \in K[n]
                ELSE strings \in K[n]
  <2> HIDE DEF key
  <2>1. CASE n < c
    <3>1. K[n - 1] = L[n - 1] /\ K[n] = L[n] /\ KeyOrder[n] # key
      BY <1>9, <1>10, <2>1
    <3>2. strings \in L[n - 1]
      BY <3>1
    <3>3. IF KeyOrder[n] \in DOMAIN f
            THEN /\ Means(S, f[KeyOrder[n]], M[KeyOrder[n]])
                 /\ \A m \in M[KeyOrder[n]] :
                        strings \o (<< <<KeyOrder[n]>> >> \o m) \in L[n]
            ELSE strings \in L[n]
      BY <1>1, <3>2 DEF Recounts
    <3> QED
      BY <1>7, <1>8, <3>1, <3>3
  <2>2. CASE n = c
    <3>1. K[n - 1] = lists /\ K[n] = more /\ KeyOrder[n] = key
      BY <1>3, <1>10, <2>2 DEF key
    <3> QED
      BY <1>6, <1>7, <1>8, <3>1
  <2>3. CASE n > c
    <3>1. K[n - 1] = more /\ K[n] = more /\ KeyOrder[n] # key
      BY <1>9, <1>10, <2>3
    <3>2. KeyOrder[n] \notin DOMAIN f
      BY <2>3 DEF Tells
    <3> QED
      BY <1>7, <3>1, <3>2
  <2> QED
    BY <2>1, <2>2, <2>3
<1>14. Recounts(S, g, N, K)
  BY <1>11, <1>12, <1>13 DEF Recounts
<1>15. \A n \in c + 1 - 1 .. 17 : K[n] = more
  BY <1>10
<1>16. \A n \in c + 1 .. 17 : KeyOrder[n] \notin DOMAIN g
  <2> SUFFICES ASSUME NEW n \in c + 1 .. 17 PROVE KeyOrder[n] \notin DOMAIN g
    OBVIOUS
  <2>1. n \in b .. 17 /\ n \in 1 .. 17 /\ n # c
    OBVIOUS
  <2> QED
    BY <1>7, <1>9, <2>1 DEF Tells
<1> QED
  BY <1>14, <1>15, <1>16 DEF Tells, g, more

\* An object whose members are known, as a value and as a document.
LEMMA TellsMeans ==
    ASSUME NEW S, Alphabet(S), NEW f, NEW b \in 1 .. 18, NEW lists, Tells(S, f, b, lists)
    PROVE  /\ Means(S, Serialize(ObjectOf(f)), lists)
           /\ ReadAll(Serialize(ObjectOf(f))).place = "done"
           /\ ReadAll(Serialize(ObjectOf(f))).strings \in lists
<1>1. PICK M, L : Recounts(S, f, M, L) /\ \A n \in b - 1 .. 17 : L[n] = lists
  BY DEF Tells
<1>2. L[17] = lists
  BY <1>1
<1> DEFINE value == ObjectOf(f)
<1>3. value = [type |-> "object", object |-> f]
  BY DEF ObjectOf
<1> HIDE DEF value
<1>4. /\ Means(S, Serialize(value), L[17])
      /\ ReadAll(Serialize(value)).place = "done"
      /\ ReadAll(Serialize(value)).strings \in L[17]
  BY <1>1, <1>3, ObjectMeans, ObjectRead
<1> QED
  BY <1>2, <1>4 DEF value
-----------------------------------------------------------------------------
(* A list of strings, known string by string.                               *)

\* all is a list and a member more; g is an object and a member more.
Adds(all, list, key, more) == all = list \o Entry(key, more)
Extends(g, f, key, text) == g = With(f, key, text)

\* A list and a member more, string by string.
LEMMA AddedStrings ==
    ASSUME NEW T, NEW list \in Seq(T), NEW key, NEW name \in T, Single(name, key),
           NEW more \in Seq(T), NEW all, Adds(all, list, key, more)
    PROVE  /\ all \in Seq(T)
           /\ Len(all) = Len(list) + 1 + Len(more)
           /\ \A k \in 1 .. Len(list) : all[k] = list[k]
           /\ all[Len(list) + 1] = name
           /\ \A k \in 1 .. Len(more) : all[Len(list) + 1 + k] = more[k]
<1> DEFINE head == <<name>>
           entry == head \o more
<1>1. head \in Seq(T) /\ Len(head) = 1 /\ head[1] = name
  OBVIOUS
<1> HIDE DEF head
<1>2. /\ entry \in Seq(T) /\ Len(entry) = 1 + Len(more)
      /\ entry[1] = name
      /\ \A k \in 1 .. Len(more) : entry[1 + k] = more[k]
  <2>1. Len(more) \in Nat
    OBVIOUS
  <2>2. /\ entry \in Seq(T) /\ Len(entry) = Len(head) + Len(more)
        /\ \A k \in 1 .. Len(head) + Len(more) :
              entry[k] = IF k <= Len(head) THEN head[k] ELSE more[k - Len(head)]
    BY <1>1, ConcatProperties
  <2>3. \A k \in 1 .. Len(more) :
            1 + k \in 1 .. 1 + Len(more) /\ ~ (1 + k <= 1) /\ 1 + k - 1 = k
    BY <2>1
  <2>4. 1 \in 1 .. 1 + Len(more)
    BY <2>1
  <2> HIDE DEF entry
  <2> QED
    BY <1>1, <2>2, <2>3, <2>4
<1> HIDE DEF entry
<1>3. /\ list \o entry \in Seq(T) /\ Len(list \o entry) = Len(list) + Len(entry)
      /\ \A k \in 1 .. Len(list) + Len(entry) :
            (list \o entry)[k] = IF k <= Len(list) THEN list[k] ELSE entry[k - Len(list)]
  <2>1. entry \in Seq(T)
    BY <1>2
  <2> QED
    BY <2>1, ConcatProperties
<1>4. all = list \o entry
  BY DEF Adds, Entry, entry, head, Single
<1>5. /\ all \in Seq(T) /\ Len(all) = Len(list) + Len(entry)
      /\ \A k \in 1 .. Len(list) + Len(entry) :
            all[k] = IF k <= Len(list) THEN list[k] ELSE entry[k - Len(list)]
  BY <1>3, <1>4, Zenon
<1>6. Len(list) \in Nat /\ Len(more) \in Nat
  OBVIOUS
<1>7. \A k \in 1 .. Len(list) : all[k] = list[k]
  BY <1>2, <1>5, <1>6
<1>8. all[Len(list) + 1] = name
  <2>1. /\ Len(list) + 1 \in 1 .. Len(list) + Len(entry)
        /\ ~ (Len(list) + 1 <= Len(list)) /\ Len(list) + 1 - Len(list) = 1
    BY <1>2, <1>6
  <2>2. all[Len(list) + 1] = entry[1]
    BY <1>5, <2>1
  <2> QED
    BY <1>2, <2>2
<1>9. ASSUME NEW k \in 1 .. Len(more)
      PROVE  all[Len(list) + 1 + k] = more[k]
  <2>1. /\ Len(list) + 1 + k \in 1 .. Len(list) + Len(entry)
        /\ ~ (Len(list) + 1 + k <= Len(list)) /\ Len(list) + 1 + k - Len(list) = 1 + k
    BY <1>2, <1>6
  <2>2. all[Len(list) + 1 + k] = entry[1 + k]
    BY <1>5, <2>1
  <2> QED
    BY <1>2, <2>2
<1>10. all \in Seq(T) /\ Len(all) = Len(list) + 1 + Len(more)
  BY <1>2, <1>5, <1>6
<1> QED
  BY <1>7, <1>8, <1>9, <1>10

\* Lists that are known.
LEMMA AfterOne ==
    ASSUME NEW list, NEW key, NEW more, NEW all, Adds(all, list, key, more)
    PROVE  After({list}, key, {more}) = {all}
<1>1. {list} \X {more} = {<<list, more>>}
  OBVIOUS
<1>2. <<list, more>>[1] = list /\ <<list, more>>[2] = more
  OBVIOUS
<1>3. After({list}, key, {more}) = {list \o Entry(key, more)}
  BY <1>1, <1>2 DEF After
<1> QED
  BY <1>3 DEF Adds

\* A member more, whose strings are known.
LEMMA TellsOne ==
    ASSUME NEW S, Alphabet(S), NEW f, NEW b \in 1 .. 18, NEW list, Tells(S, f, b, {list}),
           NEW c \in 1 .. 17, b <= c, NEW key, KeyOrder[c] = key,
           NEW text, NEW more, Means(S, text, {more}),
           NEW g, Extends(g, f, key, text), NEW all, Adds(all, list, key, more)
    PROVE  Tells(S, g, c + 1, {all})
<1>1. Tells(S, With(f, KeyOrder[c], text), c + 1, After({list}, KeyOrder[c], {more}))
  BY TellsMore
<1>2. After({list}, KeyOrder[c], {more}) = {all}
  BY AfterOne
<1>3. With(f, KeyOrder[c], text) = g
  BY DEF Extends
<1> QED
  BY <1>1, <1>2, <1>3

\* A literal or a number as a member.
LEMMA ScalarSymbols == \A c \in {"true", "false", "1"} : Scalar(c)
<1> SUFFICES ASSUME NEW c \in {"true", "false", "1"} PROVE Scalar(c)
  OBVIOUS
<1>1. c \notin Marks
  BY Zenon DEF Marks, Quote, Backslash
<1>2. c \notin White
  BY Zenon DEF White
<1>3. c \notin Control
  BY Symbols
<1> QED
  BY <1>1, <1>2, <1>3 DEF Scalar

\* The places of the keys.
LEMMA KeyPlaces ==
    /\ KeyOrder[1] = "code" /\ KeyOrder[2] = "createdTick" /\ KeyOrder[3] = "details"
    /\ KeyOrder[4] = "error" /\ KeyOrder[5] = "field" /\ KeyOrder[6] = "job"
    /\ KeyOrder[7] = "jobId" /\ KeyOrder[8] = "message" /\ KeyOrder[9] = "modelId"
    /\ KeyOrder[10] = "ok" /\ KeyOrder[11] = "reason" /\ KeyOrder[12] = "requestId"
    /\ KeyOrder[13] = "requestType" /\ KeyOrder[14] = "result" /\ KeyOrder[15] = "status"
    /\ KeyOrder[16] = "templateId" /\ KeyOrder[17] = "toolId"
BY DEF KeyOrder

\* An object without members.
LEMMA EmptyObject == Object = ObjectOf(<<>>)
BY DEF Object, ObjectOf

\* all is list and more strings behind a key.
Continued(S, all, list, key, more) ==
    /\ all \in Seq(Seq(S))
    /\ Len(all) = Len(list) + 1 + Len(more)
    /\ \A k \in 1 .. Len(list) : all[k] = list[k]
    /\ all[Len(list) + 1] = <<key>>
    /\ \A k \in 1 .. Len(more) : all[Len(list) + 1 + k] = more[k]

\* A member more in an object, and its strings behind those of the others.
LEMMA TellsNext ==
    ASSUME NEW S, Alphabet(S), NEW f, NEW b \in 1 .. 18, NEW list \in Seq(Seq(S)),
           Tells(S, f, b, {list}),
           NEW c \in 1 .. 17, b <= c, NEW key, KeyOrder[c] = key,
           NEW text, NEW more \in Seq(Seq(S)), Means(S, text, {more})
    PROVE  \E all : /\ Tells(S, With(f, key, text), c + 1, {all})
                    /\ Continued(S, all, list, key, more)
<1> DEFINE all == list \o Entry(key, more)
           T == Seq(S)
           name == <<key>>
           g == With(f, key, text)
<1>1. Adds(all, list, key, more) /\ Single(name, key) /\ Extends(g, f, key, text)
  BY DEF Adds, Single, Extends
<1>2. key \in S
  BY KeyNames
<1>3. name \in T
  BY <1>2
<1>4. list \in Seq(T) /\ more \in Seq(T)
  OBVIOUS
<1> HIDE DEF all, T, name, g
<1>5. /\ all \in Seq(T)
      /\ Len(all) = Len(list) + 1 + Len(more)
      /\ \A k \in 1 .. Len(list) : all[k] = list[k]
      /\ all[Len(list) + 1] = name
      /\ \A k \in 1 .. Len(more) : all[Len(list) + 1 + k] = more[k]
  BY <1>1, <1>3, <1>4, AddedStrings
<1>6. Tells(S, g, c + 1, {all})
  BY <1>1, TellsOne
<1>7. Continued(S, all, list, key, more)
  BY <1>5, Zenon DEF Continued, T, name
<1> QED
  BY <1>6, <1>7 DEF g

\* all is list and a key and a text.
KeyAndText(S, all, list, key, text) ==
    /\ all \in Seq(Seq(S)) /\ Len(all) = Len(list) + 2
    /\ \A k \in 1 .. Len(list) : all[k] = list[k]
    /\ all[Len(list) + 1] = <<key>> /\ all[Len(list) + 2] = text

\* The same, with a string as the value of the member.
LEMMA TellsText ==
    ASSUME NEW S, Alphabet(S), NEW f, NEW b \in 1 .. 18, NEW list \in Seq(Seq(S)),
           Tells(S, f, b, {list}),
           NEW c \in 1 .. 17, b <= c, NEW key, KeyOrder[c] = key,
           NEW e, e = c + 1, NEW text \in Seq(S)
    PROVE  \E all : /\ Tells(S, With(f, key, Serialize(String(text))), e, {all})
                    /\ KeyAndText(S, all, list, key, text)
<1> DEFINE more == <<text>>
           value == Serialize(String(text))
<1>1. Means(S, value, {more})
  BY StringMeans
<1>2. more \in Seq(Seq(S)) /\ Len(more) = 1 /\ more[1] = text
  OBVIOUS
<1> HIDE DEF more, value
<1>3. PICK all : /\ Tells(S, With(f, key, value), c + 1, {all})
                 /\ Continued(S, all, list, key, more)
  BY <1>1, <1>2, TellsNext
<1>4. Len(list) \in Nat /\ Len(list) + 1 + 1 = Len(list) + 2
  OBVIOUS
<1>5. /\ all \in Seq(Seq(S)) /\ Len(all) = Len(list) + 1 + Len(more)
      /\ \A k \in 1 .. Len(list) : all[k] = list[k]
      /\ all[Len(list) + 1] = <<key>>
      /\ \A k \in 1 .. Len(more) : all[Len(list) + 1 + k] = more[k]
  BY <1>3 DEF Continued
<1>6. Len(all) = Len(list) + 2 /\ all[Len(list) + 2] = text
  BY <1>2, <1>4, <1>5
<1> QED
  BY <1>3, <1>5, <1>6 DEF value, KeyAndText
-----------------------------------------------------------------------------
(* Refusals.                                                                *)

\* The details of a refusal.
LEMMA DetailsTell ==
    ASSUME NEW S, Alphabet(S), NEW field \in Seq(S), NEW reason \in S
    PROVE  \E f, list :
              /\ ErrorDetails(field, reason) = ObjectOf(f)
              /\ Tells(S, f, 12, {list})
              /\ list \in Seq(Seq(S)) /\ Len(list) = 4
              /\ list[1] = <<"field">> /\ list[2] = field
              /\ list[3] = <<"reason">> /\ list[4] = <<reason>>
<1> DEFINE a0 == 1
           a == 5
           a1 == 6
           b == 11
           b1 == 12
           k == KeyOrder[a]
           m == KeyOrder[b]
           first == Serialize(String(field))
           text == <<reason>>
           second == Serialize(String(text))
           none == <<>>
           d == With(none, k, first)
           f == With(d, m, second)
<1>1. ErrorDetails(field, reason) = ObjectOf(f)
  BY EmptyObject, SetMember, KeyPlaces DEF ErrorDetails
<1>2. text \in Seq(S)
  OBVIOUS
<1>3. /\ Tells(S, none, a0, {none}) /\ none \in Seq(Seq(S)) /\ Len(none) = 0
      /\ a0 \in 1 .. 18
  BY TellsNothing DEF Nothing
<1>4. k = KeyOrder[a] /\ a \in 1 .. 17 /\ a0 <= a /\ a1 = a + 1
  OBVIOUS
<1>5. m = KeyOrder[b] /\ b \in 1 .. 17 /\ a1 \in 1 .. 18 /\ a1 <= b /\ b1 = b + 1
  OBVIOUS
<1> HIDE DEF none, k, m, text, a0, a, a1, b, b1
<1>6. PICK s : /\ Tells(S, d, a1, {s})
               /\ KeyAndText(S, s, none, k, field)
  BY <1>3, <1>4, TellsText
<1> HIDE DEF d
<1>7. PICK list : /\ Tells(S, f, b1, {list})
                  /\ KeyAndText(S, list, s, m, text)
  <2>1. s \in Seq(Seq(S))
    BY <1>6 DEF KeyAndText
  <2> QED
    BY <1>2, <1>5, <1>6, <2>1, TellsText
<1>8. Len(s) = 2 /\ s[1] = <<k>> /\ s[2] = field
  BY <1>3, <1>6 DEF KeyAndText
<1>9. /\ list \in Seq(Seq(S)) /\ Len(list) = 4
      /\ list[1] = s[1] /\ list[2] = s[2] /\ list[3] = <<m>> /\ list[4] = text
  BY <1>7, <1>8 DEF KeyAndText
<1>10. k = "field" /\ m = "reason" /\ b1 = 12
  BY KeyPlaces DEF k, m, a, b, b1
<1> QED
  BY <1>1, <1>7, <1>8, <1>9, <1>10 DEF text

\* An object as the value of a member.
LEMMA TellsInner ==
    ASSUME NEW S, Alphabet(S), NEW f, NEW b \in 1 .. 18, NEW list \in Seq(Seq(S)),
           Tells(S, f, b, {list}),
           NEW c \in 1 .. 17, b <= c, NEW key, KeyOrder[c] = key, NEW e, e = c + 1,
           NEW g, NEW d \in 1 .. 18, NEW more \in Seq(Seq(S)), Tells(S, g, d, {more})
    PROVE  \E all : /\ Tells(S, With(f, key, Serialize(ObjectOf(g))), e, {all})
                    /\ Continued(S, all, list, key, more)
<1>1. Means(S, Serialize(ObjectOf(g)), {more})
  BY TellsMeans
<1> QED
  BY <1>1, TellsNext

\* The error object of a refusal, and its strings.
ErrorObject(code, details, message) ==
    Set(Set(Set(Object, "code", String(<<code>>)), "details", details),
        "message", String(<<message>>))

ErrorStrings(list, code, field, reason) ==
    /\ Len(list) = 9
    /\ list[1] = <<"code">> /\ list[2] = <<code>>
    /\ list[3] = <<"details">> /\ list[4] = <<"field">> /\ list[5] = field
    /\ list[6] = <<"reason">> /\ list[7] = <<reason>>
    /\ list[8] = <<"message">> /\ list[9] = <<reason>>

\* An error object is read as its code, its details and its message.
LEMMA ErrorTells ==
    ASSUME NEW S, Alphabet(S), NEW code \in S, NEW field \in Seq(S), NEW reason \in S
    PROVE  \E g, list :
              /\ ErrorObject(code, ErrorDetails(field, reason), reason) = ObjectOf(g)
              /\ Tells(S, g, 9, {list})
              /\ list \in Seq(Seq(S)) /\ ErrorStrings(list, code, field, reason)
<1>1. PICK f, details :
          /\ ErrorDetails(field, reason) = ObjectOf(f)
          /\ Tells(S, f, 12, {details})
          /\ details \in Seq(Seq(S)) /\ Len(details) = 4
          /\ details[1] = <<"field">> /\ details[2] = field
          /\ details[3] = <<"reason">> /\ details[4] = <<reason>>
  BY DetailsTell
<1> DEFINE a0 == 1
           a == 1
           a1 == 2
           b == 3
           b1 == 4
           c == 8
           c1 == 9
           d == 12
           k == KeyOrder[a]
           m == KeyOrder[b]
           n == KeyOrder[c]
           none == <<>>
           first == <<code>>
           text == <<reason>>
           g1 == With(none, k, Serialize(String(first)))
           g2 == With(g1, m, Serialize(ObjectOf(f)))
           g3 == With(g2, n, Serialize(String(text)))
<1>2. ErrorObject(code, ErrorDetails(field, reason), reason) = ObjectOf(g3)
  BY <1>1, EmptyObject, SetMember, KeyPlaces DEF ErrorObject
<1>3. first \in Seq(S) /\ text \in Seq(S)
  OBVIOUS
<1>4. /\ Tells(S, none, a0, {none}) /\ none \in Seq(Seq(S)) /\ Len(none) = 0
      /\ a0 \in 1 .. 18
  BY TellsNothing DEF Nothing
<1>5. k = KeyOrder[a] /\ a \in 1 .. 17 /\ a0 <= a /\ a1 = a + 1
  OBVIOUS
<1>6. m = KeyOrder[b] /\ b \in 1 .. 17 /\ a1 \in 1 .. 18 /\ a1 <= b /\ b1 = b + 1
  OBVIOUS
<1>7. n = KeyOrder[c] /\ c \in 1 .. 17 /\ b1 \in 1 .. 18 /\ b1 <= c /\ c1 = c + 1
  OBVIOUS
<1>8. d \in 1 .. 18 /\ Tells(S, f, d, {details})
  BY <1>1
<1> HIDE DEF a0, a, a1, b, b1, c, c1, d, k, m, n, none, first, text
<1>9. PICK s : Tells(S, g1, a1, {s}) /\ KeyAndText(S, s, none, k, first)
  BY <1>3, <1>4, <1>5, TellsText
<1> HIDE DEF g1
<1>10. PICK t : Tells(S, g2, b1, {t}) /\ Continued(S, t, s, m, details)
  <2>1. s \in Seq(Seq(S)) /\ details \in Seq(Seq(S))
    BY <1>1, <1>9 DEF KeyAndText
  <2> QED
    BY <1>6, <1>8, <1>9, <2>1, TellsInner
<1> HIDE DEF g2
<1>11. PICK list : Tells(S, g3, c1, {list}) /\ KeyAndText(S, list, t, n, text)
  <2>1. t \in Seq(Seq(S))
    BY <1>10 DEF Continued
  <2> QED
    BY <1>3, <1>7, <1>10, <2>1, TellsText
<1> HIDE DEF g3
<1>12. Len(s) = 2 /\ s[1] = <<k>> /\ s[2] = first
  BY <1>4, <1>9 DEF KeyAndText
<1>13. /\ Len(t) = 7 /\ t[1] = s[1] /\ t[2] = s[2] /\ t[3] = <<m>>
       /\ t[4] = details[1] /\ t[5] = details[2] /\ t[6] = details[3] /\ t[7] = details[4]
  BY <1>1, <1>10, <1>12 DEF Continued
<1>14. /\ list \in Seq(Seq(S)) /\ Len(list) = 9
       /\ \A at \in 1 .. 7 : list[at] = t[at]
       /\ list[8] = <<n>> /\ list[9] = text
  BY <1>11, <1>13 DEF KeyAndText
<1>15. k = "code" /\ m = "details" /\ n = "message" /\ c1 = 9
  BY KeyPlaces DEF a, b, c, c1, k, m, n
<1>16. /\ list[1] = <<"code">> /\ list[2] = <<code>>
       /\ list[3] = <<"details">> /\ list[4] = <<"field">> /\ list[5] = field
       /\ list[6] = <<"reason">> /\ list[7] = <<reason>>
       /\ list[8] = <<"message">> /\ list[9] = <<reason>>
  <2>1. /\ list[1] = t[1] /\ list[2] = t[2] /\ list[3] = t[3] /\ list[4] = t[4]
        /\ list[5] = t[5] /\ list[6] = t[6] /\ list[7] = t[7]
    BY <1>14
  <2> QED
    BY <1>1, <1>12, <1>13, <1>14, <1>15, <2>1 DEF first, text
<1> QED
  BY <1>2, <1>11, <1>14, <1>15, <1>16, Zenon DEF ErrorStrings

\* A literal as the value of a member.
LEMMA TellsLiteral ==
    ASSUME NEW S, Alphabet(S), NEW f, NEW b \in 1 .. 18, NEW list \in Seq(Seq(S)),
           Tells(S, f, b, {list}),
           NEW c \in 1 .. 17, b <= c, NEW key, KeyOrder[c] = key, NEW e, e = c + 1,
           NEW symbol \in S, Scalar(symbol)
    PROVE  \E all : /\ Tells(S, With(f, key, <<symbol>>), e, {all})
                    /\ Continued(S, all, list, key, <<>>)
<1> DEFINE text == <<symbol>>
           none == <<>>
<1>1. Means(S, text, {none})
  BY ScalarMeans
<1>2. none \in Seq(Seq(S))
  OBVIOUS
<1> HIDE DEF text, none
<1>3. \E all : Tells(S, With(f, key, text), e, {all}) /\ Continued(S, all, list, key, none)
  BY <1>1, <1>2, TellsNext
<1> QED
  BY <1>3 DEF text, none

\* What the client reads in a refusal.
Refusal(code, field, reason) ==
    << <<"error">>, <<"code">>, <<code>>, <<"details">>, <<"field">>, field,
       <<"reason">>, <<reason>>, <<"message">>, <<reason>>, <<"ok">> >>

\* Eleven texts.
LEMMA Eleven ==
    ASSUME NEW T, NEW list \in Seq(T), Len(list) = 11
    PROVE  list = <<list[1], list[2], list[3], list[4], list[5], list[6],
                    list[7], list[8], list[9], list[10], list[11]>>
<1> DEFINE copy == <<list[1], list[2], list[3], list[4], list[5], list[6],
                     list[7], list[8], list[9], list[10], list[11]>>
<1>1. \A n \in 1 .. 11 : list[n] \in T
  BY ElementOfSeq
<1>2. copy \in Seq(T) /\ Len(copy) = 11
  <2>1. /\ list[1] \in T /\ list[2] \in T /\ list[3] \in T /\ list[4] \in T
        /\ list[5] \in T /\ list[6] \in T /\ list[7] \in T /\ list[8] \in T
        /\ list[9] \in T /\ list[10] \in T /\ list[11] \in T
    BY <1>1
  <2> QED
    BY <2>1
<1>3. ASSUME NEW n \in 1 .. 11 PROVE copy[n] = list[n]
  <2>1. \/ n = 1 \/ n = 2 \/ n = 3 \/ n = 4 \/ n = 5 \/ n = 6
        \/ n = 7 \/ n = 8 \/ n = 9 \/ n = 10 \/ n = 11
    OBVIOUS
  <2> QED
    BY <2>1
<1> HIDE DEF copy
<1>4. copy = list
  BY <1>2, <1>3, SeqEqual
<1> QED
  BY <1>4 DEF copy

\* Every refusal (WriteError with MakeErrorEnvelope) is a document, in which the
\* client reads what it is refused for and nothing else.
THEOREM RefusalRead ==
    ASSUME NEW S, Alphabet(S), "false" \in S,
           NEW code \in S, NEW field \in Seq(S), NEW reason \in S,
           NEW text, text = Serialize(MakeErrorEnvelope(code, reason, ErrorDetails(field, reason)))
    PROVE  /\ ReadAll(text).place = "done"
           /\ ReadAll(text).strings = Refusal(code, field, reason)
<1>1. PICK g, inner :
          /\ ErrorObject(code, ErrorDetails(field, reason), reason) = ObjectOf(g)
          /\ Tells(S, g, 9, {inner})
          /\ inner \in Seq(Seq(S)) /\ ErrorStrings(inner, code, field, reason)
  BY ErrorTells
<1> DEFINE a0 == 1
           a == 4
           a1 == 5
           b == 10
           b1 == 11
           d == 9
           k == KeyOrder[a]
           m == KeyOrder[b]
           none == <<>>
           no == "false"
           g1 == With(none, k, Serialize(ObjectOf(g)))
           g2 == With(g1, m, <<no>>)
<1>2. MakeErrorEnvelope(code, reason, ErrorDetails(field, reason)) = ObjectOf(g2)
  <2>1. MakeErrorEnvelope(code, reason, ErrorDetails(field, reason))
          = Set(Set(Object, "error", ObjectOf(g)), "ok", Bool(no))
    BY <1>1 DEF MakeErrorEnvelope, ErrorObject
  <2>2. Serialize(Bool(no)) = <<no>>
    BY DEF Serialize, Bool
  <2> QED
    BY <2>1, <2>2, EmptyObject, SetMember, KeyPlaces
<1>3. no \in S /\ Scalar(no)
  BY ScalarSymbols
<1>4. /\ Tells(S, none, a0, {none}) /\ none \in Seq(Seq(S)) /\ Len(none) = 0
      /\ a0 \in 1 .. 18
  BY TellsNothing DEF Nothing
<1>5. k = KeyOrder[a] /\ a \in 1 .. 17 /\ a0 <= a /\ a1 = a + 1
  OBVIOUS
<1>6. m = KeyOrder[b] /\ b \in 1 .. 17 /\ a1 \in 1 .. 18 /\ a1 <= b /\ b1 = b + 1
  OBVIOUS
<1>7. b1 \in 1 .. 18
  OBVIOUS
<1>8. d \in 1 .. 18 /\ Tells(S, g, d, {inner}) /\ inner \in Seq(Seq(S))
  BY <1>1
<1> HIDE DEF a0, a, a1, b, b1, d, k, m, none, no
<1>9. PICK s : Tells(S, g1, a1, {s}) /\ Continued(S, s, none, k, inner)
  BY <1>4, <1>5, <1>8, TellsInner
<1> HIDE DEF g1
<1>10. PICK list : Tells(S, g2, b1, {list}) /\ Continued(S, list, s, m, <<>>)
  <2>1. s \in Seq(Seq(S))
    BY <1>9 DEF Continued
  <2> QED
    BY <1>3, <1>6, <1>9, <2>1, TellsLiteral
<1> HIDE DEF g2
<1>11. /\ Len(s) = 10 /\ s[1] = <<k>>
       /\ s[2] = inner[1] /\ s[3] = inner[2] /\ s[4] = inner[3] /\ s[5] = inner[4]
       /\ s[6] = inner[5] /\ s[7] = inner[6] /\ s[8] = inner[7] /\ s[9] = inner[8]
       /\ s[10] = inner[9]
  BY <1>1, <1>4, <1>9 DEF Continued, ErrorStrings
<1>12. /\ list \in Seq(Seq(S)) /\ Len(list) = 11
       /\ \A at \in 1 .. 10 : list[at] = s[at]
       /\ list[11] = <<m>>
  BY <1>10, <1>11 DEF Continued
<1>13. k = "error" /\ m = "ok"
  BY KeyPlaces DEF k, m, a, b
<1>14. list = Refusal(code, field, reason)
  <2>1. /\ list[1] = s[1] /\ list[2] = s[2] /\ list[3] = s[3] /\ list[4] = s[4]
        /\ list[5] = s[5] /\ list[6] = s[6] /\ list[7] = s[7] /\ list[8] = s[8]
        /\ list[9] = s[9] /\ list[10] = s[10]
    BY <1>12
  <2>2. list = <<list[1], list[2], list[3], list[4], list[5], list[6],
                 list[7], list[8], list[9], list[10], list[11]>>
    BY <1>12, Eleven
  <2>3. /\ list[1] = <<"error">> /\ list[2] = <<"code">> /\ list[3] = <<code>>
        /\ list[4] = <<"details">> /\ list[5] = <<"field">> /\ list[6] = field
        /\ list[7] = <<"reason">> /\ list[8] = <<reason>> /\ list[9] = <<"message">>
        /\ list[10] = <<reason>> /\ list[11] = <<"ok">>
    BY <1>1, <1>11, <1>12, <1>13, <2>1 DEF ErrorStrings
  <2> QED
    BY <2>2, <2>3, Zenon DEF Refusal
<1>15. text = Serialize(ObjectOf(g2))
  BY <1>2
<1>16. /\ ReadAll(Serialize(ObjectOf(g2))).place = "done"
       /\ ReadAll(Serialize(ObjectOf(g2))).strings \in {list}
  BY <1>7, <1>10, TellsMeans
<1> QED
  BY <1>14, <1>15, <1>16
-----------------------------------------------------------------------------
(* Pairs of a name and a text.                                              *)

\* In a list of strings a name is followed by a text.
Holds(list, name, text) ==
    \E k \in 1 .. Len(list) - 1 : list[k] = <<name>> /\ list[k + 1] = text

\* It stays so when more strings follow, or come before.
LEMMA HoldsOn ==
    ASSUME NEW S, NEW list \in Seq(Seq(S)), NEW key, NEW more \in Seq(Seq(S)),
           NEW all, Continued(S, all, list, key, more), NEW name, NEW text
    PROVE  /\ Holds(list, name, text) => Holds(all, name, text)
           /\ Holds(more, name, text) => Holds(all, name, text)
<1>1. /\ Len(list) \in Nat /\ Len(more) \in Nat
      /\ Len(all) = Len(list) + 1 + Len(more)
      /\ \A k \in 1 .. Len(list) : all[k] = list[k]
      /\ \A k \in 1 .. Len(more) : all[Len(list) + 1 + k] = more[k]
  BY DEF Continued
<1>2. ASSUME Holds(list, name, text)
      PROVE  Holds(all, name, text)
  <2>1. PICK k \in 1 .. Len(list) - 1 : list[k] = <<name>> /\ list[k + 1] = text
    BY <1>2 DEF Holds
  <2>2. /\ k \in 1 .. Len(list) /\ k + 1 \in 1 .. Len(list)
        /\ k \in 1 .. Len(all) - 1
    BY <1>1
  <2>3. all[k] = list[k] /\ all[k + 1] = list[k + 1]
    BY <1>1, <2>2
  <2> QED
    BY <2>1, <2>2, <2>3, Zenon DEF Holds
<1>3. ASSUME Holds(more, name, text)
      PROVE  Holds(all, name, text)
  <2>1. PICK k \in 1 .. Len(more) - 1 : more[k] = <<name>> /\ more[k + 1] = text
    BY <1>3 DEF Holds
  <2> DEFINE at == Len(list) + 1 + k
  <2>2. k \in 1 .. Len(more) /\ k + 1 \in 1 .. Len(more)
    BY <1>1
  <2>3. all[Len(list) + 1 + k] = more[k] /\ all[Len(list) + 1 + (k + 1)] = more[k + 1]
    BY <1>1, <2>2
  <2>4. at \in 1 .. Len(all) - 1 /\ Len(list) + 1 + (k + 1) = at + 1
    BY <1>1
  <2>5. all[at] = <<name>> /\ all[at + 1] = text
    BY <2>1, <2>3, <2>4
  <2> HIDE DEF at
  <2> QED
    BY <2>4, <2>5, Zenon DEF Holds
<1> QED
  BY <1>2, <1>3

\* The same with a name and a text more at the end.
LEMMA HoldsNow ==
    ASSUME NEW S, NEW list \in Seq(Seq(S)), NEW key, NEW text,
           NEW all, KeyAndText(S, all, list, key, text), NEW name, NEW other
    PROVE  /\ Holds(all, key, text)
           /\ Holds(list, name, other) => Holds(all, name, other)
<1>1. /\ Len(list) \in Nat /\ Len(all) = Len(list) + 2
      /\ \A k \in 1 .. Len(list) : all[k] = list[k]
      /\ all[Len(list) + 1] = <<key>> /\ all[Len(list) + 2] = text
  BY DEF KeyAndText
<1>2. Holds(all, key, text)
  <2> DEFINE at == Len(list) + 1
  <2>1. at \in 1 .. Len(all) - 1 /\ at + 1 = Len(list) + 2
    BY <1>1
  <2>2. all[at] = <<key>> /\ all[at + 1] = text
    BY <1>1, <2>1
  <2> HIDE DEF at
  <2> QED
    BY <2>1, <2>2, Zenon DEF Holds
<1>3. ASSUME Holds(list, name, other)
      PROVE  Holds(all, name, other)
  <2>1. PICK k \in 1 .. Len(list) - 1 : list[k] = <<name>> /\ list[k + 1] = other
    BY <1>3 DEF Holds
  <2>2. /\ k \in 1 .. Len(list) /\ k + 1 \in 1 .. Len(list)
        /\ k \in 1 .. Len(all) - 1
    BY <1>1
  <2>3. all[k] = list[k] /\ all[k + 1] = list[k + 1]
    BY <1>1, <2>2
  <2> QED
    BY <2>1, <2>2, <2>3, Zenon DEF Holds
<1> QED
  BY <1>2, <1>3

\* A client reads all the pairs of a name and a text in P in the object f, whose keys
\* come before the b-th one.
Has(S, f, b, P) ==
    \E list \in Seq(Seq(S)) :
        /\ Tells(S, f, b, {list})
        /\ \A p \in P : Holds(list, p[1], p[2])

\* An object without members has no pairs.
LEMMA HasNothing ==
    ASSUME NEW S
    PROVE  Has(S, <<>>, 1, {})
<1> DEFINE none == <<>>
<1>1. Tells(S, none, 1, {none}) /\ none \in Seq(Seq(S))
  BY TellsNothing DEF Nothing
<1> HIDE DEF none
<1>2. Has(S, none, 1, {})
  BY <1>1 DEF Has
<1> QED
  BY <1>2 DEF none

\* With a member more there is a pair more to be read.
Gets(Q, P, key, text) == \A q \in Q : q \in P \/ (q[1] = key /\ q[2] = text)

\* A string as a member more.
LEMMA HasText ==
    ASSUME NEW S, Alphabet(S), NEW f, NEW b \in 1 .. 18, NEW P, Has(S, f, b, P),
           NEW c \in 1 .. 17, b <= c, NEW key, KeyOrder[c] = key, NEW e, e = c + 1,
           NEW text \in Seq(S), NEW Q, Gets(Q, P, key, text)
    PROVE  Has(S, With(f, key, Serialize(String(text))), e, Q)
<1>1. PICK list \in Seq(Seq(S)) :
          Tells(S, f, b, {list}) /\ \A p \in P : Holds(list, p[1], p[2])
  BY DEF Has
<1>2. PICK all : /\ Tells(S, With(f, key, Serialize(String(text))), e, {all})
                 /\ KeyAndText(S, all, list, key, text)
  BY <1>1, TellsText
<1>3. all \in Seq(Seq(S))
  BY <1>2 DEF KeyAndText
<1>4. ASSUME NEW q \in Q PROVE Holds(all, q[1], q[2])
  <2>1. CASE q \in P
    BY <1>1, <1>2, <2>1, HoldsNow
  <2>2. CASE q[1] = key /\ q[2] = text
    BY <1>1, <1>2, <2>2, HoldsNow
  <2> QED
    BY <2>1, <2>2 DEF Gets
<1> QED
  BY <1>2, <1>3, <1>4 DEF Has

\* A number or a literal as a member more.
LEMMA HasLiteral ==
    ASSUME NEW S, Alphabet(S), NEW f, NEW b \in 1 .. 18, NEW P, Has(S, f, b, P),
           NEW c \in 1 .. 17, b <= c, NEW key, KeyOrder[c] = key, NEW e, e = c + 1,
           NEW symbol \in S, Scalar(symbol)
    PROVE  Has(S, With(f, key, <<symbol>>), e, P)
<1> DEFINE none == <<>>
<1>1. PICK list \in Seq(Seq(S)) :
          Tells(S, f, b, {list}) /\ \A p \in P : Holds(list, p[1], p[2])
  BY DEF Has
<1>2. PICK all : /\ Tells(S, With(f, key, <<symbol>>), e, {all})
                 /\ Continued(S, all, list, key, none)
  BY <1>1, TellsLiteral
<1>3. none \in Seq(Seq(S))
  OBVIOUS
<1> HIDE DEF none
<1>4. all \in Seq(Seq(S))
  BY <1>2 DEF Continued
<1>5. ASSUME NEW p \in P PROVE Holds(all, p[1], p[2])
  <2>1. Holds(list, p[1], p[2]) => Holds(all, p[1], p[2])
    BY <1>2, <1>3, HoldsOn
  <2> QED
    BY <1>1, <2>1
<1> QED
  BY <1>2, <1>4, <1>5 DEF Has

\* An object as a member more: its pairs are read.
LEMMA HasObject ==
    ASSUME NEW S, Alphabet(S), NEW f, NEW b \in 1 .. 18, NEW P, Has(S, f, b, P),
           NEW c \in 1 .. 17, b <= c, NEW key, KeyOrder[c] = key, NEW e, e = c + 1,
           NEW g, NEW d \in 1 .. 18, NEW Q, Has(S, g, d, Q)
    PROVE  Has(S, With(f, key, Serialize(ObjectOf(g))), e, Q)
<1>1. PICK list \in Seq(Seq(S)) : Tells(S, f, b, {list})
  BY DEF Has
<1>2. PICK more \in Seq(Seq(S)) :
          Tells(S, g, d, {more}) /\ \A q \in Q : Holds(more, q[1], q[2])
  BY DEF Has
<1>3. PICK all : /\ Tells(S, With(f, key, Serialize(ObjectOf(g))), e, {all})
                 /\ Continued(S, all, list, key, more)
  BY <1>1, <1>2, TellsInner
<1>4. all \in Seq(Seq(S))
  BY <1>3 DEF Continued
<1>5. \A q \in Q : Holds(all, q[1], q[2])
  BY <1>2, <1>3, HoldsOn
<1> QED
  BY <1>3, <1>4, <1>5 DEF Has
-----------------------------------------------------------------------------
(* The object of a job.                                                     *)

\* The keys of a job's object.
JobKeys ==
    {"createdTick", "jobId", "modelId", "requestId", "requestType", "status",
     "templateId", "toolId"}

\* JobToJson sets the members one after the other.
LEMMA JobMembers ==
    ASSUME NEW shown
    PROVE  JobToJson(shown) = ObjectOf(
               With(With(With(With(With(With(With(With(<<>>,
                   "createdTick", <<shown.tick>>),
                   "jobId", Serialize(String(<<shown.id>>))),
                   "modelId", Serialize(String(shown.modelId))),
                   "requestId", Serialize(String(<<shown.request>>))),
                   "requestType", Serialize(String(<<shown.route>>))),
                   "status", Serialize(String(<<shown.status>>))),
                   "templateId", Serialize(String(shown.templateId))),
                   "toolId", Serialize(String(shown.toolId))))
<1> DEFINE t1 == <<shown.tick>>
           t2 == Serialize(String(<<shown.id>>))
           t3 == Serialize(String(shown.modelId))
           t4 == Serialize(String(<<shown.request>>))
           t5 == Serialize(String(<<shown.route>>))
           t6 == Serialize(String(<<shown.status>>))
           t7 == Serialize(String(shown.templateId))
           t8 == Serialize(String(shown.toolId))
           chain == With(With(With(With(With(With(With(With(<<>>,
                        "createdTick", t1), "jobId", t2), "modelId", t3), "requestId", t4),
                        "requestType", t5), "status", t6), "templateId", t7), "toolId", t8)
           table == [key \in JobKeys |->
                        CASE key = "createdTick" -> t1
                          [] key = "jobId" -> t2
                          [] key = "modelId" -> t3
                          [] key = "requestId" -> t4
                          [] key = "requestType" -> t5
                          [] key = "status" -> t6
                          [] key = "templateId" -> t7
                          [] key = "toolId" -> t8]
<1>1. Serialize(Number(shown.tick)) = t1
  BY DEF Serialize, Number
<1>2. JobToJson(shown) = ObjectOf(table)
  <2>1. \A text : Serialize(String(text)) = Quoted(text)
    BY DEF Serialize, String
  <2> QED
    BY <1>1, <2>1 DEF JobToJson, ObjectOf, JobKeys
<1> HIDE DEF t1, t2, t3, t4, t5, t6, t7, t8
<1>3. chain = table
  BY DEF With, JobKeys
<1>4. JobToJson(shown) = ObjectOf(chain)
  <2> HIDE DEF chain, table
  <2> QED
    BY <1>2, <1>3
<1> QED
  BY <1>4 DEF t1, t2, t3, t4, t5, t6, t7, t8

\* The fields of a job that come from the body.
JobPairs(shown) ==
    {<<"modelId", shown.modelId>>, <<"templateId", shown.templateId>>,
     <<"toolId", shown.toolId>>}

\* A job whose fields are texts.
Presentable(S, shown) ==
    /\ shown.tick \in S /\ Scalar(shown.tick)
    /\ <<shown.id>> \in Seq(S) /\ <<shown.request>> \in Seq(S)
    /\ <<shown.route>> \in Seq(S) /\ <<shown.status>> \in Seq(S)
    /\ shown.modelId \in Seq(S) /\ shown.templateId \in Seq(S) /\ shown.toolId \in Seq(S)

\* The object of a job has the pairs of the job.
LEMMA JobHas ==
    ASSUME NEW S, Alphabet(S), NEW shown, Presentable(S, shown)
    PROVE  \E g : JobToJson(shown) = ObjectOf(g) /\ Has(S, g, 18, JobPairs(shown))
<1> DEFINE a0 == 1   a1 == 2   b1 == 3
           a2 == 7   b2 == 8   a3 == 9   b3 == 10   a4 == 12   b4 == 13
           a5 == 13  b5 == 14  a6 == 15  b6 == 16   a7 == 16   b7 == 17
           a8 == 17  b8 == 18
           k1 == KeyOrder[a1]  k2 == KeyOrder[a2]  k3 == KeyOrder[a3]
           k4 == KeyOrder[a4]  k5 == KeyOrder[a5]  k6 == KeyOrder[a6]
           k7 == KeyOrder[a7]  k8 == KeyOrder[a8]
           tick == shown.tick
           t2 == <<shown.id>>
           t3 == shown.modelId
           t4 == <<shown.request>>
           t5 == <<shown.route>>
           t6 == <<shown.status>>
           t7 == shown.templateId
           t8 == shown.toolId
           none == <<>>
           g1 == With(none, k1, <<tick>>)
           g2 == With(g1, k2, Serialize(String(t2)))
           g3 == With(g2, k3, Serialize(String(t3)))
           g4 == With(g3, k4, Serialize(String(t4)))
           g5 == With(g4, k5, Serialize(String(t5)))
           g6 == With(g5, k6, Serialize(String(t6)))
           g7 == With(g6, k7, Serialize(String(t7)))
           g8 == With(g7, k8, Serialize(String(t8)))
           P == {}
           P3 == {<<k3, t3>>}
           P7 == {<<k3, t3>>, <<k7, t7>>}
           P8 == {<<k3, t3>>, <<k7, t7>>, <<k8, t8>>}
<1>1. /\ a1 \in 1 .. 17 /\ a0 <= a1 /\ b1 = a1 + 1
      /\ a2 \in 1 .. 17 /\ b1 <= a2 /\ b2 = a2 + 1
      /\ a3 \in 1 .. 17 /\ b2 <= a3 /\ b3 = a3 + 1
      /\ a4 \in 1 .. 17 /\ b3 <= a4 /\ b4 = a4 + 1
      /\ a5 \in 1 .. 17 /\ b4 <= a5 /\ b5 = a5 + 1
      /\ a6 \in 1 .. 17 /\ b5 <= a6 /\ b6 = a6 + 1
      /\ a7 \in 1 .. 17 /\ b6 <= a7 /\ b7 = a7 + 1
      /\ a8 \in 1 .. 17 /\ b7 <= a8 /\ b8 = a8 + 1
  OBVIOUS
<1>2. /\ a0 \in 1 .. 18 /\ b1 \in 1 .. 18 /\ b2 \in 1 .. 18 /\ b3 \in 1 .. 18
      /\ b4 \in 1 .. 18 /\ b5 \in 1 .. 18 /\ b6 \in 1 .. 18 /\ b7 \in 1 .. 18
  OBVIOUS
<1>3. /\ k1 = KeyOrder[a1] /\ k2 = KeyOrder[a2] /\ k3 = KeyOrder[a3] /\ k4 = KeyOrder[a4]
      /\ k5 = KeyOrder[a5] /\ k6 = KeyOrder[a6] /\ k7 = KeyOrder[a7] /\ k8 = KeyOrder[a8]
  OBVIOUS
<1>4. /\ tick \in S /\ Scalar(tick)
      /\ t2 \in Seq(S) /\ t3 \in Seq(S) /\ t4 \in Seq(S) /\ t5 \in Seq(S)
      /\ t6 \in Seq(S) /\ t7 \in Seq(S) /\ t8 \in Seq(S)
  BY DEF Presentable
<1>5. Has(S, none, a0, P)
  BY HasNothing
<1> HIDE DEF a0, a1, b1, a2, b2, a3, b3, a4, b4, a5, b5, a6, b6, a7, b7, a8, b8
<1> HIDE DEF k1, k2, k3, k4, k5, k6, k7, k8, tick, t2, t3, t4, t5, t6, t7, t8, none
<1>6. /\ Gets(P, P, k2, t2) /\ Gets(P3, P, k3, t3) /\ Gets(P3, P3, k4, t4)
      /\ Gets(P3, P3, k5, t5) /\ Gets(P3, P3, k6, t6) /\ Gets(P7, P3, k7, t7)
      /\ Gets(P8, P7, k8, t8)
  BY DEF Gets
<1> HIDE DEF P, P3, P7, P8
<1>7. Has(S, g1, b1, P)
  BY <1>1, <1>2, <1>3, <1>4, <1>5, HasLiteral
<1> HIDE DEF g1
<1>8. Has(S, g2, b2, P)
  BY <1>1, <1>2, <1>3, <1>4, <1>6, <1>7, HasText
<1> HIDE DEF g2
<1>9. Has(S, g3, b3, P3)
  BY <1>1, <1>2, <1>3, <1>4, <1>6, <1>8, HasText
<1> HIDE DEF g3
<1>10. Has(S, g4, b4, P3)
  BY <1>1, <1>2, <1>3, <1>4, <1>6, <1>9, HasText
<1> HIDE DEF g4
<1>11. Has(S, g5, b5, P3)
  BY <1>1, <1>2, <1>3, <1>4, <1>6, <1>10, HasText
<1> HIDE DEF g5
<1>12. Has(S, g6, b6, P3)
  BY <1>1, <1>2, <1>3, <1>4, <1>6, <1>11, HasText
<1> HIDE DEF g6
<1>13. Has(S, g7, b7, P7)
  BY <1>1, <1>2, <1>3, <1>4, <1>6, <1>12, HasText
<1> HIDE DEF g7
<1>14. Has(S, g8, b8, P8)
  BY <1>1, <1>2, <1>3, <1>4, <1>6, <1>13, HasText
<1>15. /\ k1 = "createdTick" /\ k2 = "jobId" /\ k3 = "modelId" /\ k4 = "requestId"
       /\ k5 = "requestType" /\ k6 = "status" /\ k7 = "templateId" /\ k8 = "toolId"
  BY KeyPlaces DEF k1, k2, k3, k4, k5, k6, k7, k8, a1, a2, a3, a4, a5, a6, a7, a8
<1>16. JobToJson(shown) = ObjectOf(g8)
  BY <1>15, JobMembers DEF g1, g2, g3, g4, g5, g6, g7, none, tick, t2, t3, t4, t5, t6, t7, t8
<1>17. P8 = JobPairs(shown) /\ b8 = 18
  BY <1>15 DEF P8, JobPairs, t3, t7, t8, b8
<1> QED
  BY <1>14, <1>16, <1>17
-----------------------------------------------------------------------------
(* The fields of a job.                                                     *)

\* The smallest of some natural numbers.
LEMMA MinOfNat ==
    ASSUME NEW T \in SUBSET Nat, T # {}
    PROVE  Min(T) \in T
<1>1. \E x \in T : \A y \in T : <<y, x>> \notin OpToRel(<, Nat)
  BY NatLessThanWellFounded, WFMin
<1>2. PICK x \in T : \A y \in T : ~ (y < x)
  BY <1>1 DEF OpToRel
<1>3. \A y \in T : x <= y
  BY <1>2
<1> QED
  BY <1>3 DEF Min

\* find returns a place in the text, or none.
LEMMA FindPlace ==
    ASSUME body \in Seq(STRING), NEW text, Len(text) \in Nat \ {0}, NEW from \in Nat \ {0}
    PROVE  Find(text, from) \in {0} \cup from .. Len(body)
<1> DEFINE places == {k \in from .. Len(body) - Len(text) + 1 :
                          SubSeq(body, k, k + Len(text) - 1) = text}
<1>1. Len(body) \in Nat
  OBVIOUS
<1>2. places \subseteq from .. Len(body) /\ places \in SUBSET Nat
  BY <1>1
<1>3. Find(text, from) = IF places = {} THEN 0 ELSE Min(places)
  BY DEF Find
<1> HIDE DEF places
<1> QED
  BY <1>2, <1>3, MinOfNat

\* The value of a field is a text of the body's symbols, or the default.
LEMMA ExtractType ==
    ASSUME body \in Seq(STRING), NEW key, NEW S, STRING \subseteq S, NEW default \in Seq(S)
    PROVE  ExtractStringValue(key, default) \in Seq(S)
<1> DEFINE name   == <<Quote, key, Quote>>
           colons == <<":">>
           quotes == <<Quote>>
           one    == 1
           at     == Find(name, one)
           colon  == IF at = 0 THEN 0 ELSE Find(colons, at + 3)
           first  == IF colon = 0 THEN 0 ELSE Find(quotes, colon + 1)
           second == IF first = 0 THEN 0 ELSE Find(quotes, first + 1)
<1>1. ExtractStringValue(key, default)
        = IF second = 0 THEN default ELSE SubSeq(body, first + 1, second - 1)
  BY DEF ExtractStringValue, ValueAfter
<1>2. /\ Len(name) \in Nat \ {0} /\ Len(colons) \in Nat \ {0} /\ Len(quotes) \in Nat \ {0}
      /\ one \in Nat \ {0}
  OBVIOUS
<1>3. Len(body) \in Nat
  OBVIOUS
<1> HIDE DEF name, colons, quotes, one
<1>4. at \in Nat
  <2>1. Find(name, one) \in {0} \cup one .. Len(body)
    BY <1>2, FindPlace
  <2> QED
    BY <1>2, <1>3, <2>1
<1> HIDE DEF at
<1>5. colon \in Nat
  <2>1. at + 3 \in Nat \ {0}
    BY <1>4
  <2>2. Find(colons, at + 3) \in {0} \cup (at + 3) .. Len(body)
    BY <1>2, <2>1, FindPlace
  <2> QED
    BY <1>3, <2>1, <2>2
<1> HIDE DEF colon
<1>6. first \in Nat
  <2>1. colon + 1 \in Nat \ {0}
    BY <1>5
  <2>2. Find(quotes, colon + 1) \in {0} \cup (colon + 1) .. Len(body)
    BY <1>2, <2>1, FindPlace
  <2> QED
    BY <1>3, <2>1, <2>2
<1> HIDE DEF first
<1>7. first # 0 => second \in {0} \cup first + 1 .. Len(body)
  <2>1. first + 1 \in Nat \ {0}
    BY <1>6
  <2>2. Find(quotes, first + 1) \in {0} \cup (first + 1) .. Len(body)
    BY <1>2, <2>1, FindPlace
  <2> QED
    BY <2>2
<1>8. first = 0 => second = 0
  OBVIOUS
<1> HIDE DEF second
<1>9. CASE second # 0
  <2>1. second \in first + 1 .. Len(body)
    BY <1>7, <1>8, <1>9
  <2>2. first + 1 \in Int /\ second - 1 \in Int
    BY <1>6, <2>1
  <2>3. \A k \in first + 1 .. second - 1 : body[k] \in S
    <3>1. \A k \in first + 1 .. second - 1 : k \in 1 .. Len(body)
      BY <1>3, <1>6, <2>1
    <3>2. \A k \in 1 .. Len(body) : body[k] \in STRING
      OBVIOUS
    <3> QED
      BY <3>1, <3>2
  <2>4. SubSeq(body, first + 1, second - 1) \in Seq(S)
    BY <2>2, <2>3, SubSeqProperties
  <2> QED
    BY <1>1, <1>9, <2>4
<1> QED
  BY <1>1, <1>9
-----------------------------------------------------------------------------
(* The replies.                                                             *)

\* A job that the client is shown (Ok with JobToJson) is a document, in which it reads
\* the job's fields behind their names.
THEOREM ShownRead ==
    ASSUME NEW S, Alphabet(S), "true" \in S, NEW shown, Presentable(S, shown),
           NEW text, text = Serialize(Ok(Set(Object, "job", JobToJson(shown))))
    PROVE  /\ ReadAll(text).place = "done"
           /\ ReadAll(text).strings \in Seq(Seq(S))
           /\ \A p \in JobPairs(shown) : Holds(ReadAll(text).strings, p[1], p[2])
<1>1. PICK g : JobToJson(shown) = ObjectOf(g) /\ Has(S, g, 18, JobPairs(shown))
  BY JobHas
<1> DEFINE a0 == 1   a1 == 6    b1 == 7   d1 == 18
           a2 == 10  b2 == 11   a3 == 14  b3 == 15
           k1 == KeyOrder[a1]  k2 == KeyOrder[a2]  k3 == KeyOrder[a3]
           none == <<>>
           yes == "true"
           Q == JobPairs(shown)
           P == {}
           g1 == With(none, k1, Serialize(ObjectOf(g)))
           g2 == With(none, k2, <<yes>>)
           g3 == With(g2, k3, Serialize(ObjectOf(g1)))
<1>2. Ok(Set(Object, "job", JobToJson(shown))) = ObjectOf(g3)
  <2>1. Serialize(Bool(yes)) = <<yes>>
    BY DEF Serialize, Bool
  <2>2. Set(Object, "job", ObjectOf(g)) = ObjectOf(g1)
    BY EmptyObject, SetMember, KeyPlaces
  <2>3. Set(Object, "ok", Bool(yes)) = ObjectOf(g2)
    BY <2>1, EmptyObject, SetMember, KeyPlaces
  <2>4. Ok(ObjectOf(g1)) = Set(ObjectOf(g2), "result", ObjectOf(g1))
    BY <2>3 DEF Ok
  <2> HIDE DEF g1, g2
  <2> QED
    BY <1>1, <2>2, <2>4, SetMember, KeyPlaces
<1>3. yes \in S /\ Scalar(yes)
  BY ScalarSymbols
<1>4. Has(S, none, a0, P)
  BY HasNothing
<1>5. /\ a1 \in 1 .. 17 /\ a0 <= a1 /\ b1 = a1 + 1
      /\ a2 \in 1 .. 17 /\ a0 <= a2 /\ b2 = a2 + 1
      /\ a3 \in 1 .. 17 /\ b2 <= a3 /\ b3 = a3 + 1
      /\ a0 \in 1 .. 18 /\ b1 \in 1 .. 18 /\ b2 \in 1 .. 18 /\ b3 \in 1 .. 18 /\ d1 \in 1 .. 18
  OBVIOUS
<1>6. k1 = KeyOrder[a1] /\ k2 = KeyOrder[a2] /\ k3 = KeyOrder[a3]
  OBVIOUS
<1>7. Has(S, g, d1, Q)
  BY <1>1
<1> HIDE DEF a0, a1, b1, d1, a2, b2, a3, b3, k1, k2, k3, none, yes, P, Q
<1>8. Has(S, g1, b1, Q)
  BY <1>4, <1>5, <1>6, <1>7, HasObject
<1> HIDE DEF g1
<1>9. Has(S, g2, b2, P)
  BY <1>3, <1>4, <1>5, <1>6, HasLiteral
<1> HIDE DEF g2
<1>10. Has(S, g3, b3, Q)
  BY <1>5, <1>6, <1>8, <1>9, HasObject
<1> HIDE DEF g3
<1>11. PICK list \in Seq(Seq(S)) :
          /\ Tells(S, g3, b3, {list})
          /\ \A q \in Q : Holds(list, q[1], q[2])
  BY <1>10 DEF Has
<1>12. /\ ReadAll(Serialize(ObjectOf(g3))).place = "done"
       /\ ReadAll(Serialize(ObjectOf(g3))).strings \in {list}
  BY <1>5, <1>11, TellsMeans
<1>13. text = Serialize(ObjectOf(g3))
  BY <1>2
<1> QED
  BY <1>11, <1>12, <1>13 DEF Q
-----------------------------------------------------------------------------
(* The handler.                                                             *)

\* A job as it is kept from the submit on.
SubmittedJob ==
    [id : Words, tick : {"1"}, request : Words, route : Words, status : Words,
     modelId : Seq(Signs), toolId : Seq(Signs), templateId : Seq(Signs)]

\* What a client reads in a reply.
RefusedReply(text, refusal) ==
    /\ ReadAll(text).place = "done"
    /\ ReadAll(text).strings = Refusal(refusal.code, refusal.field, refusal.reason)

ShownReply(text, shown) ==
    /\ ReadAll(text).place = "done"
    /\ ReadAll(text).strings \in Seq(Seq(Signs))
    /\ \A name \in FieldNames : Holds(ReadAll(text).strings, name, shown[name])

Replies ==
    /\ pc = "refused" => RefusedReply(reply, error)
    /\ pc = "shown" => ShownReply(reply, job)

\* The job in the store is one that can be shown.
EInv ==
    /\ pc = "accepted" => job \in SubmittedJob
    /\ Replies

\* Words are signs, and so is what the host is sent.
LEMMA WordSigns ==
    /\ \A word \in Words : word \in Signs /\ <<word>> \in Seq(Signs)
    /\ STRING \subseteq Signs
<1>1. Words \subseteq Signs /\ STRING \subseteq Signs
  BY DEF Signs
<1>2. ASSUME NEW S, NEW word \in S PROVE <<word>> \in Seq(S)
  OBVIOUS
<1> QED
  BY <1>1, <1>2

\* Texts that the host is sent.
LEMMA SentSigns ==
    ASSUME NEW text \in Seq(STRING)
    PROVE  text \in Seq(Signs)
<1>1. Len(text) \in Nat /\ \A k \in 1 .. Len(text) : text[k] \in STRING
  OBVIOUS
<1>2. \A k \in 1 .. Len(text) : text[k] \in Signs
  BY <1>1, WordSigns
<1> QED
  BY <1>2

\* All fields of a job are texts.
LEMMA JobPresentable ==
    ASSUME NEW shown \in SubmittedJob
    PROVE  Presentable(Signs, shown)
<1>1. /\ shown.tick = "1" /\ shown.id \in Words /\ shown.request \in Words
      /\ shown.route \in Words /\ shown.status \in Words
      /\ shown.modelId \in Seq(Signs) /\ shown.templateId \in Seq(Signs)
      /\ shown.toolId \in Seq(Signs)
  BY DEF SubmittedJob
<1>2. Scalar(shown.tick)
  BY <1>1, ScalarSymbols
<1>3. shown.tick \in Words
  BY <1>1 DEF Words
<1> QED
  BY <1>1, <1>2, <1>3, WordSigns DEF Presentable

\* The reply that shows a job.
LEMMA ShowReply ==
    ASSUME NEW shown \in SubmittedJob,
           NEW text, text = Serialize(Ok(Set(Object, "job", JobToJson(shown))))
    PROVE  ShownReply(text, shown)
<1>1. "true" \in Signs
  BY WordSigns DEF Words
<1>2. /\ ReadAll(text).place = "done"
      /\ ReadAll(text).strings \in Seq(Seq(Signs))
      /\ \A p \in JobPairs(shown) : Holds(ReadAll(text).strings, p[1], p[2])
  BY <1>1, SignsAlphabet, JobPresentable, ShownRead
<1>3. ASSUME NEW name \in FieldNames
      PROVE  Holds(ReadAll(text).strings, name, shown[name])
  <2> DEFINE pair == <<name, shown[name]>>
  <2>1. pair \in JobPairs(shown)
    BY DEF JobPairs, FieldNames
  <2>2. pair[1] = name /\ pair[2] = shown[name]
    OBVIOUS
  <2> HIDE DEF pair
  <2> QED
    BY <1>2, <2>1, <2>2
<1> QED
  BY <1>2, <1>3 DEF ShownReply

\* The reply that refuses a body.
LEMMA RefuseReply ==
    ASSUME NEW code \in Words, NEW field \in Seq(Signs), NEW reason \in Words,
           Refuse(code, field, reason)
    PROVE  EInv'
<1>1. /\ pc' = "refused"
      /\ error' = [code |-> code, field |-> field, reason |-> reason]
      /\ reply' = Serialize(MakeErrorEnvelope(code, reason, ErrorDetails(field, reason)))
  BY DEF Refuse
<1>2. code \in Signs /\ reason \in Signs /\ "false" \in Signs
  BY WordSigns DEF Words
<1>3. /\ ReadAll(reply').place = "done"
      /\ ReadAll(reply').strings = Refusal(code, field, reason)
  BY <1>1, <1>2, SignsAlphabet, RefusalRead
<1>4. error'.code = code /\ error'.field = field /\ error'.reason = reason
  BY <1>1
<1>5. RefusedReply(reply', error')
  BY <1>3, <1>4 DEF RefusedReply
<1> QED
  BY <1>1, <1>5 DEF EInv, Replies

\* The fields that a route requires, and the keys of a body, are texts.
LEMMA FieldTexts ==
    ASSUME Typed, ScannerOK
    PROVE  /\ \A k \in Missing : <<Required[route][k]>> \in Seq(Signs)
           /\ Unknown \subseteq Seq(Signs)
           /\ <<"body">> \in Seq(Signs) /\ <<"modelId">> \in Seq(Signs)
           /\ route \in Words
<1>1. route \in {"chat", "tool", "build"}
  BY RoutesAssumption DEF Typed
<1>2. \A k \in DOMAIN Required[route] : Required[route][k] \in Words
  BY <1>1 DEF Required, Words
<1>3. "body" \in Words /\ "modelId" \in Words /\ route \in Words
  BY <1>1 DEF Words
<1>4. Unknown \subseteq Seq(Signs)
  <2>1. Range(body) \subseteq Signs
    <3>1. \A k \in DOMAIN body : body[k] \in STRING
      BY DEF Typed
    <3> QED
      BY <3>1, WordSigns DEF Range
  <2>2. ASSUME NEW text \in Seq(Range(body)) PROVE text \in Seq(Signs)
    <3> HIDE DEF Range
    <3>1. \A k \in 1 .. Len(text) : text[k] \in Signs
      BY <2>1
    <3> QED
      BY <3>1
  <2> QED
    BY <2>2 DEF Unknown, ScannerOK
<1> QED
  BY <1>2, <1>3, <1>4, WordSigns DEF Missing

\* An accepted job.
LEMMA AcceptedJob ==
    ASSUME Typed, ScannerOK, Accept
    PROVE  job' \in SubmittedJob
<1> DEFINE none == <<>>
           model    == ExtractStringValue("modelId", DefaultModel)
           tool     == ExtractStringValue("toolId", none)
           template == ExtractStringValue("templateId", none)
<1>1. STRING \subseteq Signs /\ body \in Seq(STRING) /\ route \in Words
  BY FieldTexts, WordSigns DEF Typed
<1>2. DefaultModel \in Seq(Signs) /\ none \in Seq(Signs)
  BY ModelAssumption, SentSigns
<1>3. job' = [id |-> "1", tick |-> "1", request |-> "req-000001", route |-> route,
              status |-> "WAITING", modelId |-> model, toolId |-> tool,
              templateId |-> template]
  BY DEF Accept, ModelId
<1> HIDE DEF none
<1>4. model \in Seq(Signs) /\ tool \in Seq(Signs) /\ template \in Seq(Signs)
  BY <1>1, <1>2, ExtractType
<1>5. "1" \in Words /\ "req-000001" \in Words /\ "WAITING" \in Words
  BY DEF Words
<1> HIDE DEF model, tool, template
<1> QED
  BY <1>1, <1>3, <1>4, <1>5 DEF SubmittedJob

\* Every step of the handler keeps the replies readable.
LEMMA EInvStep == SInv /\ EInv /\ [Next]_vars => EInv'
<1> SUFFICES ASSUME SInv, EInv, [Next]_vars PROVE EInv'
  OBVIOUS
<1>0. Typed /\ ScannerOK
  BY DEF SInv
<1>a. /\ "bad_request" \in Words /\ "payload_too_large" \in Words
      /\ "invalid_shape" \in Words /\ "too_large" \in Words
      /\ "required" \in Words /\ "unknown" \in Words
  BY DEF Words
<1>1. ASSUME NEW place, ContinueAt(place), place \notin {"refused", "accepted", "shown"}
      PROVE  EInv'
  BY <1>1 DEF ContinueAt, EInv, Replies
<1>2. CASE CheckShape
  BY <1>0, <1>a, <1>1, <1>2, FieldTexts, RefuseReply DEF CheckShape
<1>3. CASE CheckSize
  BY <1>0, <1>a, <1>1, <1>3, FieldTexts, RefuseReply DEF CheckSize
<1>4. CASE ScanCharacter
  <2>1. pc' = "scan"
    BY <1>4, ScanEffect
  <2> QED
    BY <2>1 DEF EInv, Replies
<1>5. CASE EndScan
  BY <1>1, <1>5 DEF EndScan
<1>6. CASE RefuseMissing
  <2>1. PICK k \in Missing : Refuse("bad_request", <<Required[route][k]>>, "required")
    BY <1>6 DEF RefuseMissing
  <2> QED
    BY <1>0, <1>a, <2>1, FieldTexts, RefuseReply
<1>7. CASE RefuseUnknown
  <2>1. PICK key \in Unknown : Refuse("bad_request", key, "unknown")
    BY <1>7 DEF RefuseUnknown
  <2> QED
    BY <1>0, <1>a, <2>1, FieldTexts, RefuseReply
<1>8. CASE AcceptFields
  BY <1>1, <1>8 DEF AcceptFields
<1>9. CASE RefuseModel
  <2>1. Refuse("bad_request", <<"modelId">>, "too_large")
    BY <1>9 DEF RefuseModel
  <2> QED
    BY <1>0, <1>a, <2>1, FieldTexts, RefuseReply
<1>10. CASE Accept
  <2>1. pc' = "accepted"
    BY <1>10 DEF Accept
  <2> QED
    BY <1>0, <1>10, <2>1, AcceptedJob DEF EInv, Replies
<1>11. CASE Show
  <2>1. /\ pc = "accepted" /\ pc' = "shown"
        /\ job' = [job EXCEPT !.status = "COMPLETE"]
        /\ reply' = Serialize(Ok(Set(Object, "job", JobToJson(job'))))
    BY <1>11 DEF Show
  <2>2. job \in SubmittedJob
    BY <2>1 DEF EInv
  <2>3. job' \in SubmittedJob
    <3>1. "COMPLETE" \in Words
      BY DEF Words
    <3> QED
      BY <2>1, <2>2, <3>1 DEF SubmittedJob
  <2>4. ShownReply(reply', job')
    BY <2>1, <2>3, ShowReply
  <2> QED
    BY <2>1, <2>4 DEF EInv, Replies
<1>12. CASE UNCHANGED vars
  BY <1>12 DEF vars, EInv, Replies
<1> QED
  BY <1>2, <1>3, <1>4, <1>5, <1>6, <1>7, <1>8, <1>9, <1>10, <1>11, <1>12 DEF Next

\* Whatever a client sends, also a body that is no JSON, the reply is a document in
\* which a JSON reader finds the refused field and the reason, or the fields of the
\* job, exactly as the host has them (WriteError and HandleJobGet, through
\* JsonValue::Serialize).
THEOREM EnvelopeReadableHolds == Spec => []EnvelopeReadable
<1>1. Init => EInv
  BY DEF Init, EInv, Replies
<1>2. SInv /\ EInv /\ [Next]_vars => EInv'
  BY EInvStep
<1>3. EInv => EnvelopeReadable
  <2> SUFFICES ASSUME EInv PROVE EnvelopeReadable
    OBVIOUS
  <2> DEFINE read == ReadAll(reply)
  <2>1. ASSUME pc = "refused"
        PROVE  /\ read.place = "done"
               /\ read.strings = Refusal(error.code, error.field, error.reason)
    BY <2>1 DEF EInv, Replies, RefusedReply
  <2>2. ASSUME pc = "shown"
        PROVE  /\ read.place = "done"
               /\ \A name \in FieldNames :
                     \E k \in DOMAIN read.strings :
                        read.strings[k] = <<name>> /\ read.strings[k + 1] = job[name]
    <3>1. ShownReply(reply, job)
      BY <2>2 DEF EInv, Replies
    <3>2. /\ read.place = "done" /\ read.strings \in Seq(Seq(Signs))
          /\ \A name \in FieldNames : Holds(read.strings, name, job[name])
      BY <3>1 DEF ShownReply
    <3> HIDE DEF read
    <3>3. 1 .. Len(read.strings) - 1 \subseteq DOMAIN read.strings
      BY <3>2
    <3> QED
      BY <3>2, <3>3, Zenon DEF Holds
  <2>3. ASSUME pc = "refused"
        PROVE  read.strings = << <<"error">>, <<"code">>, <<error.code>>,
                                 <<"details">>, <<"field">>, error.field,
                                 <<"reason">>, <<error.reason>>,
                                 <<"message">>, <<error.reason>>, <<"ok">> >>
    BY <2>1, <2>3, Zenon DEF Refusal
  <2> QED
    BY <2>1, <2>2, <2>3, Zenon DEF EnvelopeReadable, FieldNames
<1> QED
  BY <1>1, <1>2, <1>3, SubmitInvariance, PTL DEF Spec
=============================================================================
