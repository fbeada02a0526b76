--------------------------- MODULE ProviderBridge ---------------------------
(****************************************************************************)
(* The in-memory provider of src/provider_bridge: requests are accepted     *)
(* into pending, a poll answers all of them into ready, and a result is     *)
(* removed from ready by the one call that takes it.  A request and the     *)
(* result produced for it are named by the request id; SubmitChat,          *)
(* SubmitTool and SubmitBuild differ only in a label of the payload.        *)
(****************************************************************************)
EXTENDS Naturals, Sequences

VARIABLES
    pending,            \* ProviderBridge::pending_
    ready,              \* ProviderBridge::ready_
    nextRequestId       \* ProviderBridge::next_request_id_

bridgeVars == <<pending, ready, nextRequestId>>

BridgeInit ==
    /\ pending = << >>
    /\ ready = << >>
    /\ nextRequestId = 1

\* Mutant: the next request gets the same id.
SubmitSameId ==
    /\ pending' = Append(pending, nextRequestId)
    /\ UNCHANGED <<ready, nextRequestId>>

SubmitRequest ==
    /\ pending' = Append(pending, nextRequestId)
    /\ nextRequestId' = nextRequestId + 1
    /\ UNCHANGED ready

\* Mutant: a poll forgets the results nobody took.
PollDropsReady ==
    /\ ready' = pending
    /\ pending' = << >>
    /\ UNCHANGED nextRequestId

\* Every pending request is answered, in order, and pending is emptied.
Poll ==
    /\ ready' = ready \o pending
    /\ pending' = << >>
    /\ UNCHANGED nextRequestId

IsReadyFor(request) == \E i \in 1 .. Len(ready) : ready[i] = request

\* The first result for the request is removed; without one nothing changes.
TakeReady(request) ==
    /\ ready' = IF IsReadyFor(request)
                  THEN LET at == CHOOSE i \in 1 .. Len(ready) :
                                   /\ ready[i] = request
                                   /\ \A k \in 1 .. i - 1 : ready[k] # request
                       IN  SubSeq(ready, 1, at - 1) \o SubSeq(ready, at + 1, Len(ready))
                  ELSE ready
    /\ UNCHANGED <<pending, nextRequestId>>
-----------------------------------------------------------------------------
Accepted == {pending[i] : i \in 1 .. Len(pending)}
Answered == {ready[i] : i \in 1 .. Len(ready)}

InBridge == Accepted \cup Answered

Unique(s) == \A i, k \in 1 .. Len(s) : s[i] = s[k] => i = k

\* No request is twice in the bridge, neither in one list nor across both.
OnceInBridge ==
    /\ Unique(pending)
    /\ Unique(ready)
    /\ Accepted \cap Answered = {}

BridgeTypeOK ==
    /\ pending \in Seq(Nat \ {0})
    /\ ready \in Seq(Nat \ {0})
    /\ nextRequestId \in Nat \ {0}
=============================================================================
