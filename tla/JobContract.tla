----------------------------- MODULE JobContract -----------------------------
(****************************************************************************)
(* What the host promises a client about its jobs (CONTRACT.md, "Job        *)
(* lifecycle" and "Retention"), without the provider, the threads and the   *)
(* containers that keep the promise: ids count up from 1, the newest        *)
(* MaxJobs jobs are kept, a kept job gets its result at most once, and a    *)
(* result is handed to one client.                                          *)
(****************************************************************************)
EXTENDS Naturals

CONSTANT MaxJobs

VARIABLES
    last,               \* the newest job id
    finished,           \* the retained jobs that have a result
    delivered           \* the jobs whose result a client was handed

contractVars == <<last, finished, delivered>>

Kept == IF MaxJobs = 0 THEN 1 ELSE MaxJobs

\* The ids retained once the newest is n.
Window(n) == {j \in 1 .. n : j + Kept > n}

ContractInit == last = 0 /\ finished = {} /\ delivered = {}

NewJob ==
    /\ last' = last + 1
    /\ finished' = finished \cap Window(last + 1)
    /\ UNCHANGED delivered

Finish(j) ==
    /\ j \in Window(last) \ finished
    /\ finished' = finished \cup {j}
    /\ UNCHANGED <<last, delivered>>

Deliver(j) ==
    /\ j \in finished \ delivered
    /\ delivered' = delivered \cup {j}
    /\ UNCHANGED <<last, finished>>

ContractNext == NewJob \/ \E j \in Window(last) : Finish(j) \/ Deliver(j)

ContractSpec == ContractInit /\ [][ContractNext]_contractVars
=============================================================================
