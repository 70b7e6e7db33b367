---------------------------- MODULE QueryService ----------------------------
(***************************************************************************)
(* What the search service promises a user, whatever stands between the    *)
(* web API and the index: a query is answered from lists as the index had  *)
(* them since the query was first asked, or given up.  An answer is kept   *)
(* for ever, so it may be older than the request that gets it.             *)
(***************************************************************************)
EXTENDS Naturals

CONSTANTS
    Requests,
    Queries,
    Keys,
    KeysOf,   \* KeysOf[q]: the keys whose lists answer q
    None,
    NoReply   \* the request ended without an answer

VARIABLES
    index,    \* index[k]: the version of k's list, 0 when there is none
    since,    \* since[q]: the index when q was first asked
    store,    \* store[q]: for each key the version of its list in the answer
    want,     \* want[r]: the query of r
    reply     \* what r got

serviceVars == <<index, since, store, want, reply>>

Init ==
    /\ index = [k \in Keys |-> 0]
    /\ since = [q \in Queries |-> None]
    /\ store = [q \in Queries |-> None]
    /\ want = [r \in Requests |-> None]
    /\ reply = [r \in Requests |-> None]

Grow(k) ==
    /\ index' = [index EXCEPT ![k] = @ + 1]
    /\ UNCHANGED <<since, store, want, reply>>

Ask(r, q) ==
    /\ want[r] = None
    /\ want' = [want EXCEPT ![r] = q]
    /\ since' = [since EXCEPT ![q] = IF @ = None THEN index ELSE @]
    /\ UNCHANGED <<index, store, reply>>

\* Each list in answer a is one the index had since q was first asked.
Current(q, a) ==
    /\ DOMAIN a = KeysOf[q]
    /\ \A k \in KeysOf[q] : since[q][k] <= a[k] /\ a[k] <= index[k]

Answer(q) ==
    /\ since[q] # None
    /\ store'[q] # None /\ Current(q, store'[q])
    /\ \A p \in Queries \ {q} : store'[p] = store[p]
    /\ UNCHANGED <<index, since, want, reply>>

Reply(r) ==
    /\ want[r] # None /\ reply[r] = None
    /\ reply' = [reply EXCEPT ![r] = store[want[r]]]
    /\ reply'[r] # None
    /\ UNCHANGED <<index, since, store, want>>

GiveUp(r) ==
    /\ want[r] # None /\ reply[r] = None
    /\ reply' = [reply EXCEPT ![r] = NoReply]
    /\ UNCHANGED <<index, since, store, want>>

Next ==
    \/ \E k \in Keys : Grow(k)
    \/ \E q \in Queries : Answer(q)
    \/ \E r \in Requests : Reply(r) \/ GiveUp(r) \/ \E q \in Queries : Ask(r, q)

Spec == Init /\ [][Next]_serviceVars
=============================================================================
