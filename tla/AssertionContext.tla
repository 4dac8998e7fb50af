--------------------------- MODULE AssertionContext ---------------------------
(***************************************************************************)
(* AssertionContextManager and ContextHandle of                            *)
(* crates/editor/src/test/editor_test_context.rs.  The manager is cloned   *)
(* into every handle and shares, through Arcs, an atomic id counter and a  *)
(* lock-protected BTreeMap from id to context string.  add_context takes   *)
(* an id with fetch_add, then takes the write lock and inserts; dropping a *)
(* handle takes the write lock and removes its id; context() prints the    *)
(* values under the read lock.  Any thread holding a clone may do these.   *)
(*                                                                         *)
(* A context string is abstracted to the thread that added it: it is all  *)
(* the properties tell apart.  The counter is a usize; the bound MaxIds on  *)
(* add_context calls keeps it far below 2^64, so it never wraps here.      *)
(***************************************************************************)
EXTENDS Naturals

CONSTANTS
  Threads, \* the threads holding a clone of the manager
  MaxIds   \* bound on add_context calls, i.e. on ids handed out

ASSUME MaxIdsAssumption == MaxIds \in Nat

Ids == 0..MaxIds

VARIABLES
  next,     \* the AtomicUsize id
  contexts, \* the BTreeMap<usize, String>, as a function from its keys
  adding,   \* thread t is inside add_context, between fetch_add and insert
  got,      \* the id fetch_add returned to thread t
  held      \* ids of the ContextHandles thread t holds

vars == <<next, contexts, adding, got, held>>

(* AssertionContextManager::new: counter 0, empty map.                      *)
Init ==
  /\ next = 0
  /\ contexts = [i \in {} |-> CHOOSE t \in Threads : TRUE]
  /\ adding = [t \in Threads |-> FALSE]
  /\ got = [t \in Threads |-> 0]
  /\ held = [t \in Threads |-> {}]

(* Mutant of Fetch: the counter is read but not advanced.                  *)
FetchNoAdvance(t) ==
  /\ ~adding[t]
  /\ next < MaxIds
  /\ got' = [got EXCEPT ![t] = next]
  /\ adding' = [adding EXCEPT ![t] = TRUE]
  /\ UNCHANGED <<next, contexts, held>>

(* add_context, first step: id.fetch_add(1, Relaxed).                      *)
Fetch(t) ==
  /\ ~adding[t]
  /\ next < MaxIds
  /\ got' = [got EXCEPT ![t] = next]
  /\ next' = next + 1
  /\ adding' = [adding EXCEPT ![t] = TRUE]
  /\ UNCHANGED <<contexts, held>>

(* add_context, second step: under the write lock insert the context at    *)
(* the fetched id (replacing any value there) and return the handle.       *)
Insert(t) ==
  /\ adding[t]
  /\ contexts' = [i \in DOMAIN contexts \cup {got[t]} |->
                    IF i = got[t] THEN t ELSE contexts[i]]
  /\ held' = [held EXCEPT ![t] = @ \cup {got[t]}]
  /\ adding' = [adding EXCEPT ![t] = FALSE]
  /\ UNCHANGED <<next, got>>

(* ContextHandle::drop: under the write lock remove the handle's id.      *)
Drop(t, i) ==
  /\ i \in held[t]
  /\ contexts' = [j \in DOMAIN contexts \ {i} |-> contexts[j]]
  /\ held' = [held EXCEPT ![t] = @ \ {i}]
  /\ UNCHANGED <<next, adding, got>>

Next ==
  \E t \in Threads :
    \/ Fetch(t)
    \/ Insert(t)
    \/ \E i \in Ids : Drop(t, i)

Spec == Init /\ [][Next]_vars

-----------------------------------------------------------------------------
(* Properties                                                              *)

TypeOK ==
  /\ next \in Ids
  /\ DOMAIN contexts \subseteq Ids
  /\ \A i \in DOMAIN contexts : contexts[i] \in Threads
  /\ adding \in [Threads -> BOOLEAN]
  /\ got \in [Threads -> Ids]
  /\ held \in [Threads -> SUBSET Ids]

(* What context() prints is exactly the contexts of the handles alive now, *)
(* each under its own id: concurrent add_context calls never share an id, *)
(* so no insert overwrites a live context and no drop removes another      *)
(* handle's context.                                                       *)
HandlesBacked ==
  /\ \A i \in DOMAIN contexts : \E t \in Threads : i \in held[t]
  /\ \A t \in Threads : \A i \in held[t] :
       i \in DOMAIN contexts /\ contexts[i] = t

=============================================================================
