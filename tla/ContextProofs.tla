---------------------------- MODULE ContextProofs ----------------------------
(***************************************************************************)
(* Proof that the AssertionContextManager keeps exactly the contexts of    *)
(* the live handles, for any number of threads and of add_context calls.   *)
(***************************************************************************)
EXTENDS AssertionContext, TLAPS

USE MaxIdsAssumption

(* Every id in use was handed out before the counter's current value.     *)
Below ==
  /\ \A i \in DOMAIN contexts : i < next
  /\ \A t \in Threads : adding[t] => got[t] < next

(* An id fetched by an add_context in progress is in no other use: not in *)
(* the map, not held, not fetched by another thread.                       *)
Fresh ==
  \A t \in Threads : adding[t] =>
    /\ got[t] \notin DOMAIN contexts
    /\ \A u \in Threads : got[t] \notin held[u]
    /\ \A u \in Threads \ {t} : adding[u] => got[u] # got[t]

(* The inductive invariant.                                                *)
CInv == TypeOK /\ HandlesBacked /\ Below /\ Fresh

(* The initial state satisfies CInv.                                       *)
LEMMA InitCInv == Init => CInv
BY DEF Init, CInv, TypeOK, HandlesBacked, Below, Fresh, Ids

(* A handle's id is held by one thread only.                               *)
LEMMA HeldOnce ==
  ASSUME HandlesBacked, NEW t \in Threads, NEW u \in Threads, NEW i \in held[t],
         i \in held[u]
  PROVE  u = t
BY DEF HandlesBacked

(* Every step from a state of CInv reaches a state of CInv.                *)
LEMMA NextCInv == CInv /\ [Next]_vars => CInv'
<1> SUFFICES ASSUME CInv, [Next]_vars PROVE CInv'
  OBVIOUS
<1> USE DEF CInv, TypeOK, Ids
<1>1. ASSUME NEW t \in Threads, Fetch(t) PROVE CInv'
  <2>1. TypeOK'
    BY <1>1 DEF Fetch
  <2>2. HandlesBacked'
    BY <1>1 DEF Fetch, HandlesBacked
  <2>3. Below'
    BY <1>1 DEF Fetch, Below
  <2>4. Fresh'
    <3>1. \A u \in Threads : next \notin held[u]
      BY DEF HandlesBacked, Below
    <3>2. QED
      BY <1>1, <3>1 DEF Fetch, Fresh, Below
  <2>5. QED
    BY <2>1, <2>2, <2>3, <2>4
<1>2. ASSUME NEW t \in Threads, Insert(t) PROVE CInv'
  <2>1. TypeOK'
    BY <1>2 DEF Insert
  <2>2. HandlesBacked'
    BY <1>2 DEF Insert, HandlesBacked, Fresh
  <2>3. Below'
    BY <1>2 DEF Insert, Below
  <2>4. Fresh'
    BY <1>2 DEF Insert, Fresh
  <2>5. QED
    BY <2>1, <2>2, <2>3, <2>4
<1>3. ASSUME NEW t \in Threads, NEW i \in Ids, Drop(t, i) PROVE CInv'
  <2>1. \A u \in Threads \ {t} : i \notin held[u]
    BY <1>3, HeldOnce DEF Drop
  <2>2. TypeOK'
    BY <1>3 DEF Drop
  <2>3. HandlesBacked'
    BY <1>3, <2>1 DEF Drop, HandlesBacked
  <2>4. Below'
    BY <1>3 DEF Drop, Below
  <2>5. Fresh'
    BY <1>3 DEF Drop, Fresh
  <2>6. QED
    BY <2>2, <2>3, <2>4, <2>5
<1>4. CASE UNCHANGED vars
  BY <1>4 DEF vars, HandlesBacked, Below, Fresh
<1>5. QED
  BY <1>1, <1>2, <1>3, <1>4 DEF Next

(* Whatever the interleaving of add_context, context() and handle drops    *)
(* across threads, the map holds exactly the live handles' contexts, each  *)
(* under its own id.                                                       *)
THEOREM HandlesBackedHolds == Spec => []HandlesBacked
<1>1. Spec => []CInv
  BY InitCInv, NextCInv, PTL DEF Spec
<1>2. QED
  BY <1>1, PTL DEF CInv

=============================================================================
