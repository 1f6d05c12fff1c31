-------------------------- MODULE RaiiThreadProofs --------------------------
(***************************************************************************)
(* Proofs about RaiiThread, for any number of objects, callers and         *)
(* workers, and whatever assignments the program has.                      *)
(***************************************************************************)
EXTENDS RaiiThread, FiniteSetTheorems, TLAPS

(* Between two calls, and until it is taken from the source, no bundle is  *)
(* in the hand of a caller: move_bundle() never overwrites one.            *)
HandEmpty == \A c \in Caller : pc[c] # "store" => hand[c] = None

RaiiInv == TypeOK /\ HandEmpty /\ OwnedOrJoined

-----------------------------------------------------------------------------
(* How many elements of A have the value w.                                *)
Count(A, f, w) == Cardinality({x \in A : f[x] = w})

(* What a count becomes when the value of one element changes from u to v. *)
Recount(n, u, v, w) ==
  IF v = w THEN IF u = w THEN n ELSE n + 1
           ELSE IF u = w THEN n - 1 ELSE n

(* One assignment to a function moves one element between the sets of      *)
(* those with a given value.                                               *)
LEMMA CountUpdate ==
  ASSUME NEW A, IsFiniteSet(A), NEW f, NEW g, NEW a \in A, NEW v, NEW w,
         \A x \in A : g[x] = IF x = a THEN v ELSE f[x]
  PROVE  /\ Count(A, f, w) \in Nat
         /\ Count(A, g, w) = Recount(Count(A, f, w), f[a], v, w)
         /\ f[a] = w => Count(A, f, w) >= 1
<1> DEFINE F == {x \in A : f[x] = w}
           G == {x \in A : g[x] = w}
<1>1. IsFiniteSet(F)
  <2>1. F \in SUBSET A
    OBVIOUS
  <2> QED BY <2>1, FS_Subset
<1>2. Cardinality(F) \in Nat
  BY <1>1, FS_CardinalityType
<1>3. /\ Cardinality(F \cup {a}) = IF a \in F THEN Cardinality(F) ELSE Cardinality(F) + 1
      /\ Cardinality(F \ {a}) = IF a \in F THEN Cardinality(F) - 1 ELSE Cardinality(F)
  BY <1>1, FS_AddElement, FS_RemoveElement
<1>4. G = IF v = w THEN F \cup {a} ELSE F \ {a}
  OBVIOUS
<1>5. a \in F <=> f[a] = w
  OBVIOUS
<1>6. f[a] = w => Cardinality(F) # 0
  BY <1>1, FS_EmptySet
<1>7. Count(A, f, w) = Cardinality(F) /\ Count(A, g, w) = Cardinality(G)
  BY DEF Count
<1> HIDE DEF F, G
<1> QED BY <1>2, <1>3, <1>4, <1>5, <1>6, <1>7 DEF Recount

LEMMA OwnersCount == \A w : Owners(w) = Count(Object, bundle, w) + Count(Caller, hand, w)
  BY DEF Owners, Count

-----------------------------------------------------------------------------
LEMMA InitType == Init => TypeOK
<1> SUFFICES ASSUME Init PROVE TypeOK
  OBVIOUS
<1>1. /\ target \in [Caller -> Object] /\ source \in [Caller -> Object]
      /\ mutex \in [Object -> Caller \cup {None}]
      /\ joined \in [Worker -> Nat] /\ running \subseteq Worker
      /\ calls \in [Caller -> 0 .. MaxCalls]
  BY RaiiAssumption DEF Init
<1> QED BY <1>1 DEF Init, TypeOK

LEMMA NextType == TypeOK /\ [Next]_vars => TypeOK'
<1> SUFFICES ASSUME TypeOK, [Next]_vars PROVE TypeOK'
  OBVIOUS
<1> USE RaiiAssumption DEF TypeOK, Goes, Holds, Frees
<1>1. ASSUME NEW c \in Caller, NEW o \in Object, NEW s \in Object, Call(c, o, s)
      PROVE  TypeOK'
  BY <1>1 DEF Call
<1>2. ASSUME NEW c \in Caller, JoinLock(c) PROVE TypeOK'
  BY <1>2 DEF JoinLock
<1>3. ASSUME NEW c \in Caller, JoinDone(c) PROVE TypeOK'
  <2>1. joined' \in [Worker -> Nat]
    BY <1>3 DEF JoinDone, Joins
  <2> QED BY <1>3, <2>1 DEF JoinDone
<1>4. ASSUME NEW c \in Caller, AssignLock(c) PROVE TypeOK'
  BY <1>4 DEF AssignLock
<1>5. ASSUME NEW c \in Caller, Take(c) PROVE TypeOK'
  BY <1>5 DEF Take
<1>6. ASSUME NEW c \in Caller, Store(c) PROVE TypeOK'
  <2>1. joined' \in [Worker -> Nat]
    BY <1>6 DEF Store, Joins
  <2> QED BY <1>6, <2>1 DEF Store
<1>7. ASSUME NEW w \in Worker, WorkerEnds(w) PROVE TypeOK'
  BY <1>7 DEF WorkerEnds
<1>8. CASE UNCHANGED vars
  BY <1>8 DEF vars
<1> QED BY <1>1, <1>2, <1>3, <1>4, <1>5, <1>6, <1>7, <1>8 DEF Next, CallerStep

(* Every variable of RAIIthread keeps its type, and a caller between lock  *)
(* and unlock holds the mutex of its target.                               *)
THEOREM TypeCorrect == Spec => []TypeOK
  BY InitType, NextType, PTL DEF Spec

-----------------------------------------------------------------------------
LEMMA InitOwned == Init => HandEmpty /\ OwnedOrJoined
<1> SUFFICES ASSUME Init PROVE HandEmpty /\ OwnedOrJoined
  OBVIOUS
<1>1. HandEmpty
  BY DEF Init, HandEmpty
<1>2. ASSUME NEW w \in Worker PROVE Owners(w) + joined[w] = 1
  <2>1. {c \in Caller : hand[c] = w} = {}
    BY RaiiAssumption DEF Init
  <2>2. Cardinality({c \in Caller : hand[c] = w}) = 0
    BY <2>1, FS_EmptySet
  <2>3. Cardinality({o \in Object : bundle[o] = w}) = 1 /\ joined[w] = 0
    BY DEF Init
  <2> QED BY <2>2, <2>3 DEF Owners
<1> QED BY <1>1, <1>2 DEF OwnedOrJoined

LEMMA NextHand == TypeOK /\ HandEmpty /\ [Next]_vars => HandEmpty'
<1> SUFFICES ASSUME TypeOK, HandEmpty, [Next]_vars PROVE HandEmpty'
  OBVIOUS
<1> USE DEF TypeOK, HandEmpty, Goes
<1>1. ASSUME NEW c \in Caller, NEW o \in Object, NEW s \in Object, Call(c, o, s)
      PROVE  HandEmpty'
  BY <1>1 DEF Call
<1>2. ASSUME NEW c \in Caller, CallerStep(c) PROVE HandEmpty'
  BY <1>2 DEF CallerStep, JoinLock, JoinDone, AssignLock, Take, Store
<1>3. ASSUME NEW w \in Worker, WorkerEnds(w) PROVE HandEmpty'
  BY <1>3 DEF WorkerEnds
<1>4. CASE UNCHANGED vars
  BY <1>4 DEF vars
<1> QED BY <1>1, <1>2, <1>3, <1>4 DEF Next

(* The three steps that move a worker: out of an object when it is joined, *)
(* into a hand, and out of the hand into an object that may lose another.  *)
LEMMA NextOwned == RaiiInv /\ [Next]_vars => OwnedOrJoined'
<1> SUFFICES ASSUME RaiiInv, [Next]_vars, NEW w \in Worker
             PROVE  Owners(w)' + joined'[w] = 1
  BY DEF OwnedOrJoined
<1> DEFINE inObjects == Count(Object, bundle, w)
           inHands   == Count(Caller, hand, w)
<1>1. Owners(w) = inObjects + inHands /\ inObjects + inHands + joined[w] = 1
  BY OwnersCount DEF RaiiInv, OwnedOrJoined
<1>2. Owners(w)' = Count(Object, bundle', w) + Count(Caller, hand', w)
  BY DEF Owners, Count
<1>3. w # None /\ joined[w] \in Nat
  BY RaiiAssumption DEF RaiiInv, TypeOK
<1>4. ASSUME NEW o \in Object, NEW v, NEW b, b = [bundle EXCEPT ![o] = v]
      PROVE  /\ inObjects \in Nat
             /\ Count(Object, b, w) = Recount(inObjects, bundle[o], v, w)
             /\ bundle[o] = w => inObjects >= 1
  <2>1. IsFiniteSet(Object) /\ \A x \in Object : b[x] = IF x = o THEN v ELSE bundle[x]
    BY <1>4, RaiiAssumption DEF RaiiInv, TypeOK
  <2> QED BY <2>1, CountUpdate
<1>5. ASSUME NEW c \in Caller, NEW v, NEW h, h = [hand EXCEPT ![c] = v]
      PROVE  /\ inHands \in Nat
             /\ Count(Caller, h, w) = Recount(inHands, hand[c], v, w)
             /\ hand[c] = w => inHands >= 1
  <2>1. IsFiniteSet(Caller) /\ \A x \in Caller : h[x] = IF x = c THEN v ELSE hand[x]
    BY <1>5, RaiiAssumption DEF RaiiInv, TypeOK
  <2> QED BY <2>1, CountUpdate
<1> HIDE DEF inObjects, inHands
<1>6. ASSUME UNCHANGED <<bundle, hand, joined>> PROVE Owners(w)' + joined'[w] = 1
  BY <1>1, <1>2, <1>6 DEF inObjects, inHands
<1>7. ASSUME NEW c \in Caller, JoinDone(c) PROVE Owners(w)' + joined'[w] = 1
  <2> DEFINE o == target[c]
  <2>1. o \in Object /\ c \in Caller
    BY DEF RaiiInv, TypeOK
  <2>2. /\ bundle' = [bundle EXCEPT ![o] = None] /\ hand' = hand
        /\ joined'[w] = IF bundle[o] = w THEN joined[w] + 1 ELSE joined[w]
    BY <1>3, <1>7 DEF JoinDone, Joins, RaiiInv, TypeOK
  <2> HIDE DEF o
  <2>3. Count(Object, bundle', w) = Recount(inObjects, bundle[o], None, w)
    BY <1>4, <2>1, <2>2
  <2>4. inObjects \in Nat /\ (bundle[o] = w => inObjects >= 1)
    BY <1>4, <2>1, <2>2
  <2>5. inHands \in Nat /\ Count(Caller, hand', w) = inHands
    BY <1>5, <2>2 DEF inHands
  <2> QED BY <1>1, <1>2, <1>3, <2>2, <2>3, <2>4, <2>5 DEF Recount
<1>8. ASSUME NEW c \in Caller, Take(c) PROVE Owners(w)' + joined'[w] = 1
  <2> DEFINE o == source[c]
  <2>1. o \in Object /\ hand[c] = None
    BY <1>8 DEF Take, RaiiInv, TypeOK, HandEmpty
  <2>2. /\ bundle' = [bundle EXCEPT ![o] = None] /\ hand' = [hand EXCEPT ![c] = bundle[o]]
        /\ joined' = joined
    BY <1>8 DEF Take
  <2> HIDE DEF o
  <2>3. Count(Object, bundle', w) = Recount(inObjects, bundle[o], None, w)
    BY <1>4, <2>1, <2>2
  <2>4. Count(Caller, hand', w) = Recount(inHands, None, bundle[o], w)
    BY <1>5, <2>1, <2>2
  <2> QED BY <1>1, <1>2, <1>3, <1>4, <1>5, <2>1, <2>2, <2>3, <2>4 DEF Recount
<1>9. ASSUME NEW c \in Caller, Store(c) PROVE Owners(w)' + joined'[w] = 1
  <2> DEFINE o == target[c]
  <2>1. o \in Object
    BY DEF RaiiInv, TypeOK
  <2>2. /\ bundle' = [bundle EXCEPT ![o] = hand[c]] /\ hand' = [hand EXCEPT ![c] = None]
        /\ joined'[w] = IF bundle[o] = w THEN joined[w] + 1 ELSE joined[w]
    BY <1>3, <1>9 DEF Store, Joins, RaiiInv, TypeOK
  <2> HIDE DEF o
  <2>3. Count(Object, bundle', w) = Recount(inObjects, bundle[o], hand[c], w)
    BY <1>4, <2>1, <2>2
  <2>4. Count(Caller, hand', w) = Recount(inHands, hand[c], None, w)
    BY <1>5, <2>2
  <2> QED BY <1>1, <1>2, <1>3, <1>4, <1>5, <2>1, <2>2, <2>3, <2>4 DEF Recount
<1>10. ASSUME NEW c \in Caller, NEW o \in Object, NEW s \in Object, Call(c, o, s)
       PROVE  UNCHANGED <<bundle, hand, joined>>
  BY <1>10 DEF Call
<1>11. ASSUME NEW c \in Caller, JoinLock(c) \/ AssignLock(c)
       PROVE  UNCHANGED <<bundle, hand, joined>>
  BY <1>11 DEF JoinLock, AssignLock
<1>12. ASSUME NEW v \in Worker, WorkerEnds(v) PROVE UNCHANGED <<bundle, hand, joined>>
  BY <1>12 DEF WorkerEnds
<1>13. CASE UNCHANGED vars
  BY <1>6, <1>13 DEF vars
<1> QED BY <1>6, <1>7, <1>8, <1>9, <1>10, <1>11, <1>12, <1>13 DEF Next, CallerStep

(* However joins and moves interleave, every std::thread has one owner     *)
(* until it is joined, and is joined at most once: for any number of       *)
(* objects and threads, and also where assignments go in a cycle.          *)
THEOREM OneOwnerOrJoined == Spec => []OwnedOrJoined
<1>1. Init => RaiiInv
  BY InitType, InitOwned DEF RaiiInv
<1>2. RaiiInv /\ [Next]_vars => RaiiInv'
  BY NextType, NextHand, NextOwned DEF RaiiInv
<1>3. RaiiInv => OwnedOrJoined
  BY DEF RaiiInv
<1> QED BY <1>1, <1>2, <1>3, PTL DEF Spec
=============================================================================
