------------------------- MODULE ContainerCopyProofs -------------------------
(***************************************************************************)
(* Proofs about ContainerCopy, for trees of any depth and width, objects   *)
(* of all classes and sizes, any number of uploads, emplaces and resets,   *)
(* with and without failing writes.                                        *)
(***************************************************************************)
EXTENDS ContainerCopy, SequenceTheorems, WellFoundedInduction, TLAPS

State == {"Ready", "CopyingHeader", "CopyingData"}

Typed ==
  /\ kids \in [Node -> Seq(Node)] /\ spare \subseteq Spare
  /\ state \in [Node -> State]
  /\ offset \in [Node -> Nat] /\ iter \in [Node -> Nat \ {0}]
  /\ stack \in Seq(Node)
  /\ answer \in {"none", "InProcess", "Ready", "Error"}
  /\ disturbed \in BOOLEAN

(* The objects of container n are Ready, but for the one at i while n is   *)
(* copying its data.                                                       *)
PathAt(n, s, i) ==
  \A k \in DOMAIN kids[n] : s # "CopyingData" \/ k # i => state[kids[n][k]] = "Ready"

(* The loop over the objects of p is at n.                                 *)
IsAt(p, n) ==
  /\ IsContainer(p) /\ state[p] = "CopyingData"
  /\ iter[p] \in DOMAIN kids[p] /\ kids[p][iter[p]] = n

(* The calls that are active are those of a path from the root, along the  *)
(* iterators, and none is the call of an object twice.                     *)
StackInv ==
  /\ stack # << >> => stack[1] = Root
  /\ \A i, j \in 1 .. Len(stack) : stack[i] = stack[j] => i = j
  /\ \A i, j \in 1 .. Len(stack) : j = i + 1 => IsAt(stack[i], stack[j])

(* What a disturbance can do is do to the root alone: every other          *)
(* container has all objects off its path Ready, whatever happened.        *)
PathInv ==
  /\ \A n \in Node : IsContainer(n) /\ (n # Root \/ ~disturbed) => PathAt(n, state[n], iter[n])
  /\ state[Root] = "CopyingData" =>
       \A k \in DOMAIN kids[Root] : k < iter[Root] => state[kids[Root][k]] = "Ready"

UnmadeInv == IsForest(kids, spare) /\ \A n \in spare : state[n] = "Ready"

AnswerInv == InCall /\ answer = "Ready" => state[Top] = "Ready"

CopyInv == Typed /\ UnmadeInv /\ StackInv /\ PathInv /\ AnswerInv /\ AssertsHold

-----------------------------------------------------------------------------
(* The object whose call is innermost.                                     *)
LEMMA TopIn ==
  ASSUME Typed, InCall
  PROVE  /\ Top \in Node /\ Len(stack) \in Nat \ {0} /\ Top = stack[Len(stack)]
         /\ stack \in Seq(Node)
<1>1. stack \in Seq(Node) /\ stack # << >>
  BY DEF Typed, InCall
<1>2. Len(stack) \in Nat \ {0}
  BY <1>1, EmptySeq
<1>3. Top = stack[Len(stack)]
  BY DEF Top, Last
<1>4. Len(stack) \in 1 .. Len(stack)
  BY <1>2
<1>5. stack[Len(stack)] \in Node
  BY <1>1, <1>4, ElementOfSeq
<1> QED BY <1>1, <1>2, <1>3, <1>5

(* What a container holds is no spare object, nor the root, and is in that *)
(* place only.                                                             *)
LEMMA OnePlace ==
  ASSUME UnmadeInv, NEW m \in Node, NEW i \in DOMAIN kids[m]
  PROVE  /\ kids[m][i] \notin spare /\ kids[m][i] # Root
         /\ \A n \in Node : \A j \in DOMAIN kids[n] : kids[m][i] = kids[n][j] => m = n /\ i = j
BY DEF UnmadeInv, IsForest

LEMMA KidsIn ==
  ASSUME Typed, NEW n \in Node
  PROVE  /\ kids[n] \in Seq(Node) /\ Len(kids[n]) \in Nat /\ DOMAIN kids[n] = 1 .. Len(kids[n])
         /\ \A k \in DOMAIN kids[n] : kids[n][k] \in Node /\ k \in Nat
<1>1. kids[n] \in Seq(Node)
  BY DEF Typed
<1>2. \A x \in Seq(Node) : /\ Len(x) \in Nat /\ DOMAIN x = 1 .. Len(x)
                           /\ \A k \in DOMAIN x : x[k] \in Node /\ k \in Nat
  OBVIOUS
<1> QED BY <1>1, <1>2, Zenon

(* The innermost object is not spare, and where it is held the loop is.    *)
LEMMA TopPlace ==
  ASSUME Typed, UnmadeInv, StackInv, InCall
  PROVE  /\ Top \notin spare
         /\ \A n \in Node : \A k \in DOMAIN kids[n] : kids[n][k] = Top =>
              n # Top /\ state[n] = "CopyingData" /\ k = iter[n]
<1>0. PICK l : l = Len(stack)
  OBVIOUS
<1>1. Top \in Node /\ l \in Nat \ {0} /\ Top = stack[l] /\ stack \in Seq(Node)
  BY <1>0, TopIn
<1>2. CASE l = 1
  <2>1. Top = Root
    BY <1>1, <1>2 DEF StackInv, InCall
  <2>2. Root \notin spare
    BY CopyAssumption DEF Typed
  <2>3. \A n \in Node : \A k \in DOMAIN kids[n] : kids[n][k] # Root
    BY OnePlace
  <2> QED BY <2>1, <2>2, <2>3
<1>3. CASE l # 1
  <2>1. l \in 1 .. l /\ l - 1 \in 1 .. l /\ l = (l - 1) + 1 /\ l - 1 # l
    BY <1>1, <1>3
  <2>2. PICK p : p = stack[l - 1]
    OBVIOUS
  <2>3. IsAt(p, Top) /\ p # Top /\ p \in Node
    <3>1. p \in Node
      BY <1>0, <1>1, <2>1, <2>2, ElementOfSeq
    <3>2. IsAt(p, Top)
      BY <1>0, <1>1, <2>1, <2>2, Zenon DEF StackInv
    <3>3. p # Top
      BY <1>0, <1>1, <2>1, <2>2, Zenon DEF StackInv
    <3> QED BY <3>1, <3>2, <3>3
  <2>4. state[p] = "CopyingData" /\ iter[p] \in DOMAIN kids[p] /\ kids[p][iter[p]] = Top
    BY <2>3 DEF IsAt
  <2>5. Top \notin spare
    BY <2>3, <2>4, OnePlace
  <2>6. \A n \in Node : \A k \in DOMAIN kids[n] : kids[n][k] = Top => n = p /\ k = iter[p]
    BY <2>3, <2>4, OnePlace
  <2> QED BY <2>3, <2>4, <2>5, <2>6
<1> QED BY <1>2, <1>3

-----------------------------------------------------------------------------
LEMMA InitInv == Init => CopyInv
<1> SUFFICES ASSUME Init PROVE CopyInv
  OBVIOUS
<1>1. Typed
  <2>1. << >> \in Seq(Node)
    OBVIOUS
  <2>2. kids \in [Node -> Seq(Node)] /\ spare \subseteq Spare /\ stack \in Seq(Node)
    BY <2>1, CopyAssumption DEF Init
  <2>3. /\ state \in [Node -> State] /\ offset \in [Node -> Nat]
        /\ iter \in [Node -> Nat \ {0}]
    BY DEF Init, State
  <2> QED BY <2>2, <2>3 DEF Init, Typed
<1>2. UnmadeInv
  <2>1. \A n \in spare : state[n] = "Ready"
    BY CopyAssumption DEF Init
  <2>2. IsForest(kids, spare)
    BY CopyAssumption DEF Init
  <2> QED BY <2>1, <2>2 DEF UnmadeInv
<1>3. StackInv /\ AnswerInv
  BY DEF Init, StackInv, AnswerInv, InCall
<1>4. PathInv
  <2>1. \A n \in Node : \A k \in DOMAIN kids[n] : state[kids[n][k]] = "Ready"
    BY <1>1, KidsIn DEF Init
  <2>2. state[Root] = "Ready"
    BY CopyAssumption DEF Init
  <2> QED BY <2>1, <2>2 DEF PathInv, PathAt
<1>5. AssertsHold
  BY DEF Init, AssertsHold
<1> QED BY <1>1, <1>2, <1>3, <1>4, <1>5 DEF CopyInv

-----------------------------------------------------------------------------
(* A step in the innermost call, up to the next call or return, gives the  *)
(* object another state, s, and another iterator, i.                       *)
InTop(s, i) ==
  /\ InCall /\ UNCHANGED <<kids, spare, stack>>
  /\ state' = [state EXCEPT ![Top] = s] /\ iter' = [iter EXCEPT ![Top] = i]
  /\ s \in State /\ i \in Nat \ {0} /\ disturbed' \in BOOLEAN
  /\ ~disturbed' => ~disturbed \/ Top = Root
  /\ IsContainer(Top) /\ (Top # Root \/ ~disturbed') => PathAt(Top, s, i)
  /\ Top = Root /\ s = "CopyingData" =>
       \A k \in DOMAIN kids[Root] : k < i => state[kids[Root][k]] = "Ready"

LEMMA TopStep ==
  ASSUME CopyInv, NEW s, NEW i, InTop(s, i)
  PROVE  /\ UnmadeInv' /\ StackInv' /\ PathInv'
         /\ state' \in [Node -> State] /\ iter' \in [Node -> Nat \ {0}]
         /\ state'[Top] = s
<1>0. Typed /\ UnmadeInv /\ StackInv /\ PathInv /\ InCall
  BY DEF CopyInv, InTop
<1>1. /\ Top \in Node /\ Len(stack) \in Nat \ {0} /\ Top = stack[Len(stack)]
      /\ stack \in Seq(Node)
  BY <1>0, TopIn
<1>2. /\ Top \notin spare
      /\ \A n \in Node : \A k \in DOMAIN kids[n] : kids[n][k] = Top =>
              n # Top /\ state[n] = "CopyingData" /\ k = iter[n]
  BY <1>0, TopPlace
<1>3. kids' = kids /\ spare' = spare /\ stack' = stack
  BY DEF InTop
<1>4. /\ state' \in [Node -> State] /\ iter' \in [Node -> Nat \ {0}]
      /\ state'[Top] = s /\ iter'[Top] = i
      /\ \A n \in Node : n # Top => state'[n] = state[n] /\ iter'[n] = iter[n]
  BY <1>0, <1>1 DEF InTop, Typed
<1>5. UnmadeInv'
  <2>1. \A n \in spare : n \in Node /\ n # Top
    BY <1>0, <1>2, CopyAssumption DEF Typed
  <2> QED BY <1>0, <1>3, <1>4, <2>1 DEF UnmadeInv, IsForest
<1>6. StackInv'
  <2>1. ASSUME NEW a \in 1 .. Len(stack), NEW b \in 1 .. Len(stack), b = a + 1
        PROVE  IsAt(stack[a], stack[b])'
    <3>1. IsAt(stack[a], stack[b])
      BY <1>0, <2>1 DEF StackInv
    <3>2. a # Len(stack) /\ Len(stack) \in 1 .. Len(stack)
      BY <1>1, <2>1
    <3>3. stack[a] # Top
      BY <1>0, <1>1, <3>2 DEF StackInv
    <3>4. stack[a] \in Node
      BY <1>1, <2>1, ElementOfSeq
    <3>5. state'[stack[a]] = state[stack[a]] /\ iter'[stack[a]] = iter[stack[a]]
      BY <1>4, <3>3, <3>4
    <3> QED BY <1>3, <3>1, <3>5 DEF IsAt
  <2> QED BY <1>0, <1>3, <2>1 DEF StackInv
<1>7. ASSUME NEW n \in Node, NEW k \in DOMAIN kids[n], kids[n][k] # Top
      PROVE  state'[kids[n][k]] = state[kids[n][k]]
  BY <1>0, <1>4, <1>7, KidsIn
<1>8. ASSUME NEW n \in Node, IsContainer(n), n # Root \/ ~disturbed'
      PROVE  PathAt(n, state[n], iter[n])'
  <2>1. CASE n = Top
    <3>1. PathAt(Top, s, i)
      BY <1>8, <2>1 DEF InTop
    <3>2. \A k \in DOMAIN kids[Top] : kids[Top][k] # Top
      BY <1>1, <1>2
    <3> QED BY <1>1, <1>3, <1>4, <1>7, <2>1, <3>1, <3>2 DEF PathAt
  <2>2. CASE n # Top
    <3>1. n # Root \/ ~disturbed
      BY <1>8, <2>2 DEF InTop
    <3>2. PathAt(n, state[n], iter[n])
      BY <1>0, <1>8, <3>1 DEF PathInv
    <3>3. ASSUME NEW k \in DOMAIN kids[n], state[n] # "CopyingData" \/ k # iter[n]
          PROVE  state'[kids[n][k]] = "Ready"
      <4>1. kids[n][k] # Top
        BY <1>2, <3>3
      <4> QED BY <1>7, <3>2, <3>3, <4>1 DEF PathAt
    <3> QED BY <1>3, <1>4, <2>2, <3>3 DEF PathAt
  <2> QED BY <2>1, <2>2
<1>9. ASSUME state'[Root] = "CopyingData", NEW k \in DOMAIN kids[Root], k < iter'[Root]
      PROVE  state'[kids[Root][k]] = "Ready"
  <2>0. Root \in Node /\ k \in Nat /\ iter[Root] \in Nat
    BY <1>0, CopyAssumption, KidsIn DEF Typed
  <2>1. CASE Root = Top
    <3>1. kids[Root][k] # Top
      BY <1>2, <2>0, <2>1
    <3>2. state[kids[Root][k]] = "Ready"
      BY <1>4, <1>9, <2>1 DEF InTop
    <3> QED BY <1>7, <2>0, <3>1, <3>2
  <2>2. CASE Root # Top
    <3>1. state[Root] = "CopyingData" /\ k < iter[Root]
      BY <1>4, <1>9, <2>0, <2>2
    <3>2. state[kids[Root][k]] = "Ready"
      BY <1>0, <3>1 DEF PathInv
    <3>3. k # iter[Root]
      BY <2>0, <3>1
    <3>4. kids[Root][k] # Top
      BY <1>2, <2>0, <3>3
    <3> QED BY <1>7, <2>0, <3>2, <3>4
  <2> QED BY <2>1, <2>2
<1>10. PathInv'
  BY <1>3, <1>8, <1>9 DEF PathInv
<1> QED BY <1>4, <1>5, <1>6, <1>10

(* An object at offset o in state s has something left to write.           *)
HasMore(n, s, o) ==
  /\ s = "CopyingHeader" => o < HeadSize(n)
  /\ s = "CopyingData" /\ RestSize(n) > 0 => o < RestSize(n)

LEMMA Sizes ==
  ASSUME NEW n \in Node
  PROVE  /\ HeadSize(n) \in Nat \ {0} /\ RestSize(n) \in Nat
         /\ IsContainer(n) => RestSize(n) = 0
<1>1. /\ Kind[n] \in {"container", "one", "string", "route", "big"} /\ DataSize[n] \in Nat
      /\ ParamSize \in Nat /\ HeaderSize \in Nat \ {0}
      /\ Kind[n] = "big" => ParamSize <= DataSize[n]
      /\ Kind[n] = "container" => DataSize[n] = 0
  BY CopyAssumption
<1>2. Inline(n) \in Nat /\ Inline(n) <= DataSize[n] /\ (Kind[n] = "container" => Inline(n) = 0)
  <2>1. CASE Kind[n] = "route"
    BY <1>1, <2>1 DEF Inline
  <2>2. CASE Kind[n] = "big"
    BY <1>1, <2>2 DEF Inline
  <2>3. CASE Kind[n] \notin {"route", "big"}
    BY <1>1, <2>3 DEF Inline
  <2> QED BY <2>1, <2>2, <2>3
<1> QED BY <1>1, <1>2 DEF HeadSize, RestSize, IsContainer

(* Such a step keeps the invariant.                                        *)
LEMMA TopInv ==
  ASSUME CopyInv, NEW s, NEW i, NEW o \in Nat, InTop(s, i),
         offset' = [offset EXCEPT ![Top] = o], HasMore(Top, s, o),
         answer' \in {"none", "InProcess", "Ready", "Error"}, answer' = "Ready" => s = "Ready"
  PROVE  CopyInv'
<1>0. Typed /\ InCall /\ AssertsHold
  BY DEF CopyInv, InTop
<1>1. Top \in Node
  BY <1>0, TopIn
<1>2. /\ UnmadeInv' /\ StackInv' /\ PathInv' /\ state'[Top] = s
      /\ state' \in [Node -> State] /\ iter' \in [Node -> Nat \ {0}]
  BY TopStep
<1>3. offset' \in [Node -> Nat] /\ offset'[Top] = o
  BY <1>0, <1>1 DEF Typed
<1>4. Typed'
  BY <1>0, <1>2, <1>3 DEF InTop, Typed
<1>5. AnswerInv'
  BY <1>2 DEF InTop, AnswerInv, Top
<1>6. ASSUME NEW n \in Node PROVE HasMore(n, state'[n], offset'[n])
  <2>1. CASE n = Top
    BY <1>2, <1>3, <2>1
  <2>2. CASE n # Top
    <3>1. state'[n] = state[n] /\ offset'[n] = offset[n]
      BY <1>0, <2>2 DEF InTop, Typed
    <3> QED BY <1>0, <3>1 DEF AssertsHold, HasMore
  <2> QED BY <2>1, <2>2
<1>7. AssertsHold'
  BY <1>6 DEF AssertsHold, HasMore, HeadSize, RestSize, Inline
<1> QED BY <1>2, <1>4, <1>5, <1>7 DEF CopyInv

(* What the invariant says of the innermost object.                        *)
LEMMA AtTop ==
  ASSUME CopyInv, InCall
  PROVE  /\ Top \in Node /\ Typed /\ HeadSize(Top) \in Nat \ {0} /\ RestSize(Top) \in Nat
         /\ IsContainer(Top) => RestSize(Top) = 0
         /\ state[Top] \in State /\ iter[Top] \in Nat \ {0} /\ offset[Top] \in Nat
         /\ disturbed \in BOOLEAN
         /\ HasMore(Top, state[Top], offset[Top])
         /\ IsContainer(Top) /\ (Top # Root \/ ~disturbed) => PathAt(Top, state[Top], iter[Top])
         /\ Top = Root /\ state[Root] = "CopyingData" =>
              \A k \in DOMAIN kids[Root] : k < iter[Root] => state[kids[Root][k]] = "Ready"
         /\ state = [state EXCEPT ![Top] = state[Top]] /\ iter = [iter EXCEPT ![Top] = iter[Top]]
         /\ offset = [offset EXCEPT ![Top] = offset[Top]]
<1>1. Typed /\ PathInv /\ AssertsHold /\ Top \in Node
  BY TopIn DEF CopyInv
<1>2. HeadSize(Top) \in Nat \ {0} /\ RestSize(Top) \in Nat /\ (IsContainer(Top) => RestSize(Top) = 0)
  BY <1>1, Sizes
<1>3. HasMore(Top, state[Top], offset[Top])
  BY <1>1 DEF AssertsHold, HasMore
<1>4. /\ IsContainer(Top) /\ (Top # Root \/ ~disturbed) => PathAt(Top, state[Top], iter[Top])
      /\ Top = Root /\ state[Root] = "CopyingData" =>
              \A k \in DOMAIN kids[Root] : k < iter[Root] => state[kids[Root][k]] = "Ready"
  BY <1>1 DEF PathInv
<1>5. /\ state[Top] \in State /\ iter[Top] \in Nat \ {0} /\ offset[Top] \in Nat
      /\ disturbed \in BOOLEAN
      /\ state = [state EXCEPT ![Top] = state[Top]] /\ iter = [iter EXCEPT ![Top] = iter[Top]]
      /\ offset = [offset EXCEPT ![Top] = offset[Top]]
  BY <1>1 DEF Typed
<1> QED BY <1>1, <1>2, <1>3, <1>4, <1>5

LEMMA BeginInv == ASSUME CopyInv, Begin PROVE CopyInv'
<1>1. InCall /\ answer = "none" /\ state[Top] = "Ready"
  BY DEF Begin, Running
<1>2. InTop("CopyingHeader", iter[Top])
  <2>1. IsContainer(Top) /\ (Top # Root \/ ~disturbed) => PathAt(Top, "CopyingHeader", iter[Top])
    BY <1>1, AtTop DEF PathAt
  <2> QED BY <1>1, <2>1, AtTop DEF InTop, Begin, State, held
<1>3. HasMore(Top, "CopyingHeader", 0)
  BY <1>1, AtTop DEF HasMore
<1> QED BY <1>1, <1>2, <1>3, TopInv DEF Begin

LEMMA WriteHeaderInv == ASSUME CopyInv, NEW n \in Nat, WriteHeader(n) PROVE CopyInv'
<1> DEFINE done == offset[Top] + n
<1>1. InCall /\ answer = "none" /\ state[Top] = "CopyingHeader" /\ done <= HeadSize(Top)
      /\ UNCHANGED <<kids, spare, disturbed>>
  BY DEF WriteHeader, Running, held
<1>2. done \in Nat
  BY <1>1, AtTop
<1>3. CASE /\ done < HeadSize(Top)
           /\ offset' = [offset EXCEPT ![Top] = done]
           /\ Return("InProcess")
           /\ UNCHANGED <<state, iter>>
  <2>1. InTop("CopyingHeader", iter[Top])
    BY <1>1, <1>3, AtTop DEF InTop, Return
  <2>2. HasMore(Top, "CopyingHeader", done)
    BY <1>3 DEF HasMore
  <2> QED BY <1>2, <1>3, <2>1, <2>2, TopInv DEF Return
<1>4. CASE /\ done = HeadSize(Top) /\ Kind[Top] = "route"
           /\ offset' = [offset EXCEPT ![Top] = done]
           /\ state' = [state EXCEPT ![Top] = "Ready"]
           /\ Return("Ready")
           /\ UNCHANGED iter
  <2>1. ~IsContainer(Top) /\ Top # Root
    BY <1>4, CopyAssumption DEF IsContainer
  <2>2. InTop("Ready", iter[Top])
    BY <1>1, <1>4, <2>1, AtTop DEF InTop, Return, State
  <2>3. HasMore(Top, "Ready", done)
    BY DEF HasMore
  <2> QED BY <1>2, <1>4, <2>2, <2>3, TopInv DEF Return
<1>5. CASE /\ done = HeadSize(Top) /\ IsContainer(Top)
           /\ offset' = [offset EXCEPT ![Top] = done]
           /\ state' = [state EXCEPT ![Top] = "CopyingData"]
           /\ iter' = [iter EXCEPT ![Top] = 1]
           /\ UNCHANGED <<stack, answer>>
  <2>1. IsContainer(Top) /\ (Top # Root \/ ~disturbed) => PathAt(Top, "CopyingData", 1)
    BY <1>1, AtTop DEF PathAt
  <2>2. \A k \in DOMAIN kids[Root] : ~(k < 1)
    BY KidsIn, AtTop, <1>1, CopyAssumption
  <2>3. InTop("CopyingData", 1)
    BY <1>1, <1>5, <2>1, <2>2, AtTop DEF InTop, State
  <2>4. HasMore(Top, "CopyingData", done)
    BY <1>1, <1>5, AtTop DEF HasMore
  <2> QED BY <1>1, <1>2, <1>5, <2>3, <2>4, TopInv
<1>6. CASE /\ done = HeadSize(Top) /\ Kind[Top] \in {"one", "string", "big"}
           /\ offset' = [offset EXCEPT ![Top] = 0]
           /\ state' = [state EXCEPT ![Top] = "CopyingData"]
           /\ UNCHANGED <<iter, stack, answer>>
  <2>1. ~IsContainer(Top) /\ Top # Root
    BY <1>6, CopyAssumption DEF IsContainer
  <2>2. InTop("CopyingData", iter[Top])
    BY <1>1, <1>6, <2>1, AtTop DEF InTop, State
  <2>3. HasMore(Top, "CopyingData", 0)
    BY <1>1, AtTop DEF HasMore
  <2> QED BY <1>1, <1>6, <2>2, <2>3, TopInv
<1> QED BY <1>3, <1>4, <1>5, <1>6 DEF WriteHeader

LEMMA WriteDataInv == ASSUME CopyInv, NEW n \in Nat, WriteData(n) PROVE CopyInv'
<1> DEFINE done == offset[Top] + n
<1>1. /\ InCall /\ state[Top] = "CopyingData" /\ ~IsContainer(Top) /\ done <= RestSize(Top)
      /\ UNCHANGED <<kids, spare, iter, disturbed>> /\ offset' = [offset EXCEPT ![Top] = done]
  BY DEF WriteData, Running, held
<1>2. done \in Nat /\ Top # Root
  BY <1>1, AtTop, CopyAssumption DEF IsContainer
<1>3. CASE done = RestSize(Top)
  <2>1. state' = [state EXCEPT ![Top] = "Ready"] /\ Return("Ready")
    BY <1>3 DEF WriteData
  <2>2. InTop("Ready", iter[Top])
    BY <1>1, <1>2, <2>1, AtTop DEF InTop, Return, State
  <2>3. HasMore(Top, "Ready", done)
    BY DEF HasMore
  <2> QED BY <1>1, <1>2, <2>1, <2>2, <2>3, TopInv DEF Return
<1>4. CASE done # RestSize(Top)
  <2>1. state' = state /\ Return("InProcess")
    BY <1>4 DEF WriteData
  <2>2. InTop("CopyingData", iter[Top])
    BY <1>1, <1>2, <2>1, AtTop DEF InTop, Return, State
  <2>3. HasMore(Top, "CopyingData", done)
    BY <1>1, <1>2, <1>4, AtTop DEF HasMore
  <2> QED BY <1>1, <1>2, <2>1, <2>2, <2>3, TopInv DEF Return
<1> QED BY <1>3, <1>4

LEMMA NothingToWriteInv == ASSUME CopyInv, NothingToWrite PROVE CopyInv'
<1>1. /\ InCall /\ state[Top] = "CopyingData" /\ ~IsContainer(Top) /\ Return("Error")
      /\ disturbed' = TRUE /\ UNCHANGED <<kids, spare, state, iter, offset>>
  BY DEF NothingToWrite, Running, tree, held
<1>2. Top # Root
  BY <1>1, CopyAssumption DEF IsContainer
<1>3. InTop("CopyingData", iter[Top])
  BY <1>1, <1>2, AtTop DEF InTop, Return, State
<1>4. HasMore(Top, "CopyingData", offset[Top]) /\ offset[Top] \in Nat
      /\ offset' = [offset EXCEPT ![Top] = offset[Top]]
  BY <1>1, AtTop
<1> QED BY <1>1, <1>3, <1>4, TopInv DEF Return

LEMMA WriteFailsInv == ASSUME CopyInv, WriteFails PROVE CopyInv'
<1> DEFINE s == IF Kind[Top] \in {"container", "one"} THEN "Ready" ELSE state[Top]
<1>1. /\ InCall /\ Return("Error") /\ disturbed' = TRUE /\ UNCHANGED <<kids, spare, iter, offset>>
      /\ \/ state[Top] = "CopyingHeader"
         \/ state[Top] = "CopyingData" /\ ~IsContainer(Top)
      /\ state' = [state EXCEPT ![Top] = s]
  BY DEF WriteFails, Running, held
<1>2. s \in State /\ HasMore(Top, s, offset[Top])
  BY <1>1, AtTop DEF State, HasMore
<1>3. IsContainer(Top) => s = "Ready" /\ state[Top] = "CopyingHeader"
  BY <1>1 DEF IsContainer
<1>4. Top = Root => IsContainer(Top)
  BY CopyAssumption DEF IsContainer
<1> HIDE DEF s
<1>5. IsContainer(Top) /\ Top # Root => PathAt(Top, s, iter[Top])
  BY <1>1, <1>3, AtTop DEF PathAt
<1>6. InTop(s, iter[Top])
  BY <1>1, <1>2, <1>3, <1>4, <1>5, AtTop DEF InTop, Return
<1>7. offset[Top] \in Nat /\ offset' = [offset EXCEPT ![Top] = offset[Top]]
  BY <1>1, AtTop
<1> QED BY <1>1, <1>2, <1>6, <1>7, TopInv DEF Return

LEMMA EndOfMapInv == ASSUME CopyInv, EndOfMap PROVE CopyInv'
<1>1. /\ InCall /\ state[Top] = "CopyingData" /\ IsContainer(Top) /\ Return("Ready")
      /\ iter[Top] > Len(kids[Top])
      /\ state' = [state EXCEPT ![Top] = "Ready"] /\ UNCHANGED <<kids, spare, iter, offset>>
      /\ disturbed' = (disturbed /\ Top # Root)
  BY DEF EndOfMap, Running, held
<1>2. \A k \in DOMAIN kids[Top] : k < iter[Top] /\ k # iter[Top]
  <2>1. /\ Len(kids[Top]) \in Nat /\ DOMAIN kids[Top] = 1 .. Len(kids[Top])
        /\ iter[Top] \in Nat
    BY <1>1, AtTop, KidsIn
  <2>2. \A l \in Nat, t \in Nat : t > l => \A k \in 1 .. l : k < t /\ k # t
    OBVIOUS
  <2> QED BY <1>1, <2>1, <2>2, Zenon
<1>3. \A k \in DOMAIN kids[Top] : state[kids[Top][k]] = "Ready"
  <2>1. CASE Top = Root
    BY <1>1, <1>2, <2>1, AtTop
  <2>2. CASE Top # Root
    BY <1>1, <1>2, <2>2, AtTop DEF PathAt
  <2> QED BY <2>1, <2>2
<1>4. InTop("Ready", iter[Top])
  <2>1. PathAt(Top, "Ready", iter[Top])
    BY <1>3 DEF PathAt
  <2>2. disturbed' \in BOOLEAN /\ (~disturbed' => ~disturbed \/ Top = Root)
    BY <1>1, AtTop
  <2> QED BY <1>1, <2>1, <2>2, AtTop DEF InTop, Return, State
<1>5. /\ HasMore(Top, "Ready", offset[Top]) /\ offset[Top] \in Nat
      /\ offset' = [offset EXCEPT ![Top] = offset[Top]]
  BY <1>1, AtTop DEF HasMore
<1> QED BY <1>1, <1>4, <1>5, TopInv DEF Return

-----------------------------------------------------------------------------
(* Calls and returns leave the objects alone, or all but an iterator.      *)
LEMMA SameTree ==
  ASSUME CopyInv, UNCHANGED <<kids, spare, state, iter, offset, disturbed>>,
         stack' \in Seq(Node), answer' \in {"none", "InProcess", "Ready", "Error"},
         StackInv', AnswerInv'
  PROVE  CopyInv'
<1>1. Typed' /\ UnmadeInv'
  BY DEF CopyInv, Typed, UnmadeInv, IsForest
<1>2. PathInv'
  BY DEF CopyInv, PathInv, PathAt
<1>3. AssertsHold'
  BY DEF CopyInv, AssertsHold
<1> QED BY <1>1, <1>2, <1>3 DEF CopyInv

LEMMA CallInv == ASSUME CopyInv, Call PROVE CopyInv'
<1>1. stack' = <<Root>> /\ answer' = "none" /\ UNCHANGED <<kids, spare, state, iter, offset, disturbed>>
  BY DEF Call, tree, held
<1>2. Root \in Node
  BY CopyAssumption
<1>3. stack' \in Seq(Node) /\ Len(stack') = 1 /\ stack'[1] = Root
  BY <1>1, <1>2
<1>4. StackInv'
  BY <1>3 DEF StackInv
<1>5. AnswerInv'
  BY <1>1 DEF AnswerInv
<1> QED BY <1>1, <1>3, <1>4, <1>5, SameTree

LEMMA CallChildInv == ASSUME CopyInv, CallChild PROVE CopyInv'
<1>1. PICK c, l : c = kids[Top][iter[Top]] /\ l = Len(stack)
  OBVIOUS
<1>2. /\ InCall /\ answer = "none" /\ state[Top] = "CopyingData" /\ IsContainer(Top)
      /\ iter[Top] <= Len(kids[Top]) /\ stack' = Append(stack, c)
      /\ UNCHANGED <<kids, spare, state, iter, offset, disturbed, answer>>
  BY <1>1 DEF CallChild, Running, tree, held
<1>3. Typed /\ UnmadeInv /\ StackInv
  BY DEF CopyInv
<1>4. Top \in Node /\ l \in Nat \ {0} /\ Top = stack[l] /\ stack \in Seq(Node)
  BY <1>1, <1>2, <1>3, TopIn
<1>5. iter[Top] \in DOMAIN kids[Top] /\ c \in Node
  <2>1. /\ Len(kids[Top]) \in Nat /\ DOMAIN kids[Top] = 1 .. Len(kids[Top])
        /\ iter[Top] \in Nat \ {0}
    BY <1>2, AtTop, KidsIn
  <2>2. \A t \in Nat \ {0}, k \in Nat : t <= k => t \in 1 .. k
    OBVIOUS
  <2>3. iter[Top] \in DOMAIN kids[Top]
    BY <1>2, <2>1, <2>2, Zenon
  <2> QED BY <1>1, <1>3, <1>4, <2>3, KidsIn
<1>6. /\ stack' \in Seq(Node) /\ Len(stack') = l + 1 /\ stack'[l + 1] = c
      /\ \A i \in 1 .. l : stack'[i] = stack[i]
  BY <1>1, <1>2, <1>4, <1>5, AppendProperties
<1>7. IsAt(Top, c)
  BY <1>1, <1>2, <1>5 DEF IsAt
<1>8. ASSUME NEW i \in 1 .. l PROVE stack[i] # c
  <2>1. SUFFICES ASSUME stack[i] = c PROVE FALSE
    OBVIOUS
  <2>2. c # Root
    BY <1>1, <1>3, <1>4, <1>5, OnePlace
  <2>3. i # 1
    BY <1>2, <1>3, <2>1, <2>2 DEF StackInv, InCall
  <2>4. i - 1 \in 1 .. l /\ i = (i - 1) + 1 /\ i - 1 # l
    BY <1>4, <2>3
  <2>5. IsAt(stack[i - 1], c)
    BY <1>1, <1>3, <2>1, <2>4, Zenon DEF StackInv
  <2>6. stack[i - 1] \in Node
    BY <1>1, <1>4, <2>4, ElementOfSeq
  <2>7. stack[i - 1] = Top
    BY <1>1, <1>3, <1>4, <1>5, <2>5, <2>6, OnePlace DEF IsAt
  <2>8. l \in 1 .. l
    BY <1>4
  <2>9. i - 1 = l
    BY <1>1, <1>3, <1>4, <2>4, <2>7, <2>8, Zenon DEF StackInv
  <2> QED BY <2>4, <2>9
<1>9. StackInv'
  <2>1. stack' # << >> => stack'[1] = Root
    <3>1. 1 \in 1 .. l
      BY <1>4
    <3> QED BY <1>2, <1>3, <1>6, <3>1 DEF StackInv, InCall
  <2>2. ASSUME NEW i \in 1 .. l + 1, NEW j \in 1 .. l + 1, stack'[i] = stack'[j]
        PROVE  i = j
    <3>1. CASE i \in 1 .. l /\ j \in 1 .. l
      BY <1>1, <1>3, <1>6, <2>2, <3>1 DEF StackInv
    <3>2. CASE i = l + 1 /\ j = l + 1
      BY <3>2
    <3>3. CASE i = l + 1 /\ j \in 1 .. l
      BY <1>6, <1>8, <2>2, <3>3
    <3>4. CASE i \in 1 .. l /\ j = l + 1
      BY <1>6, <1>8, <2>2, <3>4
    <3>5. (i \in 1 .. l \/ i = l + 1) /\ (j \in 1 .. l \/ j = l + 1)
      BY <1>4
    <3> QED BY <3>1, <3>2, <3>3, <3>4, <3>5
  <2>3. ASSUME NEW i \in 1 .. l + 1, NEW j \in 1 .. l + 1, j = i + 1
        PROVE  IsAt(stack[i], stack[j])'
    <3>1. i \in 1 .. l
      BY <1>4, <2>3
    <3>2. stack'[i] = stack[i]
      BY <1>6, <3>1
    <3>3. CASE i = l
      <4>1. stack'[i] = Top /\ stack'[j] = c
        BY <1>4, <1>6, <2>3, <3>2, <3>3
      <4> QED BY <1>2, <1>7, <4>1 DEF IsAt
    <3>4. CASE i # l
      <4>1. j \in 1 .. l
        BY <1>4, <2>3, <3>4
      <4>2. IsAt(stack[i], stack[j]) /\ stack'[j] = stack[j]
        BY <1>1, <1>3, <1>6, <2>3, <3>1, <4>1 DEF StackInv
      <4> QED BY <1>2, <3>2, <4>2 DEF IsAt
    <3> QED BY <3>3, <3>4
  <2> QED BY <1>6, <2>1, <2>2, <2>3 DEF StackInv
<1>10. AnswerInv'
  BY <1>2 DEF AnswerInv
<1> QED BY <1>2, <1>6, <1>9, <1>10, SameTree

LEMMA ReturnsInv == ASSUME CopyInv, Returns PROVE CopyInv'
<1>1. PICK l : l = Len(stack)
  OBVIOUS
<1>2. /\ InCall /\ answer # "none" /\ stack' = Front(stack)
      /\ UNCHANGED <<kids, spare, state, offset, disturbed>>
  BY DEF Returns, held
<1>3. Typed /\ UnmadeInv /\ StackInv /\ PathInv /\ AnswerInv /\ AssertsHold
  BY DEF CopyInv
<1>4. Top \in Node /\ l \in Nat \ {0} /\ Top = stack[l] /\ stack \in Seq(Node)
  BY <1>1, <1>2, <1>3, TopIn
<1>5. /\ stack' \in Seq(Node) /\ Len(stack') = l - 1
      /\ \A i \in 1 .. l - 1 : stack'[i] = stack[i] /\ i \in 1 .. l
  BY <1>1, <1>2, <1>4 DEF Front
<1>6. /\ stack' # << >> => stack'[1] = Root
      /\ \A i, j \in 1 .. l - 1 : stack'[i] = stack'[j] => i = j
  <2>1. stack' # << >> => 1 \in 1 .. l - 1
    <3>1. stack' # << >> => Len(stack') # 0
      BY <1>5, EmptySeq
    <3> QED BY <1>4, <1>5, <3>1
  <2>2. stack' # << >> => stack'[1] = Root
    BY <1>2, <1>3, <1>5, <2>1 DEF StackInv, InCall
  <2> QED BY <1>1, <1>3, <1>5, <2>2 DEF StackInv
<1>7. CASE answer = "Ready" /\ Len(stack) > 1
  <2>1. l - 1 \in 1 .. l - 1 /\ l - 1 \in 1 .. l /\ l \in 1 .. l /\ l = (l - 1) + 1 /\ l - 1 # l
    BY <1>1, <1>4, <1>7
  <2>2. PICK p, t : p = stack[l - 1] /\ t = iter[p]
    OBVIOUS
  <2>3. p \in Node /\ IsAt(p, Top) /\ Last(stack') = p /\ p # Top
    <3>1. p \in Node
      BY <1>1, <1>4, <2>1, <2>2, ElementOfSeq
    <3>2. IsAt(p, Top) /\ p # Top
      BY <1>1, <1>3, <1>4, <2>1, <2>2, Zenon DEF StackInv
    <3>3. Last(stack') = p
      BY <1>5, <2>1, <2>2 DEF Last
    <3> QED BY <3>1, <3>2, <3>3
  <2>4. /\ t \in Nat \ {0} /\ t \in DOMAIN kids[p] /\ kids[p][t] = Top /\ state[p] = "CopyingData"
        /\ state[Top] = "Ready"
    BY <1>2, <1>3, <1>7, <2>2, <2>3 DEF IsAt, AnswerInv, Typed
  <2>5. iter' = [iter EXCEPT ![p] = t + 1] /\ answer' = "none"
    BY <1>7, <2>2, <2>3 DEF Returns
  <2>6. /\ iter' \in [Node -> Nat \ {0}] /\ iter'[p] = t + 1
        /\ \A n \in Node : n # p => iter'[n] = iter[n]
    <3>1. t + 1 \in Nat \ {0}
      BY <2>4
    <3> QED BY <1>3, <2>3, <2>5, <3>1 DEF Typed
  <2>7. Typed'
    BY <1>2, <1>3, <1>5, <2>5, <2>6 DEF Typed
  <2>8. UnmadeInv' /\ AnswerInv' /\ AssertsHold'
    BY <1>2, <1>3, <2>5 DEF UnmadeInv, IsForest, AnswerInv, AssertsHold
  <2>9. StackInv'
    <3>1. ASSUME NEW i \in 1 .. l - 1, NEW j \in 1 .. l - 1, j = i + 1
          PROVE  IsAt(stack[i], stack[j])'
      <4>1. i \in 1 .. l /\ j \in 1 .. l /\ i # l - 1 /\ stack'[i] = stack[i] /\ stack'[j] = stack[j]
        BY <1>4, <1>5, <3>1
      <4>2. IsAt(stack[i], stack[j])
        BY <1>1, <1>3, <3>1, <4>1 DEF StackInv
      <4>3. stack[i] # p
        BY <1>1, <1>3, <2>1, <2>2, <4>1, Zenon DEF StackInv
      <4>4. stack[i] \in Node
        BY <1>1, <1>4, <4>1, ElementOfSeq
      <4> QED BY <1>2, <2>6, <4>1, <4>2, <4>3, <4>4 DEF IsAt
    <3> QED BY <1>5, <1>6, <3>1 DEF StackInv
  <2>10. ASSUME NEW n \in Node, IsContainer(n), n # Root \/ ~disturbed
         PROVE  PathAt(n, state[n], iter[n])'
    <3>1. PathAt(n, state[n], iter[n])
      BY <1>3, <2>10 DEF PathInv
    <3>2. CASE n # p
      BY <1>2, <2>6, <3>1, <3>2 DEF PathAt
    <3>3. CASE n = p
      BY <1>2, <2>2, <2>4, <3>1, <3>3 DEF PathAt
    <3> QED BY <3>2, <3>3
  <2>11. ASSUME state[Root] = "CopyingData", NEW k \in DOMAIN kids[Root], k < iter'[Root]
         PROVE  state[kids[Root][k]] = "Ready"
    <3>0. Root \in Node /\ k \in Nat
      BY <1>3, CopyAssumption, KidsIn
    <3>1. CASE Root = p
      <4>1. k < t \/ k = t
        BY <2>4, <2>6, <2>11, <3>0, <3>1
      <4> QED BY <1>3, <2>2, <2>4, <2>11, <3>1, <4>1 DEF PathInv
    <3>2. CASE Root # p
      BY <1>3, <2>6, <2>11, <3>0, <3>2 DEF PathInv
    <3> QED BY <3>1, <3>2
  <2>12. PathInv'
    BY <1>2, <2>10, <2>11 DEF PathInv
  <2> QED BY <2>7, <2>8, <2>9, <2>12 DEF CopyInv
<1>8. CASE ~(answer = "Ready" /\ Len(stack) > 1)
  <2>1. UNCHANGED <<iter, answer>>
    BY <1>8 DEF Returns
  <2>2. StackInv'
    <3>1. ASSUME NEW i \in 1 .. l - 1, NEW j \in 1 .. l - 1, j = i + 1
          PROVE  IsAt(stack[i], stack[j])'
      <4>1. stack'[i] = stack[i] /\ stack'[j] = stack[j] /\ IsAt(stack[i], stack[j])
        BY <1>1, <1>3, <1>5, <3>1 DEF StackInv
      <4> QED BY <1>2, <2>1, <4>1 DEF IsAt
    <3> QED BY <1>5, <1>6, <3>1 DEF StackInv
  <2>3. AnswerInv'
    <3>1. answer = "Ready" => stack' = << >>
      <4>1. answer = "Ready" => Len(stack') = 0
        BY <1>1, <1>4, <1>5, <1>8
      <4> QED BY <1>5, <4>1, EmptySeq
    <3> QED BY <2>1, <3>1 DEF AnswerInv, InCall
  <2>4. answer \in {"none", "InProcess", "Ready", "Error"}
    BY <1>3 DEF Typed
  <2> QED BY <1>2, <1>5, <2>1, <2>2, <2>3, <2>4, SameTree
<1> QED BY <1>7, <1>8

-----------------------------------------------------------------------------
(* Between two calls.  The root loses its place in the upload, at most.    *)
LEMMA ResetInv == ASSUME CopyInv, Reset PROVE CopyInv'
<1>1. /\ ~InCall /\ state' = [state EXCEPT ![Root] = "Ready"] /\ answer' = "none"
      /\ disturbed' = TRUE /\ UNCHANGED <<kids, spare, offset, iter, stack>>
  BY DEF Reset, held
<1>2. Typed /\ UnmadeInv /\ StackInv /\ PathInv /\ AssertsHold /\ Root \in Node
  BY CopyAssumption DEF CopyInv
<1>3. /\ state' \in [Node -> State] /\ state'[Root] = "Ready"
      /\ \A n \in Node : n # Root => state'[n] = state[n]
  BY <1>1, <1>2 DEF Typed, State
<1>4. Typed'
  BY <1>1, <1>2, <1>3 DEF Typed
<1>5. UnmadeInv'
  <2>1. \A n \in spare : n \in Node
    BY <1>2, CopyAssumption DEF Typed
  <2> QED BY <1>1, <1>2, <1>3, <2>1 DEF UnmadeInv, IsForest
<1>6. StackInv' /\ AnswerInv'
  BY <1>1, <1>2 DEF StackInv, AnswerInv, InCall
<1>7. ASSUME NEW n \in Node, IsContainer(n), n # Root
      PROVE  PathAt(n, state[n], iter[n])'
  <2>1. PathAt(n, state[n], iter[n])
    BY <1>2, <1>7 DEF PathInv
  <2>2. \A k \in DOMAIN kids[n] : state'[kids[n][k]] = state[kids[n][k]]
    BY <1>2, <1>3, KidsIn, OnePlace
  <2> QED BY <1>1, <1>3, <1>7, <2>1, <2>2 DEF PathAt
<1>8. PathInv'
  BY <1>1, <1>3, <1>7 DEF PathInv
<1>9. AssertsHold'
  BY <1>1, <1>2, <1>3 DEF AssertsHold
<1> QED BY <1>4, <1>5, <1>6, <1>8, <1>9 DEF CopyInv

(* What the map of a container holds when n is put in under a new key, or  *)
(* in place of another object.                                             *)
PutIn(s, n, q) ==
  /\ q \in Seq(Node)
  /\ \A k \in DOMAIN q : q[k] = n \/ \E j \in DOMAIN s : q[k] = s[j]
  /\ \A k, l \in DOMAIN q : q[k] = q[l] => k = l

LEMMA Inserts ==
  ASSUME NEW s \in Seq(Node), NEW n \in Node, NEW i \in 1 .. Len(s) + 1,
         \A j \in DOMAIN s : s[j] # n,
         \A j, k \in DOMAIN s : s[j] = s[k] => j = k
  PROVE  PutIn(s, n, InsertAt(s, i, n))
<1>1. PICK m, a, b, c : m = Len(s) /\ a = SubSeq(s, 1, i - 1) /\ b = SubSeq(s, i, Len(s)) /\ c = a \o <<n>>
  OBVIOUS
<1>2. m \in Nat /\ i \in 1 .. m + 1 /\ DOMAIN s = 1 .. m
  BY <1>1
<1>3. a \in Seq(Node) /\ Len(a) = i - 1 /\ \A k \in 1 .. i - 1 : a[k] = s[k]
  BY <1>1, <1>2
<1>4. b \in Seq(Node) /\ Len(b) = m - i + 1 /\ \A k \in 1 .. m - i + 1 : b[k] = s[i + k - 1]
  BY <1>1, <1>2
<1>5. /\ c \in Seq(Node) /\ Len(c) = i /\ c[i] = n
      /\ \A k \in 1 .. i - 1 : c[k] = s[k]
  <2>1. <<n>> \in Seq(Node) /\ Len(<<n>>) = 1 /\ <<n>>[1] = n
    OBVIOUS
  <2>2. /\ c \in Seq(Node) /\ Len(c) = Len(a) + 1
        /\ \A k \in 1 .. Len(a) + 1 : c[k] = IF k <= Len(a) THEN a[k] ELSE <<n>>[k - Len(a)]
    BY <1>1, <1>3, <2>1, ConcatProperties
  <2> QED BY <1>2, <1>3, <2>1, <2>2
<1>6. PICK q : q = c \o b
  OBVIOUS
<1>7. /\ q \in Seq(Node) /\ Len(q) = Len(c) + Len(b)
      /\ \A k \in 1 .. Len(c) + Len(b) : q[k] = IF k <= Len(c) THEN c[k] ELSE b[k - Len(c)]
  <2>1. c \in Seq(Node) /\ b \in Seq(Node)
    BY <1>4, <1>5
  <2> QED BY <1>6, <2>1, ConcatProperties
<1>8. Len(q) = m + 1 /\ DOMAIN q = 1 .. m + 1
  BY <1>2, <1>4, <1>5, <1>7
<1>9. ASSUME NEW k \in 1 .. m + 1
      PROVE  q[k] = IF k < i THEN s[k] ELSE IF k = i THEN n ELSE s[k - 1]
  <2>1. q[k] = IF k <= i THEN c[k] ELSE b[k - i]
    BY <1>2, <1>4, <1>5, <1>7
  <2>2. CASE k < i
    BY <1>2, <1>5, <2>1, <2>2
  <2>3. CASE k = i
    BY <1>2, <1>5, <2>1, <2>3
  <2>4. CASE k > i
    <3>1. k - i \in 1 .. m - i + 1 /\ i + (k - i) - 1 = k - 1
      BY <1>2, <2>4
    <3>2. b[k - i] = s[i + (k - i) - 1]
      BY <1>4, <3>1, Zenon
    <3> QED BY <1>2, <2>1, <2>4, <3>1, <3>2
  <2> QED BY <1>2, <2>2, <2>3, <2>4
<1>10. ASSUME NEW k \in 1 .. m + 1
       PROVE  q[k] = n \/ \E j \in DOMAIN s : q[k] = s[j]
  <2>1. k # i => (k < i => k \in 1 .. m) /\ (~(k < i) => k - 1 \in 1 .. m)
    BY <1>2
  <2> QED BY <1>2, <1>9, <2>1
<1>11. ASSUME NEW k \in 1 .. m + 1, NEW l \in 1 .. m + 1, q[k] = q[l]
       PROVE  k = l
  <2>1. /\ k # i => (k < i => k \in DOMAIN s) /\ (~(k < i) => k - 1 \in DOMAIN s)
        /\ l # i => (l < i => l \in DOMAIN s) /\ (~(l < i) => l - 1 \in DOMAIN s)
    BY <1>2
  <2>2. CASE k = i \/ l = i
    <3>1. ASSUME NEW z \in 1 .. m + 1, q[z] = n PROVE z = i
      <4>1. SUFFICES ASSUME z # i PROVE FALSE
        OBVIOUS
      <4>2. PICK x \in DOMAIN s : q[z] = s[x]
        <5>1. CASE z < i
          BY <1>2, <1>9, <5>1
        <5>2. CASE ~(z < i)
          <6>1. z - 1 \in DOMAIN s /\ q[z] = s[z - 1]
            BY <1>2, <1>9, <4>1, <5>2
          <6> QED BY <6>1
        <5> QED BY <5>1, <5>2
      <4> QED BY <3>1, <4>2
    <3>2. i \in 1 .. m + 1 /\ q[i] = n
      BY <1>2, <1>9
    <3> QED BY <1>11, <2>2, <3>1, <3>2
  <2>3. CASE k # i /\ l # i
    <3>1. PICK x, y \in DOMAIN s :
             /\ x = (IF k < i THEN k ELSE k - 1) /\ y = (IF l < i THEN l ELSE l - 1)
             /\ q[k] = s[x] /\ q[l] = s[y]
      BY <1>9, <2>1, <2>3
    <3>2. x = y
      BY <1>11, <3>1
    <3> QED BY <1>2, <2>3, <3>1, <3>2
  <2> QED BY <2>2, <2>3
<1>12. PutIn(s, n, q)
  BY <1>7, <1>8, <1>10, <1>11 DEF PutIn
<1>13. q = InsertAt(s, i, n)
  BY <1>1, <1>6 DEF InsertAt
<1> QED BY <1>12, <1>13

LEMMA Replaces ==
  ASSUME NEW s \in Seq(Node), NEW n \in Node, NEW i \in 1 .. Len(s),
         \A j \in DOMAIN s : s[j] # n,
         \A j, k \in DOMAIN s : s[j] = s[k] => j = k
  PROVE  PutIn(s, n, ReplaceAt(s, i, n))
<1>1. PICK q : q = [s EXCEPT ![i] = n]
  OBVIOUS
<1>2. /\ q \in Seq(Node) /\ DOMAIN q = DOMAIN s
      /\ \A k \in DOMAIN s : q[k] = IF k = i THEN n ELSE s[k]
  BY <1>1
<1>3. PutIn(s, n, q)
  BY <1>2 DEF PutIn
<1>4. q = ReplaceAt(s, i, n)
  BY <1>1 DEF ReplaceAt
<1> QED BY <1>3, <1>4

LEMMA EmplaceInv ==
  ASSUME CopyInv, NEW n \in spare, NEW i \in 1 .. Len(kids[Root]) + 1, Emplace(n, i)
  PROVE  CopyInv'
<1>1. /\ ~InCall /\ spare' = spare \ {n} /\ answer' = "none"
      /\ state' = [state EXCEPT ![Root] = "Ready", ![n] = "Ready"]
      /\ disturbed' = (disturbed \/ state[Root] # "Ready")
      /\ UNCHANGED <<offset, iter, stack>>
  BY DEF Emplace
<1>2. /\ Typed /\ UnmadeInv /\ StackInv /\ PathInv /\ AssertsHold /\ Root \in Node
      /\ n \in Node /\ n # Root
  BY CopyAssumption DEF CopyInv, Typed
<1>3. PICK s : s = kids[Root]
  OBVIOUS
<1>4. PICK q : kids' = [kids EXCEPT ![Root] = q] /\ PutIn(s, n, q)
  <2>1. /\ s \in Seq(Node) /\ i \in 1 .. Len(s) + 1
        /\ \A j \in DOMAIN s : s[j] # n
        /\ \A j, k \in DOMAIN s : s[j] = s[k] => j = k
    BY <1>2, <1>3, KidsIn, OnePlace
  <2>2. CASE kids' = [kids EXCEPT ![Root] = InsertAt(@, i, n)]
    BY <1>2, <1>3, <2>1, <2>2, Inserts
  <2>3. CASE i <= Len(s) /\ kids' = [kids EXCEPT ![Root] = ReplaceAt(@, i, n)]
    <3>1. i \in 1 .. Len(s)
      BY <2>1, <2>3
    <3> QED BY <1>2, <1>3, <2>1, <2>3, <3>1, Replaces
  <2> QED BY <1>3, <2>2, <2>3 DEF Emplace
<1>5. /\ q \in Seq(Node) /\ \A k, l \in DOMAIN q : q[k] = q[l] => k = l
      /\ \A k \in DOMAIN q : q[k] = n \/ \E j \in DOMAIN kids[Root] : q[k] = kids[Root][j]
  BY <1>3, <1>4 DEF PutIn
<1>6. /\ kids' \in [Node -> Seq(Node)] /\ kids'[Root] = q
      /\ \A m \in Node : m # Root => kids'[m] = kids[m]
  BY <1>2, <1>4, <1>5 DEF Typed
<1>7. /\ state' \in [Node -> State] /\ state'[Root] = "Ready" /\ state[n] = "Ready"
      /\ \A m \in Node : m # Root => state'[m] = state[m]
  <2>1. state[n] = "Ready"
    BY <1>2 DEF UnmadeInv
  <2> QED BY <1>1, <1>2, <2>1 DEF Typed, State
<1>8. Typed'
  BY <1>1, <1>2, <1>6, <1>7 DEF Typed
<1>9. \A m \in Node : \A k \in DOMAIN kids'[m] :
        \/ kids'[m][k] = n /\ m = Root
        \/ \E j \in DOMAIN kids[m] : kids'[m][k] = kids[m][j]
  BY <1>5, <1>6
<1>10. UnmadeInv'
  <2>1. ASSUME NEW m \in Node, NEW x \in Node, NEW k \in DOMAIN kids'[m]
        PROVE  /\ kids'[m][k] \notin spare' \cup {Root}
               /\ \A j \in DOMAIN kids'[x] : kids'[m][k] = kids'[x][j] => m = x /\ k = j
    <3>1. kids'[m][k] \notin spare' \cup {Root}
      BY <1>1, <1>2, <1>9, OnePlace
    <3>2. ASSUME NEW j \in DOMAIN kids'[x], kids'[m][k] = kids'[x][j]
          PROVE  m = x /\ k = j
      <4>1. m = x
        <5>1. \A y \in Node : \A h \in DOMAIN kids[y] : kids[y][h] # n
          BY <1>2, OnePlace
        <5>2. CASE kids'[m][k] = n
          <6>1. \A y \in Node : \A h \in DOMAIN kids'[y] : kids'[y][h] = n => y = Root
            BY <1>9, <5>1
          <6> QED BY <3>2, <5>2, <6>1
        <5>3. CASE kids'[m][k] # n
          BY <1>2, <1>9, <3>2, <5>3, OnePlace
        <5> QED BY <5>2, <5>3
      <4>2. CASE m = Root
        BY <1>5, <1>6, <3>2, <4>1, <4>2
      <4>3. CASE m # Root
        <5>1. kids'[m] = kids[m] /\ kids'[x] = kids[x]
          BY <1>6, <4>1, <4>3
        <5> QED BY <1>2, <3>2, <5>1, OnePlace
      <4> QED BY <4>1, <4>2, <4>3
    <3> QED BY <3>1, <3>2
  <2>2. IsForest(kids, spare)'
    BY <2>1 DEF IsForest
  <2>3. \A m \in spare' : state'[m] = "Ready"
    <3>1. \A m \in spare : m \in Node /\ state[m] = "Ready"
      BY <1>2, CopyAssumption DEF UnmadeInv, Typed
    <3> QED BY <1>1, <1>7, <3>1
  <2> QED BY <2>2, <2>3 DEF UnmadeInv
<1>11. StackInv' /\ AnswerInv'
  BY <1>1, <1>2 DEF StackInv, AnswerInv, InCall
<1>12. \A m \in Node : \A k \in DOMAIN kids[m] : state'[kids[m][k]] = state[kids[m][k]]
  BY <1>2, <1>7, KidsIn, OnePlace
<1>13. ASSUME NEW m \in Node, IsContainer(m), m # Root \/ ~disturbed'
       PROVE  PathAt(m, state[m], iter[m])'
  <2>1. CASE m # Root
    <3>1. PathAt(m, state[m], iter[m])
      BY <1>2, <1>13, <2>1 DEF PathInv
    <3> QED BY <1>1, <1>6, <1>7, <1>12, <2>1, <3>1 DEF PathAt
  <2>2. CASE m = Root
    <3>1. ~disturbed /\ state[Root] = "Ready"
      BY <1>1, <1>13, <2>2
    <3>2. \A k \in DOMAIN kids[Root] : state[kids[Root][k]] = "Ready"
      BY <1>2, <1>13, <2>2, <3>1 DEF PathInv, PathAt
    <3>3. \A k \in DOMAIN kids'[Root] : state'[kids'[Root][k]] = "Ready"
      BY <1>2, <1>7, <1>9, <1>12, <3>2
    <3> QED BY <2>2, <3>3 DEF PathAt
  <2> QED BY <2>1, <2>2
<1>14. PathInv'
  BY <1>7, <1>13 DEF PathInv
<1>15. AssertsHold'
  BY <1>1, <1>2, <1>7 DEF AssertsHold
<1> QED BY <1>8, <1>10, <1>11, <1>14, <1>15 DEF CopyInv

-----------------------------------------------------------------------------
LEMMA StepInv == ASSUME CopyInv, Step PROVE CopyInv'
<1>1. ASSUME InCall PROVE Written \subseteq Nat /\ Payload \subseteq Nat
  BY <1>1, AtTop DEF Written, Payload
<1>2. CASE InCall /\ \E n \in Written : WriteHeader(n)
  BY <1>1, <1>2, WriteHeaderInv
<1>3. CASE InCall /\ \E n \in Payload : WriteData(n)
  BY <1>1, <1>3, WriteDataInv
<1> QED BY <1>2, <1>3, BeginInv, NothingToWriteInv, CallChildInv, EndOfMapInv, ReturnsInv DEF Step

LEMMA NextInv == ASSUME CopyInv, [Next]_vars PROVE CopyInv'
<1>1. CASE UNCHANGED vars
  <2>1. UNCHANGED <<kids, spare, state, iter, offset, disturbed, stack, answer>>
    BY <1>1 DEF vars
  <2>2. StackInv' /\ AnswerInv'
    BY <2>1 DEF CopyInv, StackInv, IsAt, AnswerInv, InCall, Top
  <2>3. stack \in Seq(Node) /\ answer \in {"none", "InProcess", "Ready", "Error"}
    BY DEF CopyInv, Typed
  <2> QED BY <2>1, <2>2, <2>3, SameTree
<1>2. CASE \E n \in spare : \E i \in 1 .. Len(kids[Root]) + 1 : Emplace(n, i)
  BY <1>2, EmplaceInv
<1> QED BY <1>1, <1>2, CallInv, StepInv, WriteFailsInv, ResetInv DEF Next

(* Objects, iterators and active calls fit together as CopyInv says,       *)
(* whatever is written, emplaced, reset or fails.                          *)
THEOREM PlaceKept == Spec => []CopyInv
<1>1. CopyInv /\ [Next]_vars => CopyInv'
  BY NextInv
<1> QED BY <1>1, InitInv, PTL DEF Spec

(* Where an upload of a tree stands is told by one path from the root:     *)
(* copy_to_fd_* leaves every object off it Ready, at any depth.            *)
THEOREM OnlyOnePath == Spec => []OnePath
<1>1. CopyInv => OnePath
  BY DEF CopyInv, PathInv, PathAt, OnePath
<1> QED BY <1>1, PlaceKept, PTL

(* No assert(false) of the copying cases is reached, but for the data of   *)
(* an empty string.                                                        *)
THEOREM AssertsDead == Spec => []AssertsHold
<1>1. CopyInv => AssertsHold
  BY DEF CopyInv
<1> QED BY <1>1, PlaceKept, PTL

-----------------------------------------------------------------------------
(* Recursion.  A set of numbers that is not empty has a least one.         *)
LEMMA LeastOf ==
  ASSUME NEW T \in SUBSET Nat, T # {}
  PROVE  \E x \in T : \A y \in T : x <= y
<1> DEFINE R == {ss \in Nat \X Nat : ss[1] < ss[2]}
<1>1. IsWellFoundedOn(R, Nat)
  BY NatLessThanWellFounded, Zenon DEF OpToRel
<1>2. \A x, y \in Nat : y < x => <<y, x>> \in R
  OBVIOUS
<1> HIDE DEF R
<1>3. PICK x \in T : \A y \in T : ~(<<y, x>> \in R)
  BY <1>1, WFMin
<1>4. \A y \in T : ~(y < x)
  BY <1>2, <1>3, Zenon
<1> QED BY <1>4

(* Induction over the numbers up to n, with the set of those shown.        *)
LEMMA UpTo ==
  ASSUME NEW n \in Nat, NEW S, 0 \in S, \A k \in 0 .. n - 1 : k \in S => k + 1 \in S
  PROVE  0 .. n \subseteq S
<1> DEFINE X == {k \in Nat : k \in 0 .. n /\ k \notin S}
<1> SUFFICES ASSUME X # {} PROVE FALSE
  OBVIOUS
<1>1. X \in SUBSET Nat
  OBVIOUS
<1>2. PICK x \in X : \A y \in X : x <= y
  BY <1>1, LeastOf
<1>3. x # 0 /\ x - 1 \in 0 .. n - 1 /\ (x - 1) + 1 = x /\ x - 1 \in Nat /\ x - 1 \in 0 .. n
  BY <1>2
<1>4. x - 1 \notin X
  BY <1>2, <1>3
<1>5. x - 1 \in S
  BY <1>3, <1>4
<1> QED BY <1>3, <1>5

(* A sequence of values each of which is made of the one before it.        *)
IsChain(f, V, base, H, n) ==
  /\ f \in [0 .. n -> V]
  /\ f[0] = base /\ \A k \in 0 .. n - 1 : f[k + 1] = H[k][f[k]]

LEMMA Chain ==
  ASSUME NEW V, NEW base \in V, NEW H \in [Nat -> [V -> V]], NEW n \in Nat
  PROVE  \E f : IsChain(f, V, base, H, n)
<1> DEFINE P(k, f) == f[0] = base /\ \A j \in 0 .. k - 1 : f[j + 1] = H[j][f[j]]
           S == {k \in Nat : \E f \in [0 .. k -> V] : P(k, f)}
<1>1. 0 \in S
  <2>1. [j \in 0 .. 0 |-> base] \in [0 .. 0 -> V] /\ P(0, [j \in 0 .. 0 |-> base])
    OBVIOUS
  <2> QED BY <2>1
<1>2. ASSUME NEW k \in 0 .. n - 1, k \in S PROVE k + 1 \in S
  <2>1. PICK f \in [0 .. k -> V] : P(k, f)
    BY <1>2
  <2> DEFINE g == [j \in 0 .. k + 1 |-> IF j = k + 1 THEN H[k][f[k]] ELSE f[j]]
  <2>2. H[k][f[k]] \in V /\ k \in Nat /\ k \in 0 .. k
    OBVIOUS
  <2>3. g \in [0 .. k + 1 -> V]
    BY <2>2
  <2>4. g[0] = base
    BY <2>1
  <2>5. ASSUME NEW j \in 0 .. (k + 1) - 1 PROVE g[j + 1] = H[j][g[j]]
    <3>1. CASE j = k
      BY <2>2, <3>1
    <3>2. CASE j # k
      <4>1. j \in 0 .. k - 1 /\ j + 1 \in 0 .. k + 1 /\ j + 1 # k + 1 /\ j # k + 1 /\ j \in 0 .. k + 1
        BY <3>2
      <4>2. g[j + 1] = f[j + 1] /\ g[j] = f[j]
        BY <4>1
      <4> QED BY <2>1, <4>1, <4>2
    <3> QED BY <3>1, <3>2
  <2>6. P(k + 1, g)
    BY <2>4, <2>5
  <2> HIDE DEF g, P
  <2> QED BY <2>2, <2>3, <2>6
<1>3. n \in S
  <2> HIDE DEF S
  <2>1. 0 .. n \subseteq S
    BY <1>1, <1>2, UpTo
  <2> QED BY <2>1
<1> QED BY <1>3 DEF IsChain

(* A value for every object of a tree, made of the values of what it       *)
(* holds.                                                                  *)
IsRecursive(h, V, G) == h \in [Node -> V] /\ \A x \in Node : h[x] = G[x][h]

LEMMA Recursion ==
  ASSUME NEW in \in [Node -> Seq(Node)], IsFounded(in),
         NEW V, NEW default \in V, NEW G \in [Node -> [[Node -> V] -> V]],
         \A x \in Node : \A f, g \in [Node -> V] :
           (\A i \in DOMAIN in[x] : f[in[x][i]] = g[in[x][i]]) => G[x][f] = G[x][g]
  PROVE  \E h : IsRecursive(h, V, G)
<1> DEFINE Closed(D)    == \A x \in D : \A i \in DOMAIN in[x] : in[x][i] \in D
           Solves(D, f) == \A x \in D : f[x] = G[x][f]
           Good(x, v)   == \E D \in SUBSET Node : \E f \in [Node -> V] :
                             x \in D /\ Closed(D) /\ Solves(D, f) /\ f[x] = v
           S            == {x \in Node : \E v \in V : Good(x, v)}
           h            == [x \in Node |-> IF x \in S THEN CHOOSE v \in V : Good(x, v) ELSE default]
<1>0. /\ \A x \in Node : \A i \in DOMAIN in[x] : in[x][i] \in Node
      /\ S \subseteq Node
  OBVIOUS
<1>1. \A D, E \in SUBSET Node : \A f, g \in [Node -> V] :
        Closed(D) /\ Closed(E) /\ Solves(D, f) /\ Solves(E, g) => \A z \in D \cap E : f[z] = g[z]
  <2> TAKE D, E \in SUBSET Node
  <2> TAKE f, g \in [Node -> V]
  <2> HAVE Closed(D) /\ Closed(E) /\ Solves(D, f) /\ Solves(E, g)
  <2> DEFINE X == {x \in D \cap E : f[x] # g[x]}
  <2> SUFFICES ASSUME X # {} PROVE FALSE
    OBVIOUS
  <2>1. PICK x \in X : \A i \in DOMAIN in[x] : in[x][i] \notin X
    BY DEF IsFounded
  <2>2. \A i \in DOMAIN in[x] : f[in[x][i]] = g[in[x][i]]
    BY <2>1
  <2>3. G[x][f] = G[x][g]
    BY <2>2
  <2> QED BY <2>3
<1>2. ASSUME NEW x \in Node, NEW v \in V, NEW w \in V, Good(x, v), Good(x, w) PROVE v = w
  <2>1. PICK D \in SUBSET Node, f \in [Node -> V] :
          x \in D /\ Closed(D) /\ Solves(D, f) /\ f[x] = v
    BY <1>2, Zenon
  <2>2. PICK E \in SUBSET Node, g \in [Node -> V] :
          x \in E /\ Closed(E) /\ Solves(E, g) /\ g[x] = w
    BY <1>2, Zenon
  <2> HIDE DEF Closed, Solves, Good, S, h
  <2>4. x \in D \cap E
    BY <2>1, <2>2
  <2>5. Closed(D) /\ Closed(E) /\ Solves(D, f) /\ Solves(E, g)
    BY <2>1, <2>2, Zenon
  <2>6. \A a, b \in [Node -> V] :
          Closed(D) /\ Closed(E) /\ Solves(D, a) /\ Solves(E, b) => \A z \in D \cap E : a[z] = b[z]
    BY <1>1, Zenon
  <2>7. \A z \in D \cap E : f[z] = g[z]
    BY <2>5, <2>6, Zenon
  <2>3. f[x] = g[x]
    BY <2>4, <2>7
  <2> QED BY <2>1, <2>2, <2>3
<1>3. \A x \in S : h[x] \in V /\ Good(x, h[x])
  <2> HIDE DEF Good
  <2> QED OBVIOUS
<1>4. h \in [Node -> V]
  <2> HIDE DEF Good
  <2> QED BY <1>3
<1>5. ASSUME NEW x \in S PROVE /\ h[x] = G[x][h]
                               /\ \A i \in DOMAIN in[x] : in[x][i] \in S
  <2>1. PICK D \in SUBSET Node, f \in [Node -> V] :
          x \in D /\ Closed(D) /\ Solves(D, f) /\ f[x] = h[x]
    BY <1>3
  <2>2. ASSUME NEW z \in D PROVE z \in S /\ f[z] = h[z]
    <3>1. f[z] \in V /\ Good(z, f[z]) /\ z \in Node
      BY <2>1
    <3>2. z \in S
      BY <3>1
    <3>3. Good(z, h[z]) /\ h[z] \in V
      BY <1>3, <3>2
    <3> HIDE DEF Good, S, h
    <3> QED BY <1>2, <3>1, <3>2, <3>3
  <2> HIDE DEF S, h, Good
  <2>3. \A i \in DOMAIN in[x] : in[x][i] \in D
    BY <2>1
  <2>4. \A i \in DOMAIN in[x] : f[in[x][i]] = h[in[x][i]]
    BY <2>2, <2>3
  <2>5. x \in Node /\ G[x][f] = G[x][h]
    BY <1>4, <2>1, <2>4
  <2>6. f[x] = G[x][f]
    BY <2>1
  <2> QED BY <2>1, <2>2, <2>3, <2>5, <2>6
<1>6. S = Node
  <2> DEFINE X == Node \ S
  <2> SUFFICES ASSUME X # {} PROVE FALSE
    OBVIOUS
  <2>1. PICK m \in X : \A i \in DOMAIN in[m] : in[m][i] \notin X
    BY DEF IsFounded
  <2>2. m \in Node /\ m \notin S /\ \A i \in DOMAIN in[m] : in[m][i] \in S
    BY <1>0, <2>1
  <2> DEFINE e == [h EXCEPT ![m] = G[m][h]]
             D == S \cup {m}
  <2> HIDE DEF h, X, S
  <2>9. G[m][h] \in V
    BY <1>4, <2>2
  <2>3. e \in [Node -> V] /\ \A z \in S : z # m => e[z] = h[z]
    <3>1. \A z \in S : z \in Node
      BY DEF S
    <3> QED BY <1>4, <2>2, <2>9, <3>1
  <2>4. e[m] = G[m][h]
    BY <1>4, <2>2
  <2> HIDE DEF e
  <2>5. Closed(D)
    BY <1>5, <2>2
  <2>6. Solves(D, e)
    <3>1. ASSUME NEW z \in D PROVE e[z] = G[z][e]
      <4>1. z \in Node /\ \A i \in DOMAIN in[z] : in[z][i] \in S
        BY <1>0, <1>5, <2>2
      <4>2. \A i \in DOMAIN in[z] : h[in[z][i]] = e[in[z][i]]
        <5>1. \A y \in S : h[y] = e[y]
          BY <2>2, <2>3
        <5> QED BY <4>1, <5>1
      <4>3. G[z][h] = G[z][e]
        BY <1>4, <2>3, <4>1, <4>2
      <4>4. e[z] = G[z][h]
        BY <1>5, <2>2, <2>3, <2>4
      <4> QED BY <4>3, <4>4
    <3> QED BY <3>1
  <2>7. Good(m, e[m]) /\ e[m] \in V
    <3>1. D \in SUBSET Node /\ m \in D
      BY <1>0, <2>2
    <3> QED BY <2>2, <2>3, <2>5, <2>6, <3>1
  <2>8. m \in S
    <3> HIDE DEF Good
    <3> QED BY <2>2, <2>7 DEF S
  <2> QED BY <2>2, <2>8
<1>7. \A x \in Node : h[x] = G[x][h]
  <2> HIDE DEF h, S
  <2> QED BY <1>5, <1>6
<1> QED BY <1>4, <1>7 DEF IsRecursive

-----------------------------------------------------------------------------
(* Prefix sums.                                                            *)
Sums(s) == CHOOSE sum : sum = [k \in 0 .. Len(s) |-> IF k = 0 THEN 0 ELSE sum[k - 1] + s[k]]

LEMMA SumsSolve ==
  ASSUME NEW s \in Seq(Nat)
  PROVE  /\ Sum(s) = Sums(s)[Len(s)]
         /\ Sums(s) \in [0 .. Len(s) -> Nat]
         /\ Sums(s)[0] = 0
         /\ \A k \in 1 .. Len(s) : Sums(s)[k] = Sums(s)[k - 1] + s[k]
<1>0. Len(s) \in Nat /\ \A k \in 1 .. Len(s) : s[k] \in Nat
  OBVIOUS
<1> DEFINE Eq(f) == f = [k \in 0 .. Len(s) |-> IF k = 0 THEN 0 ELSE f[k - 1] + s[k]]
<1>1. PICK H \in [Nat -> [Nat -> Nat]] :
        \A k, v \in Nat : H[k][v] = IF k + 1 \in 1 .. Len(s) THEN v + s[k + 1] ELSE v
  <2> DEFINE H == [k \in Nat |-> [v \in Nat |-> IF k + 1 \in 1 .. Len(s) THEN v + s[k + 1] ELSE v]]
  <2>1. H \in [Nat -> [Nat -> Nat]]
    BY <1>0
  <2> QED BY <2>1
<1>2. PICK f : IsChain(f, Nat, 0, H, Len(s))
  <2>1. Len(s) \in Nat /\ 0 \in Nat
    BY <1>0
  <2> QED BY <2>1, Chain
<1>3. \A k \in 1 .. Len(s) : f[k] = f[k - 1] + s[k]
  <2> TAKE k \in 1 .. Len(s)
  <2>1. k - 1 \in 0 .. Len(s) - 1 /\ (k - 1) + 1 = k /\ k - 1 \in Nat /\ k - 1 \in 0 .. Len(s)
    BY <1>0
  <2>2. f[k - 1] \in Nat
    BY <1>2, <2>1 DEF IsChain
  <2>3. H[k - 1][f[k - 1]] = f[k - 1] + s[k]
    BY <1>1, <2>1, <2>2
  <2>4. f[(k - 1) + 1] = H[k - 1][f[k - 1]]
    BY <1>2, <2>1 DEF IsChain
  <2> QED BY <2>1, <2>3, <2>4
<1>9. f \in [0 .. Len(s) -> Nat] /\ f[0] = 0
  BY <1>2 DEF IsChain
<1>4. Eq(f)
  <2>1. f \in [0 .. Len(s) -> Nat] /\ f[0] = 0
    BY <1>2 DEF IsChain
  <2>2. \A k \in 0 .. Len(s) : f[k] = IF k = 0 THEN 0 ELSE f[k - 1] + s[k]
    BY <1>0, <1>3, <2>1
  <2> QED BY <2>1, <2>2
<1>5. Eq(Sums(s))
  BY <1>4 DEF Sums
<1>6. \A k \in 0 .. Len(s) : f[k] = Sums(s)[k]
  <2> DEFINE t == Sums(s)
             W == {k \in 0 .. Len(s) : f[k] = t[k]}
  <2>1. Eq(t)
    BY <1>5
  <2> HIDE DEF t
  <2>2. \A k \in 0 .. Len(s) : t[k] = IF k = 0 THEN 0 ELSE t[k - 1] + s[k]
    BY <2>1
  <2>3. 0 \in W
    <3>1. 0 \in 0 .. Len(s)
      BY <1>0
    <3>2. t[0] = 0
      BY <2>2, <3>1
    <3> QED BY <1>9, <3>1, <3>2
  <2>4. ASSUME NEW k \in 0 .. Len(s) - 1, k \in W PROVE k + 1 \in W
    <3>1. k + 1 \in 1 .. Len(s) /\ k + 1 \in 0 .. Len(s) /\ (k + 1) - 1 = k /\ k + 1 # 0
      BY <1>0
    <3>2. f[k + 1] = f[k] + s[k + 1]
      BY <1>3, <3>1
    <3>3. t[k + 1] = t[k] + s[k + 1]
      BY <2>2, <3>1
    <3> QED BY <2>4, <3>1, <3>2, <3>3
  <2>5. 0 .. Len(s) \subseteq W
    <3> HIDE DEF W
    <3> QED BY <1>0, <2>3, <2>4, UpTo
  <2> QED BY <2>5 DEF t
<1>7. Sums(s) = f
  <2> DEFINE t == Sums(s)
  <2>1. Eq(t) /\ \A k \in 0 .. Len(s) : f[k] = t[k]
    BY <1>5, <1>6
  <2> HIDE DEF t
  <2>2. t = [k \in 0 .. Len(s) |-> t[k]]
    BY <2>1
  <2>3. f = [k \in 0 .. Len(s) |-> f[k]]
    BY <1>2 DEF IsChain
  <2>4. t = f
    BY <2>1, <2>2, <2>3
  <2> QED BY <2>4 DEF t
<1>8. Sum(s) = Sums(s)[Len(s)]
  BY DEF Sum, Sums
<1> HIDE DEF Eq
<1> QED BY <1>3, <1>7, <1>8, <1>9

(* data_size() of every object of a tree.                                  *)
Totals(in) ==
  CHOOSE total : total = [x \in Node |->
    IF IsContainer(x)
      THEN Sum([k \in DOMAIN in[x] |-> HeaderSize + total[in[x][k]]])
      ELSE DataSize[x]]

LEMMA Parts ==
  ASSUME NEW in \in [Node -> Seq(Node)], NEW x \in Node, NEW f \in [Node -> Nat]
  PROVE  /\ [k \in DOMAIN in[x] |-> HeaderSize + f[in[x][k]]] \in Seq(Nat)
         /\ Len([k \in DOMAIN in[x] |-> HeaderSize + f[in[x][k]]]) = Len(in[x])
<1>1. /\ in[x] \in Seq(Node) /\ Len(in[x]) \in Nat /\ DOMAIN in[x] = 1 .. Len(in[x])
      /\ \A k \in DOMAIN in[x] : in[x][k] \in Node
  <2>1. in[x] \in Seq(Node)
    OBVIOUS
  <2>2. \A s \in Seq(Node) : /\ Len(s) \in Nat /\ DOMAIN s = 1 .. Len(s)
                             /\ \A k \in DOMAIN s : s[k] \in Node
    OBVIOUS
  <2> QED BY <2>1, <2>2
<1>2. \A k \in DOMAIN in[x] : HeaderSize + f[in[x][k]] \in Nat
  <2>1. HeaderSize \in Nat
    BY CopyAssumption
  <2>2. \A k \in DOMAIN in[x] : f[in[x][k]] \in Nat
    BY <1>1
  <2> QED BY <2>1, <2>2
<1> QED BY <1>1, <1>2

LEMMA TotalsSolve ==
  ASSUME NEW in \in [Node -> Seq(Node)], IsFounded(in)
  PROVE  /\ Totals(in) \in [Node -> Nat]
         /\ \A x \in Node : Totals(in)[x] =
              IF IsContainer(x)
                THEN Sum([k \in DOMAIN in[x] |-> HeaderSize + Totals(in)[in[x][k]]])
                ELSE DataSize[x]
<1> DEFINE Of(x, f) == IF IsContainer(x)
                         THEN Sum([k \in DOMAIN in[x] |-> HeaderSize + f[in[x][k]]])
                         ELSE DataSize[x]
<1>1. \A x \in Node : \A f \in [Node -> Nat] : Of(x, f) \in Nat
  <2> SUFFICES ASSUME NEW x \in Node, NEW f \in [Node -> Nat] PROVE Of(x, f) \in Nat
    OBVIOUS
  <2> DEFINE s == [k \in DOMAIN in[x] |-> HeaderSize + f[in[x][k]]]
  <2>1. s \in Seq(Nat)
    BY Parts
  <2>2. DataSize[x] \in Nat
    BY CopyAssumption
  <2>3. Sum(s) \in Nat
    <3> HIDE DEF s
    <3>1. Len(s) \in 0 .. Len(s) /\ Sums(s) \in [0 .. Len(s) -> Nat] /\ Sum(s) = Sums(s)[Len(s)]
      BY <2>1, SumsSolve
    <3> QED BY <3>1
  <2> QED BY <2>2, <2>3
<1>2. PICK G \in [Node -> [[Node -> Nat] -> Nat]] :
        \A x \in Node : \A f \in [Node -> Nat] : G[x][f] = Of(x, f)
  <2> DEFINE G == [x \in Node |-> [f \in [Node -> Nat] |-> Of(x, f)]]
  <2> HIDE DEF Of
  <2>1. G \in [Node -> [[Node -> Nat] -> Nat]]
    BY <1>1
  <2> QED BY <2>1
<1>3. \A x \in Node : \A f, g \in [Node -> Nat] :
        (\A i \in DOMAIN in[x] : f[in[x][i]] = g[in[x][i]]) => Of(x, f) = Of(x, g)
  <2> TAKE x \in Node
  <2> TAKE f, g \in [Node -> Nat]
  <2> HAVE \A i \in DOMAIN in[x] : f[in[x][i]] = g[in[x][i]]
  <2>1. [k \in DOMAIN in[x] |-> HeaderSize + f[in[x][k]]]
          = [k \in DOMAIN in[x] |-> HeaderSize + g[in[x][k]]]
    OBVIOUS
  <2> QED BY <2>1
<1>4. PICK h : IsRecursive(h, Nat, G)
  <2> HIDE DEF Of
  <2>1. \A x \in Node : \A f, g \in [Node -> Nat] :
          (\A i \in DOMAIN in[x] : f[in[x][i]] = g[in[x][i]]) => G[x][f] = G[x][g]
    <3> TAKE x \in Node
    <3> TAKE f, g \in [Node -> Nat]
    <3> HAVE \A i \in DOMAIN in[x] : f[in[x][i]] = g[in[x][i]]
    <3>1. Of(x, f) = Of(x, g)
      BY <1>3
    <3> QED BY <1>2, <3>1
  <2>2. 0 \in Nat
    OBVIOUS
  <2> QED BY <2>1, <2>2, Recursion
<1>5. h \in [Node -> Nat] /\ \A x \in Node : h[x] = Of(x, h)
  <2> HIDE DEF Of
  <2> QED BY <1>2, <1>4 DEF IsRecursive
<1>6. h = [x \in Node |-> Of(x, h)]
  <2> HIDE DEF Of
  <2> QED BY <1>5
<1>7. Totals(in) = [x \in Node |-> Of(x, Totals(in))]
  BY <1>6 DEF Totals
<1>8. \A x \in Node : Totals(in)[x] = h[x]
  <2> DEFINE X == {x \in Node : Totals(in)[x] # h[x]}
  <2> SUFFICES ASSUME X # {} PROVE FALSE
    OBVIOUS
  <2>1. PICK x \in X : \A i \in DOMAIN in[x] : in[x][i] \notin X
    BY DEF IsFounded
  <2>2. \A k \in DOMAIN in[x] : in[x][k] \in Node
    OBVIOUS
  <2>3. \A k \in DOMAIN in[x] : Totals(in)[in[x][k]] = h[in[x][k]]
    BY <2>1, <2>2
  <2>4. [k \in DOMAIN in[x] |-> HeaderSize + Totals(in)[in[x][k]]]
          = [k \in DOMAIN in[x] |-> HeaderSize + h[in[x][k]]]
    BY <2>3
  <2>5. Of(x, Totals(in)) = Of(x, h)
    BY <2>4
  <2>6. Totals(in)[x] = Of(x, Totals(in)) /\ h[x] = Of(x, h)
    <3> HIDE DEF Of
    <3> QED BY <1>5, <1>7
  <2> QED BY <2>5, <2>6
<1>9. Totals(in) = h
  <2>1. Totals(in) = [x \in Node |-> Totals(in)[x]]
    <3> HIDE DEF Of
    <3> QED BY <1>7
  <2>2. h = [x \in Node |-> h[x]]
    BY <1>5
  <2> HIDE DEF Of
  <2> QED BY <1>8, <2>1, <2>2
<1> QED BY <1>5, <1>9

LEMMA TotalsAre == ASSUME NEW n PROVE data_size(n) = Totals(kids)[n]
BY DEF data_size, Totals

-----------------------------------------------------------------------------
(* What is known when all that differs between two trees is what the root  *)
(* holds.                                                                  *)
RootOnly(in, to) ==
  /\ in \in [Node -> Seq(Node)] /\ to \in [Node -> Seq(Node)]
  /\ IsFounded(in)
  /\ \A m \in Node : m # Root => to[m] = in[m]
  /\ \A m \in Node : \A k \in DOMAIN to[m] : to[m][k] # Root

LEMMA FoundedStays ==
  ASSUME NEW in, NEW to, RootOnly(in, to)
  PROVE  IsFounded(to)
<1> SUFFICES ASSUME NEW X \in SUBSET Node, X # {}
             PROVE  \E n \in X : \A i \in DOMAIN to[n] : to[n][i] \notin X
  BY DEF IsFounded
<1>1. CASE X \subseteq {Root}
  <2>1. Root \in X /\ Root \in Node
    BY <1>1
  <2> QED BY <1>1, <2>1 DEF RootOnly
<1>2. CASE ~(X \subseteq {Root})
  <2>1. X \ {Root} \in SUBSET Node /\ X \ {Root} # {}
    BY <1>2
  <2>2. PICK n \in X \ {Root} : \A i \in DOMAIN in[n] : in[n][i] \notin X \ {Root}
    BY <2>1, Zenon DEF RootOnly, IsFounded
  <2>3. n \in Node /\ to[n] = in[n]
    BY <2>2 DEF RootOnly
  <2> QED BY <2>2, <2>3 DEF RootOnly
<1> QED BY <1>1, <1>2

LEMMA TotalsStay ==
  ASSUME NEW in, NEW to, RootOnly(in, to)
  PROVE  \A n \in Node : n # Root => Totals(to)[n] = Totals(in)[n]
<1> DEFINE X == {n \in Node : n # Root /\ Totals(to)[n] # Totals(in)[n]}
<1> SUFFICES ASSUME X # {} PROVE FALSE
  OBVIOUS
<1>1. PICK n \in X : \A i \in DOMAIN in[n] : in[n][i] \notin X
  BY DEF IsFounded, RootOnly
<1>2. n \in Node /\ n # Root /\ to[n] = in[n]
  BY DEF RootOnly
<1>3. in \in [Node -> Seq(Node)] /\ to \in [Node -> Seq(Node)] /\ IsFounded(in) /\ IsFounded(to)
  BY FoundedStays DEF RootOnly
<1>4. \A k \in DOMAIN in[n] : in[n][k] \in Node
  BY <1>2, <1>3
<1>5. \A k \in DOMAIN in[n] : Totals(to)[to[n][k]] = Totals(in)[in[n][k]]
  BY <1>1, <1>2, <1>4 DEF RootOnly
<1>6. [k \in DOMAIN to[n] |-> HeaderSize + Totals(to)[to[n][k]]]
        = [k \in DOMAIN in[n] |-> HeaderSize + Totals(in)[in[n][k]]]
  BY <1>2, <1>5
<1>7. Totals(to)[n] = IF IsContainer(n)
        THEN Sum([k \in DOMAIN to[n] |-> HeaderSize + Totals(to)[to[n][k]]]) ELSE DataSize[n]
  BY <1>2, <1>3, TotalsSolve
<1>8. Totals(in)[n] = IF IsContainer(n)
        THEN Sum([k \in DOMAIN in[n] |-> HeaderSize + Totals(in)[in[n][k]]]) ELSE DataSize[n]
  BY <1>2, <1>3, TotalsSolve
<1> QED BY <1>6, <1>7, <1>8

(* No step changes what another object than the root holds.                *)
LEMMA KidsStep ==
  ASSUME Typed, [Next]_vars
  PROVE  \A m \in Node : m # Root => kids'[m] = kids[m]
<1>1. CASE \E n \in spare : \E i \in 1 .. Len(kids[Root]) + 1 : Emplace(n, i)
  <2>1. PICK q : kids' = [kids EXCEPT ![Root] = q]
    BY <1>1 DEF Emplace
  <2> QED BY <2>1 DEF Typed
<1>2. CASE ~\E n \in spare : \E i \in 1 .. Len(kids[Root]) + 1 : Emplace(n, i)
  <2>1. kids' = kids
    BY <1>2 DEF Next, vars, Step, Call, Begin, WriteHeader, WriteData, NothingToWrite, CallChild,
                EndOfMap, Returns, WriteFails, Reset, tree, held
  <2> QED BY <2>1
<1> QED BY <1>1, <1>2

LEMMA RootStep ==
  ASSUME CopyInv, IsFounded(kids), [Next]_vars
  PROVE  RootOnly(kids, kids')
<1>1. CopyInv' /\ Typed
  BY NextInv DEF CopyInv
<1>2. \A m \in Node : m # Root => kids'[m] = kids[m]
  BY <1>1, KidsStep
<1>3. kids' \in [Node -> Seq(Node)] /\ IsForest(kids', spare')
  BY <1>1 DEF CopyInv, Typed, UnmadeInv, IsForest
<1> QED BY <1>1, <1>2, <1>3 DEF RootOnly, Typed, IsForest

-----------------------------------------------------------------------------
(* The data_size_ a header carries is the size of the object as it is,     *)
(* from the moment its upload begins, and below the root for ever.         *)
Byte == Node \X Nat

SizeInv ==
  /\ IsFounded(kids)
  /\ size \in [Node -> Nat] /\ out \in Seq(Byte)
  /\ \A n \in Node : ~IsContainer(n) => size[n] = DataSize[n]
  /\ \A n \in Node : n # Root /\ state[n] # "Ready" => size[n] = Totals(kids)[n]
  /\ \A i \in DOMAIN out : out[i][1] # Root => size[out[i][1]] = Totals(kids)[out[i][1]]
  /\ state[Root] # "Ready" \/ answer = "Ready" => size[Root] = Totals(kids)[Root]

CountInv ==
  /\ uploads \in 0 .. MaxUploads
  /\ Running /\ state[Root] = "Ready" => uploads < MaxUploads

LEMMA OwnBytes ==
  ASSUME NEW x \in Node, NEW from \in Nat, NEW len \in Nat
  PROVE  /\ Own(x, from, len) \in Seq(Byte) /\ Len(Own(x, from, len)) = len
         /\ \A i \in 1 .. len : Own(x, from, len)[i] = <<x, from + i - 1>>
<1>1. \A i \in 1 .. len : <<x, from + i - 1>> \in Byte
  BY DEF Byte
<1> QED BY <1>1 DEF Own

(* A path that begins at the root: the root copies its data while another  *)
(* object is being copied.                                                 *)
LEMMA RootCopies ==
  ASSUME CopyInv, InCall, Top # Root
  PROVE  state[Root] = "CopyingData"
<1>1. PICK l : l = Len(stack)
  OBVIOUS
<1>2. Typed /\ StackInv
  BY DEF CopyInv
<1>3. l \in Nat \ {0} /\ Top = stack[l] /\ stack[1] = Root
  BY <1>1, <1>2, TopIn DEF StackInv, InCall
<1>4. l # 1 /\ 1 \in 1 .. l /\ 2 \in 1 .. l /\ 2 = 1 + 1
  BY <1>3
<1>5. IsAt(stack[1], stack[2])
  BY <1>1, <1>2, <1>4, Zenon DEF StackInv
<1> QED BY <1>3, <1>5 DEF IsAt

LEMMA InitSize == Init => SizeInv /\ CountInv
<1> SUFFICES ASSUME Init PROVE SizeInv /\ CountInv
  OBVIOUS
<1>1. /\ kids = InitKids /\ state = [n \in Node |-> "Ready"] /\ answer = "none" /\ out = << >>
      /\ size = [n \in Node |-> IF IsContainer(n) THEN 0 ELSE DataSize[n]]
      /\ stack = << >> /\ uploads = 0
  BY DEF Init
<1>2. DataSize \in [Node -> Nat] /\ Root \in Node /\ MaxUploads \in Nat
  BY CopyAssumption
<1>3. << >> \in Seq(Byte) /\ DOMAIN << >> = {}
  OBVIOUS
<1>4. IsFounded(kids)
  BY <1>1, FoundedAssumption
<1>5. SizeInv
  BY <1>1, <1>2, <1>3, <1>4 DEF SizeInv
<1>6. CountInv
  BY <1>1, <1>2 DEF CountInv, Running, InCall
<1> QED BY <1>5, <1>6

(* A step that changes no size and no object, and may write.               *)
Keeps(s) ==
  /\ UNCHANGED <<kids, size>>
  /\ InCall /\ state' = [state EXCEPT ![Top] = s]
  /\ s # "Ready" => state[Top] # "Ready"
  /\ answer' = "Ready" => answer = "Ready" \/ state[Top] # "Ready"
  /\ state[Top] # "Ready" /\ answer = "none"
  /\ \E from, len \in Nat : out' = out \o Own(Top, from, len)

LEMMA KeepsSize ==
  ASSUME CopyInv, SizeInv, NEW s, Keeps(s)
  PROVE  SizeInv'
<1>1. Typed /\ Top \in Node /\ InCall
  BY AtTop DEF Keeps
<1>2. PICK from, len \in Nat : out' = out \o Own(Top, from, len)
  BY DEF Keeps
<1>3. PICK o : o = Own(Top, from, len)
  OBVIOUS
<1>4. o \in Seq(Byte) /\ \A i \in DOMAIN o : o[i][1] = Top
  <2>1. o \in Seq(Byte) /\ Len(o) = len /\ \A i \in 1 .. len : o[i] = <<Top, from + i - 1>>
    BY <1>1, <1>3, OwnBytes
  <2>2. DOMAIN o = 1 .. len
    BY <2>1
  <2> QED BY <2>1, <2>2
<1>5. out \in Seq(Byte)
  BY DEF SizeInv
<1>6. /\ out' \in Seq(Byte)
      /\ \A i \in DOMAIN out' : out'[i][1] = Top \/ \E j \in DOMAIN out : out'[i] = out[j]
  <2>1. /\ out' \in Seq(Byte) /\ Len(out') = Len(out) + Len(o)
        /\ \A k \in 1 .. Len(out) + Len(o) : out'[k] = IF k <= Len(out) THEN out[k] ELSE o[k - Len(out)]
    BY <1>2, <1>3, <1>4, <1>5, ConcatProperties
  <2>2. /\ Len(out) \in Nat /\ DOMAIN out = 1 .. Len(out) /\ Len(o) \in Nat /\ DOMAIN o = 1 .. Len(o)
        /\ DOMAIN out' = 1 .. Len(out) + Len(o)
    BY <1>4, <1>5, <2>1
  <2>3. ASSUME NEW i \in DOMAIN out' PROVE out'[i][1] = Top \/ \E j \in DOMAIN out : out'[i] = out[j]
    <3>1. i \in Nat /\ i \in 1 .. Len(out) + Len(o)
      BY <2>2
    <3>2. CASE i <= Len(out)
      BY <2>1, <2>2, <3>1, <3>2
    <3>3. CASE ~(i <= Len(out))
      <4>1. i - Len(out) \in 1 .. Len(o)
        BY <2>2, <3>1, <3>3
      <4> QED BY <1>4, <2>1, <2>2, <3>1, <3>3, <4>1
    <3> QED BY <3>2, <3>3
  <2> QED BY <2>1, <2>3
<1>7. \A n \in Node : state'[n] # "Ready" => state[n] # "Ready"
  BY <1>1 DEF Keeps, Typed
<1>8. Top # Root => size[Top] = Totals(kids)[Top]
  BY <1>1 DEF Keeps, SizeInv
<1>9. \A i \in DOMAIN out' : out'[i][1] # Root => size[out'[i][1]] = Totals(kids)[out'[i][1]]
  BY <1>6, <1>8 DEF SizeInv
<1>10. state'[Root] # "Ready" \/ answer' = "Ready" => size[Root] = Totals(kids)[Root]
  <2>1. Root \in Node
    BY CopyAssumption
  <2>2. CASE state'[Root] # "Ready"
    BY <1>7, <2>1, <2>2 DEF SizeInv
  <2>3. CASE answer' = "Ready"
    <3>1. state[Root] # "Ready"
      BY <1>1, RootCopies DEF Keeps
    <3> QED BY <3>1 DEF SizeInv
  <2> QED BY <2>2, <2>3
<1>11. UNCHANGED <<kids, size>>
  BY DEF Keeps
<1>12. \A n \in Node : n # Root /\ state'[n] # "Ready" => size[n] = Totals(kids)[n]
  BY <1>7 DEF SizeInv
<1>13. IsFounded(kids)' /\ Totals(kids)' = Totals(kids)
  BY <1>11 DEF SizeInv
<1> QED BY <1>6, <1>9, <1>10, <1>11, <1>12, <1>13 DEF SizeInv, IsContainer

(* A step that writes nothing and begins nothing.                          *)
Quiet ==
  /\ UNCHANGED <<kids, size, out>>
  /\ \A n \in Node : state'[n] # "Ready" => state[n] # "Ready"
  /\ answer' = "Ready" => answer = "Ready" \/ state[Root] # "Ready"

LEMMA QuietSize == ASSUME SizeInv, Quiet PROVE SizeInv'
<1>1. UNCHANGED <<kids, size, out>> /\ Root \in Node
  BY CopyAssumption DEF Quiet
<1>2. IsFounded(kids)' /\ Totals(kids)' = Totals(kids)
  BY <1>1 DEF SizeInv
<1>3. \A n \in Node : n # Root /\ state'[n] # "Ready" => size[n] = Totals(kids)[n]
  BY DEF SizeInv, Quiet
<1>4. state'[Root] # "Ready" \/ answer' = "Ready" => size[Root] = Totals(kids)[Root]
  BY <1>1 DEF SizeInv, Quiet
<1> QED BY <1>1, <1>2, <1>3, <1>4 DEF SizeInv, IsContainer

LEMMA BeginSize == ASSUME CopyInv, SizeInv, Begin PROVE SizeInv'
<1>1. /\ InCall /\ answer = "none" /\ state[Top] = "Ready" /\ UNCHANGED <<kids, answer>>
      /\ state' = [state EXCEPT ![Top] = "CopyingHeader"]
      /\ size' = [size EXCEPT ![Top] = IF IsContainer(Top) THEN data_size(Top) ELSE @]
      /\ Top # Root => out' = out
      /\ Top = Root => out' = << >>
  BY DEF Begin, Running, held
<1>2. Typed /\ Top \in Node /\ Root \in Node
  BY <1>1, AtTop, CopyAssumption
<1>3. /\ kids \in [Node -> Seq(Node)] /\ IsFounded(kids) /\ size \in [Node -> Nat]
      /\ out \in Seq(Byte)
  BY <1>2 DEF Typed, SizeInv
<1>4. Totals(kids) \in [Node -> Nat] /\ Totals(kids)' = Totals(kids) /\ IsFounded(kids)'
  BY <1>1, <1>3, TotalsSolve
<1>5. data_size(Top) = Totals(kids)[Top]
  BY TotalsAre
<1>6. ~IsContainer(Top) => size[Top] = Totals(kids)[Top] /\ size[Top] = DataSize[Top]
  BY <1>2, <1>3, TotalsSolve DEF SizeInv
<1>7. /\ size' \in [Node -> Nat] /\ size'[Top] = Totals(kids)[Top]
      /\ ~IsContainer(Top) => size'[Top] = DataSize[Top]
      /\ \A n \in Node : n # Top => size'[n] = size[n]
  BY <1>1, <1>2, <1>3, <1>4, <1>5, <1>6
<1>8. \A n \in Node : n # Top => state'[n] = state[n]
  BY <1>1, <1>2 DEF Typed
<1>9. out' \in Seq(Byte)
  <2>1. << >> \in Seq(Byte)
    OBVIOUS
  <2> QED BY <1>1, <1>3, <2>1
<1>10. \A i \in DOMAIN out' : out'[i][1] # Root => size'[out'[i][1]] = Totals(kids)[out'[i][1]]
  <2>1. CASE Top = Root
    BY <1>1, <2>1
  <2>2. CASE Top # Root
    <3>1. \A i \in DOMAIN out : out[i] \in Byte
      BY <1>3
    <3>2. \A i \in DOMAIN out : out[i][1] \in Node
      BY <3>1 DEF Byte
    <3> QED BY <1>1, <1>7, <2>2, <3>2 DEF SizeInv
  <2> QED BY <2>1, <2>2
<1>11. \A n \in Node : n # Root /\ state'[n] # "Ready" => size'[n] = Totals(kids)[n]
  BY <1>7, <1>8 DEF SizeInv
<1>12. state'[Root] # "Ready" \/ answer' = "Ready" => size'[Root] = Totals(kids)[Root]
  BY <1>1, <1>2, <1>7, <1>8 DEF SizeInv
<1>13. \A n \in Node : ~IsContainer(n) => size'[n] = DataSize[n]
  BY <1>7 DEF SizeInv
<1> QED BY <1>4, <1>7, <1>9, <1>10, <1>11, <1>12, <1>13 DEF SizeInv, IsContainer

LEMMA WriteHeaderSize == ASSUME CopyInv, SizeInv, NEW n \in Nat, WriteHeader(n) PROVE SizeInv'
<1>1. /\ InCall /\ answer = "none" /\ state[Top] = "CopyingHeader" /\ UNCHANGED <<kids, size>>
      /\ out' = out \o Own(Top, offset[Top], n)
  BY DEF WriteHeader, Running, held
<1>2. offset[Top] \in Nat /\ state = [state EXCEPT ![Top] = state[Top]]
  BY <1>1, AtTop
<1>3. \E s : state' = [state EXCEPT ![Top] = s]
  BY <1>2 DEF WriteHeader
<1>4. PICK s : Keeps(s)
  BY <1>1, <1>2, <1>3 DEF Keeps
<1> QED BY <1>4, KeepsSize

LEMMA WriteDataSize == ASSUME CopyInv, SizeInv, NEW n \in Nat, WriteData(n) PROVE SizeInv'
<1>1. /\ InCall /\ answer = "none" /\ state[Top] = "CopyingData" /\ UNCHANGED <<kids, size>>
      /\ out' = out \o Own(Top, HeadSize(Top) + offset[Top], n)
  BY DEF WriteData, Running, held
<1>2. HeadSize(Top) + offset[Top] \in Nat /\ state = [state EXCEPT ![Top] = state[Top]]
  BY <1>1, AtTop
<1>3. \E s : state' = [state EXCEPT ![Top] = s]
  BY <1>2 DEF WriteData
<1>4. PICK s : Keeps(s)
  BY <1>1, <1>2, <1>3 DEF Keeps
<1> QED BY <1>4, KeepsSize

LEMMA EmplaceSize ==
  ASSUME CopyInv, SizeInv, RootOnly(kids, kids'),
         NEW n \in spare, NEW i \in 1 .. Len(kids[Root]) + 1, Emplace(n, i)
  PROVE  SizeInv'
<1>1. /\ UNCHANGED <<size, out>> /\ answer' = "none"
      /\ state' = [state EXCEPT ![Root] = "Ready", ![n] = "Ready"]
  BY DEF Emplace
<1>2. Typed /\ Root \in Node /\ out \in Seq(Byte)
  BY CopyAssumption DEF CopyInv, SizeInv
<1>3. IsFounded(kids)' /\ \A m \in Node : m # Root => Totals(kids)'[m] = Totals(kids)[m]
  BY FoundedStays, TotalsStay
<1>4. \A m \in Node : state'[m] # "Ready" => m # Root /\ state[m] # "Ready"
  BY <1>1, <1>2 DEF Typed
<1>5. \A k \in DOMAIN out : out[k][1] \in Node
  BY <1>2 DEF Byte
<1>6. \A m \in Node : m # Root /\ state'[m] # "Ready" => size[m] = Totals(kids)'[m]
  BY <1>3, <1>4 DEF SizeInv
<1>7. \A k \in DOMAIN out : out[k][1] # Root => size[out[k][1]] = Totals(kids)'[out[k][1]]
  BY <1>3, <1>5 DEF SizeInv
<1> QED BY <1>1, <1>2, <1>3, <1>4, <1>6, <1>7 DEF SizeInv, IsContainer

LEMMA SizeStep == ASSUME CopyInv, SizeInv, [Next]_vars PROVE SizeInv'
<1>1. Root \in Node /\ Typed
  BY CopyAssumption DEF CopyInv
<1>2. CASE UNCHANGED vars \/ Call \/ CallChild \/ Returns \/ NothingToWrite
  <2>1. Quiet
    BY <1>2 DEF Quiet, vars, Call, CallChild, Returns, NothingToWrite, Return, tree, held
  <2> QED BY <2>1, QuietSize
<1>3. CASE WriteFails \/ EndOfMap
  <2>1. InCall /\ state[Top] # "Ready" /\ answer = "none"
    BY <1>3 DEF WriteFails, EndOfMap, Running
  <2>2. state[Root] # "Ready"
    BY <2>1, RootCopies
  <2>3. \E s : state' = [state EXCEPT ![Top] = s]
    BY <1>3 DEF WriteFails, EndOfMap
  <2>4. \A n \in Node : state'[n] # "Ready" => state[n] # "Ready"
    BY <1>1, <2>1, <2>3 DEF Typed
  <2>5. UNCHANGED <<kids, size, out>>
    BY <1>3 DEF WriteFails, EndOfMap, held
  <2> QED BY <2>2, <2>4, <2>5, QuietSize DEF Quiet
<1>4. CASE Reset
  <2>1. Quiet
    BY <1>1, <1>4 DEF Quiet, Reset, Typed, held
  <2> QED BY <2>1, QuietSize
<1>5. CASE \E n \in spare : \E i \in 1 .. Len(kids[Root]) + 1 : Emplace(n, i)
  <2>1. RootOnly(kids, kids')
    BY RootStep DEF SizeInv
  <2> QED BY <1>5, <2>1, EmplaceSize
<1>6. CASE InCall /\ \E n \in Written : WriteHeader(n)
  <2>1. Written \subseteq Nat
    BY <1>6, AtTop DEF Written
  <2> QED BY <1>6, <2>1, WriteHeaderSize
<1>7. CASE InCall /\ \E n \in Payload : WriteData(n)
  <2>1. Payload \subseteq Nat
    BY <1>7, AtTop DEF Payload
  <2> QED BY <1>7, <2>1, WriteDataSize
<1> QED BY <1>2, <1>3, <1>4, <1>5, <1>6, <1>7, BeginSize DEF Next, Step

LEMMA CountStep == ASSUME CopyInv, CountInv, [Next]_vars PROVE CountInv'
<1>0. MaxUploads \in Nat /\ Root \in Node /\ Typed
  BY CopyAssumption DEF CopyInv
<1>1. CASE Begin
  <2>1. InCall /\ Running /\ state[Top] = "Ready" /\ state' = [state EXCEPT ![Top] = "CopyingHeader"]
        /\ (Top = Root => uploads' = uploads + 1) /\ (Top # Root => uploads' = uploads)
    BY <1>1 DEF Begin, Running
  <2>2. Top = Root => uploads < MaxUploads
    BY <2>1 DEF CountInv
  <2>3. state'[Root] # "Ready"
    BY <1>0, <2>1, RootCopies DEF Typed
  <2> QED BY <1>0, <2>1, <2>2, <2>3 DEF CountInv
<1>2. CASE Returns
  <2>1. UNCHANGED <<state, uploads>> /\ InCall /\ stack' = Front(stack)
    BY <1>2 DEF Returns
  <2>2. CASE answer' = "none"
    <3>1. Len(stack) > 1
      BY <1>2, <2>2 DEF Returns
    <3>2. Top # Root
      <4>1. PICK l : l = Len(stack)
        OBVIOUS
      <4>2. l \in Nat /\ Top = stack[l] /\ stack[1] = Root
        BY <1>0, <2>1, <4>1, TopIn DEF CopyInv, StackInv, InCall
      <4>3. 1 \in 1 .. l /\ l \in 1 .. l /\ l # 1
        BY <3>1, <4>1, <4>2
      <4> QED BY <4>1, <4>2, <4>3, Zenon DEF CopyInv, StackInv
    <3>3. state[Root] # "Ready"
      BY <2>1, <3>2, RootCopies
    <3> QED BY <2>1, <3>3 DEF CountInv
  <2>3. CASE answer' # "none"
    BY <2>1, <2>3 DEF CountInv, Running
  <2> QED BY <2>2, <2>3
<1>3. CASE Call
  BY <1>3 DEF Call, CountInv, Running, tree, InCall
<1>4. CASE CallChild
  <2>1. InCall /\ answer = "none" /\ UNCHANGED <<state, uploads>>
    BY <1>4 DEF CallChild, Running, tree
  <2> QED BY <2>1 DEF CountInv, Running
<1>5. CASE UNCHANGED vars
  BY <1>5 DEF CountInv, Running, InCall, vars
<1>6. CASE NothingToWrite \/ WriteFails \/ EndOfMap
  <2>1. answer' # "none" /\ uploads' = uploads
    BY <1>6 DEF NothingToWrite, WriteFails, EndOfMap, Return
  <2> QED BY <2>1 DEF CountInv, Running
<1>7. CASE Reset \/ \E n \in spare : \E i \in 1 .. Len(kids[Root]) + 1 : Emplace(n, i)
  <2>1. ~InCall /\ stack' = stack /\ uploads' = uploads
    BY <1>7 DEF Reset, Emplace
  <2> QED BY <2>1 DEF CountInv, Running, InCall
<1>8. CASE \/ InCall /\ \E n \in Written : WriteHeader(n)
           \/ InCall /\ \E n \in Payload : WriteData(n)
  <2>1. InCall /\ state[Top] # "Ready" /\ uploads' = uploads
    BY <1>8 DEF WriteHeader, WriteData, Running
  <2>2. CASE answer' = "none"
    <3>1. state[Root] # "Ready"
      BY <2>1, RootCopies
    <3>2. \E s : s # "Ready" /\ state' = [state EXCEPT ![Top] = s]
      BY <1>8, <2>1, <2>2 DEF WriteHeader, WriteData, Return
    <3>3. state'[Root] # "Ready"
      BY <1>0, <3>1, <3>2 DEF Typed
    <3> QED BY <2>1, <3>3 DEF CountInv, Running
  <2>3. CASE answer' # "none"
    BY <2>1, <2>3 DEF CountInv, Running
  <2> QED BY <2>2, <2>3
<1> QED BY <1>1, <1>2, <1>3, <1>4, <1>5, <1>6, <1>7, <1>8 DEF Next, Step
-----------------------------------------------------------------------------
TreeInv == CopyInv /\ SizeInv /\ CountInv

LEMMA TreeKept == Spec => []TreeInv
<1>1. Init => TreeInv
  BY InitInv, InitSize DEF TreeInv
<1>2. TreeInv /\ [Next]_vars => TreeInv'
  BY NextInv, SizeStep, CountStep DEF TreeInv
<1> QED BY <1>1, <1>2, PTL DEF Spec

(* Every variable keeps its type: among them data_size_, which a container *)
(* takes from the sum over its objects, to any depth.                      *)
THEOREM TreeTypeOK == Spec => []TypeOK
<1>1. TreeInv => TypeOK
  BY DEF TreeInv, CopyInv, SizeInv, CountInv, Typed, TypeOK, State, Byte
<1> QED BY <1>1, TreeKept, PTL

-----------------------------------------------------------------------------
(* Flattened sequences: where each part is.                                *)
Flats(s) == CHOOSE f : f = [i \in 1 .. Len(s) |-> IF i = 1 THEN s[i] ELSE f[i - 1] \o s[i]]

IsFlat(P, s, B) ==
  /\ P \in [0 .. Len(s) -> Seq(B)] /\ P[0] = << >>
  /\ \A k \in 1 .. Len(s) : P[k] = P[k - 1] \o s[k]
  /\ FlattenSeq(s) = P[Len(s)]

LEMMA Flattens ==
  ASSUME NEW B, NEW s \in Seq(Seq(B))
  PROVE  \E P : IsFlat(P, s, B)
<1>0. Len(s) \in Nat /\ \A k \in 1 .. Len(s) : s[k] \in Seq(B)
  OBVIOUS
<1>1. PICK H \in [Nat -> [Seq(B) -> Seq(B)]] :
        \A k \in Nat : \A v \in Seq(B) : H[k][v] = IF k + 1 \in 1 .. Len(s) THEN v \o s[k + 1] ELSE v
  <2> DEFINE H == [k \in Nat |-> [v \in Seq(B) |-> IF k + 1 \in 1 .. Len(s) THEN v \o s[k + 1] ELSE v]]
  <2>1. \A k \in Nat : \A v \in Seq(B) : (IF k + 1 \in 1 .. Len(s) THEN v \o s[k + 1] ELSE v) \in Seq(B)
    BY <1>0, ConcatProperties
  <2>2. H \in [Nat -> [Seq(B) -> Seq(B)]]
    BY <2>1
  <2> QED BY <2>2
<1>2. PICK P : IsChain(P, Seq(B), << >>, H, Len(s))
  <2>1. << >> \in Seq(B)
    OBVIOUS
  <2> QED BY <1>0, <2>1, Chain
<1>3. P \in [0 .. Len(s) -> Seq(B)] /\ P[0] = << >>
  BY <1>2 DEF IsChain
<1>4. \A k \in 1 .. Len(s) : P[k] = P[k - 1] \o s[k]
  <2> TAKE k \in 1 .. Len(s)
  <2>1. k - 1 \in 0 .. Len(s) - 1 /\ (k - 1) + 1 = k /\ k - 1 \in Nat /\ k - 1 \in 0 .. Len(s)
    BY <1>0
  <2>2. P[k - 1] \in Seq(B)
    BY <1>3, <2>1
  <2>3. H[k - 1][P[k - 1]] = P[k - 1] \o s[k]
    BY <1>1, <2>1, <2>2
  <2>4. P[(k - 1) + 1] = H[k - 1][P[k - 1]]
    BY <1>2, <2>1 DEF IsChain
  <2> QED BY <2>1, <2>3, <2>4
<1>5. FlattenSeq(s) = P[Len(s)]
  <2>1. CASE Len(s) = 0
    <3>1. s = << >>
      BY <2>1, EmptySeq
    <3> QED BY <1>3, <2>1, <3>1 DEF FlattenSeq
  <2>2. CASE Len(s) # 0
    <3> DEFINE Eq(f) == f = [i \in 1 .. Len(s) |-> IF i = 1 THEN s[i] ELSE f[i - 1] \o s[i]]
               g     == [i \in 1 .. Len(s) |-> P[i]]
               t     == Flats(s)
    <3>1. FlattenSeq(s) = Flats(s)[Len(s)]
      BY <2>2 DEF FlattenSeq, Flats
    <3>2. ASSUME NEW i \in 1 .. Len(s) PROVE P[i] = IF i = 1 THEN s[i] ELSE g[i - 1] \o s[i]
      <4>1. P[i] = P[i - 1] \o s[i] /\ s[i] \in Seq(B)
        BY <1>0, <1>4
      <4>2. CASE i = 1
        <5>1. << >> \o s[i] = s[i]
          BY <4>1, ConcatEmptySeq
        <5>2. P[i - 1] = << >>
          BY <1>3, <4>2
        <5> QED BY <4>1, <4>2, <5>1, <5>2
      <4>3. CASE i # 1
        <5>1. i - 1 \in 1 .. Len(s)
          BY <1>0, <4>3
        <5> QED BY <4>1, <4>3, <5>1
      <4> QED BY <4>2, <4>3
    <3>3. Eq(g)
      <4> HIDE DEF g
      <4>1. g = [i \in 1 .. Len(s) |-> P[i]]
        BY DEF g
      <4> QED BY <3>2, <4>1
    <3>4. Eq(t)
      BY <3>3 DEF Flats
    <3> HIDE DEF g, t
    <3>5. \A i \in 1 .. Len(s) : t[i] = IF i = 1 THEN s[i] ELSE t[i - 1] \o s[i]
      BY <3>4
    <3>6. \A i \in 1 .. Len(s) : g[i] = IF i = 1 THEN s[i] ELSE g[i - 1] \o s[i]
      BY <3>3
    <3> DEFINE W == {k \in 0 .. Len(s) : k = 0 \/ t[k] = g[k]}
    <3>7. 0 \in W
      BY <1>0
    <3>8. ASSUME NEW k \in 0 .. Len(s) - 1, k \in W PROVE k + 1 \in W
      <4>1. k + 1 \in 1 .. Len(s) /\ k + 1 \in 0 .. Len(s) /\ (k + 1) - 1 = k /\ k + 1 # 0
            /\ (k + 1 = 1 <=> k = 0)
        BY <1>0
      <4>2. t[k + 1] = g[k + 1]
        BY <3>5, <3>6, <3>8, <4>1
      <4> QED BY <4>1, <4>2
    <3>9. 0 .. Len(s) \subseteq W
      <4> HIDE DEF W
      <4> QED BY <1>0, <3>7, <3>8, UpTo
    <3>10. Len(s) \in 0 .. Len(s) /\ Len(s) \in 1 .. Len(s)
      BY <1>0, <2>2
    <3>11. t[Len(s)] = g[Len(s)]
      BY <2>2, <3>9, <3>10
    <3> QED BY <3>1, <3>10, <3>11 DEF g, t
  <2> QED BY <2>1, <2>2
<1> QED BY <1>3, <1>4, <1>5 DEF IsFlat

(* In the flattened sequence the part k begins behind those before it.     *)
Located(q, s, sums, m) ==
  /\ Len(q) = sums[m]
  /\ \A k \in 1 .. m : \A j \in 1 .. Len(s[k]) :
       sums[k - 1] + j \in 1 .. Len(q) /\ q[sums[k - 1] + j] = s[k][j]
  /\ \A p \in 1 .. Len(q) : \E k \in 1 .. m : \E j \in 1 .. Len(s[k]) : p = sums[k - 1] + j

LEMMA FlatParts ==
  ASSUME NEW B, NEW s \in Seq(Seq(B)), NEW lens \in Seq(Nat), Len(lens) = Len(s),
         \A k \in 1 .. Len(s) : lens[k] = Len(s[k])
  PROVE  /\ FlattenSeq(s) \in Seq(B) /\ Len(FlattenSeq(s)) = Sum(lens)
         /\ Located(FlattenSeq(s), s, Sums(lens), Len(s))
<1>0. Len(s) \in Nat /\ \A k \in 1 .. Len(s) : s[k] \in Seq(B) /\ Len(s[k]) \in Nat
  OBVIOUS
<1>1. PICK P : IsFlat(P, s, B)
  BY Flattens
<1>2. PICK sums : sums = Sums(lens)
  OBVIOUS
<1>3. /\ sums \in [0 .. Len(s) -> Nat] /\ sums[0] = 0 /\ Sum(lens) = sums[Len(s)]
      /\ \A k \in 1 .. Len(s) : sums[k] = sums[k - 1] + Len(s[k])
  BY <1>2, SumsSolve
<1> DEFINE W == {m \in 0 .. Len(s) : Located(P[m], s, sums, m)}
<1>4. 0 \in W
  <2>1. 0 \in 0 .. Len(s) /\ P[0] = << >> /\ Len(<< >>) = 0
    BY <1>0, <1>1 DEF IsFlat
  <2> QED BY <1>3, <2>1 DEF Located
<1>5. ASSUME NEW m \in 0 .. Len(s) - 1, m \in W PROVE m + 1 \in W
  <2>1. m \in Nat /\ m + 1 \in 1 .. Len(s) /\ m \in 0 .. Len(s) /\ m + 1 \in 0 .. Len(s) /\ (m + 1) - 1 = m
    BY <1>0
  <2>2. PICK a, b, q : a = P[m] /\ b = s[m + 1] /\ q = P[m + 1]
    OBVIOUS
  <2>3. a \in Seq(B) /\ b \in Seq(B) /\ q = a \o b
    BY <1>0, <1>1, <2>1, <2>2 DEF IsFlat
  <2>4. /\ q \in Seq(B) /\ Len(q) = Len(a) + Len(b) /\ Len(a) \in Nat /\ Len(b) \in Nat
        /\ \A k \in 1 .. Len(a) + Len(b) : q[k] = IF k <= Len(a) THEN a[k] ELSE b[k - Len(a)]
    BY <2>3, ConcatProperties
  <2>5. Located(a, s, sums, m)
    BY <1>5, <2>2
  <2>6. Len(q) = sums[m + 1] /\ Len(a) = sums[m]
    BY <1>3, <2>1, <2>2, <2>4, <2>5 DEF Located
  <2>7. ASSUME NEW k \in 1 .. m + 1, NEW j \in 1 .. Len(s[k])
        PROVE  sums[k - 1] + j \in 1 .. Len(q) /\ q[sums[k - 1] + j] = s[k][j]
    <3>1. CASE k = m + 1
      <4>1. sums[k - 1] + j = Len(a) + j /\ j \in 1 .. Len(b) /\ s[k] = b
        BY <2>1, <2>2, <2>6, <3>1
      <4>2. Len(a) + j \in 1 .. Len(a) + Len(b) /\ ~(Len(a) + j <= Len(a)) /\ (Len(a) + j) - Len(a) = j
        BY <2>4, <4>1
      <4> QED BY <2>4, <4>1, <4>2
    <3>2. CASE k # m + 1
      <4>1. k \in 1 .. m
        BY <2>1, <3>2
      <4>2. sums[k - 1] + j \in 1 .. Len(a) /\ a[sums[k - 1] + j] = s[k][j]
        BY <2>5, <4>1 DEF Located
      <4>3. PICK r : r = sums[k - 1] + j
        OBVIOUS
      <4>4. r \in 1 .. Len(a) + Len(b) /\ r <= Len(a) /\ a[r] = s[k][j]
        BY <2>4, <4>2, <4>3
      <4>5. q[r] = a[r] /\ r \in 1 .. Len(q)
        BY <2>4, <4>4
      <4> QED BY <4>3, <4>4, <4>5
    <3> QED BY <3>1, <3>2
  <2>8. ASSUME NEW p \in 1 .. Len(q)
        PROVE  \E k \in 1 .. m + 1 : \E j \in 1 .. Len(s[k]) : p = sums[k - 1] + j
    <3>1. CASE p <= Len(a)
      <4>1. p \in 1 .. Len(a)
        BY <2>4, <3>1
      <4>2. PICK k \in 1 .. m : \E j \in 1 .. Len(s[k]) : p = sums[k - 1] + j
        BY <2>5, <4>1 DEF Located
      <4>3. k \in 1 .. m + 1
        BY <2>1
      <4> QED BY <4>2, <4>3
    <3>2. CASE ~(p <= Len(a))
      <4>1. p - Len(a) \in 1 .. Len(b) /\ p = Len(a) + (p - Len(a))
        BY <2>4, <3>2
      <4>2. m + 1 \in 1 .. m + 1 /\ p = sums[(m + 1) - 1] + (p - Len(a))
        BY <2>1, <2>6, <4>1
      <4> QED BY <2>2, <4>1, <4>2
    <3> QED BY <3>1, <3>2
  <2>9. Located(q, s, sums, m + 1)
    BY <2>6, <2>7, <2>8 DEF Located
  <2> QED BY <2>1, <2>2, <2>9
<1>6. Located(P[Len(s)], s, sums, Len(s)) /\ P[Len(s)] \in Seq(B)
  <2>1. 0 .. Len(s) \subseteq W
    <3> HIDE DEF W
    <3> QED BY <1>0, <1>4, <1>5, UpTo
  <2>2. Len(s) \in 0 .. Len(s)
    BY <1>0
  <2> QED BY <1>1, <2>1, <2>2 DEF IsFlat
<1>7. FlattenSeq(s) = P[Len(s)]
  BY <1>1 DEF IsFlat
<1>8. Len(P[Len(s)]) = Sum(lens)
  BY <1>3, <1>6 DEF Located
<1> QED BY <1>2, <1>6, <1>7, <1>8

-----------------------------------------------------------------------------
(* The image of every object of a tree.                                    *)
Images(in) ==
  CHOOSE image : image = [x \in Node |->
    IF IsContainer(x)
      THEN Own(x, 0, HeaderSize) \o FlattenSeq([i \in DOMAIN in[x] |-> image[in[x][i]]])
      ELSE Own(x, 0, HeaderSize + DataSize[x])]

LEMMA ImagesAre == ASSUME NEW n PROVE Image(n) = Images(kids)[n]
BY DEF Image, Images

LEMMA ImageParts ==
  ASSUME NEW in \in [Node -> Seq(Node)], NEW x \in Node, NEW f \in [Node -> Seq(Byte)]
  PROVE  /\ [i \in DOMAIN in[x] |-> f[in[x][i]]] \in Seq(Seq(Byte))
         /\ Len([i \in DOMAIN in[x] |-> f[in[x][i]]]) = Len(in[x])
         /\ in[x] \in Seq(Node) /\ Len(in[x]) \in Nat /\ DOMAIN in[x] = 1 .. Len(in[x])
         /\ \A k \in DOMAIN in[x] : in[x][k] \in Node
<1>1. /\ in[x] \in Seq(Node) /\ Len(in[x]) \in Nat /\ DOMAIN in[x] = 1 .. Len(in[x])
      /\ \A k \in DOMAIN in[x] : in[x][k] \in Node
  <2>1. in[x] \in Seq(Node)
    OBVIOUS
  <2>2. \A s \in Seq(Node) : /\ Len(s) \in Nat /\ DOMAIN s = 1 .. Len(s)
                             /\ \A k \in DOMAIN s : s[k] \in Node
    OBVIOUS
  <2> QED BY <2>1, <2>2
<1>2. \A k \in DOMAIN in[x] : f[in[x][k]] \in Seq(Byte)
  BY <1>1
<1> QED BY <1>1, <1>2

LEMMA ImagesSolve ==
  ASSUME NEW in \in [Node -> Seq(Node)], IsFounded(in)
  PROVE  /\ Images(in) \in [Node -> Seq(Byte)]
         /\ \A x \in Node : Images(in)[x] =
              IF IsContainer(x)
                THEN Own(x, 0, HeaderSize) \o FlattenSeq([i \in DOMAIN in[x] |-> Images(in)[in[x][i]]])
                ELSE Own(x, 0, HeaderSize + DataSize[x])
<1> DEFINE Of(x, f) == IF IsContainer(x)
              THEN Own(x, 0, HeaderSize) \o FlattenSeq([i \in DOMAIN in[x] |-> f[in[x][i]]])
              ELSE Own(x, 0, HeaderSize + DataSize[x])
<1>1. \A x \in Node : \A f \in [Node -> Seq(Byte)] : Of(x, f) \in Seq(Byte)
  <2> SUFFICES ASSUME NEW x \in Node, NEW f \in [Node -> Seq(Byte)] PROVE Of(x, f) \in Seq(Byte)
    OBVIOUS
  <2> DEFINE s == [i \in DOMAIN in[x] |-> f[in[x][i]]]
             lens == [k \in DOMAIN s |-> Len(s[k])]
  <2>1. s \in Seq(Seq(Byte))
    BY ImageParts
  <2>2. HeaderSize \in Nat /\ HeaderSize + DataSize[x] \in Nat
    BY CopyAssumption
  <2>3. Own(x, 0, HeaderSize) \in Seq(Byte) /\ Own(x, 0, HeaderSize + DataSize[x]) \in Seq(Byte)
    BY <2>2, OwnBytes
  <2>4. FlattenSeq(s) \in Seq(Byte)
    <3> HIDE DEF s
    <3>1. \A k \in 1 .. Len(s) : s[k] \in Seq(Byte) /\ Len(s[k]) \in Nat
      BY <2>1
    <3>2. DOMAIN s = 1 .. Len(s) /\ Len(s) \in Nat
      BY <2>1
    <3>3. lens \in Seq(Nat) /\ Len(lens) = Len(s) /\ \A k \in 1 .. Len(s) : lens[k] = Len(s[k])
      BY <3>1, <3>2
    <3> HIDE DEF lens
    <3> QED BY <2>1, <3>3, FlatParts
  <2> HIDE DEF s
  <2> QED BY <2>3, <2>4, ConcatProperties DEF s
<1>2. PICK G \in [Node -> [[Node -> Seq(Byte)] -> Seq(Byte)]] :
        \A x \in Node : \A f \in [Node -> Seq(Byte)] : G[x][f] = Of(x, f)
  <2> DEFINE G == [x \in Node |-> [f \in [Node -> Seq(Byte)] |-> Of(x, f)]]
  <2> HIDE DEF Of
  <2>1. G \in [Node -> [[Node -> Seq(Byte)] -> Seq(Byte)]]
    BY <1>1
  <2> QED BY <2>1
<1>3. \A x \in Node : \A f, g :
        (\A i \in DOMAIN in[x] : f[in[x][i]] = g[in[x][i]]) => Of(x, f) = Of(x, g)
  <2> TAKE x \in Node
  <2> TAKE f, g
  <2> HAVE \A i \in DOMAIN in[x] : f[in[x][i]] = g[in[x][i]]
  <2>1. [i \in DOMAIN in[x] |-> f[in[x][i]]] = [i \in DOMAIN in[x] |-> g[in[x][i]]]
    OBVIOUS
  <2> QED BY <2>1
<1>4. PICK h : IsRecursive(h, Seq(Byte), G)
  <2> HIDE DEF Of
  <2>1. \A x \in Node : \A f, g \in [Node -> Seq(Byte)] :
          (\A i \in DOMAIN in[x] : f[in[x][i]] = g[in[x][i]]) => G[x][f] = G[x][g]
    <3> TAKE x \in Node
    <3> TAKE f, g \in [Node -> Seq(Byte)]
    <3> HAVE \A i \in DOMAIN in[x] : f[in[x][i]] = g[in[x][i]]
    <3>1. Of(x, f) = Of(x, g)
      BY <1>3
    <3> QED BY <1>2, <3>1
  <2>2. << >> \in Seq(Byte)
    OBVIOUS
  <2> QED BY <2>1, <2>2, Recursion
<1>5. h \in [Node -> Seq(Byte)] /\ \A x \in Node : h[x] = Of(x, h)
  <2> HIDE DEF Of
  <2> QED BY <1>2, <1>4 DEF IsRecursive
<1>6. h = [x \in Node |-> Of(x, h)]
  <2> HIDE DEF Of
  <2> QED BY <1>5
<1>7. Images(in) = [x \in Node |-> Of(x, Images(in))]
  BY <1>6 DEF Images
<1>8. \A x \in Node : Images(in)[x] = h[x]
  <2> DEFINE X == {x \in Node : Images(in)[x] # h[x]}
  <2> SUFFICES ASSUME X # {} PROVE FALSE
    OBVIOUS
  <2>1. PICK x \in X : \A i \in DOMAIN in[x] : in[x][i] \notin X
    BY DEF IsFounded
  <2>2. \A k \in DOMAIN in[x] : in[x][k] \in Node
    OBVIOUS
  <2>3. \A k \in DOMAIN in[x] : Images(in)[in[x][k]] = h[in[x][k]]
    BY <2>1, <2>2
  <2> HIDE DEF Of
  <2>5. Of(x, Images(in)) = Of(x, h)
    BY <1>3, <2>3
  <2>6. Images(in)[x] = Of(x, Images(in)) /\ h[x] = Of(x, h)
    BY <1>5, <1>7
  <2> QED BY <2>5, <2>6
<1>9. Images(in) = h
  <2> HIDE DEF Of
  <2>1. Images(in) = [x \in Node |-> Images(in)[x]]
    BY <1>7
  <2>2. h = [x \in Node |-> h[x]]
    BY <1>5
  <2> QED BY <1>8, <2>1, <2>2
<1> QED BY <1>5, <1>9

-----------------------------------------------------------------------------
(* Where the bytes of an object are in its image.                          *)
Lengths(in, x)  == [k \in DOMAIN in[x] |-> HeaderSize + Totals(in)[in[x][k]]]
Start(in, x, k) == Sums(Lengths(in, x))[k - 1]
OwnSize(x)      == IF IsContainer(x) THEN HeaderSize ELSE HeaderSize + DataSize[x]

LEMMA Starts ==
  ASSUME NEW in \in [Node -> Seq(Node)], IsFounded(in), NEW x \in Node
  PROVE  /\ Lengths(in, x) \in Seq(Nat) /\ Len(Lengths(in, x)) = Len(in[x]) /\ Len(in[x]) \in Nat
         /\ \A k \in 1 .. Len(in[x]) :
              Lengths(in, x)[k] = HeaderSize + Totals(in)[in[x][k]] /\ in[x][k] \in Node
         /\ Start(in, x, 1) = 0
         /\ \A k \in 1 .. Len(in[x]) + 1 : Start(in, x, k) \in Nat
         /\ \A k \in 1 .. Len(in[x]) :
              Start(in, x, k + 1) = Start(in, x, k) + HeaderSize + Totals(in)[in[x][k]]
         /\ IsContainer(x) => Totals(in)[x] = Start(in, x, Len(in[x]) + 1)
<1>1. /\ Totals(in) \in [Node -> Nat]
      /\ IsContainer(x) => Totals(in)[x] = Sum(Lengths(in, x))
  BY TotalsSolve DEF Lengths
<1>2. PICK l, n : l = Lengths(in, x) /\ n = Len(in[x])
  OBVIOUS
<1>3. /\ l \in Seq(Nat) /\ Len(l) = n
  BY <1>1, <1>2, Parts DEF Lengths
<1>4. in[x] \in Seq(Node) /\ n \in Nat /\ DOMAIN in[x] = 1 .. n
      /\ \A k \in DOMAIN in[x] : in[x][k] \in Node
  <2>1. in[x] \in Seq(Node)
    OBVIOUS
  <2>2. \A s \in Seq(Node) : /\ Len(s) \in Nat /\ DOMAIN s = 1 .. Len(s)
                             /\ \A k \in DOMAIN s : s[k] \in Node
    OBVIOUS
  <2> QED BY <1>2, <2>1, <2>2
<1>5. \A k \in 1 .. n : l[k] = HeaderSize + Totals(in)[in[x][k]]
  BY <1>2, <1>4 DEF Lengths
<1>6. PICK sums : sums = Sums(l)
  OBVIOUS
<1>7. /\ sums \in [0 .. n -> Nat] /\ sums[0] = 0 /\ Sum(l) = sums[n]
      /\ \A k \in 1 .. n : sums[k] = sums[k - 1] + l[k]
  BY <1>3, <1>6, SumsSolve
<1>8. ASSUME NEW k \in 0 .. n PROVE Start(in, x, k + 1) = sums[k]
  <2>1. (k + 1) - 1 = k
    BY <1>4
  <2> QED BY <1>2, <1>6, <2>1 DEF Start
<1>9. Start(in, x, 1) = 0 /\ Sum(l) = Start(in, x, n + 1)
  <2>1. 0 \in 0 .. n /\ n \in 0 .. n /\ 0 + 1 = 1
    BY <1>4
  <2>2. Start(in, x, 0 + 1) = sums[0] /\ Start(in, x, n + 1) = sums[n]
    BY <1>8, <2>1
  <2> QED BY <1>7, <2>1, <2>2
<1>10. ASSUME NEW k \in 1 .. n + 1 PROVE Start(in, x, k) \in Nat
  <2>1. k - 1 \in 0 .. n /\ (k - 1) + 1 = k
    BY <1>4
  <2>2. Start(in, x, (k - 1) + 1) = sums[k - 1]
    BY <1>8, <2>1
  <2> QED BY <1>7, <2>1, <2>2
<1>11. ASSUME NEW k \in 1 .. n
       PROVE  Start(in, x, k + 1) = Start(in, x, k) + HeaderSize + Totals(in)[in[x][k]]
  <2>0. k \in 0 .. n /\ k - 1 \in 0 .. n /\ (k - 1) + 1 = k
    BY <1>4
  <2>4. Start(in, x, k + 1) = sums[k] /\ Start(in, x, (k - 1) + 1) = sums[k - 1]
    BY <1>8, <2>0
  <2>1. Start(in, x, k + 1) = sums[k] /\ Start(in, x, k) = sums[k - 1] /\ sums[k - 1] \in Nat
    BY <1>7, <2>0, <2>4
  <2>2. Totals(in)[in[x][k]] \in Nat /\ HeaderSize \in Nat
    BY <1>1, <1>4, CopyAssumption
  <2>3. sums[k] = sums[k - 1] + (HeaderSize + Totals(in)[in[x][k]])
    BY <1>5, <1>7
  <2> QED BY <2>1, <2>2, <2>3
<1> QED BY <1>1, <1>2, <1>3, <1>4, <1>5, <1>9, <1>10, <1>11

(* An object laid out like this, when the images of what it holds are of   *)
(* the lengths that their headers tell.                                    *)
LaidOut(in, x) ==
  LET im == Images(in) IN
  /\ im[x] \in Seq(Byte) /\ Len(im[x]) = HeaderSize + Totals(in)[x]
  /\ OwnSize(x) <= Len(im[x])
  /\ \A j \in 1 .. OwnSize(x) : im[x][j] = <<x, j - 1>>
  /\ ~IsContainer(x) => Len(im[x]) = OwnSize(x)
  /\ IsContainer(x) =>
       /\ \A k \in 1 .. Len(in[x]) : \A j \in 1 .. Len(im[in[x][k]]) :
            /\ HeaderSize + Start(in, x, k) + j \in 1 .. Len(im[x])
            /\ im[x][HeaderSize + Start(in, x, k) + j] = im[in[x][k]][j]
       /\ \A p \in HeaderSize + 1 .. Len(im[x]) :
            \E k \in 1 .. Len(in[x]) : \E j \in 1 .. Len(im[in[x][k]]) :
              p = HeaderSize + Start(in, x, k) + j

LEMMA Lays ==
  ASSUME NEW in \in [Node -> Seq(Node)], IsFounded(in), NEW x \in Node,
         \A k \in DOMAIN in[x] : Len(Images(in)[in[x][k]]) = HeaderSize + Totals(in)[in[x][k]]
  PROVE  LaidOut(in, x)
<1>1. PICK im : im = Images(in)
  OBVIOUS
<1>2. /\ im \in [Node -> Seq(Byte)]
      /\ im[x] = IF IsContainer(x)
                   THEN Own(x, 0, HeaderSize) \o FlattenSeq([i \in DOMAIN in[x] |-> im[in[x][i]]])
                   ELSE Own(x, 0, HeaderSize + DataSize[x])
  BY <1>1, ImagesSolve
<1>3. HeaderSize \in Nat /\ DataSize[x] \in Nat
  BY CopyAssumption
<1>4. CASE ~IsContainer(x)
  <2>1. Totals(in)[x] = DataSize[x]
    BY <1>4, TotalsSolve
  <2>2. im[x] = Own(x, 0, HeaderSize + DataSize[x]) /\ OwnSize(x) = HeaderSize + DataSize[x]
        /\ OwnSize(x) \in Nat
    BY <1>2, <1>3, <1>4 DEF OwnSize
  <2>3. im[x] \in Seq(Byte) /\ Len(im[x]) = OwnSize(x)
        /\ \A i \in 1 .. OwnSize(x) : im[x][i] = <<x, 0 + i - 1>>
    <3>1. im[x] = Own(x, 0, OwnSize(x))
      BY <2>2
    <3>2. PICK m : m = OwnSize(x)
      OBVIOUS
    <3>3. \A from \in Nat : /\ Own(x, from, m) \in Seq(Byte) /\ Len(Own(x, from, m)) = m
                            /\ \A i \in 1 .. m : Own(x, from, m)[i] = <<x, from + i - 1>>
      BY <2>2, <3>2, OwnBytes
    <3>4. /\ Own(x, 0, m) \in Seq(Byte) /\ Len(Own(x, 0, m)) = m
          /\ \A i \in 1 .. m : Own(x, 0, m)[i] = <<x, 0 + i - 1>>
      BY <3>3
    <3> QED BY <3>1, <3>2, <3>4, Zenon
  <2>4. \A i \in 1 .. OwnSize(x) : im[x][i] = <<x, i - 1>>
    BY <2>2, <2>3
  <2> QED BY <1>1, <1>4, <2>1, <2>2, <2>3, <2>4 DEF LaidOut
<1>5. CASE IsContainer(x)
  <2>1. PICK s, l, a, b : /\ s = [i \in DOMAIN in[x] |-> im[in[x][i]]] /\ l = Lengths(in, x)
                          /\ a = Own(x, 0, HeaderSize) /\ b = FlattenSeq(s)
    OBVIOUS
  <2>2. /\ s \in Seq(Seq(Byte)) /\ Len(s) = Len(in[x]) /\ Len(in[x]) \in Nat
        /\ DOMAIN in[x] = 1 .. Len(in[x])
        /\ \A k \in DOMAIN in[x] : in[x][k] \in Node
    BY <1>2, <2>1, ImageParts
  <2>3. \A k \in 1 .. Len(s) : s[k] = im[in[x][k]]
    BY <2>1, <2>2
  <2>4. l \in Seq(Nat) /\ Len(l) = Len(s) /\ \A k \in 1 .. Len(s) : l[k] = Len(s[k])
    <3>1. l \in Seq(Nat) /\ Len(l) = Len(s)
      BY <2>1, <2>2, Starts
    <3>2. \A k \in 1 .. Len(in[x]) : l[k] = HeaderSize + Totals(in)[in[x][k]]
      BY <2>1, Starts
    <3>3. \A k \in 1 .. Len(in[x]) : Len(im[in[x][k]]) = HeaderSize + Totals(in)[in[x][k]]
      BY <1>1, <2>2
    <3> QED BY <2>2, <2>3, <3>1, <3>2, <3>3
  <2>5. b \in Seq(Byte) /\ Len(b) = Sum(l) /\ Located(b, s, Sums(l), Len(s))
    BY <2>1, <2>2, <2>4, FlatParts
  <2>6. a \in Seq(Byte) /\ Len(a) = HeaderSize /\ \A i \in 1 .. HeaderSize : a[i] = <<x, 0 + i - 1>>
    BY <1>3, <2>1, OwnBytes
  <2>7. PICK q : q = im[x]
    OBVIOUS
  <2>8. q = a \o b
    BY <1>2, <1>5, <2>1, <2>7
  <2>9. /\ q \in Seq(Byte) /\ Len(q) = HeaderSize + Len(b) /\ Len(b) \in Nat
        /\ \A k \in 1 .. HeaderSize + Len(b) :
             q[k] = IF k <= HeaderSize THEN a[k] ELSE b[k - HeaderSize]
    BY <2>5, <2>6, <2>8, ConcatProperties
  <2>10. Totals(in)[x] = Sum(l)
    BY <1>5, <2>1, TotalsSolve DEF Lengths
  <2>11. Len(q) = HeaderSize + Totals(in)[x] /\ OwnSize(x) = HeaderSize /\ OwnSize(x) <= Len(q)
    BY <1>3, <1>5, <2>5, <2>9, <2>10 DEF OwnSize
  <2>12. \A j \in 1 .. OwnSize(x) : q[j] = <<x, j - 1>>
    BY <1>3, <2>6, <2>9, <2>11
  <2>13. \A k : Start(in, x, k) = Sums(l)[k - 1]
    BY <2>1 DEF Start
  <2>14. ASSUME NEW k \in 1 .. Len(in[x]), NEW j \in 1 .. Len(im[in[x][k]])
         PROVE  /\ HeaderSize + Start(in, x, k) + j \in 1 .. Len(q)
                /\ q[HeaderSize + Start(in, x, k) + j] = im[in[x][k]][j]
    <3>1. s[k] = im[in[x][k]] /\ k \in 1 .. Len(s)
      BY <2>2, <2>3
    <3>2. PICK r : r = Start(in, x, k) + j
      OBVIOUS
    <3>8. /\ Sums(l)[k - 1] + j \in 1 .. Len(b)
          /\ b[Sums(l)[k - 1] + j] = s[k][j]
      BY <2>5, <3>1 DEF Located
    <3>9. r = Sums(l)[k - 1] + j
      BY <2>1, <3>2 DEF Start
    <3>3. r \in 1 .. Len(b) /\ b[r] = im[in[x][k]][j]
      BY <3>1, <3>8, <3>9
    <3>4. Start(in, x, k) \in Nat /\ j \in Nat
      <4>1. k \in 1 .. Len(in[x]) + 1 /\ j \in Nat
        BY <1>2, <2>2
      <4>2. \A m \in 1 .. Len(in[x]) + 1 : Start(in, x, m) \in Nat
        BY Starts
      <4> QED BY <4>1, <4>2
    <3>5. HeaderSize + Start(in, x, k) + j = HeaderSize + r
      BY <1>3, <3>2, <3>4
    <3>6. HeaderSize + r \in 1 .. HeaderSize + Len(b) /\ ~(HeaderSize + r <= HeaderSize)
          /\ (HeaderSize + r) - HeaderSize = r
      BY <1>3, <2>9, <3>3
    <3>7. q[HeaderSize + r] = b[r]
      BY <2>9, <3>6
    <3> QED BY <2>9, <3>3, <3>5, <3>6, <3>7
  <2>15. ASSUME NEW p \in HeaderSize + 1 .. Len(q)
         PROVE  \E k \in 1 .. Len(in[x]) : \E j \in 1 .. Len(im[in[x][k]]) :
                  p = HeaderSize + Start(in, x, k) + j
    <3>1. p - HeaderSize \in 1 .. Len(b) /\ p \in Nat
      BY <1>3, <2>9
    <3>2. PICK k \in 1 .. Len(s) : \E j \in 1 .. Len(s[k]) : p - HeaderSize = Sums(l)[k - 1] + j
      BY <2>5, <3>1 DEF Located
    <3>3. PICK j \in 1 .. Len(s[k]) : p - HeaderSize = Sums(l)[k - 1] + j
      BY <3>2
    <3>4. k \in 1 .. Len(in[x]) /\ s[k] = im[in[x][k]] /\ Start(in, x, k) = Sums(l)[k - 1]
      BY <2>2, <2>3, <2>13
    <3>5. Start(in, x, k) \in Nat /\ j \in Nat
      <4>1. k \in 1 .. Len(in[x]) + 1 /\ j \in Nat
        BY <1>2, <2>2, <3>4
      <4>2. \A m \in 1 .. Len(in[x]) + 1 : Start(in, x, m) \in Nat
        BY Starts
      <4> QED BY <4>1, <4>2
    <3>7. p - HeaderSize = Start(in, x, k) + j
      BY <3>3, <3>4
    <3>8. PICK v : v = Start(in, x, k)
      OBVIOUS
    <3>9. v \in Nat /\ p - HeaderSize = v + j
      BY <3>5, <3>7, <3>8
    <3>10. p = HeaderSize + v + j
      BY <1>3, <3>1, <3>5, <3>9
    <3>6. p = HeaderSize + Start(in, x, k) + j
      BY <3>8, <3>10
    <3> QED BY <3>3, <3>4, <3>6
  <2> QED BY <1>1, <1>5, <2>7, <2>9, <2>11, <2>12, <2>14, <2>15 DEF LaidOut
<1> QED BY <1>4, <1>5

LEMMA Layout ==
  ASSUME NEW in \in [Node -> Seq(Node)], IsFounded(in)
  PROVE  \A x \in Node : LaidOut(in, x)
<1> DEFINE X == {x \in Node : Len(Images(in)[x]) # HeaderSize + Totals(in)[x]}
<1>1. CASE X # {}
  <2>1. PICK x \in X : \A i \in DOMAIN in[x] : in[x][i] \notin X
    BY <1>1 DEF IsFounded
  <2>2. \A k \in DOMAIN in[x] : in[x][k] \in Node
    OBVIOUS
  <2>3. LaidOut(in, x)
    BY <2>1, <2>2, Lays
  <2> QED BY <2>3 DEF LaidOut
<1>2. CASE X = {}
  <2>1. \A x \in Node : \A k \in DOMAIN in[x] : in[x][k] \in Node
    OBVIOUS
  <2> QED BY <1>2, <2>1, Lays
<1> QED BY <1>1, <1>2

-----------------------------------------------------------------------------
(* The places to which the headers lead a parser of the root's image.      *)
Leads(in) ==
  CHOOSE start : start = [k \in 1 .. Len(in) + 1 |->
    IF k = 1 THEN HeaderSize + 1 ELSE start[k - 1] + HeaderSize + size[in[k - 1]]]

LEMMA LeadsSolve ==
  ASSUME TreeInv, \A k \in 1 .. Len(kids[Root]) : size[kids[Root][k]] = Totals(kids)[kids[Root][k]]
  PROVE  \A k \in 1 .. Len(kids[Root]) + 1 : Leads(kids[Root])[k] = HeaderSize + 1 + Start(kids, Root, k)
<1>1. PICK in, n : in = kids[Root] /\ n = Len(in)
  OBVIOUS
<1>2. kids \in [Node -> Seq(Node)] /\ IsFounded(kids) /\ Root \in Node /\ HeaderSize \in Nat
  BY CopyAssumption DEF TreeInv, CopyInv, Typed, SizeInv
<1>3. /\ n \in Nat /\ Start(kids, Root, 1) = 0
      /\ \A k \in 1 .. n + 1 : Start(kids, Root, k) \in Nat
      /\ \A k \in 1 .. n : Start(kids, Root, k + 1) = Start(kids, Root, k) + HeaderSize + size[in[k]]
  <2>1. \A k \in 1 .. n : size[in[k]] = Totals(kids)[in[k]]
    BY <1>1
  <2>2. \A k \in 1 .. n :
          Start(kids, Root, k + 1) = Start(kids, Root, k) + HeaderSize + Totals(kids)[in[k]]
    BY <1>1, <1>2, Starts
  <2> QED BY <1>1, <1>2, <2>1, <2>2, Starts
<1>4. \A k \in 1 .. n : size[in[k]] \in Nat
  <2>1. \A k \in 1 .. n : in[k] \in Node
    BY <1>1, <1>2, Starts
  <2> QED BY <2>1 DEF TreeInv, SizeInv
<1> DEFINE Eq(f) == f = [k \in 1 .. n + 1 |->
                           IF k = 1 THEN HeaderSize + 1 ELSE f[k - 1] + HeaderSize + size[in[k - 1]]]
           g     == [k \in 1 .. n + 1 |-> HeaderSize + 1 + Start(kids, Root, k)]
           t     == Leads(in)
<1>5. ASSUME NEW k \in 1 .. n + 1
      PROVE  HeaderSize + 1 + Start(kids, Root, k)
               = IF k = 1 THEN HeaderSize + 1 ELSE g[k - 1] + HeaderSize + size[in[k - 1]]
  <2>1. CASE k = 1
    BY <1>2, <1>3, <2>1
  <2>2. CASE k # 1
    <3>1. k - 1 \in 1 .. n /\ k - 1 \in 1 .. n + 1 /\ (k - 1) + 1 = k
      BY <1>3, <2>2
    <3>2. PICK j : j = k - 1
      OBVIOUS
    <3>3. PICK a, b, c : a = Start(kids, Root, j) /\ b = Start(kids, Root, k) /\ c = size[in[j]]
      OBVIOUS
    <3>4. a \in Nat /\ c \in Nat /\ b = a + HeaderSize + c
      BY <1>3, <1>4, <3>1, <3>2, <3>3
    <3>5. g[j] = HeaderSize + 1 + a
      BY <3>1, <3>2, <3>3
    <3> HIDE DEF g
    <3>6. HeaderSize + 1 + b = g[j] + HeaderSize + c
      BY <1>2, <3>4, <3>5
    <3> QED BY <2>2, <3>2, <3>3, <3>6
  <2> QED BY <2>1, <2>2
<1>6. Eq(g)
  <2> HIDE DEF g
  <2>1. g = [k \in 1 .. n + 1 |-> HeaderSize + 1 + Start(kids, Root, k)]
    BY DEF g
  <2> QED BY <1>5, <2>1
<1>7. Eq(t)
  BY <1>1, <1>6 DEF Leads
<1>8. \A k \in 1 .. n + 1 : g[k] = HeaderSize + 1 + Start(kids, Root, k)
  OBVIOUS
<1> HIDE DEF g, t
<1> DEFINE W == {k \in 0 .. n : t[k + 1] = g[k + 1]}
<1>9. 0 \in W
  <2>1. 0 \in 0 .. n /\ 1 \in 1 .. n + 1 /\ 0 + 1 = 1
    BY <1>3
  <2>2. t[1] = HeaderSize + 1 /\ g[1] = HeaderSize + 1
    BY <1>6, <1>7, <2>1
  <2> QED BY <2>1, <2>2
<1>10. ASSUME NEW k \in 0 .. n - 1, k \in W PROVE k + 1 \in W
  <2>1. (k + 1) + 1 \in 1 .. n + 1 /\ (k + 1) + 1 # 1 /\ ((k + 1) + 1) - 1 = k + 1 /\ k + 1 \in 0 .. n
    BY <1>3
  <2>2. PICK m : m = (k + 1) + 1
    OBVIOUS
  <2>3. t[m] = t[m - 1] + HeaderSize + size[in[m - 1]]
    BY <1>7, <2>1, <2>2
  <2>4. g[m] = g[m - 1] + HeaderSize + size[in[m - 1]]
    BY <1>6, <2>1, <2>2
  <2>5. t[m - 1] = g[m - 1]
    BY <1>10, <2>1, <2>2
  <2> QED BY <2>1, <2>2, <2>3, <2>4, <2>5
<1>11. 0 .. n \subseteq W
  <2> HIDE DEF W
  <2> QED BY <1>3, <1>9, <1>10, UpTo
<1>12. \A k \in 1 .. n + 1 : t[k] = g[k]
  <2> TAKE k \in 1 .. n + 1
  <2>1. k - 1 \in 0 .. n /\ (k - 1) + 1 = k
    BY <1>3
  <2> QED BY <1>11, <2>1
<1> QED BY <1>1, <1>8, <1>12 DEF t

(* The sizes a container and its objects carry in their headers lead the   *)
(* parser of the other side from object to object and exactly to the end,  *)
(* whatever was emplaced, reset or failed before the upload that wrote it. *)
THEOREM HeadersLeadBack == Spec => []ParsesBack
<1>1. TreeInv => ParsesBack
  <2> SUFFICES ASSUME TreeInv, ~InCall, answer = "Ready", out = Image(Root) PROVE
        LET in == kids[Root]
        IN  /\ size[Root] = Len(out) - HeaderSize
            /\ \A k \in DOMAIN in : out[Leads(in)[k]] = <<in[k], 0>>
            /\ Leads(in)[Len(in) + 1] = Len(out) + 1
    BY DEF ParsesBack, Leads
  <2>1. PICK in, n, im : in = kids[Root] /\ n = Len(in) /\ im = Images(kids)
    OBVIOUS
  <2>2. /\ kids \in [Node -> Seq(Node)] /\ IsFounded(kids) /\ Root \in Node
        /\ HeaderSize \in Nat \ {0} /\ IsContainer(Root)
    BY CopyAssumption DEF TreeInv, CopyInv, Typed, SizeInv, IsContainer
  <2>3. out = im[Root]
    BY <2>1, ImagesAre
  <2>4. \A x \in Node : LaidOut(kids, x)
    BY <2>2, Layout
  <2>5. /\ n \in Nat /\ DOMAIN in = 1 .. n /\ \A k \in 1 .. n : in[k] \in Node /\ in[k] # Root
    <3>1. Typed /\ UnmadeInv
      BY DEF TreeInv, CopyInv
    <3> QED BY <2>1, <2>2, <3>1, KidsIn, OnePlace
  <2>6. ASSUME NEW k \in 1 .. n
        PROVE  /\ HeaderSize + Start(kids, Root, k) + 1 \in 1 .. Len(out)
               /\ out[HeaderSize + Start(kids, Root, k) + 1] = <<in[k], 0>>
    <3>1. /\ im[in[k]] \in Seq(Byte) /\ OwnSize(in[k]) <= Len(im[in[k]])
          /\ \A j \in 1 .. OwnSize(in[k]) : im[in[k]][j] = <<in[k], j - 1>>
      BY <2>1, <2>4, <2>5 DEF LaidOut
    <3>2. OwnSize(in[k]) \in Nat \ {0} /\ Len(im[in[k]]) \in Nat
      <4>1. DataSize[in[k]] \in Nat
        BY <2>5, CopyAssumption
      <4> QED BY <2>2, <3>1, <4>1 DEF OwnSize
    <3>3. 1 \in 1 .. OwnSize(in[k]) /\ 1 \in 1 .. Len(im[in[k]])
      BY <3>1, <3>2
    <3>4. im[in[k]][1] = <<in[k], 0>>
      BY <3>1, <3>3
    <3>5. \A j \in 1 .. Len(im[in[k]]) :
            /\ HeaderSize + Start(kids, Root, k) + j \in 1 .. Len(im[Root])
            /\ im[Root][HeaderSize + Start(kids, Root, k) + j] = im[in[k]][j]
      BY <2>1, <2>2, <2>4 DEF LaidOut
    <3> QED BY <2>3, <3>3, <3>4, <3>5
  <2>7. \A k \in 1 .. n : size[in[k]] = Totals(kids)[in[k]]
    <3> TAKE k \in 1 .. n
    <3>1. PICK p : p = HeaderSize + Start(kids, Root, k) + 1
      OBVIOUS
    <3>2. p \in DOMAIN out /\ out[p][1] = in[k]
      <4>1. out \in Seq(Byte)
        BY DEF TreeInv, SizeInv
      <4> QED BY <2>6, <3>1, <4>1
    <3> QED BY <2>5, <3>2 DEF TreeInv, SizeInv
  <2>8. \A k \in 1 .. n + 1 : Leads(in)[k] = HeaderSize + 1 + Start(kids, Root, k)
    BY <2>1, <2>7, LeadsSolve
  <2>9. /\ \A k \in 1 .. n + 1 : Start(kids, Root, k) \in Nat
        /\ Totals(kids)[Root] = Start(kids, Root, n + 1)
    BY <2>1, <2>2, Starts
  <2>10. Len(out) = HeaderSize + Totals(kids)[Root] /\ size[Root] = Totals(kids)[Root]
    BY <2>1, <2>2, <2>3, <2>4 DEF LaidOut, TreeInv, SizeInv
  <2>11. n + 1 \in 1 .. n + 1 /\ \A k \in 1 .. n : k \in 1 .. n + 1
    BY <2>5
  <2>12. size[Root] = Len(out) - HeaderSize /\ Leads(in)[n + 1] = Len(out) + 1
    <3>1. PICK v : v = Start(kids, Root, n + 1)
      OBVIOUS
    <3>2. v \in Nat /\ Leads(in)[n + 1] = HeaderSize + 1 + v
      BY <2>8, <2>9, <2>11, <3>1
    <3>3. Len(out) = HeaderSize + v /\ size[Root] = v
      BY <2>9, <2>10, <3>1
    <3> QED BY <2>2, <3>2, <3>3
  <2>13. ASSUME NEW k \in 1 .. n PROVE out[Leads(in)[k]] = <<in[k], 0>>
    <3>1. HeaderSize + 1 + Start(kids, Root, k) = HeaderSize + Start(kids, Root, k) + 1
      BY <2>2, <2>9, <2>11
    <3> QED BY <2>6, <2>8, <2>11, <3>1
  <2> QED BY <2>1, <2>5, <2>12, <2>13
<1> QED BY <1>1, TreeKept, PTL

-----------------------------------------------------------------------------
(* The objects below n, n among them.                                      *)
Closed(in, C) == \A y \in C : \A k \in DOMAIN in[y] : in[y][k] \in C
Below(in, n)  == {m \in Node : \A C \in SUBSET Node : n \in C /\ Closed(in, C) => m \in C}

(* A tree of which no object is held twice.                                *)
IsTree(in) ==
  /\ in \in [Node -> Seq(Node)] /\ IsFounded(in)
  /\ \A m, n \in Node : \A i \in DOMAIN in[m] : \A j \in DOMAIN in[n] :
       in[m][i] = in[n][j] => m = n /\ i = j

LEMMA BelowIs ==
  ASSUME NEW in, IsTree(in), NEW n \in Node
  PROVE  /\ n \in Below(in, n) /\ Below(in, n) \in SUBSET Node /\ Closed(in, Below(in, n))
         /\ \A C \in SUBSET Node : n \in C /\ Closed(in, C) => Below(in, n) \subseteq C
<1>1. \A x \in Node : \A k \in DOMAIN in[x] : in[x][k] \in Node
  BY DEF IsTree
<1> QED BY <1>1 DEF Below, Closed

(* What is below n is n, or is held by one that is below n, and is below   *)
(* one of those n holds.                                                   *)
LEMMA BelowBy ==
  ASSUME NEW in, IsTree(in), NEW n \in Node, NEW m \in Below(in, n), m # n
  PROVE  /\ \E p \in Below(in, n) : \E k \in DOMAIN in[p] : in[p][k] = m
         /\ \E k \in DOMAIN in[n] : m \in Below(in, in[n][k])
<1>0. \A x \in Node : \A k \in DOMAIN in[x] : in[x][k] \in Node
  BY DEF IsTree
<1>1. \E p \in Below(in, n) : \E k \in DOMAIN in[p] : in[p][k] = m
  <2> SUFFICES ASSUME \A p \in Below(in, n) : \A k \in DOMAIN in[p] : in[p][k] # m
               PROVE  FALSE
    OBVIOUS
  <2> DEFINE C == Below(in, n) \ {m}
  <2>1. C \in SUBSET Node /\ n \in C /\ Closed(in, C)
    BY BelowIs DEF Closed
  <2>2. Below(in, n) \subseteq C
    <3> HIDE DEF C
    <3> QED BY <2>1, BelowIs
  <2> QED BY <2>2
<1>2. \E k \in DOMAIN in[n] : m \in Below(in, in[n][k])
  <2> DEFINE C == {n} \cup {x \in Node : \E k \in DOMAIN in[n] : x \in Below(in, in[n][k])}
  <2>1. C \in SUBSET Node /\ n \in C
    OBVIOUS
  <2>2. ASSUME NEW y \in C, NEW k \in DOMAIN in[y] PROVE in[y][k] \in C
    <3>1. CASE y = n
      <4>1. in[n][k] \in Below(in, in[n][k]) /\ in[n][k] \in Node
        BY <1>0, <2>2, <3>1, BelowIs
      <4> QED BY <2>2, <3>1, <4>1
    <3>2. CASE y # n
      <4>1. PICK i \in DOMAIN in[n] : y \in Below(in, in[n][i])
        BY <3>2
      <4>2. in[y][k] \in Below(in, in[n][i]) /\ in[y][k] \in Node
        <5>1. in[n][i] \in Node /\ y \in Node
          BY <1>0, <2>1
        <5> QED BY <1>0, <2>2, <4>1, <5>1, BelowIs DEF Closed
      <4> QED BY <4>1, <4>2
    <3> QED BY <3>1, <3>2
  <2>3. Below(in, n) \subseteq C
    <3> HIDE DEF C
    <3> QED BY <2>1, <2>2, BelowIs DEF Closed
  <2> QED BY <2>3
<1> QED BY <1>1, <1>2

(* Nothing is below what it holds.                                         *)
LEMMA NoCycle ==
  ASSUME NEW in, IsTree(in), NEW n \in Node, NEW k \in DOMAIN in[n]
  PROVE  n \notin Below(in, in[n][k])
<1>0. \A x \in Node : \A j \in DOMAIN in[x] : in[x][j] \in Node
  BY DEF IsTree
<1> SUFFICES ASSUME n \in Below(in, in[n][k]) PROVE FALSE
  OBVIOUS
<1> DEFINE X == {z \in Node : n \in Below(in, z)}
<1>1. X \in SUBSET Node /\ n \in X
  BY BelowIs
<1>2. PICK z \in X : \A i \in DOMAIN in[z] : in[z][i] \notin X
  <2> HIDE DEF X
  <2> QED BY <1>1 DEF IsTree, IsFounded
<1>3. z \in Node /\ n \in Below(in, z)
  OBVIOUS
<1>4. CASE z = n
  BY <1>0, <1>2, <1>4
<1>5. CASE z # n
  <2>1. PICK i \in DOMAIN in[z] : n \in Below(in, in[z][i])
    BY <1>3, <1>5, BelowBy
  <2> QED BY <1>0, <1>2, <1>3, <2>1
<1> QED BY <1>4, <1>5

(* Nothing is below two of the objects that one holds.                     *)
LEMMA Apart ==
  ASSUME NEW in, IsTree(in), NEW n \in Node, NEW i \in DOMAIN in[n], NEW j \in DOMAIN in[n], i # j
  PROVE  Below(in, in[n][i]) \cap Below(in, in[n][j]) = {}
<1>0. \A x \in Node : \A k \in DOMAIN in[x] : in[x][k] \in Node
  BY DEF IsTree
<1>1. PICK a, b : a = in[n][i] /\ b = in[n][j]
  OBVIOUS
<1>2. a \in Node /\ b \in Node /\ a # b
  BY <1>0, <1>1 DEF IsTree
<1>3. n \notin Below(in, a) /\ n \notin Below(in, b)
  BY <1>1, NoCycle
<1>4. \A x \in Below(in, a) : x # a =>
        \A p \in Node : \A k \in DOMAIN in[p] : in[p][k] = x => p \in Below(in, a)
  <2> SUFFICES ASSUME NEW x \in Below(in, a), x # a,
                      NEW p \in Node, NEW k \in DOMAIN in[p], in[p][k] = x
               PROVE  p \in Below(in, a)
    BY Zenon
  <2>1. PICK q \in Below(in, a) : \E h \in DOMAIN in[q] : in[q][h] = x
    BY <1>2, BelowBy
  <2>2. q \in Node
    BY <1>2, BelowIs
  <2> QED BY <2>1, <2>2 DEF IsTree
<1>5. \A p \in Node : \A k \in DOMAIN in[p] : in[p][k] = a => p = n
  BY <1>1 DEF IsTree
<1>6. b \notin Below(in, a)
  BY <1>1, <1>2, <1>3, <1>4
<1> DEFINE C == Below(in, b) \ Below(in, a)
<1>7. C \in SUBSET Node /\ b \in C
  BY <1>2, <1>6, BelowIs
<1>8. Closed(in, C)
  <2> SUFFICES ASSUME NEW y \in C, NEW k \in DOMAIN in[y] PROVE in[y][k] \in C
    BY DEF Closed
  <2>1. y \in Node /\ y \in Below(in, b) /\ y \notin Below(in, a) /\ y # n
    BY <1>3, <1>7
  <2>2. in[y][k] \in Below(in, b)
    BY <1>2, <2>1, BelowIs DEF Closed
  <2>3. in[y][k] \notin Below(in, a)
    BY <1>4, <1>5, <2>1
  <2> QED BY <2>2, <2>3
<1>9. Below(in, b) \subseteq C
  <2> HIDE DEF C
  <2> QED BY <1>2, <1>7, <1>8, BelowIs
<1> QED BY <1>1, <1>9

-----------------------------------------------------------------------------
(* No byte is in an image twice.                                           *)
LEMMA ImageBelow ==
  ASSUME NEW in, IsTree(in), NEW n \in Node
  PROVE  \A p \in 1 .. Len(Images(in)[n]) : Images(in)[n][p][1] \in Below(in, n)
<1>0. /\ \A x \in Node : \A j \in DOMAIN in[x] : in[x][j] \in Node
      /\ in \in [Node -> Seq(Node)] /\ IsFounded(in)
  BY DEF IsTree
<1>1. PICK im : im = Images(in)
  OBVIOUS
<1>2. \A x \in Node : LaidOut(in, x)
  BY <1>0, Layout
<1> DEFINE X == {x \in Node : \E p \in 1 .. Len(im[x]) : im[x][p][1] \notin Below(in, x)}
<1> SUFFICES ASSUME X # {} PROVE FALSE
  BY <1>1
<1>3. PICK x \in X : \A i \in DOMAIN in[x] : in[x][i] \notin X
  BY <1>0 DEF IsFounded
<1>4. PICK p \in 1 .. Len(im[x]) : im[x][p][1] \notin Below(in, x)
  OBVIOUS
<1>5. x \in Node /\ Len(im[x]) \in Nat
  BY <1>1, <1>2 DEF LaidOut
<1> HIDE DEF X
<1>6. CASE p <= OwnSize(x)
  <2>1. OwnSize(x) \in Nat
    BY <1>5, CopyAssumption DEF OwnSize
  <2>2. p \in 1 .. OwnSize(x)
    BY <1>5, <1>6, <2>1
  <2>3. im[x][p] = <<x, p - 1>>
    BY <1>1, <1>2, <1>5, <2>2 DEF LaidOut
  <2> QED BY <1>4, <1>5, <2>3, BelowIs
<1>7. CASE ~(p <= OwnSize(x))
  <2>1. HeaderSize \in Nat /\ DataSize[x] \in Nat
    BY <1>5, CopyAssumption
  <2>2. IsContainer(x) /\ p \in HeaderSize + 1 .. Len(im[x])
    BY <1>1, <1>2, <1>5, <1>7, <2>1 DEF LaidOut, OwnSize
  <2>3. PICK k \in 1 .. Len(in[x]) : \E j \in 1 .. Len(im[in[x][k]]) :
              p = HeaderSize + Start(in, x, k) + j
    BY <1>1, <1>2, <1>5, <2>2 DEF LaidOut
  <2>4. PICK j \in 1 .. Len(im[in[x][k]]) : p = HeaderSize + Start(in, x, k) + j
    BY <2>3
  <2>5. im[x][p] = im[in[x][k]][j]
    BY <1>1, <1>2, <1>5, <2>2, <2>4 DEF LaidOut
  <2>6. k \in DOMAIN in[x]
    BY <1>0, <1>5
  <2>7. in[x][k] \in Node /\ in[x][k] \notin X
    BY <1>0, <1>3, <1>5, <2>6
  <2>8. im[in[x][k]][j][1] \in Below(in, in[x][k])
    BY <2>7 DEF X
  <2>9. Below(in, in[x][k]) \subseteq Below(in, x)
    <3>1. in[x][k] \in Below(in, x) /\ Closed(in, Below(in, x)) /\ Below(in, x) \in SUBSET Node
      BY <1>5, <2>6, BelowIs DEF Closed
    <3> QED BY <2>7, <3>1, BelowIs
  <2> QED BY <1>4, <2>5, <2>8, <2>9
<1> QED BY <1>6, <1>7

LEMMA Once ==
  ASSUME NEW in, IsTree(in), NEW n \in Node
  PROVE  \A p, q \in 1 .. Len(Images(in)[n]) : Images(in)[n][p] = Images(in)[n][q] => p = q
<1>0. /\ \A x \in Node : \A j \in DOMAIN in[x] : in[x][j] \in Node
      /\ in \in [Node -> Seq(Node)] /\ IsFounded(in)
  BY DEF IsTree
<1>1. PICK im : im = Images(in)
  OBVIOUS
<1>2. \A x \in Node : LaidOut(in, x)
  BY <1>0, Layout
<1> DEFINE X == {x \in Node : \E p, q \in 1 .. Len(im[x]) : im[x][p] = im[x][q] /\ p # q}
<1> SUFFICES ASSUME X # {} PROVE FALSE
  BY <1>1
<1>3. PICK x \in X : \A i \in DOMAIN in[x] : in[x][i] \notin X
  BY <1>0 DEF IsFounded
<1>4. x \in Node /\ \E p, q \in 1 .. Len(im[x]) : im[x][p] = im[x][q] /\ p # q
  OBVIOUS
<1>5. PICK p, q \in 1 .. Len(im[x]) : im[x][p] = im[x][q] /\ p # q
  BY <1>4
<1>6. /\ Len(im[x]) \in Nat /\ OwnSize(x) \in Nat /\ HeaderSize \in Nat /\ DataSize[x] \in Nat
      /\ p \in Nat /\ q \in Nat
  <2>1. HeaderSize \in Nat /\ DataSize[x] \in Nat
    BY <1>4, CopyAssumption
  <2>2. im[x] \in Seq(Byte)
    BY <1>1, <1>2, <1>4 DEF LaidOut
  <2> QED BY <2>1, <2>2 DEF OwnSize
<1>7. \A k \in DOMAIN in[x] : in[x][k] \in Node /\ in[x][k] \notin X
  BY <1>0, <1>3, <1>4
<1>8. \A k \in DOMAIN in[x] : \A i, j \in 1 .. Len(im[in[x][k]]) :
        im[in[x][k]][i] = im[in[x][k]][j] => i = j
  BY <1>7
<1> HIDE DEF X
<1>9. ASSUME NEW r \in 1 .. Len(im[x])
      PROVE  \/ r <= OwnSize(x) /\ im[x][r] = <<x, r - 1>>
             \/ \E k \in DOMAIN in[x] : \E j \in 1 .. Len(im[in[x][k]]) :
                  /\ r = HeaderSize + Start(in, x, k) + j /\ im[x][r] = im[in[x][k]][j]
                  /\ im[x][r][1] \in Below(in, in[x][k])
                  /\ im[x][r][1] # x
  <2>1. CASE r <= OwnSize(x)
    <3>1. r \in 1 .. OwnSize(x)
      BY <1>6, <2>1
    <3> QED BY <1>1, <1>2, <1>4, <2>1, <3>1 DEF LaidOut
  <2>2. CASE ~(r <= OwnSize(x))
    <3>2. IsContainer(x) /\ r \in HeaderSize + 1 .. Len(im[x])
      BY <1>1, <1>2, <1>4, <1>6, <2>2 DEF LaidOut, OwnSize
    <3>3. PICK k \in 1 .. Len(in[x]) : \E j \in 1 .. Len(im[in[x][k]]) :
                r = HeaderSize + Start(in, x, k) + j
      BY <1>1, <1>2, <1>4, <3>2 DEF LaidOut
    <3>4. PICK j \in 1 .. Len(im[in[x][k]]) : r = HeaderSize + Start(in, x, k) + j
      BY <3>3
    <3>5. im[x][r] = im[in[x][k]][j]
      BY <1>1, <1>2, <1>4, <3>2, <3>4 DEF LaidOut
    <3>6. k \in DOMAIN in[x] /\ in[x][k] \in Node
      BY <1>0, <1>4
    <3>7. im[x][r][1] \in Below(in, in[x][k])
      BY <1>1, <3>5, <3>6, ImageBelow
    <3>8. im[x][r][1] # x
      BY <1>4, <3>6, <3>7, NoCycle
    <3> QED BY <3>4, <3>5, <3>6, <3>7, <3>8
  <2> QED BY <2>1, <2>2
<1>10. CASE p <= OwnSize(x) /\ im[x][p] = <<x, p - 1>>
  <2>1. im[x][q] = <<x, p - 1>> /\ im[x][q][1] = x
    BY <1>5, <1>10
  <2>2. im[x][q] = <<x, q - 1>>
    BY <1>9, <2>1
  <2>3. p - 1 = q - 1
    BY <2>1, <2>2
  <2> QED BY <1>5, <1>6, <2>3
<1>11. CASE \E k \in DOMAIN in[x] : \E j \in 1 .. Len(im[in[x][k]]) :
                  /\ p = HeaderSize + Start(in, x, k) + j /\ im[x][p] = im[in[x][k]][j]
                  /\ im[x][p][1] \in Below(in, in[x][k])
                  /\ im[x][p][1] # x
  <2>1. PICK k \in DOMAIN in[x] : \E j \in 1 .. Len(im[in[x][k]]) :
                  /\ p = HeaderSize + Start(in, x, k) + j /\ im[x][p] = im[in[x][k]][j]
                  /\ im[x][p][1] \in Below(in, in[x][k])
                  /\ im[x][p][1] # x
    BY <1>11
  <2>2. PICK j \in 1 .. Len(im[in[x][k]]) :
                  /\ p = HeaderSize + Start(in, x, k) + j /\ im[x][p] = im[in[x][k]][j]
                  /\ im[x][p][1] \in Below(in, in[x][k])
                  /\ im[x][p][1] # x
    BY <2>1
  <2>3. im[x][q][1] # x
    BY <1>5, <2>2
  <2>4. PICK l \in DOMAIN in[x] : \E h \in 1 .. Len(im[in[x][l]]) :
                  /\ q = HeaderSize + Start(in, x, l) + h /\ im[x][q] = im[in[x][l]][h]
                  /\ im[x][q][1] \in Below(in, in[x][l])
    <3>1. ~(im[x][q] = <<x, q - 1>>)
      BY <2>3
    <3> QED BY <1>9, <3>1
  <2>5. PICK h \in 1 .. Len(im[in[x][l]]) :
                  /\ q = HeaderSize + Start(in, x, l) + h /\ im[x][q] = im[in[x][l]][h]
                  /\ im[x][q][1] \in Below(in, in[x][l])
    BY <2>4
  <2>6. k = l
    BY <1>4, <1>5, <2>2, <2>5, Apart
  <2>7. j = h
    BY <1>5, <1>8, <2>2, <2>5, <2>6
  <2> QED BY <1>5, <2>2, <2>5, <2>6, <2>7
<1> QED BY <1>9, <1>10, <1>11

-----------------------------------------------------------------------------
(* How many bytes of its image an object is past: all of them when its     *)
(* call has just answered Ready, and a container that copies its data as   *)
(* many as come before the object it is at, and what that one is past.     *)
PastOf(x, f, in, st, of, it, done) ==
  CASE x \in done -> Len(Images(in)[x])
    [] x \notin done /\ st[x] = "Ready" -> 0
    [] x \notin done /\ st[x] = "CopyingHeader" -> of[x]
    [] x \notin done /\ st[x] = "CopyingData" /\ ~IsContainer(x) -> HeadSize(x) + of[x]
    [] x \notin done /\ st[x] = "CopyingData" /\ IsContainer(x) /\ it[x] \in DOMAIN in[x] ->
         HeaderSize + Start(in, x, it[x]) + f[in[x][it[x]]]
    [] OTHER -> HeaderSize + Start(in, x, Len(in[x]) + 1)

IsPast(f, in, st, of, it, done) ==
  f \in [Node -> Nat] /\ \A x \in Node : f[x] = PastOf(x, f, in, st, of, it, done)

LEMMA PastExists ==
  ASSUME NEW in \in [Node -> Seq(Node)], IsFounded(in),
         NEW st \in [Node -> State], NEW of \in [Node -> Nat], NEW it, NEW done
  PROVE  \E f : IsPast(f, in, st, of, it, done)
<1> DEFINE Of(x, f) == PastOf(x, f, in, st, of, it, done)
<1>1. ASSUME NEW x \in Node, NEW f \in [Node -> Nat] PROVE Of(x, f) \in Nat
  <2>1. Len(Images(in)[x]) \in Nat
    <3>1. Images(in)[x] \in Seq(Byte)
      BY ImagesSolve
    <3> QED BY <3>1
  <2>2. HeaderSize \in Nat /\ HeadSize(x) \in Nat /\ of[x] \in Nat
    BY Sizes, CopyAssumption
  <2>3. Len(in[x]) \in Nat /\ \A k \in 1 .. Len(in[x]) + 1 : Start(in, x, k) \in Nat
    BY Starts
  <2>4. HeaderSize + Start(in, x, Len(in[x]) + 1) \in Nat
    <3>1. Len(in[x]) + 1 \in 1 .. Len(in[x]) + 1
      BY <2>3
    <3> QED BY <2>2, <2>3, <3>1
  <2>5. ASSUME it[x] \in DOMAIN in[x]
        PROVE  HeaderSize + Start(in, x, it[x]) + f[in[x][it[x]]] \in Nat
    <3>1. in[x] \in Seq(Node)
      OBVIOUS
    <3>2. it[x] \in 1 .. Len(in[x]) /\ in[x][it[x]] \in Node
      BY <2>5, <3>1
    <3>3. it[x] \in 1 .. Len(in[x]) + 1
      BY <2>3, <3>2
    <3>4. Start(in, x, it[x]) \in Nat /\ f[in[x][it[x]]] \in Nat
      BY <2>3, <3>2, <3>3
    <3>5. PICK v, w : v = Start(in, x, it[x]) /\ w = f[in[x][it[x]]]
      OBVIOUS
    <3>7. v \in Nat /\ w \in Nat
      BY <3>4, <3>5, Zenon
    <3>6. v \in Nat /\ w \in Nat /\ HeaderSize + v + w \in Nat
      BY <2>2, <3>7
    <3> QED BY <3>5, <3>6
  <2>6. CASE x \in done
    BY <2>1, <2>6 DEF PastOf
  <2>7. CASE x \notin done /\ st[x] = "Ready"
    BY <2>7 DEF PastOf
  <2>8. CASE x \notin done /\ st[x] = "CopyingHeader"
    BY <2>2, <2>8 DEF PastOf
  <2>9. CASE x \notin done /\ st[x] = "CopyingData" /\ ~IsContainer(x)
    BY <2>2, <2>9 DEF PastOf
  <2>10. CASE x \notin done /\ st[x] = "CopyingData" /\ IsContainer(x) /\ it[x] \in DOMAIN in[x]
    BY <2>5, <2>10 DEF PastOf
  <2>11. CASE x \notin done /\ st[x] = "CopyingData" /\ IsContainer(x) /\ it[x] \notin DOMAIN in[x]
    BY <2>4, <2>11 DEF PastOf
  <2>12. st[x] \in State
    OBVIOUS
  <2> QED BY <2>6, <2>7, <2>8, <2>9, <2>10, <2>11, <2>12 DEF State
<1>2. ASSUME NEW x \in Node, NEW f \in [Node -> Nat], NEW g \in [Node -> Nat],
             \A i \in DOMAIN in[x] : f[in[x][i]] = g[in[x][i]]
      PROVE  Of(x, f) = Of(x, g)
  <2>1. CASE it[x] \in DOMAIN in[x]
    <3>1. f[in[x][it[x]]] = g[in[x][it[x]]]
      BY <1>2, <2>1
    <3> QED BY <3>1 DEF PastOf
  <2>2. CASE it[x] \notin DOMAIN in[x]
    BY <2>2 DEF PastOf
  <2> QED BY <2>1, <2>2
<1> HIDE DEF Of
<1>3. PICK G \in [Node -> [[Node -> Nat] -> Nat]] :
        \A x \in Node : \A f \in [Node -> Nat] : G[x][f] = Of(x, f)
  <2> DEFINE G == [x \in Node |-> [f \in [Node -> Nat] |-> Of(x, f)]]
  <2>1. G \in [Node -> [[Node -> Nat] -> Nat]]
    BY <1>1
  <2> QED BY <2>1
<1>4. \A x \in Node : \A f, g \in [Node -> Nat] :
        (\A i \in DOMAIN in[x] : f[in[x][i]] = g[in[x][i]]) => G[x][f] = G[x][g]
  <2> TAKE x \in Node
  <2> TAKE f, g \in [Node -> Nat]
  <2> HAVE \A i \in DOMAIN in[x] : f[in[x][i]] = g[in[x][i]]
  <2>1. Of(x, f) = Of(x, g)
    BY <1>2
  <2> QED BY <1>3, <2>1
<1>5. PICK h : IsRecursive(h, Nat, G)
  <2>1. 0 \in Nat
    OBVIOUS
  <2> QED BY <1>4, <2>1, Recursion
<1>6. h \in [Node -> Nat] /\ \A x \in Node : h[x] = Of(x, h)
  BY <1>3, <1>5 DEF IsRecursive
<1> QED BY <1>6 DEF IsPast, Of

-----------------------------------------------------------------------------
(* Along the stack every container is at the object below it, up to m.     *)
OnPath(f, m) ==
  /\ f \in [Node -> Nat]
  /\ \A j \in 1 .. m - 1 :
       f[stack[j]] = HeaderSize + Start(kids, stack[j], iter[stack[j]]) + f[stack[j + 1]]

(* Where the image of an active object is in that of the root.             *)
LEMMA Lift ==
  ASSUME TreeInv, InCall, NEW m \in 1 .. Len(stack)
  PROVE  \E d \in Nat :
           /\ \A f : OnPath(f, m) => f[Root] = d + f[stack[m]]
           /\ \A j \in 1 .. Len(Images(kids)[stack[m]]) :
                /\ d + j \in 1 .. Len(Images(kids)[Root])
                /\ Images(kids)[Root][d + j] = Images(kids)[stack[m]][j]
<1>1. Typed /\ StackInv /\ kids \in [Node -> Seq(Node)] /\ IsFounded(kids)
  BY DEF TreeInv, CopyInv, SizeInv, Typed
<1>2. PICK im, l : im = Images(kids) /\ l = Len(stack)
  OBVIOUS
<1>3. l \in Nat \ {0} /\ m \in 1 .. l /\ stack[1] = Root /\ \A k \in 1 .. l : stack[k] \in Node
  BY <1>1, <1>2, TopIn, ElementOfSeq DEF StackInv, InCall
<1>4. \A x \in Node : LaidOut(kids, x)
  BY <1>1, Layout
<1> DEFINE Q(k, d) ==
             /\ \A f : OnPath(f, m) => f[Root] = d + f[stack[k]]
             /\ \A j \in 1 .. Len(im[stack[k]]) :
                  d + j \in 1 .. Len(im[Root]) /\ im[Root][d + j] = im[stack[k]][j]
           W == {k \in 0 .. m - 1 : \E d \in Nat : Q(k + 1, d)}
<1>5. 0 \in W
  <2>1. 0 \in 0 .. m - 1 /\ stack[0 + 1] = Root
    BY <1>3
  <2>2. Root \in Node
    BY CopyAssumption
  <2>3. Len(im[Root]) \in Nat
    BY <1>2, <1>4, <2>2 DEF LaidOut
  <2>4. Q(0 + 1, 0)
    BY <2>1, <2>2, <2>3 DEF OnPath
  <2> HIDE DEF Q
  <2> QED BY <2>1, <2>4
<1>6. ASSUME NEW k \in 0 .. (m - 1) - 1, k \in W PROVE k + 1 \in W
  <2>1. /\ k + 1 \in 1 .. l /\ k + 2 \in 1 .. l /\ k + 1 \in 1 .. m - 1 /\ (k + 1) + 1 = k + 2
        /\ k + 1 \in 0 .. m - 1
    BY <1>3
  <2>2. PICK d \in Nat : Q(k + 1, d)
    BY <1>6
  <2>3. PICK a, b : a = stack[k + 1] /\ b = stack[k + 2]
    OBVIOUS
  <2>4. IsAt(a, b) /\ a \in Node /\ b \in Node
    BY <1>1, <1>2, <1>3, <2>1, <2>3 DEF StackInv
  <2>5. IsContainer(a) /\ iter[a] \in DOMAIN kids[a] /\ kids[a][iter[a]] = b
    BY <2>4 DEF IsAt
  <2>6. iter[a] \in 1 .. Len(kids[a]) /\ Len(kids[a]) \in Nat
    BY <1>1, <2>4, <2>5, KidsIn
  <2>7. PICK s : s = HeaderSize + Start(kids, a, iter[a])
    OBVIOUS
  <2>8. s \in Nat
    <3>1. HeaderSize \in Nat /\ iter[a] \in 1 .. Len(kids[a]) + 1
      BY <2>6, CopyAssumption
    <3>2. Start(kids, a, iter[a]) \in Nat
      BY <1>1, <2>4, <3>1, Starts
    <3> QED BY <2>7, <3>1, <3>2
  <2>9. ASSUME NEW f, OnPath(f, m) PROVE f[Root] = d + s + f[b]
    <3>1. f[Root] = d + f[a] /\ f[Root] \in Nat /\ f[b] \in Nat
      BY <2>2, <2>3, <2>4, <2>9, CopyAssumption DEF OnPath
    <3>2. f[a] = s + f[b]
      BY <2>1, <2>3, <2>7, <2>9 DEF OnPath
    <3> QED BY <2>8, <3>1, <3>2
  <2>10. ASSUME NEW j \in 1 .. Len(im[b])
         PROVE  (d + s) + j \in 1 .. Len(im[Root]) /\ im[Root][(d + s) + j] = im[b][j]
    <3>1. s + j \in 1 .. Len(im[a]) /\ im[a][s + j] = im[b][j]
      BY <1>2, <1>4, <2>4, <2>5, <2>6, <2>7, <2>10 DEF LaidOut
    <3>2. Len(im[b]) \in Nat
      BY <1>2, <1>4, <2>4 DEF LaidOut
    <3>3. (d + s) + j = d + (s + j)
      BY <2>8, <3>2
    <3>4. PICK r : r = s + j
      OBVIOUS
    <3>5. d + r \in 1 .. Len(im[Root]) /\ im[Root][d + r] = im[a][r]
      BY <2>2, <2>3, <3>1, <3>4
    <3> QED BY <3>1, <3>3, <3>4, <3>5
  <2>11. d + s \in Nat /\ Q((k + 1) + 1, d + s)
    BY <2>1, <2>3, <2>8, <2>9, <2>10
  <2> HIDE DEF Q
  <2> QED BY <2>1, <2>11
<1>7. 0 .. m - 1 \subseteq W
  <2>1. m - 1 \in Nat
    BY <1>3
  <2> HIDE DEF W
  <2> QED BY <1>5, <1>6, <2>1, UpTo
<1>8. m - 1 \in 0 .. m - 1 /\ (m - 1) + 1 = m
  BY <1>3
<1>9. PICK d \in Nat : Q((m - 1) + 1, d)
  <2> HIDE DEF Q
  <2> QED BY <1>7, <1>8
<1> QED BY <1>2, <1>8, <1>9

-----------------------------------------------------------------------------
(* What is written are bytes of the image in its order, none past p, and   *)
(* exactly the first p of them.                                            *)
InOrder(g, q, im, p) ==
  /\ \A i \in 1 .. Len(q) : g[i] \in 1 .. Len(im) /\ g[i] <= p /\ im[g[i]] = q[i]
  /\ \A i, j \in 1 .. Len(q) : i < j => g[i] < g[j]

Fits(q, im, p, exact) ==
  /\ \E g : InOrder(g, q, im, p)
  /\ exact => p <= Len(im) /\ Len(q) = p /\ \A i \in 1 .. p : q[i] = im[i]

LEMMA Grow ==
  ASSUME NEW q \in Seq(Byte), NEW im \in Seq(Byte), NEW p \in Nat, NEW e,
         Fits(q, im, p, e), NEW o \in Seq(Byte), NEW r \in Nat,
         \A i \in 1 .. Len(o) : p + i \in 1 .. Len(im) /\ o[i] = im[p + i],
         p + Len(o) <= r, e => r = p + Len(o)
  PROVE  Fits(q \o o, im, r, e)
<1>1. PICK s, a, n : s = q \o o /\ a = Len(q) /\ n = Len(o)
  OBVIOUS
<1>2. /\ a \in Nat /\ n \in Nat /\ Len(s) = a + n /\ Len(im) \in Nat
      /\ \A k \in 1 .. a + n : s[k] = IF k <= a THEN q[k] ELSE o[k - a]
  BY <1>1, ConcatProperties
<1>3. PICK g : InOrder(g, q, im, p)
  BY DEF Fits
<1>4. PICK h : h = [i \in 1 .. a + n |-> IF i <= a THEN g[i] ELSE p + (i - a)]
  OBVIOUS
<1>5. ASSUME NEW i \in 1 .. a + n
      PROVE  /\ i <= a => h[i] = g[i] /\ i \in 1 .. a
             /\ ~(i <= a) => h[i] = p + (i - a) /\ i - a \in 1 .. n
  BY <1>2, <1>4
<1>6. \A i \in 1 .. a : g[i] \in 1 .. Len(im) /\ g[i] <= p /\ im[g[i]] = q[i]
  BY <1>1, <1>3 DEF InOrder
<1>7. ASSUME NEW i \in 1 .. a + n
      PROVE  h[i] \in 1 .. Len(im) /\ h[i] <= r /\ im[h[i]] = s[i]
  <2>1. CASE i <= a
    <3>1. h[i] = g[i] /\ g[i] \in 1 .. Len(im) /\ g[i] <= p /\ im[g[i]] = q[i] /\ s[i] = q[i]
      BY <1>2, <1>5, <1>6, <2>1
    <3> QED BY <1>1, <1>2, <3>1
  <2>2. CASE ~(i <= a)
    <3>1. PICK j : j = i - a
      OBVIOUS
    <3>2. j \in 1 .. n /\ h[i] = p + j /\ s[i] = o[j]
      BY <1>2, <1>5, <2>2, <3>1
    <3>3. p + j \in 1 .. Len(im) /\ o[j] = im[p + j] /\ p + j <= r
      BY <1>1, <1>2, <3>2
    <3> QED BY <3>2, <3>3
  <2> QED BY <2>1, <2>2
<1>8. ASSUME NEW i \in 1 .. a + n, NEW j \in 1 .. a + n, i < j PROVE h[i] < h[j]
  <2>1. CASE j <= a
    <3>1. h[i] = g[i] /\ h[j] = g[j] /\ i \in 1 .. a /\ j \in 1 .. a
      BY <1>2, <1>5, <1>8, <2>1
    <3> QED BY <1>1, <1>3, <1>8, <3>1 DEF InOrder
  <2>2. CASE ~(j <= a) /\ i <= a
    <3>1. h[i] = g[i] /\ i \in 1 .. a /\ h[j] = p + (j - a) /\ j - a \in 1 .. n
      BY <1>5, <2>2
    <3>2. g[i] <= p /\ g[i] \in 1 .. Len(im)
      BY <1>6, <3>1
    <3> QED BY <1>2, <3>1, <3>2
  <2>3. CASE ~(j <= a) /\ ~(i <= a)
    <3>1. h[i] = p + (i - a) /\ h[j] = p + (j - a)
      BY <1>5, <2>3
    <3> QED BY <1>2, <1>8, <3>1
  <2> QED BY <2>1, <2>2, <2>3
<1>9. InOrder(h, s, im, r)
  BY <1>2, <1>7, <1>8 DEF InOrder
<1>10. ASSUME e PROVE r <= Len(im) /\ Len(s) = r /\ \A i \in 1 .. r : s[i] = im[i]
  <2>1. p <= Len(im) /\ a = p /\ (\A i \in 1 .. p : q[i] = im[i]) /\ r = p + n
    BY <1>1, <1>10 DEF Fits
  <2>2. r <= Len(im)
    <3>1. CASE n = 0
      BY <2>1, <3>1
    <3>2. CASE n # 0
      <4>1. n \in 1 .. n
        BY <1>2, <3>2
      <4>2. p + n \in 1 .. Len(im)
        BY <1>1, <4>1
      <4> QED BY <1>2, <2>1, <4>2
    <3> QED BY <3>1, <3>2
  <2>3. ASSUME NEW i \in 1 .. r PROVE s[i] = im[i]
    <3>1. CASE i <= a
      BY <1>2, <2>1, <3>1
    <3>2. CASE ~(i <= a)
      <4>1. PICK j : j = i - a
        OBVIOUS
      <4>2. j \in 1 .. n /\ i = p + j /\ s[i] = o[j]
        BY <1>2, <2>1, <3>2, <4>1
      <4> QED BY <1>1, <4>2
    <3> QED BY <3>1, <3>2
  <2> QED BY <1>2, <2>1, <2>2, <2>3
<1> QED BY <1>1, <1>9, <1>10 DEF Fits

-----------------------------------------------------------------------------
Done == IF InCall /\ answer = "Ready" THEN {Top} ELSE {}

(* What an upload has written, and what may be said of an answer.          *)
UploadInv ==
  /\ answer = "Error" => disturbed
  /\ answer = "InProcess" => state[Root] # "Ready"
  /\ state[Root] # "Ready" /\ answer # "Error" =>
       \E f : /\ IsPast(f, kids, state, offset, iter, Done)
              /\ Fits(out, Images(kids)[Root], f[Root], ~disturbed)

LEMMA PathOf ==
  ASSUME TreeInv, InCall, NEW m \in 1 .. Len(stack),
         NEW h, NEW st, NEW of, NEW it, NEW done, IsPast(h, kids, st, of, it, done),
         \A j \in 1 .. m - 1 : /\ st[stack[j]] = state[stack[j]] /\ it[stack[j]] = iter[stack[j]]
                               /\ stack[j] \notin done
  PROVE  OnPath(h, m)
<1>1. Typed /\ StackInv
  BY DEF TreeInv, CopyInv
<1>2. PICK l : l = Len(stack)
  OBVIOUS
<1>3. l \in Nat \ {0} /\ m \in 1 .. l /\ \A k \in 1 .. l : stack[k] \in Node
  BY <1>1, <1>2, TopIn, ElementOfSeq
<1>4. ASSUME NEW j \in 1 .. m - 1
      PROVE  h[stack[j]] = HeaderSize + Start(kids, stack[j], iter[stack[j]]) + h[stack[j + 1]]
  <2>1. j \in 1 .. l /\ j + 1 \in 1 .. l
    BY <1>3
  <2>2. PICK a, b : a = stack[j] /\ b = stack[j + 1]
    OBVIOUS
  <2>3. IsAt(a, b) /\ a \in Node
    BY <1>1, <1>2, <1>3, <2>1, <2>2 DEF StackInv
  <2>4. IsContainer(a) /\ state[a] = "CopyingData" /\ iter[a] \in DOMAIN kids[a] /\ kids[a][iter[a]] = b
    BY <2>3 DEF IsAt
  <2>5. st[a] = "CopyingData" /\ it[a] = iter[a] /\ a \notin done
    BY <2>2, <2>4
  <2>6. h[a] = PastOf(a, h, kids, st, of, it, done)
    BY <2>3 DEF IsPast
  <2>7. h[a] = HeaderSize + Start(kids, a, iter[a]) + h[b]
    BY <2>4, <2>5, <2>6 DEF PastOf
  <2> QED BY <2>2, <2>7
<1> QED BY <1>4 DEF OnPath, IsPast

(* A step at the object m of the stack, that writes o.                     *)
LEMMA Advance ==
  ASSUME TreeInv, TreeInv', UploadInv, InCall, NEW m \in 1 .. Len(stack),
         UNCHANGED <<kids, disturbed>>, state[Root] # "Ready", answer # "Error",
         \A j \in 1 .. m - 1 :
           (/\ state'[stack[j]] = state[stack[j]] /\ iter'[stack[j]] = iter[stack[j]]
            /\ stack[j] \notin Done /\ stack[j] \notin Done'),
         NEW o \in Seq(Byte), out' = out \o o,
         \A f, h :
           IsPast(f, kids, state, offset, iter, Done)
             /\ IsPast(h, kids, state', offset', iter', Done') =>
           /\ f[stack[m]] + Len(o) <= h[stack[m]]
           /\ ~disturbed => h[stack[m]] = f[stack[m]] + Len(o)
           /\ \A i \in 1 .. Len(o) :
                /\ f[stack[m]] + i \in 1 .. Len(Images(kids)[stack[m]])
                /\ o[i] = Images(kids)[stack[m]][f[stack[m]] + i]
  PROVE  \E f : /\ IsPast(f, kids', state', offset', iter', Done')
                /\ Fits(out', Images(kids')[Root], f[Root], ~disturbed')
<1>1. /\ kids \in [Node -> Seq(Node)] /\ IsFounded(kids) /\ out \in Seq(Byte) /\ Root \in Node
      /\ Typed
  BY CopyAssumption DEF TreeInv, CopyInv, SizeInv, Typed
<1>2. PICK im, s : im = Images(kids) /\ s = stack[m]
  OBVIOUS
<1>3. im[Root] \in Seq(Byte) /\ im[s] \in Seq(Byte) /\ s \in Node
  <2>1. \A x \in Node : im[x] \in Seq(Byte)
    BY <1>1, <1>2, ImagesSolve
  <2> QED BY <1>1, <1>2, <2>1, TopIn, ElementOfSeq
<1>4. PICK f : /\ IsPast(f, kids, state, offset, iter, Done)
               /\ Fits(out, im[Root], f[Root], ~disturbed)
  BY <1>2 DEF UploadInv
<1>5. PICK h : IsPast(h, kids, state', offset', iter', Done')
  <2>1. state' \in [Node -> State] /\ offset' \in [Node -> Nat]
    BY DEF TreeInv, CopyInv, Typed
  <2> QED BY <1>1, <2>1, PastExists
<1>6. OnPath(f, m) /\ OnPath(h, m)
  <2>1. OnPath(f, m)
    BY <1>4, PathOf
  <2>2. OnPath(h, m)
    BY <1>5, PathOf
  <2> QED BY <2>1, <2>2
<1>7. PICK d \in Nat :
        /\ \A e : OnPath(e, m) => e[Root] = d + e[s]
        /\ \A j \in 1 .. Len(im[s]) : d + j \in 1 .. Len(im[Root]) /\ im[Root][d + j] = im[s][j]
  BY <1>2, Lift
<1>8. f[Root] = d + f[s] /\ h[Root] = d + h[s] /\ f[s] \in Nat /\ h[s] \in Nat
  BY <1>3, <1>6, <1>7 DEF OnPath
<1>9. /\ f[s] + Len(o) <= h[s]
      /\ ~disturbed => h[s] = f[s] + Len(o)
      /\ \A i \in 1 .. Len(o) : f[s] + i \in 1 .. Len(im[s]) /\ o[i] = im[s][f[s] + i]
  BY <1>2, <1>4, <1>5
<1>10. PICK p, r, u, v, n : p = f[Root] /\ r = h[Root] /\ u = f[s] /\ v = h[s] /\ n = Len(o)
  OBVIOUS
<1>11. p = d + u /\ r = d + v /\ u \in Nat /\ v \in Nat /\ n \in Nat
  BY <1>8, <1>10
<1>12. p \in Nat /\ r \in Nat /\ p + n <= r /\ (~disturbed => r = p + n)
  <2>1. u + n <= v /\ (~disturbed => v = u + n)
    BY <1>9, <1>10
  <2>2. d + u \in Nat /\ d + v \in Nat /\ (d + u) + n <= d + v
    BY <1>11, <2>1
  <2>3. v = u + n => d + v = (d + u) + n
    BY <1>11
  <2> QED BY <1>11, <2>1, <2>2, <2>3
<1>13. ASSUME NEW i \in 1 .. n PROVE p + i \in 1 .. Len(im[Root]) /\ o[i] = im[Root][p + i]
  <2>1. u + i \in 1 .. Len(im[s]) /\ o[i] = im[s][u + i]
    BY <1>9, <1>10
  <2>2. d + (u + i) = p + i
    BY <1>11
  <2>3. d + (u + i) \in 1 .. Len(im[Root]) /\ im[Root][d + (u + i)] = im[s][u + i]
    BY <1>7, <2>1
  <2> QED BY <2>1, <2>2, <2>3
<1>14. Fits(out \o o, im[Root], r, ~disturbed)
  BY <1>1, <1>3, <1>4, <1>10, <1>12, <1>13, Grow
<1> QED BY <1>2, <1>5, <1>10, <1>14

-----------------------------------------------------------------------------
LEMMA ImageSizes ==
  ASSUME NEW x \in Node
  PROVE  /\ HeadSize(x) \in Nat \ {0} /\ RestSize(x) \in Nat /\ OwnSize(x) \in Nat
         /\ HeadSize(x) <= OwnSize(x)
         /\ ~IsContainer(x) => OwnSize(x) = HeadSize(x) + RestSize(x)
         /\ IsContainer(x) => HeadSize(x) = HeaderSize
         /\ Kind[x] = "route" => OwnSize(x) = HeadSize(x)
<1>1. /\ Kind[x] \in {"container", "one", "string", "route", "big"} /\ DataSize[x] \in Nat
      /\ HeaderSize \in Nat \ {0} /\ (Kind[x] = "container" => DataSize[x] = 0)
  BY CopyAssumption
<1>2. HeadSize(x) \in Nat \ {0} /\ RestSize(x) \in Nat
  BY Sizes
<1>3. HeadSize(x) = HeaderSize + Inline(x) /\ RestSize(x) = DataSize[x] - Inline(x)
  BY DEF HeadSize, RestSize
<1>4. Inline(x) \in Nat /\ (IsContainer(x) => Inline(x) = 0) /\ (Kind[x] = "route" => Inline(x) = DataSize[x])
  BY <1>1, CopyAssumption DEF Inline, IsContainer
<1>5. Kind[x] = "route" => ~IsContainer(x)
  BY DEF IsContainer
<1> QED BY <1>1, <1>2, <1>3, <1>4, <1>5 DEF OwnSize

(* A step at the innermost object.                                         *)
LEMMA TopAdvance ==
  ASSUME TreeInv, TreeInv', UploadInv, InCall, answer = "none", state[Root] # "Ready",
         UNCHANGED <<kids, stack, disturbed>>,
         NEW s, NEW i, state' = [state EXCEPT ![Top] = s], iter' = [iter EXCEPT ![Top] = i],
         NEW o \in Seq(Byte), out' = out \o o,
         \A f, h :
           IsPast(f, kids, state, offset, iter, Done)
             /\ IsPast(h, kids, state', offset', iter', Done') =>
           /\ f[Top] + Len(o) <= h[Top]
           /\ ~disturbed => h[Top] = f[Top] + Len(o)
           /\ \A k \in 1 .. Len(o) :
                /\ f[Top] + k \in 1 .. Len(Images(kids)[Top])
                /\ o[k] = Images(kids)[Top][f[Top] + k]
  PROVE  \E f : /\ IsPast(f, kids', state', offset', iter', Done')
                /\ Fits(out', Images(kids')[Root], f[Root], ~disturbed')
<1>1. Typed /\ StackInv
  BY DEF TreeInv, CopyInv
<1>2. PICK l : l = Len(stack)
  OBVIOUS
<1>3. l \in Nat \ {0} /\ Top = stack[l] /\ l \in 1 .. l /\ \A k \in 1 .. l : stack[k] \in Node
  <2>1. l \in Nat \ {0} /\ Top = stack[l] /\ stack \in Seq(Node)
    BY <1>1, <1>2, TopIn
  <2> QED BY <1>2, <2>1, ElementOfSeq
<1>4. Done \subseteq {Top} /\ Done' \subseteq {Top}
  BY DEF Done, Top
<1>5. ASSUME NEW j \in 1 .. l - 1
      PROVE  /\ state'[stack[j]] = state[stack[j]] /\ iter'[stack[j]] = iter[stack[j]]
             /\ stack[j] \notin Done /\ stack[j] \notin Done'
  <2>1. j \in 1 .. l /\ j # l
    BY <1>3
  <2>2. stack[j] # Top /\ stack[j] \in Node
    BY <1>1, <1>2, <1>3, <2>1, Zenon DEF StackInv
  <2>3. state'[stack[j]] = state[stack[j]] /\ iter'[stack[j]] = iter[stack[j]]
    BY <1>1, <2>2 DEF Typed
  <2> QED BY <1>4, <2>2, <2>3
<1>6. answer # "Error"
  OBVIOUS
<1>7. l \in 1 .. Len(stack)
  BY <1>2, <1>3
<1>8. \A f, h :
        IsPast(f, kids, state, offset, iter, Done)
          /\ IsPast(h, kids, state', offset', iter', Done') =>
        /\ f[stack[l]] + Len(o) <= h[stack[l]]
        /\ ~disturbed => h[stack[l]] = f[stack[l]] + Len(o)
        /\ \A k \in 1 .. Len(o) :
             /\ f[stack[l]] + k \in 1 .. Len(Images(kids)[stack[l]])
             /\ o[k] = Images(kids)[stack[l]][f[stack[l]] + k]
  BY <1>3, Zenon
<1> QED BY <1>5, <1>6, <1>7, <1>8, Advance

(* The place of the innermost object in its own image.                     *)
LEMMA PastNow ==
  ASSUME TreeInv, InCall, answer = "none", NEW f, IsPast(f, kids, state, offset, iter, Done)
  PROVE  /\ f[Top] \in Nat
         /\ state[Top] = "Ready" => f[Top] = 0
         /\ state[Top] = "CopyingHeader" => f[Top] = offset[Top]
         /\ state[Top] = "CopyingData" /\ ~IsContainer(Top) => f[Top] = HeadSize(Top) + offset[Top]
         /\ state[Top] = "CopyingData" /\ IsContainer(Top) /\ iter[Top] > Len(kids[Top]) =>
              f[Top] = Len(Images(kids)[Top])
<1>1. Top \in Node /\ Top \notin Done /\ Typed
  BY TopIn DEF TreeInv, CopyInv, Done
<1>2. f[Top] \in Nat /\ f[Top] = PastOf(Top, f, kids, state, offset, iter, Done)
  BY <1>1 DEF IsPast
<1>3. ASSUME state[Top] = "CopyingData", IsContainer(Top), iter[Top] > Len(kids[Top])
      PROVE  f[Top] = Len(Images(kids)[Top])
  <2>1. kids \in [Node -> Seq(Node)] /\ IsFounded(kids)
    BY DEF TreeInv, CopyInv, SizeInv, Typed
  <2>2. iter[Top] \notin DOMAIN kids[Top]
    <3>1. Len(kids[Top]) \in Nat /\ DOMAIN kids[Top] = 1 .. Len(kids[Top]) /\ iter[Top] \in Nat
      BY <1>1, KidsIn DEF Typed
    <3> QED BY <1>3, <3>1
  <2>3. f[Top] = HeaderSize + Start(kids, Top, Len(kids[Top]) + 1)
    BY <1>1, <1>2, <1>3, <2>2 DEF PastOf
  <2>4. Len(Images(kids)[Top]) = HeaderSize + Totals(kids)[Top]
    BY <1>1, <2>1, Layout DEF LaidOut
  <2> QED BY <1>1, <1>3, <2>1, <2>3, <2>4, Starts
<1> QED BY <1>1, <1>2, <1>3 DEF PastOf

(* The bytes an object writes are where its image has them.                *)
LEMMA OwnInImage ==
  ASSUME TreeInv, NEW x \in Node, NEW from \in Nat, NEW len \in Nat, from + len <= OwnSize(x)
  PROVE  /\ Own(x, from, len) \in Seq(Byte) /\ Len(Own(x, from, len)) = len
         /\ \A k \in 1 .. len : /\ from + k \in 1 .. Len(Images(kids)[x])
                                /\ Own(x, from, len)[k] = Images(kids)[x][from + k]
<1>1. kids \in [Node -> Seq(Node)] /\ IsFounded(kids)
  BY DEF TreeInv, CopyInv, SizeInv, Typed
<1>2. PICK q : q = Images(kids)[x]
  OBVIOUS
<1>3. /\ q \in Seq(Byte) /\ OwnSize(x) <= Len(q) /\ OwnSize(x) \in Nat
      /\ \A j \in 1 .. OwnSize(x) : q[j] = <<x, j - 1>>
  BY <1>1, <1>2, Layout, ImageSizes DEF LaidOut
<1>4. /\ Own(x, from, len) \in Seq(Byte) /\ Len(Own(x, from, len)) = len
      /\ \A i \in 1 .. len : Own(x, from, len)[i] = <<x, from + i - 1>>
  BY OwnBytes
<1>5. ASSUME NEW k \in 1 .. len
      PROVE  from + k \in 1 .. Len(q) /\ Own(x, from, len)[k] = q[from + k]
  <2>1. from + k \in 1 .. OwnSize(x) /\ from + k \in 1 .. Len(q)
    BY <1>3
  <2>2. q[from + k] = <<x, (from + k) - 1>>
    BY <1>3, <2>1
  <2>3. Own(x, from, len)[k] = <<x, from + k - 1>>
    BY <1>4
  <2> QED BY <2>1, <2>2, <2>3
<1> QED BY <1>2, <1>4, <1>5

-----------------------------------------------------------------------------
Moved ==
  \E f : /\ IsPast(f, kids', state', offset', iter', Done')
         /\ Fits(out', Images(kids')[Root], f[Root], ~disturbed')

LEMMA Rooted ==
  ASSUME TreeInv, InCall, state[Top] # "Ready"
  PROVE  state[Root] # "Ready"
<1>1. CopyInv
  BY DEF TreeInv
<1> QED BY <1>1, RootCopies

(* A write of n more bytes from the object's own bytes at from; when it is *)
(* the last of a container's header the data follow.                       *)
LEMMA HeaderMoves ==
  ASSUME TreeInv, TreeInv', UploadInv, NEW n \in Nat, WriteHeader(n)
  PROVE  Moved
<1>1. /\ InCall /\ answer = "none" /\ state[Top] = "CopyingHeader"
      /\ offset[Top] + n <= HeadSize(Top)
      /\ UNCHANGED <<kids, stack, disturbed>>
      /\ out' = out \o Own(Top, offset[Top], n)
  BY DEF WriteHeader, Running, held, Return
<1>2. CopyInv /\ Typed /\ Top \in Node /\ offset[Top] \in Nat /\ state[Root] # "Ready"
  BY <1>1, AtTop, Rooted DEF TreeInv
<1>3. PICK o : o = Own(Top, offset[Top], n)
  OBVIOUS
<1>4. /\ o \in Seq(Byte) /\ Len(o) = n
      /\ \A k \in 1 .. n : /\ offset[Top] + k \in 1 .. Len(Images(kids)[Top])
                           /\ o[k] = Images(kids)[Top][offset[Top] + k]
  <2>1. offset[Top] + n <= OwnSize(Top)
    BY <1>1, <1>2, ImageSizes
  <2> QED BY <1>2, <1>3, <2>1, OwnInImage
<1>5. \E s, i : state' = [state EXCEPT ![Top] = s] /\ iter' = [iter EXCEPT ![Top] = i]
  <2>1. state = [state EXCEPT ![Top] = state[Top]] /\ iter = [iter EXCEPT ![Top] = iter[Top]]
    BY <1>1, <1>2, AtTop
  <2> QED BY <2>1 DEF WriteHeader
<1>6. PICK s, i : state' = [state EXCEPT ![Top] = s] /\ iter' = [iter EXCEPT ![Top] = i]
  BY <1>5
<1>7. /\ kids \in [Node -> Seq(Node)] /\ IsFounded(kids)
      /\ \A x \in Node : Len(Images(kids)[x]) = HeaderSize + Totals(kids)[x]
      /\ ~IsContainer(Top) => Len(Images(kids)[Top]) = OwnSize(Top)
  BY <1>2, Layout DEF TreeInv, SizeInv, Typed, LaidOut
<1>8. ASSUME NEW h, IsPast(h, kids, state', offset', iter', Done')
      PROVE  /\ offset[Top] + n <= h[Top]
             /\ ~disturbed => h[Top] = offset[Top] + n
  <2>0. h[Top] = PastOf(Top, h, kids, state', offset', iter', Done') /\ h \in [Node -> Nat]
    BY <1>2, <1>8 DEF IsPast
  <2>1. offset' \in [Node -> Nat] /\ state'[Top] = s
    BY <1>2, <1>6 DEF TreeInv, CopyInv, Typed
  <2>2. CASE /\ offset[Top] + n < HeadSize(Top)
             /\ offset' = [offset EXCEPT ![Top] = offset[Top] + n]
             /\ Return("InProcess")
             /\ UNCHANGED <<state, iter>>
    <3>1. Top \notin Done' /\ state'[Top] = "CopyingHeader" /\ offset'[Top] = offset[Top] + n
      BY <1>1, <1>2, <2>2 DEF Done, Return, Typed
    <3>2. h[Top] = offset[Top] + n
      BY <2>0, <3>1 DEF PastOf
    <3> QED BY <1>2, <3>2
  <2>3. CASE /\ offset[Top] + n = HeadSize(Top) /\ Kind[Top] = "route"
             /\ offset' = [offset EXCEPT ![Top] = offset[Top] + n]
             /\ state' = [state EXCEPT ![Top] = "Ready"]
             /\ Return("Ready")
             /\ UNCHANGED iter
    <3>1. Top \in Done'
      BY <1>1, <2>3 DEF Done, Return, InCall, Top
    <3>2. h[Top] = Len(Images(kids)[Top])
      BY <2>0, <3>1 DEF PastOf
    <3>3. ~IsContainer(Top)
      BY <2>3 DEF IsContainer
    <3>4. h[Top] = offset[Top] + n
      BY <1>2, <1>7, <2>3, <3>2, <3>3, ImageSizes
    <3> QED BY <1>2, <3>4
  <2>4. CASE /\ offset[Top] + n = HeadSize(Top) /\ IsContainer(Top)
             /\ offset' = [offset EXCEPT ![Top] = offset[Top] + n]
             /\ state' = [state EXCEPT ![Top] = "CopyingData"]
             /\ iter' = [iter EXCEPT ![Top] = 1]
             /\ UNCHANGED <<stack, answer>>
    <3>1. Top \notin Done' /\ state'[Top] = "CopyingData" /\ iter'[Top] = 1
      BY <1>1, <1>2, <2>4 DEF Done, Typed
    <3>2. offset[Top] + n = HeaderSize /\ HeaderSize \in Nat
      BY <1>2, <2>4, ImageSizes, CopyAssumption
    <3>3. /\ Start(kids, Top, 1) = 0 /\ Len(kids[Top]) \in Nat
          /\ DOMAIN kids[Top] = 1 .. Len(kids[Top])
          /\ \A k \in DOMAIN kids[Top] : kids[Top][k] \in Node
      BY <1>2, <1>7, Starts, KidsIn
    <3>4. CASE 1 \in DOMAIN kids[Top]
      <4>1. PICK c : c = kids[Top][1]
        OBVIOUS
      <4>2. h[Top] = HeaderSize + 0 + h[c] /\ c \in Node /\ h[c] \in Nat
        BY <2>0, <2>4, <3>1, <3>3, <3>4, <4>1 DEF PastOf
      <4>3. ~disturbed => h[c] = 0
        <5>1. SUFFICES ASSUME ~disturbed PROVE h[c] = 0
          OBVIOUS
        <5>2. state[c] = "Ready"
          BY <1>1, <1>2, <2>4, <3>4, <4>1, <5>1, AtTop DEF PathAt
        <5>3. c # Top
          BY <1>1, <5>2
        <5>4. state'[c] = "Ready" /\ c \notin Done'
          BY <1>1, <1>2, <2>4, <4>2, <5>2, <5>3 DEF Typed, Done
        <5>5. h[c] = PastOf(c, h, kids, state', offset', iter', Done')
          BY <1>8, <4>2 DEF IsPast
        <5> QED BY <5>4, <5>5 DEF PastOf
      <4> QED BY <3>2, <4>2, <4>3
    <3>5. CASE 1 \notin DOMAIN kids[Top]
      <4>1. Len(kids[Top]) = 0
        BY <3>3, <3>5
      <4>2. Len(kids[Top]) + 1 = 1
        BY <4>1
      <4>3. h[Top] = HeaderSize + Start(kids, Top, Len(kids[Top]) + 1)
        BY <2>0, <2>4, <3>1, <3>5 DEF PastOf
      <4>4. h[Top] = HeaderSize
        BY <3>2, <3>3, <4>2, <4>3
      <4> QED BY <3>2, <4>4
    <3> QED BY <3>4, <3>5
  <2>5. CASE /\ offset[Top] + n = HeadSize(Top) /\ Kind[Top] \in {"one", "string", "big"}
             /\ offset' = [offset EXCEPT ![Top] = 0]
             /\ state' = [state EXCEPT ![Top] = "CopyingData"]
             /\ UNCHANGED <<iter, stack, answer>>
    <3>1. Top \notin Done' /\ state'[Top] = "CopyingData" /\ offset'[Top] = 0 /\ ~IsContainer(Top)
      BY <1>1, <1>2, <2>5 DEF Done, Typed, IsContainer
    <3>2. h[Top] = HeadSize(Top) + 0 /\ HeadSize(Top) \in Nat
      BY <1>2, <2>0, <3>1, ImageSizes DEF PastOf
    <3> QED BY <2>5, <3>2
  <2> QED BY <2>2, <2>3, <2>4, <2>5 DEF WriteHeader
<1>9. \A f, h :
        IsPast(f, kids, state, offset, iter, Done)
          /\ IsPast(h, kids, state', offset', iter', Done') =>
        /\ f[Top] + Len(o) <= h[Top]
        /\ ~disturbed => h[Top] = f[Top] + Len(o)
        /\ \A k \in 1 .. Len(o) :
             /\ f[Top] + k \in 1 .. Len(Images(kids)[Top])
             /\ o[k] = Images(kids)[Top][f[Top] + k]
  <2> SUFFICES ASSUME NEW f, NEW h,
                      IsPast(f, kids, state, offset, iter, Done),
                      IsPast(h, kids, state', offset', iter', Done')
               PROVE  /\ f[Top] + Len(o) <= h[Top]
                      /\ ~disturbed => h[Top] = f[Top] + Len(o)
                      /\ \A k \in 1 .. Len(o) :
                           /\ f[Top] + k \in 1 .. Len(Images(kids)[Top])
                           /\ o[k] = Images(kids)[Top][f[Top] + k]
    BY Zenon
  <2>1. f[Top] = offset[Top]
    BY <1>1, PastNow
  <2> QED BY <1>4, <1>8, <2>1
<1> QED BY <1>1, <1>2, <1>3, <1>4, <1>6, <1>9, TopAdvance DEF Moved

-----------------------------------------------------------------------------
LEMMA DataMoves ==
  ASSUME TreeInv, TreeInv', UploadInv, NEW n \in Nat, WriteData(n)
  PROVE  Moved
<1>1. /\ InCall /\ answer = "none" /\ state[Top] = "CopyingData" /\ ~IsContainer(Top)
      /\ offset[Top] + n <= RestSize(Top)
      /\ offset' = [offset EXCEPT ![Top] = offset[Top] + n]
      /\ UNCHANGED <<kids, stack, disturbed, iter>>
      /\ out' = out \o Own(Top, HeadSize(Top) + offset[Top], n)
  BY DEF WriteData, Running, held, Return
<1>2. CopyInv /\ Typed /\ Top \in Node /\ offset[Top] \in Nat /\ state[Root] # "Ready"
  BY <1>1, AtTop, Rooted DEF TreeInv
<1>3. PICK o, a : o = Own(Top, HeadSize(Top) + offset[Top], n) /\ a = HeadSize(Top) + offset[Top]
  OBVIOUS
<1>4. /\ OwnSize(Top) = HeadSize(Top) + RestSize(Top) /\ HeadSize(Top) \in Nat
      /\ RestSize(Top) \in Nat /\ a \in Nat /\ a + n <= OwnSize(Top)
  BY <1>1, <1>2, <1>3, ImageSizes
<1>5. /\ o \in Seq(Byte) /\ Len(o) = n
      /\ \A k \in 1 .. n : /\ a + k \in 1 .. Len(Images(kids)[Top])
                           /\ o[k] = Images(kids)[Top][a + k]
  BY <1>2, <1>3, <1>4, OwnInImage
<1>6. \E s : state' = [state EXCEPT ![Top] = s]
  <2>1. state = [state EXCEPT ![Top] = state[Top]]
    BY <1>1, <1>2, AtTop
  <2> QED BY <2>1 DEF WriteData
<1>7. PICK s : state' = [state EXCEPT ![Top] = s]
  BY <1>6
<1>8. iter' = [iter EXCEPT ![Top] = iter[Top]]
  BY <1>1, <1>2, AtTop
<1>9. Len(Images(kids)[Top]) = OwnSize(Top)
  <2>1. kids \in [Node -> Seq(Node)] /\ IsFounded(kids)
    BY DEF TreeInv, CopyInv, SizeInv, Typed
  <2> QED BY <1>1, <1>2, <2>1, Layout DEF LaidOut
<1>10. ASSUME NEW h, IsPast(h, kids, state', offset', iter', Done')
       PROVE  h[Top] = a + n
  <2>1. h[Top] = PastOf(Top, h, kids, state', offset', iter', Done')
    BY <1>2, <1>10 DEF IsPast
  <2>2. CASE offset[Top] + n = RestSize(Top) /\ Return("Ready")
    <3>1. Top \in Done'
      BY <1>1, <2>2 DEF Done, Return, InCall, Top
    <3>2. h[Top] = Len(Images(kids)[Top])
      BY <2>1, <3>1 DEF PastOf
    <3> QED BY <1>2, <1>3, <1>4, <1>9, <2>2, <3>2
  <2>3. CASE Return("InProcess") /\ UNCHANGED state
    <3>1. Top \notin Done' /\ state'[Top] = "CopyingData" /\ offset'[Top] = offset[Top] + n
      BY <1>1, <1>2, <2>3 DEF Done, Return, Typed
    <3>2. h[Top] = HeadSize(Top) + (offset[Top] + n)
      BY <1>1, <2>1, <3>1 DEF PastOf
    <3> QED BY <1>2, <1>3, <1>4, <3>2
  <2> QED BY <2>2, <2>3 DEF WriteData
<1>11. \A f, h :
        IsPast(f, kids, state, offset, iter, Done)
          /\ IsPast(h, kids, state', offset', iter', Done') =>
        /\ f[Top] + Len(o) <= h[Top]
        /\ ~disturbed => h[Top] = f[Top] + Len(o)
        /\ \A k \in 1 .. Len(o) :
             /\ f[Top] + k \in 1 .. Len(Images(kids)[Top])
             /\ o[k] = Images(kids)[Top][f[Top] + k]
  <2> SUFFICES ASSUME NEW f, NEW h,
                      IsPast(f, kids, state, offset, iter, Done),
                      IsPast(h, kids, state', offset', iter', Done')
               PROVE  /\ f[Top] + Len(o) <= h[Top]
                      /\ ~disturbed => h[Top] = f[Top] + Len(o)
                      /\ \A k \in 1 .. Len(o) :
                           /\ f[Top] + k \in 1 .. Len(Images(kids)[Top])
                           /\ o[k] = Images(kids)[Top][f[Top] + k]
    BY Zenon
  <2>1. f[Top] = a
    BY <1>1, <1>3, PastNow
  <2> QED BY <1>4, <1>5, <1>10, <2>1
<1>12. out' = out \o o
  BY <1>1, <1>3
<1> QED BY <1>1, <1>2, <1>5, <1>7, <1>8, <1>11, <1>12, TopAdvance DEF Moved

(* A step that writes nothing: the start of another object's upload, or    *)
(* the end of the loop over what it holds.                                 *)
LEMMA Silent ==
  ASSUME TreeInv, TreeInv', UploadInv, InCall, answer = "none", state[Root] # "Ready",
         UNCHANGED <<kids, stack, disturbed, out, iter>>,
         NEW s, state' = [state EXCEPT ![Top] = s],
         \A f, h :
           IsPast(f, kids, state, offset, iter, Done)
             /\ IsPast(h, kids, state', offset', iter', Done') => h[Top] = f[Top]
  PROVE  Moved
<1>1. CopyInv /\ Top \in Node /\ out \in Seq(Byte) /\ << >> \in Seq(Byte) /\ Len(<< >>) = 0
  BY AtTop DEF TreeInv, SizeInv
<1>2. out' = out \o << >>
  BY <1>1
<1>3. iter' = [iter EXCEPT ![Top] = iter[Top]]
  BY <1>1, AtTop
<1>4. \A f, h :
        IsPast(f, kids, state, offset, iter, Done)
          /\ IsPast(h, kids, state', offset', iter', Done') =>
        /\ f[Top] + Len(<< >>) <= h[Top]
        /\ ~disturbed => h[Top] = f[Top] + Len(<< >>)
        /\ \A k \in 1 .. Len(<< >>) :
             /\ f[Top] + k \in 1 .. Len(Images(kids)[Top])
             /\ << >>[k] = Images(kids)[Top][f[Top] + k]
  <2> SUFFICES ASSUME NEW f, NEW h,
                      IsPast(f, kids, state, offset, iter, Done),
                      IsPast(h, kids, state', offset', iter', Done')
               PROVE  /\ f[Top] + Len(<< >>) <= h[Top]
                      /\ ~disturbed => h[Top] = f[Top] + Len(<< >>)
                      /\ \A k \in 1 .. Len(<< >>) :
                           /\ f[Top] + k \in 1 .. Len(Images(kids)[Top])
                           /\ << >>[k] = Images(kids)[Top][f[Top] + k]
    BY Zenon
  <2>1. f[Top] \in Nat /\ h[Top] = f[Top]
    BY <1>1 DEF IsPast
  <2>2. 1 .. Len(<< >>) = {}
    BY <1>1
  <2> QED BY <1>1, <2>1, <2>2
<1> QED BY <1>1, <1>2, <1>3, <1>4, TopAdvance DEF Moved

LEMMA BeginMoves ==
  ASSUME TreeInv, TreeInv', UploadInv, Begin
  PROVE  Moved
<1>1. /\ InCall /\ answer = "none" /\ state[Top] = "Ready"
      /\ UNCHANGED <<kids, stack, disturbed, iter, answer>>
      /\ state' = [state EXCEPT ![Top] = "CopyingHeader"]
      /\ offset' = [offset EXCEPT ![Top] = 0]
  BY DEF Begin, Running, held
<1>2. CopyInv /\ Typed /\ Top \in Node
  BY <1>1, AtTop DEF TreeInv
<1>3. state'[Top] = "CopyingHeader" /\ offset'[Top] = 0 /\ Top \notin Done'
  BY <1>1, <1>2 DEF Typed, Done
<1>4. ASSUME NEW h, IsPast(h, kids, state', offset', iter', Done') PROVE h[Top] = 0
  <2>1. h[Top] = PastOf(Top, h, kids, state', offset', iter', Done')
    BY <1>2, <1>4 DEF IsPast
  <2> QED BY <1>3, <2>1 DEF PastOf
<1>5. CASE Top = Root
  <2>1. kids' = kids /\ out' = << >>
    BY <1>1, <1>5 DEF Begin
  <2>2. /\ kids \in [Node -> Seq(Node)] /\ IsFounded(kids)
        /\ state' \in [Node -> State] /\ offset' \in [Node -> Nat]
    BY DEF TreeInv, CopyInv, SizeInv, Typed
  <2>3. PICK h : IsPast(h, kids, state', offset', iter', Done')
    BY <2>2, PastExists
  <2>4. h[Root] = 0
    BY <1>4, <1>5, <2>3
  <2>5. PICK im : im = Images(kids)[Root]
    OBVIOUS
  <2>6. Len(im) \in Nat
    BY <1>2, <1>5, <2>2, <2>5, Layout DEF LaidOut
  <2>7. Len(<< >>) = 0 /\ InOrder(<< >>, << >>, im, 0)
    BY DEF InOrder
  <2>8. Fits(<< >>, im, 0, ~disturbed')
    <3>1. \E g : InOrder(g, << >>, im, 0)
      BY <2>7
    <3> QED BY <2>6, <2>7, <3>1 DEF Fits
  <2> QED BY <2>1, <2>3, <2>4, <2>5, <2>8 DEF Moved
<1>6. CASE Top # Root
  <2>1. out' = out /\ state[Root] # "Ready"
    <3>1. state[Root] = "CopyingData"
      BY <1>1, <1>2, <1>6, RootCopies
    <3> QED BY <1>6, <3>1 DEF Begin
  <2>2. \A f, h :
          IsPast(f, kids, state, offset, iter, Done)
            /\ IsPast(h, kids, state', offset', iter', Done') => h[Top] = f[Top]
    BY <1>1, <1>4, PastNow
  <2> QED BY <1>1, <2>1, <2>2, Silent
<1> QED BY <1>5, <1>6

LEMMA EndMoves ==
  ASSUME TreeInv, TreeInv', UploadInv, EndOfMap, Top # Root
  PROVE  Moved
<1>1. /\ InCall /\ answer = "none" /\ state[Top] = "CopyingData" /\ IsContainer(Top)
      /\ iter[Top] > Len(kids[Top])
      /\ UNCHANGED <<kids, stack, offset, iter, out>>
      /\ state' = [state EXCEPT ![Top] = "Ready"]
      /\ Return("Ready")
  BY DEF EndOfMap, Running, held, Return
<1>2. CopyInv /\ Typed /\ Top \in Node /\ state[Root] # "Ready"
  BY <1>1, AtTop, Rooted DEF TreeInv
<1>3. disturbed' = disturbed
  BY <1>2 DEF EndOfMap, Typed
<1>4. Top \in Done'
  BY <1>1 DEF Done, Return, InCall, Top
<1>5. \A f, h :
        IsPast(f, kids, state, offset, iter, Done)
          /\ IsPast(h, kids, state', offset', iter', Done') => h[Top] = f[Top]
  <2> SUFFICES ASSUME NEW f, NEW h,
                      IsPast(f, kids, state, offset, iter, Done),
                      IsPast(h, kids, state', offset', iter', Done')
               PROVE  h[Top] = f[Top]
    BY Zenon
  <2>1. h[Top] = PastOf(Top, h, kids, state', offset', iter', Done')
    BY <1>2 DEF IsPast
  <2>2. h[Top] = Len(Images(kids)[Top])
    BY <1>4, <2>1 DEF PastOf
  <2>3. f[Top] = Len(Images(kids)[Top])
    BY <1>1, PastNow
  <2> QED BY <2>2, <2>3
<1> QED BY <1>1, <1>2, <1>3, <1>5, Silent

-----------------------------------------------------------------------------
LEMMA Same ==
  ASSUME UploadInv, state[Root] # "Ready", answer # "Error",
         UNCHANGED <<kids, state, offset, iter, out, disturbed>>, Done' = Done
  PROVE  Moved
BY DEF UploadInv, Moved

(* A container goes on to its next object: it is past the one whose call   *)
(* has answered Ready, and the next one, if undisturbed, has not begun.    *)
LEMMA ReturnMoves ==
  ASSUME TreeInv, TreeInv', UploadInv, Returns, state[Root] # "Ready", answer' # "Error"
  PROVE  Moved
<1>1. /\ InCall /\ answer # "none" /\ stack' = Front(stack)
      /\ UNCHANGED <<kids, state, offset, out, disturbed>>
  BY DEF Returns, held
<1>2. Typed /\ UnmadeInv /\ StackInv /\ AnswerInv /\ PathInv
  BY DEF TreeInv, CopyInv
<1>3. PICK l : l = Len(stack)
  OBVIOUS
<1>4. /\ l \in Nat \ {0} /\ Top = stack[l] /\ stack \in Seq(Node) /\ stack[1] = Root
      /\ \A k \in 1 .. l : stack[k] \in Node
  BY <1>1, <1>2, <1>3, TopIn, ElementOfSeq DEF StackInv, InCall
<1>5. CASE answer # "Ready"
  <2>1. UNCHANGED <<iter, answer>> /\ answer # "Error"
    BY <1>5 DEF Returns
  <2>2. Done' = Done
    BY <1>5, <2>1 DEF Done
  <2> QED BY <1>1, <2>1, <2>2, Same
<1>6. CASE answer = "Ready" /\ ~(l > 1)
  <2>1. l = 1 /\ Top = Root
    BY <1>4, <1>6
  <2> QED BY <1>1, <1>2, <1>6, <2>1 DEF AnswerInv
<1>7. CASE answer = "Ready" /\ l > 1
  <2>1. l - 1 \in 1 .. l /\ l \in 1 .. l /\ l = (l - 1) + 1 /\ l - 1 # l /\ l - 1 \in 1 .. Len(stack)
    BY <1>3, <1>4, <1>7
  <2>2. PICK p, t, x : p = stack[l - 1] /\ t = iter[p] /\ x = Top
    OBVIOUS
  <2>3. IsAt(p, x) /\ p # x /\ p \in Node /\ x \in Node
    <3>1. IsAt(stack[l - 1], stack[l])
      BY <1>2, <1>3, <2>1, Zenon DEF StackInv
    <3>2. stack[l - 1] # stack[l]
      BY <1>2, <1>3, <2>1, Zenon DEF StackInv
    <3> QED BY <1>4, <2>1, <2>2, <3>1, <3>2
  <2>4. IsContainer(p) /\ state[p] = "CopyingData" /\ t \in DOMAIN kids[p] /\ kids[p][t] = x
    BY <2>2, <2>3 DEF IsAt
  <2>5. PICK m : m = Len(kids[p])
    OBVIOUS
  <2>6. /\ m \in Nat /\ t \in 1 .. m /\ DOMAIN kids[p] = 1 .. m /\ t \in Nat
        /\ \A k \in DOMAIN kids[p] : kids[p][k] \in Node
    BY <1>2, <2>3, <2>4, <2>5, KidsIn
  <2>7. Last(stack') = p
    <3>1. stack' = SubSeq(stack, 1, l - 1) /\ l - 1 \in Nat \ {0}
      BY <1>1, <1>3, <1>4, <1>7 DEF Front
    <3>2. Len(stack') = l - 1 /\ stack'[l - 1] = stack[l - 1]
      BY <1>3, <1>4, <2>1, <3>1
    <3> QED BY <2>2, <3>2 DEF Last
  <2>8. iter' = [iter EXCEPT ![p] = t + 1] /\ answer' = "none"
    BY <1>3, <1>7, <2>2, <2>7 DEF Returns
  <2>9. Done = {x} /\ Done' = {}
    BY <1>1, <1>7, <2>2, <2>8 DEF Done
  <2>10. /\ iter'[p] = t + 1
         /\ \A n \in Node : n # p => iter'[n] = iter[n]
    BY <1>2, <2>3, <2>8 DEF Typed
  <2>11. \A j \in 1 .. (l - 1) - 1 :
           (/\ state'[stack[j]] = state[stack[j]] /\ iter'[stack[j]] = iter[stack[j]]
            /\ stack[j] \notin Done /\ stack[j] \notin Done')
    <3> TAKE j \in 1 .. (l - 1) - 1
    <3>1. j \in 1 .. l /\ j # l /\ j # l - 1
      BY <1>4
    <3>2. stack[j] # p /\ stack[j] # x /\ stack[j] \in Node
      <4>1. stack[j] # stack[l - 1] /\ stack[j] # stack[l]
        BY <1>2, <1>3, <2>1, <3>1, Zenon DEF StackInv
      <4> QED BY <1>4, <2>2, <3>1, <4>1
    <3> QED BY <1>1, <2>9, <2>10, <3>2
  <2>12. /\ kids \in [Node -> Seq(Node)] /\ IsFounded(kids) /\ HeaderSize \in Nat
         /\ out \in Seq(Byte)
    BY CopyAssumption DEF TreeInv, CopyInv, SizeInv, Typed
  <2>13. PICK b, c, w : /\ b = Start(kids, p, t) /\ c = Start(kids, p, t + 1)
                        /\ w = Len(Images(kids)[x])
    OBVIOUS
  <2>14. b \in Nat /\ c \in Nat /\ w \in Nat /\ c = b + w
    <3>1. w = HeaderSize + Totals(kids)[x] /\ w \in Nat
      <4>1. LaidOut(kids, x)
        BY <2>3, <2>12, Layout
      <4>2. Images(kids)[x] \in Seq(Byte)
        BY <4>1 DEF LaidOut
      <4>3. w \in Nat
        BY <2>13, <4>2
      <4> QED BY <2>13, <4>1, <4>3 DEF LaidOut
    <3>2. Totals(kids)[x] \in Nat
      BY <2>3, <2>12, TotalsSolve
    <3>3. t \in 1 .. m + 1 /\ t + 1 \in 1 .. m + 1
      BY <2>6
    <3>4. b \in Nat /\ c \in Nat
      BY <2>3, <2>5, <2>12, <2>13, <3>3, Starts
    <3>5. c = b + HeaderSize + Totals(kids)[x]
      BY <2>3, <2>4, <2>5, <2>6, <2>12, <2>13, Starts
    <3>6. PICK z : z = Totals(kids)[x]
      OBVIOUS
    <3> QED BY <2>12, <3>1, <3>2, <3>4, <3>5, <3>6
  <2>15. ASSUME NEW f, IsPast(f, kids, state, offset, iter, Done)
         PROVE  f[p] = HeaderSize + c
    <3>1. p \notin Done /\ x \in Done
      BY <2>3, <2>9
    <3>2. f[p] = HeaderSize + b + f[x]
      <4>1. f[p] = PastOf(p, f, kids, state, offset, iter, Done)
        BY <2>3, <2>15 DEF IsPast
      <4> QED BY <2>2, <2>4, <2>13, <3>1, <4>1 DEF PastOf
    <3>3. f[x] = w
      <4>1. f[x] = PastOf(x, f, kids, state, offset, iter, Done)
        BY <2>3, <2>15 DEF IsPast
      <4> QED BY <2>13, <3>1, <4>1 DEF PastOf
    <3> QED BY <2>12, <2>14, <3>2, <3>3
  <2>16. ASSUME NEW h, IsPast(h, kids, state', offset', iter', Done')
         PROVE  h[p] \in Nat /\ HeaderSize + c <= h[p] /\ (~disturbed => h[p] = HeaderSize + c)
    <3>1. h[p] = PastOf(p, h, kids, state', offset', iter', Done') /\ h \in [Node -> Nat]
      BY <2>3, <2>16 DEF IsPast
    <3>2. p \notin Done' /\ state'[p] = "CopyingData"
      BY <1>1, <2>4, <2>9
    <3>3. CASE t + 1 \in DOMAIN kids[p]
      <4>1. PICK y : y = kids[p][t + 1]
        OBVIOUS
      <4>2. y \in Node /\ h[y] \in Nat
        BY <2>6, <3>1, <3>3, <4>1
      <4>3. h[p] = HeaderSize + c + h[y]
        BY <2>4, <2>10, <2>13, <3>1, <3>2, <3>3, <4>1 DEF PastOf
      <4>4. ASSUME ~disturbed PROVE h[y] = 0
        <5>1. PathAt(p, state[p], iter[p])
          BY <1>2, <2>3, <2>4, <4>4 DEF PathInv
        <5>2. t + 1 # t
          BY <2>6
        <5>3. state[y] = "Ready"
          BY <2>2, <3>3, <4>1, <5>1, <5>2 DEF PathAt
        <5>4. h[y] = PastOf(y, h, kids, state', offset', iter', Done')
          BY <2>16, <4>2 DEF IsPast
        <5> QED BY <1>1, <2>9, <5>3, <5>4 DEF PastOf
      <4> QED BY <2>12, <2>14, <4>2, <4>3, <4>4
    <3>4. CASE t + 1 \notin DOMAIN kids[p]
      <4>1. t + 1 = m + 1
        BY <2>6, <3>4
      <4>2. h[p] = HeaderSize + Start(kids, p, Len(kids[p]) + 1)
        BY <2>4, <2>10, <3>1, <3>2, <3>4 DEF PastOf
      <4>3. h[p] = HeaderSize + c
        BY <2>5, <2>13, <4>1, <4>2
      <4> QED BY <2>12, <2>14, <4>3
    <3> QED BY <3>3, <3>4
  <2>17. << >> \in Seq(Byte) /\ Len(<< >>) = 0 /\ out' = out \o << >> /\ 1 .. Len(<< >>) = {}
    BY <1>1, <2>12
  <2>18. \A f, h :
           IsPast(f, kids, state, offset, iter, Done)
             /\ IsPast(h, kids, state', offset', iter', Done') =>
           /\ f[stack[l - 1]] + Len(<< >>) <= h[stack[l - 1]]
           /\ ~disturbed => h[stack[l - 1]] = f[stack[l - 1]] + Len(<< >>)
           /\ \A k \in 1 .. Len(<< >>) :
                /\ f[stack[l - 1]] + k \in 1 .. Len(Images(kids)[stack[l - 1]])
                /\ << >>[k] = Images(kids)[stack[l - 1]][f[stack[l - 1]] + k]
    <3> SUFFICES ASSUME NEW f, NEW h,
                        IsPast(f, kids, state, offset, iter, Done),
                        IsPast(h, kids, state', offset', iter', Done')
                 PROVE  /\ f[p] + Len(<< >>) <= h[p]
                        /\ ~disturbed => h[p] = f[p] + Len(<< >>)
                        /\ \A k \in 1 .. Len(<< >>) :
                             /\ f[p] + k \in 1 .. Len(Images(kids)[p])
                             /\ << >>[k] = Images(kids)[p][f[p] + k]
      BY <2>2, Zenon
    <3>1. f[p] = HeaderSize + c /\ h[p] \in Nat /\ HeaderSize + c <= h[p]
          /\ (~disturbed => h[p] = HeaderSize + c)
      BY <2>15, <2>16
    <3>2. f[p] + 0 = f[p]
      BY <2>12, <2>14, <3>1
    <3> QED BY <2>17, <3>1, <3>2
  <2>19. UNCHANGED <<kids, disturbed>> /\ answer # "Error"
    BY <1>1, <1>7
  <2> QED BY <1>1, <2>1, <2>11, <2>17, <2>18, <2>19, Advance DEF Moved
<1> QED BY <1>5, <1>6, <1>7

-----------------------------------------------------------------------------
(* An answer InProcess is one in an upload, an Error disturbs it.          *)
LEMMA AnswerMoves ==
  ASSUME TreeInv, UploadInv, [Next]_vars
  PROVE  /\ answer' = "Error" => disturbed'
         /\ answer' = "InProcess" => state'[Root] # "Ready"
<1>1. CopyInv /\ Typed /\ (answer = "Error" => disturbed)
      /\ (answer = "InProcess" => state[Root] # "Ready")
  BY DEF TreeInv, CopyInv, UploadInv
<1>2. ASSUME NEW n, WriteHeader(n)
      PROVE  /\ answer' = "Error" => disturbed'
             /\ answer' = "InProcess" => state'[Root] # "Ready"
  <2>1. InCall /\ answer = "none" /\ state[Top] # "Ready"
    BY <1>2 DEF WriteHeader, Running
  <2>2. state[Root] # "Ready"
    BY <2>1, Rooted
  <2>3. \/ Return("InProcess") /\ UNCHANGED <<state, iter>>
        \/ Return("Ready")
        \/ UNCHANGED <<stack, answer>>
    BY <1>2 DEF WriteHeader
  <2>4. answer' \in {"none", "Ready"} \/ (state' = state /\ answer' = "InProcess")
    BY <2>1, <2>3 DEF Return
  <2> QED BY <2>2, <2>4
<1>3. ASSUME NEW n, WriteData(n)
      PROVE  /\ answer' = "Error" => disturbed'
             /\ answer' = "InProcess" => state'[Root] # "Ready"
  <2>1. InCall /\ answer = "none" /\ state[Top] # "Ready"
    BY <1>3 DEF WriteData, Running
  <2>2. state[Root] # "Ready"
    BY <2>1, Rooted
  <2>3. Return("Ready") \/ (Return("InProcess") /\ UNCHANGED state)
    BY <1>3 DEF WriteData
  <2>4. answer' = "Ready" \/ (state' = state /\ answer' = "InProcess")
    BY <2>3 DEF Return
  <2> QED BY <2>2, <2>4
<1>4. CASE Returns
  <2>1. /\ answer' = "none" \/ answer' = answer
        /\ state' = state /\ disturbed' = disturbed
    BY <1>4 DEF Returns
  <2> QED BY <1>1, <2>1
<1>5. CASE Begin \/ CallChild
  <2>1. answer' = "none"
    BY <1>5 DEF Begin, CallChild, Running
  <2> QED BY <2>1
<1>6. CASE EndOfMap \/ Call
  <2>1. answer' \in {"none", "Ready"}
    BY <1>6 DEF EndOfMap, Call, Return
  <2> QED BY <2>1
<1>7. CASE NothingToWrite \/ WriteFails
  BY <1>7 DEF NothingToWrite, WriteFails, Return
<1>8. CASE Reset \/ \E n \in spare : \E i \in 1 .. Len(kids[Root]) + 1 : Emplace(n, i)
  <2>1. answer' = "none"
    BY <1>8 DEF Reset, Emplace
  <2> QED BY <2>1
<1>9. CASE UNCHANGED vars
  BY <1>1, <1>9 DEF vars
<1> QED BY <1>2, <1>3, <1>4, <1>5, <1>6, <1>7, <1>8, <1>9 DEF Next, Step

LEMMA UploadStep ==
  ASSUME TreeInv, TreeInv', UploadInv, [Next]_vars
  PROVE  UploadInv'
<1> SUFFICES ASSUME state'[Root] # "Ready", answer' # "Error" PROVE Moved
  BY AnswerMoves DEF UploadInv, Moved
<1>1. CopyInv /\ Typed /\ Root \in Node
  BY CopyAssumption DEF TreeInv, CopyInv
<1>2. ASSUME InCall PROVE Written \subseteq Nat /\ Payload \subseteq Nat
  BY <1>1, <1>2, AtTop DEF Written, Payload
<1>3. CASE InCall /\ \E n \in Written : WriteHeader(n)
  BY <1>2, <1>3, HeaderMoves
<1>4. CASE InCall /\ \E n \in Payload : WriteData(n)
  BY <1>2, <1>4, DataMoves
<1>5. CASE Begin
  BY <1>5, BeginMoves
<1>6. CASE EndOfMap
  <2>1. state' = [state EXCEPT ![Top] = "Ready"]
    BY <1>6 DEF EndOfMap
  <2>2. Top # Root
    BY <1>1, <2>1 DEF Typed
  <2> QED BY <1>6, <2>2, EndMoves
<1>7. CASE Returns
  <2>1. state[Root] # "Ready"
    BY <1>7 DEF Returns
  <2> QED BY <1>7, <2>1, ReturnMoves
<1>8. CASE Call
  <2>1. /\ UNCHANGED <<kids, state, offset, iter, out, disturbed>>
        /\ ~InCall /\ answer # "Error" /\ answer' = "none"
    BY <1>8 DEF Call, tree, held
  <2>2. Done' = Done
    BY <2>1 DEF Done
  <2>3. state[Root] # "Ready"
    BY <2>1
  <2> QED BY <2>1, <2>2, <2>3, Same
<1>9. CASE CallChild
  <2>1. /\ UNCHANGED <<kids, state, offset, iter, out, disturbed>>
        /\ answer = "none" /\ answer' = "none"
    BY <1>9 DEF CallChild, tree, held, Running
  <2>2. Done' = Done
    BY <2>1 DEF Done
  <2>3. state[Root] # "Ready" /\ answer # "Error"
    BY <2>1
  <2> QED BY <2>1, <2>2, <2>3, Same
<1>10. CASE UNCHANGED vars
  <2>1. UNCHANGED <<kids, state, offset, iter, out, disturbed, stack, answer>>
    BY <1>10 DEF vars
  <2>2. Done' = Done
    BY <2>1 DEF Done, InCall, Top
  <2>3. state[Root] # "Ready" /\ answer # "Error"
    BY <2>1
  <2> QED BY <2>1, <2>2, <2>3, Same
<1>11. CASE NothingToWrite \/ WriteFails
  BY <1>11 DEF NothingToWrite, WriteFails, Return
<1>12. CASE Reset
  BY <1>1, <1>12 DEF Reset, Typed
<1>13. CASE \E n \in spare : \E i \in 1 .. Len(kids[Root]) + 1 : Emplace(n, i)
  <2>1. PICK n \in spare : \E i \in 1 .. Len(kids[Root]) + 1 : Emplace(n, i)
    BY <1>13
  <2>2. state' = [state EXCEPT ![Root] = "Ready", ![n] = "Ready"]
    BY <2>1 DEF Emplace
  <2> QED BY <1>1, <2>2 DEF Typed
<1> QED BY <1>3, <1>4, <1>5, <1>6, <1>7, <1>8, <1>9, <1>10, <1>11, <1>12, <1>13 DEF Next, Step

LEMMA InitUpload == Init => UploadInv
<1> SUFFICES ASSUME Init PROVE UploadInv
  OBVIOUS
<1>1. state[Root] = "Ready" /\ answer = "none"
  BY CopyAssumption DEF Init
<1> QED BY <1>1 DEF UploadInv

(* What copy_to_fd_* of the root has written is the beginning of its image *)
(* as far as all the states and offsets of the tree say, or, after a       *)
(* disturbance, no more than that and in its order.                        *)
THEOREM UploadKept == Spec => [](TreeInv /\ UploadInv)
<1>1. Init => TreeInv /\ UploadInv
  BY InitInv, InitSize, InitUpload DEF TreeInv
<1>2. TreeInv /\ UploadInv /\ [Next]_vars => (TreeInv /\ UploadInv)'
  <2>1. TreeInv /\ [Next]_vars => TreeInv'
    BY NextInv, SizeStep, CountStep DEF TreeInv
  <2> QED BY <2>1, UploadStep
<1> QED BY <1>1, <1>2, PTL DEF Spec

-----------------------------------------------------------------------------
(* What the abstract upload sees of a step that changes neither the root's *)
(* objects, nor what is written, nor whether an upload runs.               *)
LEMMA Unseen ==
  ASSUME UNCHANGED <<kids, out, disturbed>>, (state'[Root] = "Ready") <=> (state[Root] = "Ready")
  PROVE  UNCHANGED Upload!vars
<1>1. Image(Root)' = Image(Root)
  BY DEF Image, IsContainer, Own
<1> QED BY <1>1 DEF Upload!vars

(* What is written before the image is complete.                           *)
LEMMA Prefix ==
  ASSUME NEW q \in Seq(Byte), NEW im \in Seq(Byte), NEW p, Fits(q, im, p, TRUE)
  PROVE  /\ q = SubSeq(im, 1, Len(q))
         /\ p = Len(im) => q = im
<1>1. p <= Len(im) /\ Len(q) = p /\ \A i \in 1 .. p : q[i] = im[i]
  BY DEF Fits
<1>2. Len(q) \in Nat /\ Len(im) \in Nat /\ Len(q) <= Len(im)
  BY <1>1
<1>3. PICK s : s = SubSeq(im, 1, Len(q))
  OBVIOUS
<1>4. s \in Seq(Byte) /\ Len(s) = Len(q) /\ \A i \in 1 .. Len(q) : s[i] = im[i]
  BY <1>2, <1>3
<1>5. q = s
  BY <1>1, <1>4, SeqEqual
<1>6. p = Len(im) => q = im
  BY <1>1, SeqEqual
<1> QED BY <1>3, <1>5, <1>6

LEMMA Ordered ==
  ASSUME NEW q \in Seq(Byte), NEW im \in Seq(Byte), NEW p, NEW e, Fits(q, im, p, e),
         \A a, b \in 1 .. Len(im) : im[a] = im[b] => a = b
  PROVE  /\ \A i \in DOMAIN q : {a \in DOMAIN im : im[a] = q[i]} # {}
         /\ \A i \in 2 .. Len(q) :
              \A a \in {x \in DOMAIN im : im[x] = q[i - 1]}, b \in {x \in DOMAIN im : im[x] = q[i]} :
                a < b
<1>1. PICK g : InOrder(g, q, im, p)
  BY DEF Fits
<1>2. DOMAIN q = 1 .. Len(q) /\ DOMAIN im = 1 .. Len(im) /\ Len(q) \in Nat
  OBVIOUS
<1>3. \A i \in 1 .. Len(q) : g[i] \in 1 .. Len(im) /\ im[g[i]] = q[i]
  BY <1>1 DEF InOrder
<1>4. \A i \in DOMAIN q : {a \in DOMAIN im : im[a] = q[i]} # {}
  BY <1>2, <1>3
<1>5. ASSUME NEW i \in 2 .. Len(q),
             NEW a \in {x \in DOMAIN im : im[x] = q[i - 1]}, NEW b \in {x \in DOMAIN im : im[x] = q[i]}
      PROVE  a < b
  <2>1. i \in 1 .. Len(q) /\ i - 1 \in 1 .. Len(q) /\ i - 1 < i
    BY <1>2
  <2>2. a = g[i - 1] /\ b = g[i]
    BY <1>2, <1>3, <2>1
  <2> QED BY <1>1, <2>1, <2>2 DEF InOrder
<1> QED BY <1>4, <1>5

LEMMA IsTreeKids == ASSUME TreeInv PROVE IsTree(kids)
<1>1. Typed /\ IsFounded(kids) /\ IsForest(kids, spare)
  BY DEF TreeInv, CopyInv, SizeInv, UnmadeInv
<1> QED BY <1>1 DEF Typed, IsTree, IsForest

(* Bytes written in an upload.                                             *)
LEMMA Emits ==
  ASSUME TreeInv, TreeInv', UploadInv',
         UNCHANGED <<kids, disturbed>>, state[Root] # "Ready", state'[Root] # "Ready",
         answer' # "Error", NEW o \in Seq(Byte), out' = out \o o
  PROVE  Upload!Next \/ UNCHANGED Upload!vars
<1>1. PICK im : im = Image(Root)
  OBVIOUS
<1>2. /\ Image(Root)' = im /\ im = Images(kids)[Root] /\ Images(kids')[Root] = im
      /\ Root \in Node
  <2>1. Image(Root)' = Image(Root)
    BY DEF Image, IsContainer, Own
  <2> QED BY <1>1, <2>1, ImagesAre, CopyAssumption
<1>3. /\ kids \in [Node -> Seq(Node)] /\ IsFounded(kids) /\ disturbed \in BOOLEAN
      /\ out \in Seq(Byte)
  BY DEF TreeInv, CopyInv, SizeInv, Typed
<1>4. im \in Seq(Byte)
  BY <1>2, <1>3, Layout DEF LaidOut
<1>5. PICK q : q = out \o o
  OBVIOUS
<1>6. /\ q \in Seq(Byte) /\ Len(q) = Len(out) + Len(o) /\ Len(out) \in Nat /\ Len(o) \in Nat
      /\ SubSeq(q, 1, Len(out)) = out
  <2>1. /\ q \in Seq(Byte) /\ Len(q) = Len(out) + Len(o)
        /\ \A i \in 1 .. Len(out) + Len(o) : q[i] = IF i <= Len(out) THEN out[i] ELSE o[i - Len(out)]
    BY <1>3, <1>5, ConcatProperties
  <2>2. PICK r : r = SubSeq(q, 1, Len(out))
    OBVIOUS
  <2>3. /\ Len(out) \in Nat /\ Len(o) \in Nat /\ r \in Seq(Byte) /\ Len(r) = Len(out)
        /\ \A i \in 1 .. Len(out) : r[i] = q[i]
    BY <1>3, <2>1, <2>2
  <2>4. \A i \in 1 .. Len(out) : r[i] = out[i]
    BY <2>1, <2>3
  <2>5. r = out
    BY <1>3, <2>3, <2>4, SeqEqual
  <2> QED BY <2>1, <2>2, <2>3, <2>5
<1>7. PICK p : Fits(q, im, p, ~disturbed)
  BY <1>2, <1>5 DEF UploadInv
<1>8. CASE Len(o) = 0
  <2>1. out' = out
    BY <1>3, <1>5, <1>6, <1>8, EmptySeq
  <2> QED BY <2>1, Unseen
<1>9. CASE Len(o) # 0
  <2>1. Len(q) > Len(out)
    BY <1>6, <1>9
  <2>2. ~disturbed => q = SubSeq(im, 1, Len(q))
    BY <1>4, <1>6, <1>7, Prefix
  <2>3. /\ \A i \in DOMAIN q : {a \in DOMAIN im : im[a] = q[i]} # {}
        /\ \A i \in 2 .. Len(q) :
             \A a \in {x \in DOMAIN im : im[x] = q[i - 1]}, b \in {x \in DOMAIN im : im[x] = q[i]} :
               a < b
    <3>1. \A a, b \in 1 .. Len(im) : im[a] = im[b] => a = b
      BY <1>2, IsTreeKids, Once
    <3> QED BY <1>4, <1>6, <1>7, <3>1, Ordered
  <2>4. Upload!InImageOrder(out')
    BY <1>1, <1>5, <2>3 DEF Upload!InImageOrder
  <2>5. Upload!Emit
    <3>1. Image(Root)' = Image(Root) /\ disturbed' = disturbed /\ out' = q
      BY <1>1, <1>2, <1>5
    <3>2. (state'[Root] # "Ready") = (state[Root] # "Ready")
      OBVIOUS
    <3>3. IF disturbed THEN Upload!InImageOrder(out') ELSE out' = SubSeq(Image(Root), 1, Len(out'))
      BY <1>1, <2>2, <2>4, <3>1
    <3> QED BY <1>6, <2>1, <3>1, <3>2, <3>3 DEF Upload!Emit
  <2> QED BY <2>5 DEF Upload!Next
<1> QED BY <1>8, <1>9

-----------------------------------------------------------------------------
LEMMA BeginRefines ==
  ASSUME TreeInv, Begin
  PROVE  Upload!Next \/ UNCHANGED Upload!vars
<1>1. /\ InCall /\ answer = "none" /\ state[Top] = "Ready"
      /\ UNCHANGED <<kids, disturbed>>
      /\ state' = [state EXCEPT ![Top] = "CopyingHeader"]
  BY DEF Begin, Running, held
<1>2. CopyInv /\ Typed /\ Top \in Node
  BY <1>1, AtTop DEF TreeInv
<1>3. CASE Top = Root
  <2>1. out' = << >> /\ state'[Root] # "Ready" /\ ~(state[Root] # "Ready")
    BY <1>1, <1>2, <1>3 DEF Begin, Typed
  <2>2. Image(Root)' = Image(Root)
    BY <1>1 DEF Image, IsContainer, Own
  <2>3. Upload!Begin
    BY <1>1, <2>1, <2>2 DEF Upload!Begin
  <2> QED BY <2>3 DEF Upload!Next
<1>4. CASE Top # Root
  <2>1. out' = out /\ state'[Root] = state[Root]
    BY <1>1, <1>2, <1>4, CopyAssumption DEF Begin, Typed
  <2> QED BY <1>1, <2>1, Unseen
<1> QED BY <1>3, <1>4

LEMMA HeaderRefines ==
  ASSUME TreeInv, TreeInv', UploadInv', NEW n \in Nat, WriteHeader(n)
  PROVE  Upload!Next \/ UNCHANGED Upload!vars
<1>1. /\ InCall /\ answer = "none" /\ state[Top] = "CopyingHeader"
      /\ UNCHANGED <<kids, disturbed>>
      /\ out' = out \o Own(Top, offset[Top], n)
  BY DEF WriteHeader, Running, held
<1>2. CopyInv /\ Typed /\ Top \in Node /\ offset[Top] \in Nat /\ state[Root] # "Ready"
      /\ Root \in Node
  BY <1>1, AtTop, Rooted, CopyAssumption DEF TreeInv
<1>3. \/ UNCHANGED state
      \/ Kind[Top] = "route" /\ state' = [state EXCEPT ![Top] = "Ready"]
      \/ state' = [state EXCEPT ![Top] = "CopyingData"]
  BY DEF WriteHeader
<1>4. Kind[Top] = "route" => Top # Root
  BY CopyAssumption
<1>5. state'[Root] # "Ready"
  BY <1>2, <1>3, <1>4 DEF Typed
<1>6. answer' # "Error"
  <2>1. Return("InProcess") \/ Return("Ready") \/ UNCHANGED <<stack, answer>>
    BY DEF WriteHeader
  <2> QED BY <1>1, <2>1 DEF Return
<1>7. Own(Top, offset[Top], n) \in Seq(Byte)
  BY <1>2, OwnBytes
<1> QED BY <1>1, <1>2, <1>5, <1>6, <1>7, Emits

LEMMA DataRefines ==
  ASSUME TreeInv, TreeInv', UploadInv', NEW n \in Nat, WriteData(n)
  PROVE  Upload!Next \/ UNCHANGED Upload!vars
<1>1. /\ InCall /\ answer = "none" /\ state[Top] = "CopyingData" /\ ~IsContainer(Top)
      /\ UNCHANGED <<kids, disturbed>>
      /\ out' = out \o Own(Top, HeadSize(Top) + offset[Top], n)
  BY DEF WriteData, Running, held
<1>2. CopyInv /\ Typed /\ Top \in Node /\ offset[Top] \in Nat /\ state[Root] # "Ready"
      /\ Root \in Node /\ HeadSize(Top) \in Nat
  BY <1>1, AtTop, Rooted, CopyAssumption DEF TreeInv
<1>3. UNCHANGED state \/ state' = [state EXCEPT ![Top] = "Ready"]
  BY DEF WriteData
<1>4. Top # Root
  BY <1>1, CopyAssumption DEF IsContainer
<1>5. state'[Root] # "Ready"
  BY <1>2, <1>3, <1>4 DEF Typed
<1>6. answer' # "Error"
  <2>1. Return("InProcess") \/ Return("Ready")
    BY DEF WriteData
  <2> QED BY <2>1 DEF Return
<1>7. Own(Top, HeadSize(Top) + offset[Top], n) \in Seq(Byte)
  <2>1. HeadSize(Top) + offset[Top] \in Nat
    BY <1>2
  <2> QED BY <1>2, <2>1, OwnBytes
<1> QED BY <1>1, <1>2, <1>5, <1>6, <1>7, Emits

(* An error, a reset, an emplace in an upload.                             *)
LEMMA Disturbs ==
  ASSUME state[Root] # "Ready", disturbed' = TRUE, out' = out,
         kids' = kids \/ state'[Root] = "Ready"
  PROVE  Upload!Next
<1>1. kids' = kids => Image(Root)' = Image(Root)
  BY DEF Image, IsContainer, Own
<1>2. Upload!Disturb
  BY <1>1 DEF Upload!Disturb
<1> QED BY <1>2 DEF Upload!Next

LEMMA FailureRefines ==
  ASSUME TreeInv, NothingToWrite \/ WriteFails
  PROVE  Upload!Next
<1>1. /\ InCall /\ state[Top] # "Ready" /\ disturbed' = TRUE /\ UNCHANGED <<kids, out>>
  BY DEF NothingToWrite, WriteFails, Running, tree, held
<1> QED BY <1>1, Rooted, Disturbs

LEMMA EndRefines ==
  ASSUME TreeInv, UploadInv, EndOfMap
  PROVE  Upload!Next \/ UNCHANGED Upload!vars
<1>1. /\ InCall /\ answer = "none" /\ state[Top] = "CopyingData" /\ IsContainer(Top)
      /\ iter[Top] > Len(kids[Top]) /\ UNCHANGED <<kids, out>>
      /\ state' = [state EXCEPT ![Top] = "Ready"]
  BY DEF EndOfMap, Running, held
<1>2. CopyInv /\ Typed /\ Top \in Node /\ Root \in Node /\ state[Root] # "Ready"
  BY <1>1, AtTop, Rooted, CopyAssumption DEF TreeInv
<1>3. CASE Top # Root
  <2>1. state'[Root] = state[Root]
    BY <1>1, <1>2, <1>3 DEF Typed
  <2>2. disturbed' = disturbed
    BY <1>2, <1>3 DEF EndOfMap, Typed
  <2> QED BY <1>1, <2>1, <2>2, Unseen
<1>4. CASE Top = Root
  <2>1. state'[Root] = "Ready" /\ disturbed' = FALSE
    BY <1>1, <1>2, <1>4 DEF EndOfMap, Typed
  <2>2. Image(Root)' = Image(Root)
    BY <1>1 DEF Image, IsContainer, Own
  <2>3. ASSUME ~disturbed PROVE out = Image(Root)
    <3>1. PICK f : /\ IsPast(f, kids, state, offset, iter, Done)
                   /\ Fits(out, Images(kids)[Root], f[Root], ~disturbed)
      BY <1>1, <1>2 DEF UploadInv
    <3>2. PICK im : im = Images(kids)[Root]
      OBVIOUS
    <3>3. f[Root] = Len(im)
      BY <1>1, <1>4, <3>1, <3>2, PastNow
    <3>4. kids \in [Node -> Seq(Node)] /\ IsFounded(kids) /\ out \in Seq(Byte)
      BY DEF TreeInv, CopyInv, SizeInv, Typed
    <3>5. im \in Seq(Byte)
      BY <1>2, <3>2, <3>4, Layout DEF LaidOut
    <3>6. Fits(out, im, f[Root], TRUE)
      BY <2>3, <3>1, <3>2 DEF Fits
    <3>7. out = im
      BY <3>3, <3>4, <3>5, <3>6, Prefix
    <3> QED BY <3>2, <3>7, ImagesAre
  <2>4. Upload!End
    BY <1>1, <1>2, <2>1, <2>2, <2>3 DEF Upload!End
  <2> QED BY <2>4 DEF Upload!Next
<1> QED BY <1>3, <1>4

LEMMA CallerRefines ==
  ASSUME TreeInv, UploadInv,
         Reset \/ \E n \in spare : \E i \in 1 .. Len(kids[Root]) + 1 : Emplace(n, i)
  PROVE  Upload!Next \/ UNCHANGED Upload!vars
<1>1. Typed /\ Root \in Node
  BY CopyAssumption DEF TreeInv, CopyInv
<1>2. CASE Reset
  <2>1. /\ answer \in {"InProcess", "Error"} /\ disturbed' = TRUE /\ UNCHANGED <<kids, out>>
        /\ state' = [state EXCEPT ![Root] = "Ready"]
    BY <1>2 DEF Reset, held
  <2>2. state'[Root] = "Ready"
    BY <1>1, <2>1 DEF Typed
  <2>3. CASE state[Root] # "Ready"
    BY <2>1, <2>3, Disturbs
  <2>4. CASE state[Root] = "Ready"
    <3>1. disturbed' = disturbed
      BY <1>1, <2>1, <2>4 DEF UploadInv, Typed
    <3> QED BY <2>1, <2>2, <2>4, <3>1, Unseen
  <2> QED BY <2>3, <2>4
<1>3. ASSUME NEW n \in spare, NEW i \in 1 .. Len(kids[Root]) + 1, Emplace(n, i)
      PROVE  Upload!Next \/ UNCHANGED Upload!vars
  <2>1. /\ state' = [state EXCEPT ![Root] = "Ready", ![n] = "Ready"] /\ out' = out
        /\ disturbed' = (disturbed \/ state[Root] # "Ready")
    BY <1>3 DEF Emplace
  <2>2. state'[Root] = "Ready"
    BY <1>1, <2>1 DEF Typed
  <2>3. CASE state[Root] # "Ready"
    BY <2>1, <2>2, <2>3, Disturbs
  <2>4. CASE state[Root] = "Ready"
    <3>1. disturbed' = disturbed
      BY <1>1, <2>1, <2>4 DEF Typed
    <3>2. CASE Image(Root)' = Image(Root)
      BY <2>1, <2>2, <2>4, <3>1, <3>2 DEF Upload!vars
    <3>3. CASE Image(Root)' # Image(Root)
      <4>1. Upload!Edit
        BY <2>1, <2>2, <2>4, <3>1, <3>3 DEF Upload!Edit
      <4> QED BY <4>1 DEF Upload!Next
    <3> QED BY <3>2, <3>3
  <2> QED BY <2>3, <2>4
<1> QED BY <1>2, <1>3

-----------------------------------------------------------------------------
LEMMA NextRefines ==
  ASSUME TreeInv, TreeInv', UploadInv, UploadInv', [Next]_vars
  PROVE  [Upload!Next]_Upload!vars
<1>1. CopyInv
  BY DEF TreeInv
<1>2. ASSUME InCall PROVE Written \subseteq Nat /\ Payload \subseteq Nat
  BY <1>1, <1>2, AtTop DEF Written, Payload
<1>3. CASE InCall /\ \E n \in Written : WriteHeader(n)
  BY <1>2, <1>3, HeaderRefines
<1>4. CASE InCall /\ \E n \in Payload : WriteData(n)
  BY <1>2, <1>4, DataRefines
<1>5. CASE Call \/ CallChild \/ Returns \/ UNCHANGED vars
  <2>1. UNCHANGED <<kids, out, disturbed, state>>
    BY <1>5 DEF Call, CallChild, Returns, tree, held, vars
  <2> QED BY <2>1, Unseen
<1>6. CASE Begin
  BY <1>6, BeginRefines
<1>7. CASE EndOfMap
  BY <1>7, EndRefines
<1>8. CASE NothingToWrite \/ WriteFails
  BY <1>8, FailureRefines
<1>9. CASE Reset \/ \E n \in spare : \E i \in 1 .. Len(kids[Root]) + 1 : Emplace(n, i)
  BY <1>9, CallerRefines
<1> QED BY <1>3, <1>4, <1>5, <1>6, <1>7, <1>8, <1>9 DEF Next, Step

(* copy_to_fd_* of a tree is one upload of one object's image: the calls   *)
(* that go down the tree, write what they can and come back write the      *)
(* image from its first byte to its last, and what a reset, an emplace or  *)
(* an error leaves behind costs bytes but never their order.               *)
THEOREM TreeIsUpload == Spec => ImplementsUpload
<1>1. Init => Upload!Init
  <2> SUFFICES ASSUME Init PROVE Upload!Init
    OBVIOUS
  <2>1. out = << >> /\ state[Root] = "Ready" /\ disturbed = FALSE
    BY CopyAssumption DEF Init
  <2> QED BY <2>1 DEF Upload!Init
<1>2. (TreeInv /\ UploadInv) /\ (TreeInv /\ UploadInv)' /\ [Next]_vars => [Upload!Next]_Upload!vars
  BY NextRefines
<1> QED BY <1>1, <1>2, UploadKept, PTL DEF Spec, ImplementsUpload, Upload!Spec
=============================================================================
