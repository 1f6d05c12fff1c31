-------------------------- MODULE DsonObjectProofs --------------------------
(***************************************************************************)
(* Proofs about DsonObject, for any number of Dsons, keys, leaves, blocks  *)
(* and received objects, and runs of any length, of programs that call     *)
(* map() and emplace() on containers only (~AnyCall).                      *)
(***************************************************************************)
EXTENDS DsonObject, SequenceTheorems, FiniteSetTheorems, WellFoundedInduction, TLAPS

Pieces == Seq(LeafWire)

Typed(o) == o \in [state : {"Ready", "Error"}, kind : Kinds,
                   hdr : [key : Nat, type : Types],
                   buf : Places \cup {Nothing}, alloc : BOOLEAN, bufSize : Nat,
                   map : {o.map}]

(* The fields of an object that is no view fit together.                   *)
Storage(o) ==
  /\ o.buf # Nothing => o.alloc /\ o.hdr.type \in {"leaf", "container"}
  /\ o.state = "Error" => o.buf = Nothing
  /\ o.state = "Ready" =>
       /\ o.alloc => o.buf # Nothing
       /\ o.alloc <=> o.bufSize > 0
       /\ o.kind # "DsonContainer" => o.buf # Nothing /\ o.map = << >>
       /\ o.kind = "OneObjectInDataBuf" => o.hdr.type = "leaf"
       /\ o.kind = "DsonContainer" /\ o.buf # Nothing => o.hdr.type = "container"
       /\ o.map = << >> \/ o.hdr.type = "container"

IsView(o) == ~o.alloc /\ o.buf # Nothing

(* A view of a piece, or the single object that emplace(k, Dson(v)) made.  *)
IsLeaf(o) ==
  /\ Typed(o) /\ o.state = "Ready" /\ o.kind = "OneObjectInDataBuf" /\ o.map = << >>
  /\ o.buf \in Places /\ (o.alloc <=> o.bufSize > 0) /\ (o.alloc => o.hdr.type = "leaf")

(* The views in the map of o look into the buffer of o.                    *)
ViewsOwn(o) ==
  \A k \in DOMAIN o.map :
    IsView(o.map[k]) => o.buf # Nothing /\ o.map[k].buf.block = o.buf.block

(* What an object in the map of o owns, neither o nor another one owns.    *)
Apart(o) ==
  \A k \in DOMAIN o.map : \A b \in Owned(o.map[k]) :
    ~Owns(o, b) /\ \A l \in DOMAIN o.map : l # k => b \notin Owned(o.map[l])

(* A container of leaves, as Adopt puts into another.                      *)
IsBox(o) ==
  /\ Typed(o) /\ Storage(o) /\ o.state = "Ready"
  /\ o.kind # "OneObjectInDataBuf"
  /\ o.kind = "DataBufNeedParse" => o.hdr.type = "container"
  /\ \A k \in DOMAIN o.map : IsLeaf(o.map[k])
  /\ ViewsOwn(o) /\ Apart(o)

IsChild(o) == IsLeaf(o) \/ IsBox(o)

(* A Dson of the program.  The map of one in Error may be that of another, *)
(* whose buffer nobody owns any more.                                      *)
Shape(o) ==
  /\ Typed(o) /\ Storage(o)
  /\ \A k \in DOMAIN o.map : IsChild(o.map[k])
  /\ o.state = "Ready" => ViewsOwn(o)
  /\ Apart(o)

(* The block p points to holds what p takes it for.                        *)
Backed(m, p) ==
  p.buf # Nothing =>
    IF p.alloc THEN \/ p.hdr.type = "leaf" /\ m[p.buf.block] \in Leaf
                    \/ p.hdr.type = "container" /\ m[p.buf.block] \in Pieces
               ELSE /\ m[p.buf.block] \in Pieces
                    /\ p.buf.piece \in DOMAIN m[p.buf.block]

AllBacked(m, o) == \A p \in Parts(o) : Backed(m, p)

(* The blocks that o or something in o owns or looks into.                 *)
Uses(o) == {b \in Block : \E p \in Parts(o) : p.buf # Nothing /\ p.buf.block = b}

MemTyped == mem \in [Block -> Leaf \cup {Nothing} \cup Pieces]

CallTyped ==
  call # << >> /\ call[1] = "get" => call[Len(call)] \in Values \cup [Key -> Values]

(* No two Dsons use the same block: not even a leaked one, as views move   *)
(* with the map they are in.                                               *)
ObjInv ==
  /\ objs = [d \in Name |-> objs[d]] /\ MemTyped
  /\ \A d \in Name : Shape(objs[d]) /\ AllBacked(mem, objs[d])
  /\ \A d, e \in Name : d # e => Uses(objs[d]) \cap Uses(objs[e]) = {}

CountInv == calls \in 0 .. MaxCalls

-----------------------------------------------------------------------------
(* What an object is made up of.                                           *)
LEMMA PartsOf ==
  ASSUME NEW o, NEW p
  PROVE  p \in Parts(o) <=>
           \/ p = o
           \/ \E k \in DOMAIN o.map : p = o.map[k]
           \/ \E k \in DOMAIN o.map : \E i \in DOMAIN o.map[k].map : p = o.map[k].map[i]
BY DEF Parts, Children

LEMMA EmptyMap == DOMAIN << >> = {}
OBVIOUS

LEMMA LeafParts ==
  ASSUME NEW o, o.map = << >>
  PROVE  \A p : p \in Parts(o) <=> p = o
BY PartsOf, EmptyMap

(* An object nested at most two deep is itself and what its objects are.   *)
LEMMA NestedParts ==
  ASSUME NEW o, \A k \in DOMAIN o.map : IsChild(o.map[k])
  PROVE  \A p : p \in Parts(o) <=> p = o \/ \E k \in DOMAIN o.map : p \in Parts(o.map[k])
<1>1. \A k \in DOMAIN o.map : \A i \in DOMAIN o.map[k].map : o.map[k].map[i].map = << >>
  BY EmptyMap DEF IsChild, IsLeaf, IsBox
<1>2. ASSUME NEW p PROVE p \in Parts(o) => p = o \/ \E k \in DOMAIN o.map : p \in Parts(o.map[k])
  BY PartsOf
<1>3. ASSUME NEW p, NEW k \in DOMAIN o.map, p \in Parts(o.map[k]) PROVE p \in Parts(o)
  BY <1>1, <1>3, PartsOf, EmptyMap
<1> QED BY <1>2, <1>3, PartsOf

LEMMA OwnedOf ==
  ASSUME NEW o, \A k \in DOMAIN o.map : IsChild(o.map[k]), NEW b
  PROVE  b \in Owned(o) <=>
           b \in Block /\ (Owns(o, b) \/ \E k \in DOMAIN o.map : b \in Owned(o.map[k]))
BY NestedParts DEF Owned

LEMMA UsesOf ==
  ASSUME NEW o, \A k \in DOMAIN o.map : IsChild(o.map[k]), NEW b
  PROVE  b \in Uses(o) <=>
           /\ b \in Block
           /\ (o.buf # Nothing /\ o.buf.block = b) \/ \E k \in DOMAIN o.map : b \in Uses(o.map[k])
BY NestedParts DEF Uses

LEMMA BackedOf ==
  ASSUME NEW o, \A k \in DOMAIN o.map : IsChild(o.map[k]), NEW m
  PROVE  AllBacked(m, o) <=> Backed(m, o) /\ \A k \in DOMAIN o.map : AllBacked(m, o.map[k])
BY NestedParts DEF AllBacked
LEMMA SingleParts ==
  ASSUME NEW o, o.map = << >>
  PROVE  /\ \A b : b \in Owned(o) <=> b \in Block /\ Owns(o, b)
         /\ \A b : b \in Uses(o) <=> b \in Block /\ o.buf # Nothing /\ o.buf.block = b
         /\ \A m : AllBacked(m, o) <=> Backed(m, o)
BY LeafParts DEF Owned, Uses, AllBacked

LEMMA BoxKids ==
  ASSUME NEW o, IsBox(o)
  PROVE  \A k \in DOMAIN o.map : IsChild(o.map[k])
BY DEF IsBox, IsChild

LEMMA PartsTyped ==
  ASSUME NEW o, Shape(o)
  PROVE  \A p \in Parts(o) : Typed(p)
<1>1. \A k \in DOMAIN o.map : Typed(o.map[k])
  BY DEF Shape, IsChild, IsLeaf, IsBox
<1>2. \A k \in DOMAIN o.map : \A i \in DOMAIN o.map[k].map : Typed(o.map[k].map[i])
  BY EmptyMap DEF Shape, IsChild, IsLeaf, IsBox
<1>3. Typed(o)
  BY DEF Shape
<1> QED BY <1>1, <1>2, <1>3, PartsOf

LEMMA TypedBlock ==
  ASSUME NEW p, Typed(p), p.buf # Nothing
  PROVE  p.buf \in Places /\ p.buf.block \in Block /\ p.buf.piece \in Nat
BY DEF Typed, Places

LEMMA ChildTyped ==
  ASSUME NEW o, IsChild(o)
  PROVE  \A p \in Parts(o) : Typed(p)
<1>1. Typed(o) /\ \A k \in DOMAIN o.map : Typed(o.map[k]) /\ o.map[k].map = << >>
  BY EmptyMap DEF IsChild, IsLeaf, IsBox
<1> QED BY <1>1, EmptyMap, PartsOf

(* The objects of one buffer stay as they are while nobody writes to it.   *)
LEMMA BackedFrame ==
  ASSUME NEW o, \A p \in Parts(o) : Typed(p), NEW m, NEW n, AllBacked(m, o),
         \A b \in Uses(o) : n[b] = m[b]
  PROVE  AllBacked(n, o)
<1> SUFFICES ASSUME NEW p \in Parts(o) PROVE Backed(n, p)
  BY DEF AllBacked
<1>1. Backed(m, p) /\ Typed(p)
  BY DEF AllBacked
<1>2. CASE p.buf = Nothing
  BY <1>2 DEF Backed
<1>3. CASE p.buf # Nothing
  <2>1. p.buf.block \in Uses(o)
    BY <1>1, <1>3, TypedBlock DEF Uses
  <2>2. n[p.buf.block] = m[p.buf.block]
    BY <2>1
  <2> QED BY <1>1, <2>2 DEF Backed
<1> QED BY <1>2, <1>3

LEMMA UsedHeld ==
  ASSUME NEW o, NEW m, AllBacked(m, o), NEW b \in Uses(o)
  PROVE  m[b] # Nothing /\ m[b] \in Leaf \cup Pieces
<1>1. PICK p \in Parts(o) : p.buf # Nothing /\ p.buf.block = b
  BY DEF Uses
<1>2. Backed(m, p)
  BY DEF AllBacked
<1>3. m[b] \in Leaf \/ m[b] \in Pieces
  BY <1>1, <1>2 DEF Backed
<1>4. Nothing \notin Leaf /\ Nothing \notin Pieces
  BY ObjectAssumption, WireAssumption DEF Pieces
<1> QED BY <1>3, <1>4

LEMMA OwnedUsed ==
  ASSUME NEW o
  PROVE  Owned(o) \subseteq Uses(o)
BY DEF Owned, Uses, Owns

LEMMA BoxUses ==
  ASSUME NEW o, IsBox(o)
  PROVE  Uses(o) = Owned(o)
<1> SUFFICES ASSUME NEW b \in Uses(o) PROVE b \in Owned(o)
  BY OwnedUsed
<1>0. \A k \in DOMAIN o.map : IsChild(o.map[k])
  BY BoxKids
<1>1. CASE o.buf # Nothing /\ o.buf.block = b
  <2>1. Owns(o, b)
    BY <1>1 DEF IsBox, Storage, Owns
  <2> QED BY <1>0, <2>1, OwnedOf DEF Uses
<1>2. ASSUME NEW k \in DOMAIN o.map, b \in Uses(o.map[k]) PROVE b \in Owned(o)
  <2>1. IsLeaf(o.map[k])
    BY DEF IsBox
  <2>2. o.map[k].buf # Nothing /\ o.map[k].buf.block = b /\ b \in Block
    BY <1>2, <2>1, SingleParts DEF IsLeaf
  <2>3. CASE o.map[k].alloc
    <3>1. b \in Owned(o.map[k])
      BY <2>1, <2>2, <2>3, SingleParts DEF Owns, IsLeaf
    <3> QED BY <1>0, <2>2, <3>1, OwnedOf
  <2>4. CASE ~o.map[k].alloc
    <3>1. o.buf # Nothing /\ o.buf.block = b
      BY <2>2, <2>4 DEF IsBox, ViewsOwn, IsView
    <3>2. Owns(o, b)
      BY <3>1 DEF IsBox, Storage, Owns
    <3> QED BY <1>0, <2>2, <3>2, OwnedOf
  <2> QED BY <2>3, <2>4
<1> QED BY <1>0, <1>1, <1>2, UsesOf

(* A Dson that is Ready uses no more than it owns.                         *)
LEMMA ReadyUses ==
  ASSUME NEW o, Shape(o), o.state = "Ready"
  PROVE  Uses(o) = Owned(o)
<1> SUFFICES ASSUME NEW b \in Uses(o) PROVE b \in Owned(o)
  BY OwnedUsed
<1>0. \A k \in DOMAIN o.map : IsChild(o.map[k])
  BY DEF Shape
<1>1. CASE o.buf # Nothing /\ o.buf.block = b
  <2>1. Owns(o, b)
    BY <1>1 DEF Shape, Storage, Owns
  <2> QED BY <1>0, <2>1, OwnedOf DEF Uses
<1>2. ASSUME NEW k \in DOMAIN o.map, b \in Uses(o.map[k]) PROVE b \in Owned(o)
  <2>1. CASE IsBox(o.map[k])
    BY <1>0, <1>2, <2>1, BoxUses, OwnedOf DEF Uses
  <2>2. CASE IsLeaf(o.map[k])
    <3>2. o.map[k].buf # Nothing /\ o.map[k].buf.block = b /\ b \in Block
      BY <1>2, <2>2, SingleParts DEF IsLeaf
    <3>3. CASE o.map[k].alloc
      <4>1. b \in Owned(o.map[k])
        BY <2>2, <3>2, <3>3, SingleParts DEF Owns, IsLeaf
      <4> QED BY <1>0, <3>2, <4>1, OwnedOf
    <3>4. CASE ~o.map[k].alloc
      <4>1. o.buf # Nothing /\ o.buf.block = b
        BY <3>2, <3>4 DEF Shape, ViewsOwn, IsView
      <4>2. Owns(o, b)
        BY <4>1 DEF Shape, Storage, Owns
      <4> QED BY <1>0, <3>2, <4>2, OwnedOf
    <3> QED BY <3>3, <3>4
  <2> QED BY <1>0, <2>1, <2>2 DEF IsChild
<1> QED BY <1>0, <1>1, <1>2, UsesOf

-----------------------------------------------------------------------------
(* Objects with no map.                                                    *)
Bare(o) ==
  /\ Typed(o) /\ o.buf = Nothing /\ o.map = << >>
  /\ o.state = "Ready" => o.kind = "DsonContainer" /\ ~o.alloc /\ o.bufSize = 0

LEMMA BareShape ==
  ASSUME NEW o, Bare(o)
  PROVE  Shape(o) /\ Uses(o) = {} /\ Owned(o) = {} /\ \A m : AllBacked(m, o)
<1>1. Uses(o) = {} /\ Owned(o) = {}
  BY SingleParts DEF Bare, Owns
<1>2. \A m : AllBacked(m, o)
  BY SingleParts DEF Bare, Backed
<1>3. Typed(o) /\ Storage(o)
  BY DEF Bare, Storage, Typed
<1>4. DOMAIN o.map = {}
  BY EmptyMap DEF Bare
<1> QED BY <1>1, <1>2, <1>3, <1>4 DEF Shape, ViewsOwn, Apart

Filled(o) ==
  /\ Typed(o) /\ o.map = << >> /\ o.state = "Ready" /\ o.buf # Nothing
  /\ o.alloc /\ o.bufSize > 0 /\ o.hdr.type \in {"leaf", "container"}
  /\ o.kind # "DsonContainer"
  /\ o.kind = "OneObjectInDataBuf" => o.hdr.type = "leaf"

LEMMA FilledShape ==
  ASSUME NEW o, Filled(o)
  PROVE  /\ Shape(o) /\ Uses(o) = {o.buf.block} /\ Owned(o) = {o.buf.block}
         /\ \A m : AllBacked(m, o) <=> Backed(m, o)
<1>0. o.buf.block \in Block
  BY TypedBlock DEF Filled
<1>1. Uses(o) = {o.buf.block}
  BY <1>0, SingleParts DEF Filled
<1>5. Owned(o) = {o.buf.block}
  BY <1>0, SingleParts DEF Filled, Owns
<1>2. \A m : AllBacked(m, o) <=> Backed(m, o)
  BY SingleParts DEF Filled
<1>3. Typed(o) /\ Storage(o)
  BY DEF Filled, Storage, Typed
<1>4. DOMAIN o.map = {}
  BY EmptyMap DEF Filled
<1> QED BY <1>1, <1>2, <1>3, <1>4, <1>5 DEF Shape, ViewsOwn, Apart

(* Objects with these fields, and no others.                               *)
Fields(s, k, h, b, a, z, m) ==
  [state : {s}, kind : {k}, hdr : {h}, buf : {b}, alloc : {a}, bufSize : {z}, map : {m}]

LEMMA FieldsOf ==
  ASSUME NEW s, NEW k, NEW h, NEW b, NEW a, NEW z, NEW m, NEW o \in Fields(s, k, h, b, a, z, m)
  PROVE  /\ o.state = s /\ o.kind = k /\ o.hdr = h /\ o.buf = b /\ o.alloc = a
         /\ o.bufSize = z /\ o.map = m
BY DEF Fields

LEMMA FieldsTyped ==
  ASSUME NEW s \in {"Ready", "Error"}, NEW k \in Kinds, NEW h \in [key : Nat, type : Types],
         NEW b \in Places \cup {Nothing}, NEW a \in BOOLEAN, NEW z \in Nat, NEW m,
         NEW o \in Fields(s, k, h, b, a, z, m)
  PROVE  Typed(o)
BY DEF Fields, Typed

LEMMA TypedFields ==
  ASSUME NEW o, Typed(o)
  PROVE  o \in Fields(o.state, o.kind, o.hdr, o.buf, o.alloc, o.bufSize, o.map)
BY DEF Fields, Typed

LEMMA ClearedIs ==
  ASSUME NEW o, Shape(o)
  PROVE  /\ Cleared(o) \in Fields("Ready", "DsonContainer", o.hdr, Nothing, FALSE, 0, << >>)
         /\ Bare(Cleared(o))
<1>1. Typed(o) /\ (IF o.alloc THEN Nothing ELSE o.buf) = Nothing
  BY DEF Shape, Storage, Typed
<1>2. Cleared(o) \in Fields("Ready", "DsonContainer", o.hdr, Nothing, FALSE, 0, << >>)
  BY <1>1, TypedFields DEF Cleared, Fields
<1>3. o.hdr \in [key : Nat, type : Types]
  BY <1>1 DEF Typed
<1> DEFINE c == Cleared(o)
<1>4. c \in Fields("Ready", "DsonContainer", o.hdr, Nothing, FALSE, 0, << >>)
  BY <1>2
<1> HIDE DEF c
<1>5. Bare(c)
  <2>1. /\ c.state = "Ready" /\ c.kind = "DsonContainer" /\ c.hdr = o.hdr /\ c.buf = Nothing
        /\ c.bufSize = 0 /\ c.map = << >>
    BY <1>4 DEF Fields
  <2>2. ~c.alloc
    BY <1>4 DEF Fields
  <2>3. Typed(c)
    <3>1. /\ "Ready" \in {"Ready", "Error"} /\ "DsonContainer" \in Kinds
          /\ Nothing \in Places \cup {Nothing} /\ 0 \in Nat
      BY DEF Kinds
    <3> QED BY <1>3, <1>4, <3>1, FieldsTyped, Zenon
  <2> QED BY <2>1, <2>2, <2>3 DEF Bare
<1> QED BY <1>2, <1>5 DEF c

LEMMA FreshIs == Bare(Fresh)
BY DEF Fresh, Bare, Typed, Kinds, Types

-----------------------------------------------------------------------------
(* What a step that changes the Dsons in S leaves alone: the others, and   *)
(* the blocks they use.                                                    *)
OthersKept(S) ==
  \A x \in Name \ S : objs'[x] = objs[x] /\ \A b \in Uses(objs[x]) : mem'[b] = mem[b]

(* A step that changes the Dsons in S: they use what was theirs, or free,  *)
(* and nothing else is written to.                                         *)
LEMMA LocalStep ==
  ASSUME ObjInv, NEW S \in SUBSET Name,
         objs' = [x \in Name |-> objs'[x]], MemTyped',
         \A x \in Name \ S : objs'[x] = objs[x],
         \A x \in S : Shape(objs'[x]) /\ AllBacked(mem', objs'[x]),
         \A x \in S : \A b \in Uses(objs'[x]) : mem[b] = Nothing \/ \E y \in S : b \in Uses(objs[y]),
         \A x, y \in S : x # y => Uses(objs'[x]) \cap Uses(objs'[y]) = {},
         \A b \in Block : mem[b] # Nothing /\ (\A y \in S : b \notin Uses(objs[y])) => mem'[b] = mem[b]
  PROVE  ObjInv' /\ OthersKept(S)
<1>1. \A x \in Name : Shape(objs[x]) /\ AllBacked(mem, objs[x])
  BY DEF ObjInv
<1>2. \A x, y \in Name : x # y => Uses(objs[x]) \cap Uses(objs[y]) = {}
  BY DEF ObjInv
<1>3. \A x \in Name : \A b \in Uses(objs[x]) : mem[b] # Nothing /\ b \in Block
  BY <1>1, UsedHeld DEF Uses
<1>4. ASSUME NEW x \in Name \ S PROVE Shape(objs'[x]) /\ AllBacked(mem', objs'[x])
  <2>1. \A b \in Uses(objs[x]) : mem'[b] = mem[b]
    BY <1>2, <1>3
  <2>2. AllBacked(mem', objs[x])
    BY <1>1, <2>1, BackedFrame, PartsTyped
  <2> QED BY <1>1, <2>2
<1>5. ASSUME NEW x \in Name \ S, NEW y \in S PROVE Uses(objs'[x]) \cap Uses(objs'[y]) = {}
  BY <1>2, <1>3
<1>6. ASSUME NEW x \in Name, NEW y \in Name, x # y PROVE Uses(objs'[x]) \cap Uses(objs'[y]) = {}
  <2>1. CASE x \in S /\ y \in S
    BY <1>6, <2>1
  <2>2. CASE x \in S /\ y \notin S
    BY <1>5, <2>2
  <2>3. CASE x \notin S /\ y \in S
    BY <1>5, <2>3
  <2>4. CASE x \notin S /\ y \notin S
    <3>1. objs'[x] = objs[x] /\ objs'[y] = objs[y]
      BY <2>4
    <3> QED BY <1>2, <1>6, <3>1
  <2> QED BY <2>1, <2>2, <2>3, <2>4
<1>7. \A x \in Name : Shape(objs'[x]) /\ AllBacked(mem', objs'[x])
  BY <1>4
<1>8. OthersKept(S)
  BY <1>2, <1>3 DEF OthersKept
<1> QED BY <1>6, <1>7, <1>8 DEF ObjInv

LEMMA StepOne ==
  ASSUME ObjInv, NEW d \in Name, NEW o, objs' = [objs EXCEPT ![d] = o], MemTyped',
         Shape(o), AllBacked(mem', o),
         \A b \in Uses(o) : mem[b] = Nothing \/ b \in Uses(objs[d]),
         \A b \in Block : mem[b] # Nothing /\ b \notin Uses(objs[d]) => mem'[b] = mem[b]
  PROVE  ObjInv' /\ OthersKept({d})
<1>1. DOMAIN objs = Name
  BY DEF ObjInv
<1>2. /\ objs' = [x \in Name |-> objs'[x]] /\ objs'[d] = o
      /\ \A x \in Name \ {d} : objs'[x] = objs[x]
  BY <1>1
<1> QED BY <1>2, LocalStep

-----------------------------------------------------------------------------
(* Memory.                                                                 *)
LEMMA LeastOf ==
  ASSUME NEW T \in SUBSET Nat, T # {}
  PROVE  \E x \in T : \A y \in T : x <= y
<1> DEFINE R == {ss \in Nat \X Nat : ss[1] < ss[2]}
<1>1. IsWellFoundedOn(R, Nat)
  BY NatLessThanWellFounded, Zenon DEF OpToRel
<1>2. \A x, y \in Nat : y < x => <<y, x>> \in R
  OBVIOUS
<1> HIDE DEF R
<1>3. PICK x \in T : \A y \in T : ~(<<y, x>> \in R)
  BY <1>1, WFMin
<1>4. \A y \in T : ~(y < x)
  BY <1>2, <1>3, Zenon
<1> QED BY <1>4

LEMMA MallocFree ==
  ASSUME NEW m, IsFree(m) # {}
  PROVE  Malloc(m) \in Block /\ m[Malloc(m)] = Nothing
<1>1. \E b \in IsFree(m) : \A c \in IsFree(m) : b <= c
  BY ObjectAssumption, LeastOf DEF IsFree
<1>2. Malloc(m) \in IsFree(m)
  BY <1>1 DEF Malloc
<1> QED BY <1>2 DEF IsFree

(* What Without leaves.                                                    *)
LEMMA WithoutIs ==
  ASSUME MemTyped, NEW blocks
  PROVE  /\ Without(blocks) \in [Block -> Leaf \cup {Nothing} \cup Pieces]
         /\ \A b \in Block : Without(blocks)[b] = IF b \in blocks THEN Nothing ELSE mem[b]
BY DEF Without, MemTyped

LEMMA ClearStep ==
  ASSUME ObjInv, NEW d \in Name, NEW o, Bare(o),
         objs' = [objs EXCEPT ![d] = o], mem' = Without(Owned(objs[d]))
  PROVE  ObjInv' /\ OthersKept({d})
<1>1. MemTyped' /\ \A b \in Block : mem'[b] = IF b \in Owned(objs[d]) THEN Nothing ELSE mem[b]
  BY WithoutIs DEF ObjInv, MemTyped
<1>2. Shape(o) /\ Uses(o) = {} /\ AllBacked(mem', o)
  BY BareShape
<1>3. \A b \in Block : b \notin Uses(objs[d]) => mem'[b] = mem[b]
  BY <1>1, OwnedUsed
<1> QED BY <1>1, <1>2, <1>3, StepOne

(* What d had is destroyed, and it gets a new buffer with v in it.         *)
LEMMA FillStep ==
  ASSUME ObjInv, NEW d \in Name, NEW o, NEW b, NEW m, NEW v \in Leaf \cup Pieces,
         m = Without(Owned(objs[d])), IsFree(m) # {}, b = Malloc(m),
         Filled(o), o.buf.block = b,
         (v \in Leaf /\ o.hdr.type = "leaf") \/ (v \in Pieces /\ o.hdr.type = "container"),
         objs' = [objs EXCEPT ![d] = o], mem' = [m EXCEPT ![b] = v]
  PROVE  ObjInv' /\ OthersKept({d})
<1>1. /\ m \in [Block -> Leaf \cup {Nothing} \cup Pieces]
      /\ \A c \in Block : m[c] = IF c \in Owned(objs[d]) THEN Nothing ELSE mem[c]
  BY WithoutIs DEF ObjInv
<1>2. b \in Block /\ m[b] = Nothing
  BY MallocFree
<1>3. MemTyped' /\ mem'[b] = v /\ \A c \in Block \ {b} : mem'[c] = m[c]
  BY <1>1, <1>2 DEF MemTyped
<1>4. Shape(o) /\ Uses(o) = {b} /\ (AllBacked(mem', o) <=> Backed(mem', o))
  BY FilledShape
<1>5. Backed(mem', o)
  BY <1>3 DEF Backed, Filled
<1>6. mem[b] = Nothing \/ b \in Uses(objs[d])
  BY <1>1, <1>2, OwnedUsed
<1>7. \A c \in Block : mem[c] # Nothing /\ c \notin Uses(objs[d]) => mem'[c] = mem[c]
  BY <1>1, <1>2, <1>3, OwnedUsed
<1> QED BY <1>3, <1>4, <1>5, <1>6, <1>7, StepOne

LEMMA AllocatedIs ==
  ASSUME NEW o, Typed(o), NEW b, NEW z
  PROVE  Allocated(o, b, z) \in
           Fields(o.state, o.kind, o.hdr, [block |-> b, piece |-> 0], TRUE, z, o.map)
BY TypedFields DEF Allocated, Fields

LEMMA SingleIs ==
  ASSUME NEW o, Typed(o), NEW b, NEW k
  PROVE  Single(o, b, k) \in Fields(o.state, "OneObjectInDataBuf", [key |-> k, type |-> "leaf"],
                                    [block |-> b, piece |-> 0], TRUE, 1, o.map)
<1>1. Allocated(o, b, 1) \in
        Fields(o.state, o.kind, o.hdr, [block |-> b, piece |-> 0], TRUE, 1, o.map)
  BY AllocatedIs
<1> QED BY <1>1 DEF Single, Fields

(* What is a single object with its own buffer.                            *)
LEMMA SingleFilled ==
  ASSUME NEW o, Typed(o), o.state = "Ready", o.map = << >>, NEW b \in Block, NEW k \in Nat
  PROVE  /\ Filled(Single(o, b, k)) /\ IsLeaf(Single(o, b, k))
         /\ Single(o, b, k).buf.block = b /\ Single(o, b, k).hdr.type = "leaf"
         /\ Single(o, b, k).hdr.key = k /\ Single(o, b, k).alloc
<1> DEFINE h == [key |-> k, type |-> "leaf"]
           p == [block |-> b, piece |-> 0]
           s == Single(o, b, k)
<1>1. s \in Fields("Ready", "OneObjectInDataBuf", h, p, TRUE, 1, << >>)
  BY SingleIs
<1>2. h \in [key : Nat, type : Types] /\ h.type = "leaf" /\ h.key = k
  BY DEF Types
<1>3. p \in Places /\ p.block = b /\ p # Nothing
  BY WireAssumption DEF Places
<1> HIDE DEF h, p, s
<1>4. /\ s.state = "Ready" /\ s.kind = "OneObjectInDataBuf" /\ s.hdr = h /\ s.buf = p
      /\ s.bufSize = 1 /\ s.map = << >>
  BY <1>1 DEF Fields
<1>5. s.alloc
  BY <1>1 DEF Fields
<1>6. Typed(s)
  <2>1. /\ "Ready" \in {"Ready", "Error"} /\ "OneObjectInDataBuf" \in Kinds
        /\ p \in Places \cup {Nothing} /\ 1 \in Nat
    BY <1>3 DEF Kinds
  <2> QED BY <1>1, <1>2, <2>1, FieldsTyped, Zenon
<1>7. Filled(s)
  BY <1>2, <1>3, <1>4, <1>5, <1>6 DEF Filled
<1>8. IsLeaf(s)
  BY <1>2, <1>3, <1>4, <1>5, <1>6 DEF IsLeaf
<1> QED BY <1>2, <1>3, <1>4, <1>5, <1>7, <1>8 DEF s

LEMMA ShapeAt ==
  ASSUME ObjInv, NEW d \in Name
  PROVE  Shape(objs[d]) /\ AllBacked(mem, objs[d])
BY DEF ObjInv

LEMMA InitOneInv ==
  ASSUME ObjInv, NEW d \in Name, NEW k \in Key, NEW v \in Written, InitOne(d, k, v)
  PROVE  ObjInv' /\ OthersKept({d})
<1> DEFINE m == Without(Owned(objs[d]))
           o == Cleared(objs[d])
           s == Single(o, Malloc(m), k)
<1>1. Bare(o) /\ Typed(o) /\ o.state = "Ready" /\ o.map = << >>
  <2>1. o \in Fields("Ready", "DsonContainer", objs[d].hdr, Nothing, FALSE, 0, << >>) /\ Bare(o)
    BY ShapeAt, ClearedIs
  <2> HIDE DEF o
  <2> QED BY <2>1 DEF Bare, Fields
<1>2. CASE IsFree(m) = {}
  <2>1. objs' = [objs EXCEPT ![d] = o] /\ mem' = m
    BY <1>2 DEF InitOne
  <2> HIDE DEF o
  <2> QED BY <1>1, <2>1, ClearStep
<1>3. CASE IsFree(m) # {}
  <2>1. objs' = [objs EXCEPT ![d] = s] /\ mem' = [m EXCEPT ![Malloc(m)] = v]
    BY <1>3 DEF InitOne
  <2>2. Malloc(m) \in Block /\ k \in Nat /\ v \in Leaf
    BY <1>3, MallocFree, ObjectAssumption
  <2> HIDE DEF o
  <2>3. Filled(s) /\ s.buf.block = Malloc(m) /\ s.hdr.type = "leaf"
    BY <1>1, <2>2, SingleFilled
  <2> HIDE DEF s
  <2> QED BY <1>3, <2>1, <2>2, <2>3, FillStep
<1> QED BY <1>2, <1>3

LEMMA WireIs ==
  ASSUME NEW w \in Wires
  PROVE  /\ w.key \in Nat /\ w.type \in {"leaf", "container"}
         /\ w.type = "leaf" => w.data \in Leaf /\ w.key \in Key
         /\ w.type = "container" => w.data \in Pieces
BY WireAssumption, ObjectAssumption DEF LeafWire, Pieces

LEMMA LoadInv ==
  ASSUME ObjInv, NEW d \in Name, NEW w \in Wires, Load(d, w)
  PROVE  ObjInv' /\ OthersKept({d})
<1> DEFINE m == Without(Owned(objs[d]))
           c == Cleared(objs[d])
           o == [c EXCEPT !.hdr = Header(w), !.kind = "DataBufNeedParse"]
           a == Allocated(o, Malloc(m), DataSize(w))
           p == [block |-> Malloc(m), piece |-> 0]
<1>1. c \in Fields("Ready", "DsonContainer", objs[d].hdr, Nothing, FALSE, 0, << >>)
  BY ShapeAt, ClearedIs
<1>2. o \in Fields("Ready", "DataBufNeedParse", Header(w), Nothing, FALSE, 0, << >>)
  <2> HIDE DEF c
  <2> QED BY <1>1 DEF Fields
<1>3. /\ Header(w) \in [key : Nat, type : Types]
      /\ Header(w).type = w.type /\ w.type \in {"leaf", "container"}
  BY WireIs DEF Header, Types
<1>4. CASE DataSize(w) = 0
  <2> DEFINE e == [o EXCEPT !.kind = "DsonContainer"]
  <2>1. objs' = [objs EXCEPT ![d] = e] /\ mem' = m
    BY <1>4 DEF Load
  <2>2. e \in Fields("Ready", "DsonContainer", Header(w), Nothing, FALSE, 0, << >>)
    <3> HIDE DEF o
    <3> QED BY <1>2 DEF Fields
  <2> HIDE DEF e
  <2>3. Typed(e)
    <3>1. /\ "Ready" \in {"Ready", "Error"} /\ "DsonContainer" \in Kinds
          /\ Nothing \in Places \cup {Nothing} /\ 0 \in Nat
      BY DEF Kinds
    <3> QED BY <1>3, <2>2, <3>1, FieldsTyped, Zenon
  <2>4. Bare(e)
    BY <2>2, <2>3 DEF Bare, Fields
  <2> QED BY <2>1, <2>4, ClearStep
<1>5. CASE DataSize(w) # 0 /\ IsFree(m) = {}
  <2> DEFINE e == [o EXCEPT !.state = "Error"]
  <2>1. objs' = [objs EXCEPT ![d] = e] /\ mem' = m
    BY <1>5 DEF Load
  <2>2. e \in Fields("Error", "DataBufNeedParse", Header(w), Nothing, FALSE, 0, << >>)
    <3> HIDE DEF o
    <3> QED BY <1>2 DEF Fields
  <2> HIDE DEF e
  <2>3. Typed(e)
    <3>1. /\ "Error" \in {"Ready", "Error"} /\ "DataBufNeedParse" \in Kinds
          /\ Nothing \in Places \cup {Nothing} /\ 0 \in Nat
      BY DEF Kinds
    <3> QED BY <1>3, <2>2, <3>1, FieldsTyped, Zenon
  <2>4. Bare(e)
    BY <2>2, <2>3 DEF Bare, Fields
  <2> QED BY <2>1, <2>4, ClearStep
<1>6. CASE DataSize(w) # 0 /\ IsFree(m) # {}
  <2>1. objs' = [objs EXCEPT ![d] = a] /\ mem' = [m EXCEPT ![Malloc(m)] = w.data] /\ DataSize(w) > 0
    BY <1>6 DEF Load
  <2>2. DataSize(w) \in Nat
    <3>1. w.type = "container" => Len(w.data) \in Nat
      BY WireIs, LenProperties DEF Pieces
    <3> QED BY <1>3, <3>1 DEF DataSize
  <2>3. Malloc(m) \in Block
    BY <1>6, MallocFree
  <2>4. p \in Places /\ p.block = Malloc(m) /\ p # Nothing
    BY <2>3, WireAssumption DEF Places
  <2> HIDE DEF o
  <2>5. Typed(o)
    <3>1. /\ "Ready" \in {"Ready", "Error"} /\ "DataBufNeedParse" \in Kinds
          /\ Nothing \in Places \cup {Nothing} /\ 0 \in Nat
      BY DEF Kinds
    <3> QED BY <1>2, <1>3, <3>1, FieldsTyped, Zenon
  <2>6. a \in Fields(o.state, o.kind, o.hdr, p, TRUE, DataSize(w), o.map)
    BY <2>5, AllocatedIs
  <2>7. a \in Fields("Ready", "DataBufNeedParse", Header(w), p, TRUE, DataSize(w), << >>)
    <3>1. o.state = "Ready" /\ o.kind = "DataBufNeedParse" /\ o.hdr = Header(w) /\ o.map = << >>
      BY <1>2 DEF Fields
    <3> QED BY <2>6, <3>1
  <2> HIDE DEF a, p
  <2>8. Typed(a)
    <3>1. /\ "Ready" \in {"Ready", "Error"} /\ "DataBufNeedParse" \in Kinds
          /\ p \in Places \cup {Nothing}
      BY <2>4 DEF Kinds
    <3> QED BY <1>3, <2>2, <2>7, <3>1, FieldsTyped, Zenon
  <2>9. Filled(a) /\ a.buf.block = Malloc(m) /\ a.hdr.type = w.type
    <3>1. /\ a.state = "Ready" /\ a.kind = "DataBufNeedParse" /\ a.hdr = Header(w) /\ a.buf = p
          /\ a.bufSize = DataSize(w) /\ a.map = << >>
      BY <2>7 DEF Fields
    <3>2. a.alloc
      BY <2>7 DEF Fields
    <3> QED BY <1>3, <2>1, <2>4, <2>8, <3>1, <3>2 DEF Filled
  <2>10. /\ w.data \in Leaf \cup Pieces
         /\ \/ w.data \in Leaf /\ a.hdr.type = "leaf"
            \/ w.data \in Pieces /\ a.hdr.type = "container"
    BY <1>3, <2>9, WireIs
  <2> QED BY <1>6, <2>1, <2>9, <2>10, FillStep
<1> QED BY <1>4, <1>5, <1>6

LEMMA ClearInv ==
  ASSUME ObjInv, NEW d \in Name, Clear(d)
  PROVE  ObjInv' /\ OthersKept({d})
<1>1. Bare(Cleared(objs[d]))
  BY ShapeAt, ClearedIs
<1> QED BY <1>1, ClearStep DEF Clear

-----------------------------------------------------------------------------
(* Moves.                                                                  *)
LEMMA LeftIs ==
  ASSUME NEW to, NEW from, Typed(from)
  PROVE  Left(to, from) \in
           Fields("Error", from.kind, from.hdr, Nothing, from.alloc, from.bufSize, to.map)
<1>1. from \in Fields(from.state, from.kind, from.hdr, from.buf, from.alloc, from.bufSize, from.map)
  BY TypedFields
<1>2. PICK m : m = to.map
  OBVIOUS
<1>3. PICK a : a = from.alloc
  OBVIOUS
<1> QED BY <1>1, <1>2, <1>3 DEF Left, Fields

(* The source of a move is in Error, with the map of the target, and uses  *)
(* no more than that did.                                                  *)
LEMMA LeftShape ==
  ASSUME NEW to, NEW from, Shape(to), Shape(from), NEW m, AllBacked(m, to)
  PROVE  /\ Shape(Left(to, from)) /\ AllBacked(m, Left(to, from))
         /\ Uses(Left(to, from)) \subseteq Uses(to)
<1> DEFINE l == Left(to, from)
<1>1. l \in Fields("Error", from.kind, from.hdr, Nothing, from.alloc, from.bufSize, to.map)
  BY LeftIs DEF Shape
<1>2. /\ from.kind \in Kinds /\ from.hdr \in [key : Nat, type : Types]
      /\ from.alloc \in BOOLEAN /\ from.bufSize \in Nat
  BY DEF Shape, Typed
<1> HIDE DEF l
<1>3. Typed(l)
  <2>1. "Error" \in {"Ready", "Error"} /\ Nothing \in Places \cup {Nothing}
    OBVIOUS
  <2> QED BY <1>1, <1>2, <2>1, FieldsTyped, Zenon
<1>4. l.state = "Error" /\ l.buf = Nothing /\ l.map = to.map
  BY <1>1 DEF Fields
<1>5. \A k \in DOMAIN to.map : IsChild(to.map[k])
  BY DEF Shape
<1>6. Storage(l)
  BY <1>4 DEF Storage
<1>7. Apart(l)
  BY <1>4 DEF Shape, Apart, Owns
<1>8. Shape(l)
  BY <1>3, <1>4, <1>5, <1>6, <1>7 DEF Shape
<1>9. AllBacked(m, l)
  <2>1. \A k \in DOMAIN to.map : AllBacked(m, to.map[k])
    BY <1>5, BackedOf
  <2>2. Backed(m, l)
    BY <1>4 DEF Backed
  <2> QED BY <1>4, <1>5, <2>1, <2>2, BackedOf
<1>10. Uses(l) \subseteq Uses(to)
  BY <1>4, <1>5, UsesOf
<1> QED BY <1>8, <1>9, <1>10 DEF l

LEMMA MoveInv ==
  ASSUME ObjInv, NEW d \in Name, NEW e \in Name \ {d}, Move(d, e)
  PROVE  ObjInv' /\ OthersKept({d, e})
<1> DEFINE l == Left(objs[d], objs[e])
<1>1. DOMAIN objs = Name /\ MemTyped
  BY DEF ObjInv
<1>2. mem' = mem /\ objs' = [objs EXCEPT ![d] = objs[e], ![e] = l]
  BY DEF Move
<1> HIDE DEF l
<1>3. /\ objs' = [x \in Name |-> objs'[x]] /\ objs'[d] = objs[e] /\ objs'[e] = l
      /\ \A x \in Name \ {d, e} : objs'[x] = objs[x]
  BY <1>1, <1>2
<1>4. Shape(l) /\ AllBacked(mem, l) /\ Uses(l) \subseteq Uses(objs[d])
  BY ShapeAt, LeftShape DEF l
<1>5. Uses(objs[e]) \cap Uses(objs[d]) = {}
  BY DEF ObjInv
<1>6. MemTyped'
  BY <1>1, <1>2 DEF MemTyped
<1>7. \A x \in {d, e} : Shape(objs'[x]) /\ AllBacked(mem', objs'[x])
  BY <1>2, <1>3, <1>4, ShapeAt
<1>8. \A x \in {d, e} : \A b \in Uses(objs'[x]) : \E y \in {d, e} : b \in Uses(objs[y])
  BY <1>3, <1>4
<1>9. \A x, y \in {d, e} : x # y => Uses(objs'[x]) \cap Uses(objs'[y]) = {}
  BY <1>3, <1>4, <1>5
<1>10. {d, e} \in SUBSET Name
  OBVIOUS
<1>11. PICK S : S = {d, e}
  OBVIOUS
<1> QED BY <1>2, <1>3, <1>6, <1>7, <1>8, <1>9, <1>10, <1>11, LocalStep

-----------------------------------------------------------------------------
(* Parsing.                                                                *)
LEMMA LastIs ==
  ASSUME NEW s \in Pieces, NEW k \in Keys(s)
  PROVE  /\ LastAt(s, k) \in DOMAIN s /\ s[LastAt(s, k)].key = k
         /\ \A j \in DOMAIN s : s[j].key = k => j <= LastAt(s, k)
<1>0. PICK l : l = Len(s)
  OBVIOUS
<1>1. l \in Nat /\ DOMAIN s = 1 .. l
  BY <1>0, LenProperties DEF Pieces
<1>2. PICK i \in 1 .. l : s[i].key = k
  BY <1>1 DEF Keys
<1> DEFINE T == {n \in Nat : \A j \in 1 .. l : s[j].key = k => j <= n}
<1>3. l \in T /\ T \in SUBSET Nat
  BY <1>1
<1>4. PICK n \in T : \A y \in T : n <= y
  BY <1>3, LeastOf, Zenon
<1>5. n \in Nat /\ (\A j \in 1 .. l : s[j].key = k => j <= n) /\ i <= n
  BY <1>2, <1>4
<1>6. s[n].key = k /\ n \in 1 .. l
  <2> SUFFICES ASSUME ~(s[n].key = k /\ n \in 1 .. l) PROVE FALSE
    OBVIOUS
  <2>1. \A j \in 1 .. l : s[j].key = k => j <= n - 1
    BY <1>1, <1>5
  <2>2. n - 1 \in Nat
    BY <1>2, <1>5
  <2>3. n - 1 \in T
    BY <2>1, <2>2
  <2>4. n <= n - 1
    BY <1>4, <2>3
  <2> QED BY <1>5, <2>4
<1> HIDE DEF T
<1>7. \E x \in DOMAIN s : /\ s[x].key = k
                          /\ \A j \in DOMAIN s : s[j].key = k => j <= x
  BY <1>1, <1>5, <1>6
<1> QED BY <1>7 DEF LastAt

LEMMA ViewIs ==
  ASSUME NEW b \in Block, NEW i \in Nat
  PROVE  /\ IsLeaf(View(b, i)) /\ IsView(View(b, i)) /\ Owned(View(b, i)) = {}
         /\ View(b, i).buf.block = b /\ View(b, i).buf.piece = i
<1> DEFINE v == View(b, i)
           h == [key |-> 0, type |-> "Empty"]
           p == [block |-> b, piece |-> i]
<1>1. v \in Fields("Ready", "OneObjectInDataBuf", h, p, FALSE, 0, << >>)
  BY DEF View, Fresh, Fields
<1>2. h \in [key : Nat, type : Types]
  BY DEF Types
<1>3. p \in Places /\ p # Nothing /\ p.block = b /\ p.piece = i
  BY WireAssumption DEF Places
<1> HIDE DEF v, h, p
<1>4. /\ v.state = "Ready" /\ v.kind = "OneObjectInDataBuf" /\ v.buf = p
      /\ v.bufSize = 0 /\ v.map = << >>
  BY <1>1 DEF Fields
<1>5. ~v.alloc
  BY <1>1 DEF Fields
<1>6. Typed(v)
  <2>1. /\ "Ready" \in {"Ready", "Error"} /\ "OneObjectInDataBuf" \in Kinds
        /\ p \in Places \cup {Nothing} /\ 0 \in Nat
    BY <1>3 DEF Kinds
  <2> QED BY <1>1, <1>2, <2>1, FieldsTyped, Zenon
<1>7. IsLeaf(v) /\ IsView(v)
  BY <1>3, <1>4, <1>5, <1>6 DEF IsLeaf, IsView
<1>8. Owned(v) = {}
  BY <1>4, <1>5, SingleParts DEF Owns
<1> QED BY <1>3, <1>4, <1>7, <1>8 DEF v

(* The map that parsing makes of the pieces in block b.                    *)
Parse(b, s) == Over(Views(b, s), << >>)

LEMMA ParseIs ==
  ASSUME NEW s \in Pieces, NEW b \in Block
  PROVE  /\ DOMAIN Parse(b, s) = Keys(s)
         /\ \A k \in Keys(s) : Parse(b, s)[k] = View(b, LastAt(s, k))
BY EmptyMap DEF Parse, Over, Views

LEMMA ParseViews ==
  ASSUME NEW s \in Pieces, NEW b \in Block, NEW m, m[b] = s, NEW k \in DOMAIN Parse(b, s), NEW v,
         v = Parse(b, s)[k]
  PROVE  /\ IsLeaf(v) /\ IsView(v) /\ Owned(v) = {} /\ v.buf.block = b
         /\ v.buf.piece = LastAt(s, k) /\ k \in Keys(s)
         /\ Uses(v) = {b} /\ AllBacked(m, v)
<1>1. k \in Keys(s) /\ v = View(b, LastAt(s, k))
  BY ParseIs
<1>2. LastAt(s, k) \in DOMAIN s
  BY <1>1, LastIs
<1>3. LastAt(s, k) \in Nat
  <2>1. DOMAIN s = 1 .. Len(s) /\ Len(s) \in Nat
    BY LenProperties DEF Pieces
  <2> QED BY <1>2, <2>1
<1>4. IsLeaf(v) /\ IsView(v) /\ Owned(v) = {} /\ v.buf.block = b /\ v.buf.piece = LastAt(s, k)
  BY <1>1, <1>3, ViewIs
<1>5. v.map = << >> /\ v.buf # Nothing /\ ~v.alloc
  BY <1>4 DEF IsLeaf, IsView
<1>6. Uses(v) = {b}
  BY <1>4, <1>5, SingleParts
<1>7. Backed(m, v)
  BY <1>2, <1>4, <1>5 DEF Backed
<1> QED BY <1>1, <1>4, <1>5, <1>6, <1>7, SingleParts

LEMMA HeaderOwn ==
  ASSUME NEW o, Storage(o)
  PROVE  /\ HeaderOf(o) = o.hdr
         /\ TypeOf(o) = IF o.state = "Error" THEN "Empty" ELSE o.hdr.type
BY DEF Storage, HeaderOf, TypeOf

LEMMA ParsedSingle ==
  ASSUME NEW o, Typed(o), Storage(o), o.state = "Error" \/ o.hdr.type # "container"
  PROVE  Parsed(o) \in
           Fields(o.state, "OneObjectInDataBuf", o.hdr, o.buf, o.alloc, o.bufSize, o.map)
<1>1. TypeOf(o) # "container"
  BY HeaderOwn
<1>2. Parsed(o) = [o EXCEPT !.kind = "OneObjectInDataBuf"]
  BY <1>1 DEF Parsed
<1>3. o \in Fields(o.state, o.kind, o.hdr, o.buf, o.alloc, o.bufSize, o.map)
  BY TypedFields
<1> QED BY <1>2, <1>3 DEF Fields

LEMMA ParsedContainer ==
  ASSUME NEW o, Typed(o), Storage(o), o.kind = "DataBufNeedParse",
         o.state = "Ready", o.hdr.type = "container"
  PROVE  Parsed(o) \in Fields("Ready", "DsonContainer", o.hdr, o.buf, o.alloc, o.bufSize,
                              Parse(o.buf.block, mem[o.buf.block]))
<1>1. TypeOf(o) = "container" /\ o.buf # Nothing /\ o.alloc /\ o.map = << >>
  BY HeaderOwn DEF Storage
<1>2. DataOf(o) = mem[o.buf.block]
  BY <1>1 DEF DataOf
<1>3. PICK f : f = Parse(o.buf.block, mem[o.buf.block])
  OBVIOUS
<1>4. Over(Views(o.buf.block, DataOf(o)), o.map) = f
  BY <1>1, <1>2, <1>3 DEF Parse
<1>5. Parsed(o) = [o EXCEPT !.kind = "DsonContainer", !.map = f]
  BY <1>1, <1>4 DEF Parsed
<1>6. o \in Fields(o.state, o.kind, o.hdr, o.buf, o.alloc, o.bufSize, o.map)
  BY TypedFields
<1>7. PICK a : a = o.alloc
  OBVIOUS
<1>8. Parsed(o) \in Fields("Ready", "DsonContainer", o.hdr, o.buf, o.alloc, o.bufSize, f)
  BY <1>5, <1>6, <1>7 DEF Fields
<1> QED BY <1>3, <1>8

(* A parsed container has the views of its own buffer in its map, and      *)
(* nothing else.                                                           *)
LEMMA ParsedBox ==
  ASSUME NEW o, Typed(o), Storage(o), o.kind = "DataBufNeedParse", Backed(mem, o),
         o.state = "Ready", o.hdr.type = "container"
  PROVE  /\ IsBox(Parsed(o)) /\ AllBacked(mem, Parsed(o))
         /\ Uses(Parsed(o)) = {o.buf.block} /\ Uses(o) = {o.buf.block}
         /\ Owned(Parsed(o)) = Owned(o) /\ Parsed(o).hdr = o.hdr
<1> DEFINE p == Parsed(o)
<1>1. PICK b, s, f : b = o.buf.block /\ s = mem[b] /\ f = Parse(b, s)
  OBVIOUS
<1>2. p \in Fields("Ready", "DsonContainer", o.hdr, o.buf, o.alloc, o.bufSize, f)
  BY <1>1, ParsedContainer
<1>3. /\ o.hdr \in [key : Nat, type : Types] /\ o.buf \in Places \cup {Nothing}
      /\ o.alloc \in BOOLEAN /\ o.bufSize \in Nat
  BY DEF Typed
<1>4. o.buf # Nothing /\ o.alloc /\ o.map = << >> /\ b \in Block /\ o.bufSize > 0
  BY <1>1, TypedBlock DEF Storage
<1> HIDE DEF p
<1>5. /\ p.state = "Ready" /\ p.kind = "DsonContainer" /\ p.hdr = o.hdr /\ p.buf = o.buf
      /\ p.alloc = o.alloc /\ p.bufSize = o.bufSize /\ p.map = f
  BY <1>2, FieldsOf
<1>6. Typed(p)
  <2>1. "Ready" \in {"Ready", "Error"} /\ "DsonContainer" \in Kinds
    BY DEF Kinds
  <2> QED BY <1>2, <1>3, <2>1, FieldsTyped, Zenon
<1>7. s \in Pieces
  BY <1>1, <1>4 DEF Backed
<1>8. \A k \in DOMAIN f : /\ IsLeaf(f[k]) /\ IsView(f[k]) /\ Owned(f[k]) = {}
                          /\ f[k].buf.block = b /\ Uses(f[k]) = {b} /\ AllBacked(mem, f[k])
  BY <1>1, <1>4, <1>7, ParseViews
<1>9. Storage(p)
  BY <1>4, <1>5 DEF Storage
<1>10. ViewsOwn(p) /\ Apart(p)
  BY <1>1, <1>4, <1>5, <1>8 DEF ViewsOwn, Apart
<1>11. IsBox(p)
  BY <1>5, <1>6, <1>8, <1>9, <1>10 DEF IsBox
<1>12. \A k \in DOMAIN p.map : IsChild(p.map[k])
  BY <1>11, BoxKids
<1>13. AllBacked(mem, p)
  <2>1. Backed(mem, p)
    BY <1>5 DEF Backed
  <2> QED BY <1>5, <1>8, <1>12, <2>1, BackedOf
<1>14. Uses(p) = {b}
  BY <1>1, <1>4, <1>5, <1>8, <1>12, UsesOf
<1>15. Uses(o) = {b}
  BY <1>1, <1>4, SingleParts
<1>16. Owned(p) = Owned(o)
  <2>1. \A c : Owns(p, c) <=> Owns(o, c)
    BY <1>5 DEF Owns
  <2>2. \A c : c \in Owned(p) <=> c \in Block /\ Owns(p, c)
    BY <1>5, <1>8, <1>12, OwnedOf
  <2>3. \A c : c \in Owned(o) <=> c \in Block /\ Owns(o, c)
    BY <1>4, SingleParts
  <2> QED BY <2>1, <2>2, <2>3
<1> QED BY <1>1, <1>5, <1>11, <1>13, <1>14, <1>15, <1>16 DEF p

(* get() parses first; that changes nothing of what is used.               *)
LEMMA OpenedShape ==
  ASSUME NEW o, Shape(o), AllBacked(mem, o)
  PROVE  /\ Shape(Opened(o)) /\ AllBacked(mem, Opened(o))
         /\ Uses(Opened(o)) = Uses(o) /\ Owned(Opened(o)) = Owned(o)
         /\ Opened(o).state = o.state /\ Opened(o).kind # "DataBufNeedParse"
<1>0. Typed(o) /\ Storage(o) /\ Backed(mem, o) /\ \A k \in DOMAIN o.map : IsChild(o.map[k])
  BY BackedOf DEF Shape
<1>1. CASE o.kind # "DataBufNeedParse"
  BY <1>1 DEF Opened
<1>2. CASE o.kind = "DataBufNeedParse" /\ o.state = "Ready" /\ o.hdr.type = "container"
  <2> DEFINE p == Parsed(o)
  <2>1. Opened(o) = p
    BY <1>2 DEF Opened
  <2>2. IsBox(p) /\ AllBacked(mem, p) /\ Uses(p) = Uses(o) /\ Owned(p) = Owned(o)
    BY <1>0, <1>2, ParsedBox
  <2> HIDE DEF p
  <2>3. p.kind = "DsonContainer" /\ p.state = "Ready"
    BY <1>0, <1>2, ParsedContainer DEF p, Fields
  <2>4. Shape(p)
    BY <2>2, BoxKids DEF IsBox, Shape
  <2> QED BY <1>2, <2>1, <2>2, <2>3, <2>4
<1>3. CASE o.kind = "DataBufNeedParse" /\ (o.state = "Error" \/ o.hdr.type # "container")
  <2> DEFINE p == Parsed(o)
  <2>1. Opened(o) = p
    BY <1>3 DEF Opened
  <2>2. p \in Fields(o.state, "OneObjectInDataBuf", o.hdr, o.buf, o.alloc, o.bufSize, o.map)
    BY <1>0, <1>3, ParsedSingle
  <2> HIDE DEF p
  <2>3. /\ p.state = o.state /\ p.kind = "OneObjectInDataBuf" /\ p.hdr = o.hdr /\ p.buf = o.buf
        /\ p.alloc = o.alloc /\ p.bufSize = o.bufSize /\ p.map = o.map
    BY <2>2, FieldsOf
  <2>4. Typed(p)
    <3>1. /\ o.state \in {"Ready", "Error"} /\ "OneObjectInDataBuf" \in Kinds
          /\ o.hdr \in [key : Nat, type : Types] /\ o.buf \in Places \cup {Nothing}
          /\ o.alloc \in BOOLEAN /\ o.bufSize \in Nat
      BY <1>0 DEF Typed, Kinds
    <3> QED BY <2>2, <3>1, FieldsTyped, Zenon
  <2>5. Storage(p)
    BY <1>0, <1>3, <2>3 DEF Storage
  <2>6. \A b : Owns(p, b) <=> Owns(o, b)
    BY <2>3 DEF Owns
  <2>7. Shape(p)
    <3>1. Apart(p) /\ (p.state = "Ready" => ViewsOwn(p))
      BY <2>3, <2>6 DEF Shape, Apart, ViewsOwn
    <3> QED BY <1>0, <2>3, <2>4, <2>5, <3>1 DEF Shape
  <2>12. \A k \in DOMAIN p.map : IsChild(p.map[k])
    BY <2>7 DEF Shape
  <2>8. Uses(p) = Uses(o)
    <3>1. \A b : b \in Uses(p) <=> b \in Uses(o)
      BY <1>0, <2>3, <2>12, UsesOf
    <3> QED BY <3>1
  <2>9. Owned(p) = Owned(o)
    <3>1. \A b : b \in Owned(p) <=> b \in Owned(o)
      BY <1>0, <2>3, <2>6, <2>12, OwnedOf
    <3> QED BY <3>1
  <2>10. Backed(mem, p)
    BY <1>0, <2>3 DEF Backed
  <2>11. AllBacked(mem, p)
    BY <1>0, <2>3, <2>10, BackedOf
  <2> QED BY <2>1, <2>3, <2>7, <2>8, <2>9, <2>11
<1> QED BY <1>0, <1>1, <1>2, <1>3 DEF Typed

LEMMA GetInv ==
  ASSUME ObjInv, NEW d \in Name, NEW k, Get(d, k)
  PROVE  ObjInv' /\ OthersKept({d})
<1>1. objs' = [objs EXCEPT ![d] = Opened(objs[d])] /\ mem' = mem
  BY DEF Get
<1>2. /\ Shape(Opened(objs[d])) /\ AllBacked(mem, Opened(objs[d]))
      /\ Uses(Opened(objs[d])) = Uses(objs[d])
  BY ShapeAt, OpenedShape
<1>3. MemTyped'
  BY <1>1 DEF ObjInv, MemTyped
<1> QED BY <1>1, <1>2, <1>3, StepOne

(* What a view looks at is the piece it was made for.                      *)
LEMMA ViewAt ==
  ASSUME NEW v, IsView(v), Backed(mem, v)
  PROVE  /\ At(v.buf) = mem[v.buf.block][v.buf.piece]
         /\ At(v.buf) \in LeafWire /\ At(v.buf) # NoWire
<1>1. PICK s, i : s = mem[v.buf.block] /\ i = v.buf.piece
  OBVIOUS
<1>2. s \in Pieces /\ i \in DOMAIN s
  BY <1>1 DEF IsView, Backed
<1>3. i \in 1 .. Len(s) /\ Len(s) \in Nat
  BY <1>2, LenProperties DEF Pieces
<1>4. s[i] \in LeafWire
  BY <1>2, <1>3, ElementOfSeq DEF Pieces
<1>5. s \notin Leaf \cup {Nothing}
  BY <1>2, WireAssumption DEF Pieces
<1>6. i # 0 /\ ~(i > Len(s))
  BY <1>3
<1>7. At(v.buf) = s[i]
  BY <1>1, <1>5, <1>6 DEF At
<1>8. s[i].key # 0
  BY <1>4, ObjectAssumption DEF LeafWire
<1>9. NoWire.key = 0
  BY DEF NoWire, Wire
<1> QED BY <1>1, <1>4, <1>7, <1>8, <1>9

LEMMA LeafType ==
  ASSUME NEW c, IsLeaf(c), Backed(mem, c)
  PROVE  TypeOf(c) = "leaf"
<1>1. CASE c.alloc
  BY <1>1 DEF IsLeaf, TypeOf, HeaderOf
<1>2. CASE ~c.alloc
  <2>1. IsView(c)
    BY <1>2, WireAssumption DEF IsLeaf, IsView
  <2>2. At(c.buf).type = "leaf"
    BY <2>1, ViewAt DEF LeafWire
  <2> QED BY <1>2, <2>1, <2>2 DEF TypeOf, HeaderOf, Header, IsLeaf, IsView
<1> QED BY <1>1, <1>2

LEMMA BoxOpened ==
  ASSUME NEW c, IsBox(c), AllBacked(mem, c)
  PROVE  /\ IsBox(Opened(c)) /\ AllBacked(mem, Opened(c)) /\ Owned(Opened(c)) = Owned(c)
         /\ Opened(c).kind = "DsonContainer" /\ Opened(c).state = "Ready"
<1>0. Typed(c) /\ Storage(c) /\ c.state = "Ready" /\ Backed(mem, c)
  BY BackedOf, BoxKids DEF IsBox
<1>1. CASE c.kind = "DataBufNeedParse"
  <2>0. c.hdr.type = "container"
    BY <1>1 DEF IsBox
  <2> DEFINE p == Parsed(c)
  <2>1. Opened(c) = p
    BY <1>1 DEF Opened
  <2>2. IsBox(p) /\ AllBacked(mem, p) /\ Owned(p) = Owned(c)
    BY <1>0, <1>1, <2>0, ParsedBox
  <2>3. p \in Fields("Ready", "DsonContainer", c.hdr, c.buf, c.alloc, c.bufSize,
                     Parse(c.buf.block, mem[c.buf.block]))
    BY <1>0, <1>1, <2>0, ParsedContainer
  <2> HIDE DEF p
  <2>4. p.kind = "DsonContainer" /\ p.state = "Ready"
    BY <2>3, FieldsOf
  <2> QED BY <2>1, <2>2, <2>4
<1>2. CASE c.kind # "DataBufNeedParse"
  <2>1. c.kind = "DsonContainer"
    BY <1>0, <1>2 DEF IsBox, Typed, Kinds
  <2> QED BY <1>0, <1>2, <2>1 DEF Opened
<1> QED BY <1>1, <1>2

LEMMA NoBoxView ==
  ASSUME NEW c, IsBox(c)
  PROVE  ~IsView(c)
BY DEF IsBox, Storage, IsView

LEMMA UsedInside ==
  ASSUME NEW o, \A k \in DOMAIN o.map : IsChild(o.map[k]), NEW k \in DOMAIN o.map
  PROVE  Uses(o.map[k]) \subseteq Uses(o) /\ Owned(o.map[k]) \subseteq Owned(o)
<1>1. \A b \in Uses(o.map[k]) : b \in Block
  BY DEF Uses
<1>2. \A b \in Owned(o.map[k]) : b \in Block
  BY DEF Owned
<1> QED BY <1>1, <1>2, UsesOf, OwnedOf

(* A container in a map is replaced by one that owns the same.             *)
LEMMA ReplaceChild ==
  ASSUME NEW o, Shape(o), o.state = "Ready", AllBacked(mem, o), NEW k \in DOMAIN o.map,
         NEW c, IsBox(c), AllBacked(mem, c), Owned(c) = Owned(o.map[k])
  PROVE  LET r == [o EXCEPT !.map[k] = c]
         IN  Shape(r) /\ AllBacked(mem, r) /\ Uses(r) \subseteq Uses(o)
<1> DEFINE r == [o EXCEPT !.map[k] = c]
           f == [o.map EXCEPT ![k] = c]
<1>0. o.map # << >>
  BY EmptyMap
<1>1. r \in Fields("Ready", o.kind, o.hdr, o.buf, o.alloc, o.bufSize, f)
  <2>1. o \in Fields(o.state, o.kind, o.hdr, o.buf, o.alloc, o.bufSize, o.map)
    BY TypedFields DEF Shape
  <2> HIDE DEF f
  <2>2. r = [o EXCEPT !.map = f]
    BY DEF f
  <2> HIDE DEF r
  <2> QED BY <2>1, <2>2 DEF Fields
<1>2. DOMAIN f = DOMAIN o.map /\ f[k] = c /\ \A l \in DOMAIN f : l # k => f[l] = o.map[l]
  OBVIOUS
<1> HIDE DEF r, f
<1>3. /\ r.state = "Ready" /\ r.kind = o.kind /\ r.hdr = o.hdr /\ r.buf = o.buf
      /\ r.alloc = o.alloc /\ r.bufSize = o.bufSize /\ r.map = f
  BY <1>1, FieldsOf
<1>4. Typed(r)
  <2>1. /\ "Ready" \in {"Ready", "Error"} /\ o.kind \in Kinds
        /\ o.hdr \in [key : Nat, type : Types] /\ o.buf \in Places \cup {Nothing}
        /\ o.alloc \in BOOLEAN /\ o.bufSize \in Nat
    BY DEF Typed, Shape
  <2> QED BY <1>1, <2>1, FieldsTyped, Zenon
<1>5. Storage(r)
  BY <1>0, <1>3 DEF Storage, Shape
<1>6. \A l \in DOMAIN r.map : IsChild(r.map[l])
  BY <1>2, <1>3 DEF Shape, IsChild
<1>7. \A l \in DOMAIN r.map : l \in DOMAIN o.map /\ Owned(r.map[l]) = Owned(o.map[l])
  BY <1>2, <1>3
<1>8. \A b : Owns(r, b) <=> Owns(o, b)
  BY <1>3 DEF Owns
<1>9. Apart(r)
  BY <1>7, <1>8 DEF Apart, Shape
<1>10. ViewsOwn(r)
  BY <1>2, <1>3, NoBoxView DEF ViewsOwn, Shape
<1>11. Shape(r)
  BY <1>4, <1>5, <1>6, <1>9, <1>10 DEF Shape
<1>12. AllBacked(mem, r)
  <2>1. Backed(mem, o) /\ \A l \in DOMAIN o.map : AllBacked(mem, o.map[l])
    BY BackedOf DEF Shape
  <2>2. Backed(mem, r)
    BY <1>3, <2>1 DEF Backed
  <2>3. \A l \in DOMAIN r.map : AllBacked(mem, r.map[l])
    BY <1>2, <1>3, <2>1
  <2> QED BY <1>6, <2>2, <2>3, BackedOf
<1>13. Uses(r) = Owned(r) /\ Uses(o) = Owned(o)
  BY <1>3, <1>11, ReadyUses
<1>14. Owned(r) \subseteq Owned(o)
  <2>1. \A l \in DOMAIN o.map : IsChild(o.map[l])
    BY DEF Shape
  <2> QED BY <1>6, <1>7, <1>8, <2>1, OwnedOf
<1> QED BY <1>11, <1>12, <1>13, <1>14 DEF r

LEMMA GetInInv ==
  ASSUME ObjInv, NEW d \in Name, NEW k, NEW inner, GetIn(d, k, inner)
  PROVE  ObjInv' /\ OthersKept({d})
<1> DEFINE o == Opened(objs[d])
           c == Opened(o.map[k])
           r == [o EXCEPT !.map[k] = c]
<1>1. /\ o.state = "Ready" /\ k \in DOMAIN o.map /\ TypeOf(o.map[k]) = "container"
      /\ objs' = [objs EXCEPT ![d] = r] /\ mem' = mem
  BY DEF GetIn
<1>2. Shape(o) /\ AllBacked(mem, o) /\ Uses(o) = Uses(objs[d])
  BY ShapeAt, OpenedShape
<1> HIDE DEF o
<1>3. IsChild(o.map[k]) /\ AllBacked(mem, o.map[k])
  BY <1>1, <1>2, BackedOf DEF Shape
<1>4. IsBox(o.map[k])
  <2>1. IsLeaf(o.map[k]) => TypeOf(o.map[k]) = "leaf"
    BY <1>3, LeafType, SingleParts DEF IsLeaf
  <2> QED BY <1>1, <1>3, <2>1 DEF IsChild
<1>5. IsBox(c) /\ AllBacked(mem, c) /\ Owned(c) = Owned(o.map[k])
  BY <1>3, <1>4, BoxOpened
<1> HIDE DEF c
<1>6. Shape(r) /\ AllBacked(mem, r) /\ Uses(r) \subseteq Uses(o)
  BY <1>1, <1>2, <1>5, ReplaceChild
<1> HIDE DEF r
<1>7. MemTyped'
  BY <1>1 DEF ObjInv, MemTyped
<1> QED BY <1>1, <1>2, <1>6, <1>7, StepOne

-----------------------------------------------------------------------------
(* Emplacing.                                                              *)

(* What insert_internal() puts the new object into: a container with its   *)
(* objects in its map.                                                     *)
IsOpen(u) == Shape(u) /\ u.state = "Ready" /\ u.kind = "DsonContainer"

LEMMA SingleKind ==
  ASSUME NEW o, Storage(o), o.state = "Ready"
  PROVE  IsSingle(o) <=> \/ o.kind = "OneObjectInDataBuf"
                         \/ o.kind = "DataBufNeedParse" /\ o.hdr.type # "container"
BY HeaderOwn DEF IsSingle

LEMMA ResetShape ==
  ASSUME NEW o, Shape(o), AllBacked(mem, o)
  PROVE  /\ Shape(Reset(o)) /\ AllBacked(mem, Reset(o)) /\ Reset(o).state = "Ready"
         /\ Owned(Reset(o)) \subseteq Owned(o) /\ Uses(Reset(o)) \subseteq Uses(o)
<1>1. CASE o.state = "Error"
  <2>1. Reset(o) = Cleared(o)
    BY <1>1 DEF Reset
  <2>2. Bare(Cleared(o)) /\ Cleared(o).state = "Ready"
    BY ClearedIs DEF Fields
  <2> QED BY <2>1, <2>2, BareShape
<1>2. CASE o.state # "Error"
  <2>1. o.state = "Ready"
    BY <1>2 DEF Shape, Typed
  <2> QED BY <1>2, <2>1 DEF Reset
<1> QED BY <1>1, <1>2

LEMMA UnpackedOpen ==
  ASSUME NEW q, Shape(q), AllBacked(mem, q), q.state = "Ready", ~IsSingle(q), NEW read
  PROVE  /\ IsOpen(Unpacked(q, read)) /\ AllBacked(mem, Unpacked(q, read))
         /\ Owned(Unpacked(q, read)) = Owned(q) /\ Unpacked(q, read) = Opened(q)
<1>0. Storage(q) /\ Typed(q)
  BY DEF Shape
<1>1. q.kind # "OneObjectInDataBuf"
  BY DEF IsSingle
<1>2. Unpacked(q, read) = Opened(q)
  BY <1>1 DEF Unpacked, Opened
<1>3. /\ Shape(Opened(q)) /\ AllBacked(mem, Opened(q)) /\ Owned(Opened(q)) = Owned(q)
      /\ Opened(q).state = "Ready"
  BY OpenedShape
<1>4. Opened(q).kind = "DsonContainer"
  <2>1. CASE q.kind = "DataBufNeedParse"
    <3>1. q.hdr.type = "container"
      BY <1>0, <2>1, SingleKind
    <3>2. Opened(q) \in Fields("Ready", "DsonContainer", q.hdr, q.buf, q.alloc, q.bufSize,
                               Parse(q.buf.block, mem[q.buf.block]))
      BY <1>0, <2>1, <3>1, ParsedContainer DEF Opened
    <3> QED BY <3>2, FieldsOf
  <2>2. CASE q.kind # "DataBufNeedParse"
    BY <1>0, <1>1, <2>2 DEF Typed, Kinds, Opened
  <2> QED BY <2>1, <2>2
<1> QED BY <1>2, <1>3, <1>4 DEF IsOpen

PutIn(u, k, c) == [u EXCEPT !.map = Put(@, k, c), !.hdr.type = "container"]

LEMMA PutInIs ==
  ASSUME NEW u, Typed(u), NEW k, NEW c
  PROVE  \E h \in [key : Nat, type : Types] :
           /\ h.key = u.hdr.key /\ h.type = "container"
           /\ PutIn(u, k, c) \in Fields(u.state, u.kind, h, u.buf, u.alloc, u.bufSize, Put(u.map, k, c))
<1> DEFINE h == [u.hdr EXCEPT !.type = "container"]
           f == Put(u.map, k, c)
<1>1. u.hdr \in [key : Nat, type : Types]
  BY DEF Typed
<1>2. h \in [key : Nat, type : Types] /\ h.key = u.hdr.key /\ h.type = "container"
  BY <1>1 DEF Types
<1>3. u \in Fields(u.state, u.kind, u.hdr, u.buf, u.alloc, u.bufSize, u.map)
  BY TypedFields
<1>4. PutIn(u, k, c) = [u EXCEPT !.map = f, !.hdr = h]
  BY <1>3 DEF PutIn, Fields
<1> HIDE DEF f, h
<1>5. PICK a : a = u.alloc
  OBVIOUS
<1>6. PutIn(u, k, c) \in Fields(u.state, u.kind, h, u.buf, u.alloc, u.bufSize, f)
  BY <1>3, <1>4, <1>5 DEF Fields
<1> QED BY <1>2, <1>6 DEF f

(* A new object in the map replaces the one that had its key.              *)
LEMMA PutShape ==
  ASSUME NEW u, IsOpen(u), NEW k, NEW c, IsChild(c), ~IsView(c), Owned(c) \cap Owned(u) = {}
  PROVE  LET r == PutIn(u, k, c)
         IN  /\ Shape(r) /\ r.state = "Ready" /\ r.buf = u.buf /\ r.alloc = u.alloc
             /\ r.hdr.type = "container" /\ r.map = Put(u.map, k, c) /\ r.kind = "DsonContainer"
             /\ Owned(r) \subseteq Owned(u) \cup Owned(c) /\ Owned(c) \subseteq Owned(r)
<1> DEFINE r == PutIn(u, k, c)
           f == Put(u.map, k, c)
<1>0. Typed(u) /\ Storage(u) /\ (\A l \in DOMAIN u.map : IsChild(u.map[l])) /\ ViewsOwn(u) /\ Apart(u)
  BY DEF IsOpen, Shape
<1>1. PICK h \in [key : Nat, type : Types] :
        /\ h.type = "container"
        /\ r \in Fields("Ready", "DsonContainer", h, u.buf, u.alloc, u.bufSize, f)
  BY <1>0, PutInIs DEF IsOpen
<1>2. /\ DOMAIN f = DOMAIN u.map \cup {k} /\ f[k] = c
      /\ \A l \in DOMAIN u.map : l # k => f[l] = u.map[l]
  BY DEF Put, Over
<1> HIDE DEF r, f
<1>3. /\ r.state = "Ready" /\ r.kind = "DsonContainer" /\ r.hdr = h /\ r.buf = u.buf
      /\ r.alloc = u.alloc /\ r.bufSize = u.bufSize /\ r.map = f
  BY <1>1, FieldsOf
<1>4. Typed(r)
  <2>1. /\ "Ready" \in {"Ready", "Error"} /\ "DsonContainer" \in Kinds
        /\ u.buf \in Places \cup {Nothing} /\ u.alloc \in BOOLEAN /\ u.bufSize \in Nat
    BY <1>0 DEF Typed, Kinds
  <2> QED BY <1>1, <2>1, FieldsTyped, Zenon
<1>5. Storage(r)
  BY <1>0, <1>1, <1>3 DEF Storage, IsOpen
<1>6. \A l \in DOMAIN r.map : IsChild(r.map[l])
  BY <1>0, <1>2, <1>3
<1>7. \A b : Owns(r, b) <=> Owns(u, b)
  BY <1>3 DEF Owns
<1>8. \A l \in DOMAIN u.map : Owned(u.map[l]) \subseteq Owned(u)
  BY <1>0, UsedInside
<1>9. \A b \in Block : Owns(u, b) => b \in Owned(u)
  BY <1>0, OwnedOf
<1>10. ViewsOwn(r)
  BY <1>0, <1>2, <1>3 DEF ViewsOwn
<1>11. Apart(r)
  <2> SUFFICES ASSUME NEW l \in DOMAIN r.map, NEW b \in Owned(r.map[l])
               PROVE  ~Owns(r, b) /\ \A j \in DOMAIN r.map : j # l => b \notin Owned(r.map[j])
    BY DEF Apart
  <2>0. b \in Block
    BY DEF Owned
  <2>1. CASE l = k
    BY <1>2, <1>3, <1>7, <1>8, <1>9, <2>0, <2>1
  <2>2. CASE l # k
    <3>1. l \in DOMAIN u.map /\ b \in Owned(u.map[l]) /\ b \notin Owned(c)
      BY <1>2, <1>3, <1>8, <2>2
    <3>2. ~Owns(u, b) /\ \A j \in DOMAIN u.map : j # l => b \notin Owned(u.map[j])
      BY <1>0, <3>1 DEF Apart
    <3> QED BY <1>2, <1>3, <1>7, <3>1, <3>2
  <2> QED BY <2>1, <2>2
<1>12. Shape(r)
  BY <1>4, <1>5, <1>6, <1>10, <1>11 DEF Shape
<1>13. \A b : b \in Owned(r) <=> b \in Block /\ (Owns(u, b) \/ \E l \in DOMAIN f : b \in Owned(f[l]))
  BY <1>3, <1>6, <1>7, OwnedOf
<1>14. Owned(r) \subseteq Owned(u) \cup Owned(c)
  BY <1>2, <1>8, <1>9, <1>13
<1>15. Owned(c) \subseteq Owned(r)
  BY <1>2, <1>13 DEF Owned
<1> QED BY <1>1, <1>3, <1>12, <1>14, <1>15 DEF r, f

(* ... and what stays of the container is backed while nobody writes to    *)
(* what it owns.                                                           *)
LEMMA PutBacked ==
  ASSUME NEW u, IsOpen(u), NEW k, NEW c, IsChild(c), ~IsView(c), Owned(c) \cap Owned(u) = {},
         NEW m, NEW n, AllBacked(m, u), AllBacked(n, c),
         \A b \in Owned(PutIn(u, k, c)) \cap Owned(u) : n[b] = m[b]
  PROVE  AllBacked(n, PutIn(u, k, c))
<1> DEFINE r == PutIn(u, k, c)
<1>1. /\ Shape(r) /\ r.state = "Ready" /\ r.buf = u.buf /\ r.alloc = u.alloc
      /\ r.hdr.type = "container" /\ r.map = Put(u.map, k, c)
  BY PutShape
<1>2. \A b \in Owned(r) \cap Owned(u) : n[b] = m[b]
  OBVIOUS
<1> HIDE DEF r
<1>3. Uses(r) = Owned(r) /\ Uses(u) = Owned(u)
  BY <1>1, ReadyUses DEF IsOpen
<1>4. (\A l \in DOMAIN u.map : IsChild(u.map[l])) /\ \A l \in DOMAIN r.map : IsChild(r.map[l])
  BY <1>1 DEF IsOpen, Shape
<1>5. Backed(m, u) /\ \A l \in DOMAIN u.map : AllBacked(m, u.map[l])
  BY <1>4, BackedOf
<1>6. Backed(n, r)
  <2>1. CASE u.buf = Nothing
    BY <1>1, <2>1 DEF Backed
  <2>2. CASE u.buf # Nothing
    <3>1. u.hdr.type = "container" /\ u.alloc /\ u.buf.block \in Block
      BY <2>2, TypedBlock DEF IsOpen, Shape, Storage
    <3>2. u.buf.block \in Uses(u) /\ u.buf.block \in Uses(r)
      BY <1>1, <1>4, <2>2, <3>1, UsesOf
    <3>3. n[u.buf.block] = m[u.buf.block]
      BY <1>2, <1>3, <3>2
    <3> QED BY <1>1, <1>5, <2>2, <3>1, <3>3 DEF Backed
  <2> QED BY <2>1, <2>2
<1>7. ASSUME NEW l \in DOMAIN r.map PROVE AllBacked(n, r.map[l])
  <2>0. /\ DOMAIN r.map = DOMAIN u.map \cup {k} /\ r.map[k] = c
        /\ \A j \in DOMAIN u.map : j # k => r.map[j] = u.map[j]
    BY <1>1 DEF Put, Over
  <2>1. CASE l = k
    BY <2>0, <2>1
  <2>2. CASE l # k
    <3>1. l \in DOMAIN u.map /\ r.map[l] = u.map[l]
      BY <2>0, <2>2
    <3>2. Uses(u.map[l]) \subseteq Uses(u) /\ Uses(u.map[l]) \subseteq Uses(r)
      BY <1>4, <3>1, UsedInside
    <3>3. \A b \in Uses(u.map[l]) : n[b] = m[b]
      BY <1>2, <1>3, <3>2
    <3>4. AllBacked(n, u.map[l])
      BY <1>4, <1>5, <3>1, <3>3, BackedFrame, ChildTyped
    <3> QED BY <3>1, <3>4
  <2> QED BY <2>1, <2>2
<1> QED BY <1>4, <1>6, <1>7, BackedOf DEF r

LEMMA InsertedIs ==
  ASSUME NEW o, Shape(o), AllBacked(mem, o), ~IsSingle(Reset(o)), NEW read, NEW k, NEW c
  PROVE  \E u : /\ IsOpen(u) /\ AllBacked(mem, u) /\ Owned(u) \subseteq Owned(o)
                /\ Uses(u) = Owned(u)
                /\ Inserted(o, read, k, c) = PutIn(u, k, c) /\ u = Opened(Reset(o))
<1> DEFINE q == Reset(o)
           u == Unpacked(q, read)
<1>1. Shape(q) /\ AllBacked(mem, q) /\ q.state = "Ready" /\ Owned(q) \subseteq Owned(o)
  BY ResetShape
<1> HIDE DEF q
<1>2. IsOpen(u) /\ AllBacked(mem, u) /\ Owned(u) = Owned(q) /\ u = Opened(q)
  BY <1>1, UnpackedOpen DEF q
<1>3. u.state = "Ready" /\ Uses(u) = Owned(u)
  BY <1>2, ReadyUses DEF IsOpen
<1>4. Inserted(o, read, k, c) = PutIn(u, k, c)
  BY <1>3 DEF Inserted, PutIn, q
<1> QED BY <1>1, <1>2, <1>3, <1>4 DEF q

LEMMA EmplaceInv ==
  ASSUME ~AnyCall, ObjInv, NEW d \in Name, NEW k \in Key, NEW v \in Written, Emplace(d, k, v)
  PROVE  ObjInv' /\ OthersKept({d})
<1> DEFINE b == Malloc(mem)
           c == Single(Fresh, b, k)
<1>1. PICK read \in ReadKeys :
        LET o == Inserted(objs[d], read, k, c)
        IN /\ objs' = [objs EXCEPT ![d] = o]
           /\ mem' = [Without(Owned(objs[d]) \ Owned(o))
                        EXCEPT ![b] = IF b \in Owned(o) THEN v ELSE Nothing]
  BY DEF Emplace
<1>2. ~IsSingle(Reset(objs[d])) /\ IsFree(mem) # {}
  BY DEF Emplace
<1>3. b \in Block /\ mem[b] = Nothing /\ k \in Nat /\ v \in Leaf
  BY <1>2, MallocFree, ObjectAssumption
<1>4. Filled(c) /\ IsLeaf(c) /\ c.buf.block = b /\ c.hdr.type = "leaf" /\ c.alloc
  <2>1. Typed(Fresh) /\ Fresh.state = "Ready" /\ Fresh.map = << >>
    BY FreshIs DEF Bare, Fresh
  <2> QED BY <1>3, <2>1, SingleFilled
<1>5. PICK u : /\ IsOpen(u) /\ AllBacked(mem, u) /\ Owned(u) \subseteq Owned(objs[d])
               /\ Inserted(objs[d], read, k, c) = PutIn(u, k, c)
  BY <1>2, InsertedIs, ShapeAt
<1> DEFINE r == PutIn(u, k, c)
<1> HIDE DEF b, c
<1>6. Owned(c) = {b} /\ IsChild(c) /\ ~IsView(c)
  BY <1>4, FilledShape DEF IsChild, IsView
<1>7. \A x \in Uses(objs[d]) : mem[x] # Nothing
  BY ShapeAt, UsedHeld
<1>8. Owned(c) \cap Owned(u) = {}
  BY <1>3, <1>5, <1>6, <1>7, OwnedUsed
<1>9. Shape(r) /\ r.state = "Ready" /\ Owned(r) \subseteq Owned(u) \cup {b} /\ b \in Owned(r)
  BY <1>5, <1>6, <1>8, PutShape
<1> HIDE DEF r
<1>10. objs' = [objs EXCEPT ![d] = r] /\ mem' = [Without(Owned(objs[d]) \ Owned(r)) EXCEPT ![b] = v]
  BY <1>1, <1>5, <1>9 DEF r
<1>11. /\ MemTyped' /\ mem'[b] = v
       /\ \A x \in Block : x # b => mem'[x] = IF x \in Owned(objs[d]) \ Owned(r) THEN Nothing ELSE mem[x]
  <2>1. /\ Without(Owned(objs[d]) \ Owned(r)) \in [Block -> Leaf \cup {Nothing} \cup Pieces]
        /\ \A x \in Block : Without(Owned(objs[d]) \ Owned(r))[x] =
                              IF x \in Owned(objs[d]) \ Owned(r) THEN Nothing ELSE mem[x]
    BY WithoutIs DEF ObjInv
  <2>2. PICK n : n = Without(Owned(objs[d]) \ Owned(r))
    OBVIOUS
  <2> QED BY <1>3, <1>10, <2>1, <2>2 DEF MemTyped
<1>12. AllBacked(mem', c)
  <2>1. Backed(mem', c)
    BY <1>3, <1>4, <1>11 DEF Backed
  <2> QED BY <1>4, <2>1, FilledShape
<1>13. \A x \in Owned(r) \cap Owned(u) : mem'[x] = mem[x]
  <2>1. \A x \in Owned(u) : x # b /\ x \in Block
    BY <1>6, <1>8 DEF Owned
  <2> QED BY <1>11, <2>1
<1>14. AllBacked(mem', r)
  BY <1>5, <1>6, <1>8, <1>12, <1>13, PutBacked DEF r
<1>15. \A x \in Uses(r) : mem[x] = Nothing \/ x \in Uses(objs[d])
  BY <1>3, <1>5, <1>9, ReadyUses, OwnedUsed
<1>16. \A x \in Block : mem[x] # Nothing /\ x \notin Uses(objs[d]) => mem'[x] = mem[x]
  BY <1>3, <1>11, OwnedUsed
<1> QED BY <1>9, <1>10, <1>11, <1>14, <1>15, <1>16, StepOne

(* A container of leaves, under a new key.                                 *)
Rekeyed(o, k) == [o EXCEPT !.hdr.key = k]

LEMMA RekeyedIs ==
  ASSUME NEW o, Typed(o), NEW k \in Nat
  PROVE  \E h \in [key : Nat, type : Types] :
           /\ h.key = k /\ h.type = o.hdr.type
           /\ Rekeyed(o, k) \in Fields(o.state, o.kind, h, o.buf, o.alloc, o.bufSize, o.map)
<1> DEFINE h == [o.hdr EXCEPT !.key = k]
<1>1. o.hdr \in [key : Nat, type : Types]
  BY DEF Typed
<1>2. h \in [key : Nat, type : Types] /\ h.key = k /\ h.type = o.hdr.type
  BY <1>1
<1>3. o \in Fields(o.state, o.kind, o.hdr, o.buf, o.alloc, o.bufSize, o.map)
  BY TypedFields
<1>4. Rekeyed(o, k) = [o EXCEPT !.hdr = h]
  BY <1>3 DEF Rekeyed, Fields
<1> HIDE DEF h
<1>5. Rekeyed(o, k) \in Fields(o.state, o.kind, h, o.buf, o.alloc, o.bufSize, o.map)
  BY <1>3, <1>4 DEF Fields
<1> QED BY <1>2, <1>5

LEMMA RekeyedBox ==
  ASSUME NEW o, Shape(o), o.state = "Ready", ~IsSingle(o), \A c \in Children(o) : IsSingle(c),
         NEW k \in Nat, AllBacked(mem, o)
  PROVE  /\ IsBox(Rekeyed(o, k)) /\ Owned(Rekeyed(o, k)) = Owned(o)
         /\ AllBacked(mem, Rekeyed(o, k))
<1> DEFINE c == Rekeyed(o, k)
<1>0. Typed(o) /\ Storage(o) /\ (\A l \in DOMAIN o.map : IsChild(o.map[l])) /\ ViewsOwn(o) /\ Apart(o)
  BY DEF Shape
<1>1. PICK h \in [key : Nat, type : Types] :
        /\ h.type = o.hdr.type
        /\ c \in Fields(o.state, o.kind, h, o.buf, o.alloc, o.bufSize, o.map)
  BY <1>0, RekeyedIs
<1> HIDE DEF c
<1>2. /\ c.state = o.state /\ c.kind = o.kind /\ c.hdr = h /\ c.buf = o.buf
      /\ c.alloc = o.alloc /\ c.bufSize = o.bufSize /\ c.map = o.map
  BY <1>1, FieldsOf
<1>3. Typed(c)
  <2>1. /\ o.state \in {"Ready", "Error"} /\ o.kind \in Kinds
        /\ o.buf \in Places \cup {Nothing} /\ o.alloc \in BOOLEAN /\ o.bufSize \in Nat
    BY <1>0 DEF Typed
  <2> QED BY <1>1, <2>1, FieldsTyped, Zenon
<1>4. Storage(c)
  BY <1>0, <1>1, <1>2 DEF Storage
<1>5. ASSUME NEW l \in DOMAIN o.map PROVE IsLeaf(o.map[l])
  <2>1. IsSingle(o.map[l])
    BY DEF Children
  <2>2. IsBox(o.map[l]) => ~IsSingle(o.map[l])
    BY SingleKind DEF IsBox
  <2> QED BY <1>0, <2>1, <2>2 DEF IsChild
<1>6. \A b : Owns(c, b) <=> Owns(o, b)
  BY <1>2 DEF Owns
<1>7. ViewsOwn(c) /\ Apart(c)
  BY <1>0, <1>2, <1>6 DEF ViewsOwn, Apart
<1>8. o.kind # "OneObjectInDataBuf" /\ (o.kind = "DataBufNeedParse" => o.hdr.type = "container")
  BY <1>0, SingleKind
<1>9. IsBox(c)
  BY <1>1, <1>2, <1>3, <1>4, <1>5, <1>7, <1>8 DEF IsBox
<1>10. \A l \in DOMAIN c.map : IsChild(c.map[l])
  BY <1>9, BoxKids
<1>11. Owned(c) = Owned(o)
  <2>1. \A b : b \in Owned(c) <=> b \in Owned(o)
    BY <1>0, <1>2, <1>6, <1>10, OwnedOf
  <2> QED BY <2>1
<1>12. AllBacked(mem, c)
  <2>1. Backed(mem, o) /\ \A l \in DOMAIN o.map : AllBacked(mem, o.map[l])
    BY <1>0, BackedOf
  <2>2. Backed(mem, c)
    BY <1>1, <1>2, <2>1 DEF Backed
  <2> QED BY <1>2, <1>10, <2>1, <2>2, BackedOf
<1> QED BY <1>9, <1>11, <1>12 DEF c

LEMMA AdoptInv ==
  ASSUME ~AnyCall, ObjInv, NEW d \in Name, NEW k \in Key, NEW e \in Name \ {d}, Adopt(d, k, e)
  PROVE  ObjInv' /\ OthersKept({d, e})
<1> DEFINE c == Rekeyed(objs[e], k)
           l == Left(Fresh, objs[e])
<1>1. PICK read \in ReadKeys :
        LET o == Inserted(objs[d], read, k, c)
        IN /\ objs' = [objs EXCEPT ![d] = o, ![e] = l]
           /\ mem' = Without((Owned(objs[d]) \cup Owned(c)) \ Owned(o))
  BY DEF Adopt, Rekeyed
<1>2. /\ ~IsSingle(Reset(objs[d])) /\ objs[e].state = "Ready" /\ ~IsSingle(objs[e])
      /\ \A x \in Children(objs[e]) : IsSingle(x)
  BY DEF Adopt
<1>3. k \in Nat
  BY ObjectAssumption
<1>4. IsBox(c) /\ Owned(c) = Owned(objs[e]) /\ AllBacked(mem, c)
  BY <1>2, <1>3, RekeyedBox, ShapeAt
<1>5. PICK u : /\ IsOpen(u) /\ AllBacked(mem, u) /\ Owned(u) \subseteq Owned(objs[d])
               /\ Inserted(objs[d], read, k, c) = PutIn(u, k, c)
  BY <1>2, InsertedIs, ShapeAt
<1> DEFINE r == PutIn(u, k, c)
<1> HIDE DEF c
<1>6. IsChild(c) /\ ~IsView(c) /\ Uses(c) = Owned(c)
  BY <1>4, NoBoxView, BoxUses DEF IsChild
<1>7. Uses(objs[d]) \cap Uses(objs[e]) = {} /\ Uses(objs[e]) = Owned(objs[e])
  BY <1>2, ReadyUses, ShapeAt DEF ObjInv
<1>8. Owned(c) \cap Owned(u) = {}
  BY <1>4, <1>5, <1>7, OwnedUsed
<1>9. /\ Shape(r) /\ r.state = "Ready" /\ Owned(r) \subseteq Owned(u) \cup Owned(c)
      /\ Owned(c) \subseteq Owned(r)
  BY <1>5, <1>6, <1>8, PutShape
<1>10. Shape(l) /\ AllBacked(mem', l) /\ Uses(l) = {}
  <2>1. Shape(Fresh) /\ AllBacked(mem', Fresh) /\ Uses(Fresh) = {}
    BY FreshIs, BareShape
  <2> QED BY <2>1, LeftShape, ShapeAt
<1>11. /\ objs' = [objs EXCEPT ![d] = r, ![e] = l]
       /\ mem' = Without((Owned(objs[d]) \cup Owned(c)) \ Owned(r))
  BY <1>1, <1>5
<1> HIDE DEF r, l
<1>12. /\ MemTyped'
       /\ \A x \in Block : mem'[x] = IF x \in (Owned(objs[d]) \cup Owned(c)) \ Owned(r)
                                     THEN Nothing ELSE mem[x]
  BY <1>11, WithoutIs DEF ObjInv, MemTyped
<1>13. \A x \in Owned(r) : mem'[x] = mem[x]
  <2>1. \A x \in Owned(r) : x \in Block
    BY DEF Owned
  <2> QED BY <1>12, <2>1
<1>14. AllBacked(mem', c)
  BY <1>4, <1>6, <1>9, <1>13, BackedFrame, ChildTyped
<1>15. AllBacked(mem', r)
  BY <1>5, <1>6, <1>8, <1>13, <1>14, PutBacked DEF r
<1>16. Uses(r) = Owned(r)
  BY <1>9, ReadyUses
<1>17. DOMAIN objs = Name
  BY DEF ObjInv
<1>18. /\ objs' = [x \in Name |-> objs'[x]] /\ objs'[d] = r /\ objs'[e] = l
       /\ \A x \in Name \ {d, e} : objs'[x] = objs[x]
  BY <1>11, <1>17
<1>19. \A x \in {d, e} : Shape(objs'[x]) /\ AllBacked(mem', objs'[x])
  BY <1>9, <1>10, <1>15, <1>18
<1>20. \A x \in {d, e} : \A b \in Uses(objs'[x]) : \E y \in {d, e} : b \in Uses(objs[y])
  BY <1>4, <1>5, <1>9, <1>10, <1>16, <1>18, OwnedUsed
<1>21. \A x, y \in {d, e} : x # y => Uses(objs'[x]) \cap Uses(objs'[y]) = {}
  BY <1>10, <1>18
<1>22. \A b \in Block : (\A y \in {d, e} : b \notin Uses(objs[y])) => mem'[b] = mem[b]
  BY <1>4, <1>12, OwnedUsed
<1>23. {d, e} \in SUBSET Name
  OBVIOUS
<1>24. PICK S : S = {d, e}
  OBVIOUS
<1> QED BY <1>12, <1>18, <1>19, <1>20, <1>21, <1>22, <1>23, <1>24, LocalStep

LEMMA IterateInv ==
  ASSUME ~AnyCall, ObjInv, NEW d \in Name, Iterate(d)
  PROVE  ObjInv' /\ OthersKept({d})
<1>1. PICK read \in ReadKeys :
        objs' = [objs EXCEPT ![d] = IF objs[d].state = "Error" THEN objs[d]
                                    ELSE Unpacked(objs[d], read)]
  BY DEF Iterate
<1>2. mem' = mem /\ (~IsSingle(objs[d]) \/ objs[d].state = "Error")
  BY DEF Iterate
<1>3. PICK o : o = IF objs[d].state = "Error" THEN objs[d] ELSE Unpacked(objs[d], read)
  OBVIOUS
<1>4. Shape(o) /\ AllBacked(mem, o) /\ Uses(o) = Uses(objs[d])
  <2>1. CASE objs[d].state = "Error"
    BY <1>3, <2>1, ShapeAt
  <2>2. CASE objs[d].state # "Error"
    <3>1. objs[d].state = "Ready"
      BY <2>2, ShapeAt DEF Shape, Typed
    <3>2. o = Opened(objs[d])
      BY <1>2, <1>3, <2>2, <3>1, ShapeAt, UnpackedOpen
    <3> QED BY <3>2, ShapeAt, OpenedShape
  <2> QED BY <2>1, <2>2
<1>5. MemTyped'
  BY <1>2 DEF ObjInv, MemTyped
<1> QED BY <1>1, <1>2, <1>3, <1>4, <1>5, StepOne

-----------------------------------------------------------------------------
LEMMA InitObj == Init => ObjInv
<1> SUFFICES ASSUME Init PROVE ObjInv
  OBVIOUS
<1>1. objs = [d \in Name |-> Fresh] /\ mem = [b \in Block |-> Nothing]
  BY DEF Init
<1>2. \A d \in Name : objs[d] = Fresh
  BY <1>1
<1>3. Shape(Fresh) /\ Uses(Fresh) = {} /\ AllBacked(mem, Fresh)
  BY FreshIs, BareShape
<1>4. MemTyped
  BY <1>1 DEF MemTyped
<1>5. objs = [d \in Name |-> objs[d]]
  BY <1>1
<1> QED BY <1>2, <1>3, <1>4, <1>5 DEF ObjInv

LEMMA NextObj ==
  ASSUME ~AnyCall, ObjInv, Next
  PROVE  ObjInv'
<1>1. PICK d \in Name : Step(d)
  BY DEF Next
<1>2. CASE Clear(d) \/ Iterate(d)
  BY <1>2, ClearInv, IterateInv
<1>3. CASE \E w \in Wires : Load(d, w)
  BY <1>3, LoadInv
<1>4. CASE \E e \in Name \ {d} : Move(d, e) \/ \E k \in Key : Adopt(d, k, e)
  BY <1>4, MoveInv, AdoptInv
<1>5. CASE \E k \in Key : Get(d, k) \/ \E inner \in Key : GetIn(d, k, inner)
  BY <1>5, GetInv, GetInInv
<1>6. CASE \E k \in Key : \E v \in Written : InitOne(d, k, v) \/ Emplace(d, k, v)
  BY <1>6, InitOneInv, EmplaceInv
<1> QED BY <1>1, <1>2, <1>3, <1>4, <1>5, <1>6 DEF Step

LEMMA StutterObj ==
  ASSUME ObjInv, UNCHANGED vars
  PROVE  ObjInv'
BY DEF ObjInv, MemTyped, vars

(* The inductive invariant of the theorems below: every Dson, with all     *)
(* that is in it, has the fields its kind needs and views into its own     *)
(* buffer only; its blocks hold what it takes them for; and no two Dsons   *)
(* use the same block, whatever the sequence of loads, moves, emplaces,    *)
(* clears and gets (dson.h:157-253, 891-934, 975-1025).                    *)
THEOREM StorageKept == ~AnyCall => (Spec => []ObjInv)
<1> SUFFICES ASSUME ~AnyCall PROVE Spec => []ObjInv
  OBVIOUS
<1>1. Init => ObjInv
  BY InitObj
<1>2. ObjInv /\ [Next]_vars => ObjInv'
  BY NextObj, StutterObj
<1> QED BY <1>1, <1>2, PTL DEF Spec

-----------------------------------------------------------------------------
(* What is at a path, by the number of keys on it.                         *)
LEMMA PathIs ==
  ASSUME NEW p \in Paths
  PROVE  \E d \in Name :
           \/ p = <<d>> /\ ObjectAt(p) = objs[d]
           \/ \E k \in DOMAIN objs[d].map : p = <<d, k>> /\ ObjectAt(p) = objs[d].map[k]
           \/ \E k \in DOMAIN objs[d].map : \E i \in DOMAIN objs[d].map[k].map :
                p = <<d, k, i>> /\ ObjectAt(p) = objs[d].map[k].map[i]
<1>1. PICK d \in Name :
        \/ p = <<d>>
        \/ \E k \in DOMAIN objs[d].map : p = <<d, k>>
        \/ \E k \in DOMAIN objs[d].map : \E i \in DOMAIN objs[d].map[k].map : p = <<d, k, i>>
  BY DEF Paths
<1>2. CASE p = <<d>>
  BY <1>2 DEF ObjectAt
<1>3. ASSUME NEW k \in DOMAIN objs[d].map, p = <<d, k>>
      PROVE  ObjectAt(p) = objs[d].map[k]
  BY <1>3 DEF ObjectAt
<1>4. ASSUME NEW k \in DOMAIN objs[d].map, NEW i \in DOMAIN objs[d].map[k].map, p = <<d, k, i>>
      PROVE  ObjectAt(p) = objs[d].map[k].map[i]
  BY <1>4 DEF ObjectAt
<1> QED BY <1>1, <1>2, <1>3, <1>4

LEMMA PathPart ==
  ASSUME ObjInv, NEW p \in Paths
  PROVE  \E d \in Name : ObjectAt(p) \in Parts(objs[d]) /\ Backed(mem, ObjectAt(p))
BY PathIs, PartsOf, ShapeAt DEF AllBacked

LEMMA PathKind ==
  ASSUME ObjInv, NEW p \in Paths
  PROVE  Typed(ObjectAt(p)) /\ (Storage(ObjectAt(p)) \/ IsLeaf(ObjectAt(p)))
<1>1. PICK d \in Name :
           \/ p = <<d>> /\ ObjectAt(p) = objs[d]
           \/ \E k \in DOMAIN objs[d].map : p = <<d, k>> /\ ObjectAt(p) = objs[d].map[k]
           \/ \E k \in DOMAIN objs[d].map : \E i \in DOMAIN objs[d].map[k].map :
                p = <<d, k, i>> /\ ObjectAt(p) = objs[d].map[k].map[i]
  BY PathIs
<1>2. Shape(objs[d])
  BY ShapeAt
<1>3. Typed(objs[d]) /\ Storage(objs[d])
  BY <1>2 DEF Shape
<1>4. ASSUME NEW k \in DOMAIN objs[d].map
      PROVE  Typed(objs[d].map[k]) /\ (Storage(objs[d].map[k]) \/ IsLeaf(objs[d].map[k]))
  BY <1>2 DEF Shape, IsChild, IsLeaf, IsBox
<1>5. ASSUME NEW k \in DOMAIN objs[d].map, NEW i \in DOMAIN objs[d].map[k].map
      PROVE  Typed(objs[d].map[k].map[i]) /\ IsLeaf(objs[d].map[k].map[i])
  BY <1>2, EmptyMap DEF Shape, IsChild, IsLeaf, IsBox
<1> QED BY <1>1, <1>3, <1>4, <1>5

LEMMA KindTold ==
  ASSUME ObjInv
  PROVE  HeaderTellsKind
<1> SUFFICES ASSUME NEW p \in Paths, NEW o, o = ObjectAt(p), o.state = "Ready"
             PROVE  /\ o.map # << >> => TypeOf(o) = "container"
                    /\ o.kind = "OneObjectInDataBuf" => TypeOf(o) = "leaf"
  BY DEF HeaderTellsKind
<1>1. Backed(mem, o) /\ (Storage(o) \/ IsLeaf(o))
  BY PathPart, PathKind
<1>2. CASE Storage(o)
  <2>1. TypeOf(o) = o.hdr.type
    BY <1>2, HeaderOwn
  <2> QED BY <1>2, <2>1 DEF Storage
<1>3. CASE IsLeaf(o)
  BY <1>1, <1>3, LeafType DEF IsLeaf
<1> QED BY <1>1, <1>2, <1>3

LEMMA NothingDangles ==
  ASSUME ObjInv
  PROVE  NoDangling
<1> SUFFICES ASSUME NEW p \in Paths, NEW o, o = ObjectAt(p), ~o.alloc, o.buf # Nothing
             PROVE  At(o.buf) # NoWire
  BY DEF NoDangling
<1>1. Backed(mem, o) /\ IsView(o)
  BY PathPart DEF IsView
<1> QED BY <1>1, ViewAt

(* Two objects of one Dson that own the same block are at the same place.  *)
LEMMA OwnedOnce ==
  ASSUME NEW o, Shape(o), NEW b \in Block
  PROVE  /\ \A k \in DOMAIN o.map : b \in Owned(o.map[k]) => ~Owns(o, b)
         /\ \A k, l \in DOMAIN o.map : b \in Owned(o.map[k]) /\ b \in Owned(o.map[l]) => k = l
         /\ \A k \in DOMAIN o.map : Owns(o.map[k], b) => b \in Owned(o.map[k])
         /\ \A k \in DOMAIN o.map : \A i \in DOMAIN o.map[k].map :
              Owns(o.map[k].map[i], b) =>
                /\ b \in Owned(o.map[k]) /\ ~Owns(o.map[k], b)
                /\ \A j \in DOMAIN o.map[k].map : Owns(o.map[k].map[j], b) => i = j
<1>1. Apart(o)
  BY DEF Shape
<1>2. \A k \in DOMAIN o.map : Owns(o.map[k], b) => b \in Owned(o.map[k])
  BY PartsOf DEF Owned
<1>3. ASSUME NEW k \in DOMAIN o.map, NEW i \in DOMAIN o.map[k].map, Owns(o.map[k].map[i], b)
      PROVE  /\ b \in Owned(o.map[k]) /\ ~Owns(o.map[k], b)
             /\ \A j \in DOMAIN o.map[k].map : Owns(o.map[k].map[j], b) => i = j
  <2>1. b \in Owned(o.map[k])
    BY <1>3, PartsOf DEF Owned
  <2>2. IsBox(o.map[k])
    BY EmptyMap DEF Shape, IsChild, IsLeaf
  <2>3. Apart(o.map[k]) /\ \A j \in DOMAIN o.map[k].map : o.map[k].map[j].map = << >>
    BY <2>2 DEF IsBox, IsLeaf
  <2>4. \A j \in DOMAIN o.map[k].map : Owns(o.map[k].map[j], b) <=> b \in Owned(o.map[k].map[j])
    BY <2>3, SingleParts
  <2> QED BY <1>3, <2>1, <2>3, <2>4 DEF Apart
<1> QED BY <1>1, <1>2, <1>3 DEF Apart

LEMMA OwnedBy ==
  ASSUME NEW o, NEW p \in Parts(o), NEW b \in Block, Owns(p, b)
  PROVE  b \in Owned(o) /\ b \in Uses(o)
BY DEF Owned, Uses, Owns

LEMMA OneOwnerOnly ==
  ASSUME ObjInv
  PROVE  OneOwner
<1> SUFFICES ASSUME NEW p \in Paths, NEW b \in Block, Owns(ObjectAt(p), b)
             PROVE  mem[b] # Nothing /\ \A q \in Paths \ {p} : ~Owns(ObjectAt(q), b)
  BY DEF OneOwner
<1>1. PICK d \in Name :
           \/ p = <<d>> /\ ObjectAt(p) = objs[d]
           \/ \E k \in DOMAIN objs[d].map : p = <<d, k>> /\ ObjectAt(p) = objs[d].map[k]
           \/ \E k \in DOMAIN objs[d].map : \E i \in DOMAIN objs[d].map[k].map :
                p = <<d, k, i>> /\ ObjectAt(p) = objs[d].map[k].map[i]
  BY PathIs
<1>2. b \in Uses(objs[d])
  BY <1>1, PartsOf, OwnedBy
<1>3. mem[b] # Nothing
  BY <1>2, UsedHeld, ShapeAt
<1>4. ASSUME NEW q \in Paths, Owns(ObjectAt(q), b) PROVE q = p
  <2>1. PICK e \in Name :
           \/ q = <<e>> /\ ObjectAt(q) = objs[e]
           \/ \E k \in DOMAIN objs[e].map : q = <<e, k>> /\ ObjectAt(q) = objs[e].map[k]
           \/ \E k \in DOMAIN objs[e].map : \E i \in DOMAIN objs[e].map[k].map :
                q = <<e, k, i>> /\ ObjectAt(q) = objs[e].map[k].map[i]
    BY PathIs
  <2>2. b \in Uses(objs[e])
    BY <1>4, <2>1, PartsOf, OwnedBy
  <2>3. d = e
    BY <1>2, <2>2 DEF ObjInv
  <2>4. PICK o : o = objs[d]
    OBVIOUS
  <2>5. /\ \A k \in DOMAIN o.map : b \in Owned(o.map[k]) => ~Owns(o, b)
        /\ \A k, l \in DOMAIN o.map : b \in Owned(o.map[k]) /\ b \in Owned(o.map[l]) => k = l
        /\ \A k \in DOMAIN o.map : Owns(o.map[k], b) => b \in Owned(o.map[k])
        /\ \A k \in DOMAIN o.map : \A i \in DOMAIN o.map[k].map :
             Owns(o.map[k].map[i], b) =>
               /\ b \in Owned(o.map[k]) /\ ~Owns(o.map[k], b)
               /\ \A j \in DOMAIN o.map[k].map : Owns(o.map[k].map[j], b) => i = j
    BY <2>4, ShapeAt, OwnedOnce
  <2>6. CASE p = <<d>> /\ ObjectAt(p) = o
    BY <1>4, <2>1, <2>3, <2>4, <2>5, <2>6
  <2>7. ASSUME NEW k \in DOMAIN o.map, p = <<d, k>>, ObjectAt(p) = o.map[k] PROVE q = p
    BY <1>4, <2>1, <2>3, <2>4, <2>5, <2>7
  <2>8. ASSUME NEW k \in DOMAIN o.map, NEW i \in DOMAIN o.map[k].map, p = <<d, k, i>>,
               ObjectAt(p) = o.map[k].map[i]
        PROVE  q = p
    BY <1>4, <2>1, <2>3, <2>4, <2>5, <2>8
  <2> QED BY <1>1, <2>4, <2>6, <2>7, <2>8
<1> QED BY <1>3, <1>4

(* No buffer is freed twice: through any sequence of calls every block     *)
(* that was allocated has at most one owner among all Dsons and the        *)
(* objects in them, and is not free (dson.h:157-172, 975-1025).            *)
THEOREM EveryBlockOneOwner == ~AnyCall => (Spec => []OneOwner)
<1> SUFFICES ASSUME ~AnyCall PROVE Spec => []OneOwner
  OBVIOUS
<1>1. ObjInv => OneOwner
  BY OneOwnerOnly
<1>2. Spec => []ObjInv
  BY StorageKept
<1> QED BY <1>1, <1>2, PTL

(* No view that parse_buf() made outlives the buffer it looks into: it     *)
(* always finds the piece it was made for (dson.h:827-861).                *)
THEOREM NoViewDangles == ~AnyCall => (Spec => []NoDangling)
<1> SUFFICES ASSUME ~AnyCall PROVE Spec => []NoDangling
  OBVIOUS
<1>1. ObjInv => NoDangling
  BY NothingDangles
<1>2. Spec => []ObjInv
  BY StorageKept
<1> QED BY <1>1, <1>2, PTL

(* The type in the header by which the other side parses an upload is that *)
(* of the object: container if there are objects in its map, leaf if it is *)
(* a single one (dson.h:552-560, 811-825, 913).                            *)
THEOREM HeadersTellKind == ~AnyCall => (Spec => []HeaderTellsKind)
<1> SUFFICES ASSUME ~AnyCall PROVE Spec => []HeaderTellsKind
  OBVIOUS
<1>1. ObjInv => HeaderTellsKind
  BY KindTold
<1>2. Spec => []ObjInv
  BY StorageKept
<1> QED BY <1>1, <1>2, PTL

-----------------------------------------------------------------------------
(* Contents, of objects nested two deep, in memory m.                      *)
LeafValue(m, c) == IF c.alloc THEN m[c.buf.block] ELSE m[c.buf.block][c.buf.piece].data

Kids(m, o) == IF o.kind = "DataBufNeedParse" THEN Parse(o.buf.block, m[o.buf.block]) ELSE o.map

BoxValue(m, c) ==
  [k \in Key |-> IF k \in DOMAIN Kids(m, c) THEN LeafValue(m, Kids(m, c)[k]) ELSE Nothing]

ChildValue(m, c) == IF c.kind = "OneObjectInDataBuf" THEN LeafValue(m, c) ELSE BoxValue(m, c)

MapContent(m, f) == [k \in Key |-> IF k \in DOMAIN f THEN ChildValue(m, f[k]) ELSE Nothing]

IsOne(o) == \/ o.kind = "OneObjectInDataBuf"
            \/ o.kind = "DataBufNeedParse" /\ o.hdr.type # "container"

ContentIn(m, o) ==
  IF o.state = "Error" THEN Empty
  ELSE IF IsOne(o) THEN Only(o.hdr.key, m[o.buf.block]) ELSE MapContent(m, Kids(m, o))

LEMMA LeafValueIs ==
  ASSUME NEW c, IsLeaf(c), Backed(mem, c)
  PROVE  /\ DataOf(c) = LeafValue(mem, c) /\ Value(c) = LeafValue(mem, c)
         /\ ChildValue(mem, c) = LeafValue(mem, c) /\ LeafValue(mem, c) \in Leaf
<1>0. c.buf # Nothing /\ c.state = "Ready" /\ c.kind = "OneObjectInDataBuf"
  BY WireAssumption DEF IsLeaf
<1>1. DataOf(c) = LeafValue(mem, c) /\ LeafValue(mem, c) \in Leaf
  <2>1. CASE c.alloc
    <3>1. mem[c.buf.block] \in Leaf
      BY <1>0, <2>1 DEF Backed, IsLeaf
    <3> QED BY <1>0, <2>1, <3>1 DEF DataOf, LeafValue
  <2>2. CASE ~c.alloc
    <3>1. /\ At(c.buf) = mem[c.buf.block][c.buf.piece] /\ At(c.buf) \in LeafWire
      BY <1>0, <2>2, ViewAt DEF IsView
    <3>2. At(c.buf).data \in Leaf
      BY <3>1 DEF LeafWire
    <3> QED BY <1>0, <2>2, <3>1, <3>2 DEF DataOf, LeafValue
  <2> QED BY <2>1, <2>2
<1>2. Value(c) = DataOf(c)
  BY <1>0 DEF Value, IsSingle
<1> QED BY <1>0, <1>1, <1>2 DEF ChildValue

LEMMA OpenedMap ==
  ASSUME NEW o, Typed(o), Storage(o), o.state = "Ready", ~IsOne(o)
  PROVE  Opened(o).map = Kids(mem, o) /\ Opened(o).state = "Ready"
<1>1. CASE o.kind = "DataBufNeedParse"
  <2>0. o.hdr.type = "container" /\ Opened(o) = Parsed(o)
    BY <1>1 DEF IsOne, Opened
  <2>1. Parsed(o) \in Fields("Ready", "DsonContainer", o.hdr, o.buf, o.alloc, o.bufSize,
                             Parse(o.buf.block, mem[o.buf.block]))
    BY <1>1, <2>0, ParsedContainer
  <2>2. Parsed(o).map = Parse(o.buf.block, mem[o.buf.block]) /\ Parsed(o).state = "Ready"
    BY <2>1, FieldsOf
  <2> QED BY <1>1, <2>0, <2>2 DEF Kids
<1>2. CASE o.kind # "DataBufNeedParse"
  BY <1>2 DEF Opened, Kids
<1> QED BY <1>1, <1>2

LEMMA BoxValueIs ==
  ASSUME NEW c, IsBox(c), AllBacked(mem, c)
  PROVE  /\ Value(c) = BoxValue(mem, c) /\ ChildValue(mem, c) = BoxValue(mem, c)
         /\ BoxValue(mem, c) \in [Key -> Leaf \cup {Nothing}]
<1>0. Typed(c) /\ Storage(c) /\ c.state = "Ready" /\ ~IsOne(c)
  BY DEF IsBox, IsOne
<1>1. ~IsSingle(c)
  BY <1>0, SingleKind DEF IsOne
<1>2. PICK p : p = Opened(c)
  OBVIOUS
<1>3. p.map = Kids(mem, c)
  BY <1>0, <1>2, OpenedMap
<1>4. \A k \in DOMAIN p.map : IsLeaf(p.map[k]) /\ Backed(mem, p.map[k])
  <2>1. IsBox(p) /\ AllBacked(mem, p)
    BY <1>2, BoxOpened
  <2>2. \A k \in DOMAIN p.map : IsLeaf(p.map[k]) /\ AllBacked(mem, p.map[k])
    BY <2>1, BoxKids, BackedOf DEF IsBox
  <2> QED BY <2>2, SingleParts DEF IsLeaf
<1>5. \A k \in DOMAIN p.map : /\ DataOf(p.map[k]) = LeafValue(mem, p.map[k])
                              /\ LeafValue(mem, p.map[k]) \in Leaf
  BY <1>4, LeafValueIs
<1>6. Value(c) = [k \in Key |-> IF k \in DOMAIN p.map THEN DataOf(p.map[k]) ELSE Nothing]
  BY <1>0, <1>1, <1>2 DEF Value, ContentBy, Opened
<1>7. Value(c) = BoxValue(mem, c)
  BY <1>3, <1>5, <1>6 DEF BoxValue
<1>8. BoxValue(mem, c) \in [Key -> Leaf \cup {Nothing}]
  BY <1>3, <1>5 DEF BoxValue
<1>9. ChildValue(mem, c) = BoxValue(mem, c)
  BY <1>0 DEF ChildValue, IsOne
<1> QED BY <1>7, <1>8, <1>9

LEMMA ValueIs ==
  ASSUME NEW c, IsChild(c), AllBacked(mem, c)
  PROVE  /\ Value(c) = ChildValue(mem, c)
         /\ ChildValue(mem, c) \in Leaf \cup [Key -> Leaf \cup {Nothing}]
<1>1. CASE IsBox(c)
  BY <1>1, BoxValueIs
<1>2. CASE IsLeaf(c)
  BY <1>2, LeafValueIs, SingleParts DEF IsLeaf
<1> QED BY <1>1, <1>2 DEF IsChild

LEMMA OneData ==
  ASSUME NEW o, Shape(o), AllBacked(mem, o), o.state = "Ready", IsOne(o)
  PROVE  DataOf(o) = mem[o.buf.block] /\ DataOf(o) \in Leaf /\ o.buf # Nothing /\ o.alloc
<1>0. Typed(o) /\ Storage(o) /\ Backed(mem, o)
  BY BackedOf DEF Shape
<1>1. o.buf # Nothing /\ o.alloc /\ o.hdr.type = "leaf"
  BY <1>0 DEF Storage, IsOne
<1> QED BY <1>0, <1>1 DEF DataOf, Backed

LEMMA ContentIs ==
  \A o : Shape(o) /\ AllBacked(mem, o) => Content(o) = ContentIn(mem, o)
<1> SUFFICES ASSUME NEW o, Shape(o), AllBacked(mem, o) PROVE Content(o) = ContentIn(mem, o)
  OBVIOUS
<1>0. Typed(o) /\ Storage(o)
  BY DEF Shape
<1>1. CASE o.state = "Error"
  BY <1>1 DEF Content, ContentBy, ContentIn
<1>2. CASE o.state # "Error"
  <2>0. o.state = "Ready"
    BY <1>0, <1>2 DEF Typed
  <2>1. IsSingle(o) <=> IsOne(o)
    BY <1>0, <2>0, SingleKind DEF IsOne
  <2>2. CASE IsOne(o)
    <3>1. HeaderOf(o) = o.hdr /\ DataOf(o) = mem[o.buf.block]
      BY <1>0, <2>0, <2>2, HeaderOwn, OneData
    <3> QED BY <1>2, <2>1, <2>2, <3>1 DEF Content, ContentBy, ContentIn
  <2>3. CASE ~IsOne(o)
    <3>1. PICK p : p = Opened(o)
      OBVIOUS
    <3>2. p.map = Kids(mem, o)
      BY <1>0, <2>0, <2>3, <3>1, OpenedMap
    <3>3. Shape(p) /\ AllBacked(mem, p)
      BY <3>1, OpenedShape
    <3>4. \A k \in DOMAIN p.map : IsChild(p.map[k]) /\ AllBacked(mem, p.map[k])
      BY <3>3, BackedOf DEF Shape
    <3>5. \A k \in DOMAIN p.map : Value(p.map[k]) = ChildValue(mem, p.map[k])
      BY <3>4, ValueIs
    <3>6. Content(o) = [k \in Key |-> IF k \in DOMAIN p.map THEN Value(p.map[k]) ELSE Nothing]
      BY <1>2, <2>1, <2>3, <3>1 DEF Content, ContentBy, Opened
    <3>7. Content(o) = MapContent(mem, Kids(mem, o))
      BY <3>2, <3>5, <3>6 DEF MapContent
    <3> QED BY <1>2, <2>3, <3>7 DEF ContentIn
  <2> QED BY <2>2, <2>3
<1> QED BY <1>1, <1>2

Contents == [d \in Name |-> Content(objs[d])]

LEMMA ContentHere ==
  ObjInv => Contents = [d \in Name |-> ContentIn(mem, objs[d])]
BY ContentIs, ShapeAt DEF Contents

LEMMA ContentNext ==
  ObjInv' => Contents' = [d \in Name |-> ContentIn(mem', objs'[d])]
<1>1. (ObjInv => Contents = [d \in Name |-> ContentIn(mem, objs[d])])'
  BY ContentHere, PTL
<1> QED BY <1>1

(* What nobody writes to keeps its value.                                  *)
LEMMA ValueFrame ==
  ASSUME NEW c, IsChild(c), NEW m, NEW n, AllBacked(m, c), \A b \in Uses(c) : n[b] = m[b]
  PROVE  ChildValue(n, c) = ChildValue(m, c)
<1>0. Typed(c)
  BY DEF IsChild, IsLeaf, IsBox
<1>1. CASE IsLeaf(c)
  <2>1. c.buf # Nothing /\ c.kind = "OneObjectInDataBuf" /\ c.map = << >>
    BY <1>1, WireAssumption DEF IsLeaf
  <2>2. c.buf.block \in Uses(c)
    BY <1>0, <2>1, TypedBlock, SingleParts
  <2>3. n[c.buf.block] = m[c.buf.block]
    BY <2>2
  <2> QED BY <2>1, <2>3 DEF ChildValue, LeafValue
<1>2. CASE IsBox(c) /\ c.kind = "DataBufNeedParse"
  <2>1. PICK b, s : b = c.buf.block /\ s = m[b]
    OBVIOUS
  <2>2. c.buf # Nothing /\ c.alloc /\ c.map = << >> /\ c.hdr.type = "container" /\ b \in Block
    BY <1>0, <1>2, <2>1, TypedBlock DEF IsBox, Storage
  <2>3. b \in Uses(c)
    BY <2>1, <2>2, SingleParts
  <2>4. n[b] = s
    BY <2>1, <2>3
  <2>5. s \in Pieces
    BY <2>1, <2>2, SingleParts DEF Backed
  <2>6. PICK f : f = Parse(b, s)
    OBVIOUS
  <2>7. Kids(n, c) = f /\ Kids(m, c) = f
    BY <1>2, <2>1, <2>4, <2>6 DEF Kids
  <2>8. \A k \in DOMAIN f : ~f[k].alloc /\ f[k].buf.block = b
    BY <2>1, <2>2, <2>5, <2>6, ParseViews DEF IsView
  <2>9. \A k \in DOMAIN f : LeafValue(n, f[k]) = LeafValue(m, f[k])
    BY <2>1, <2>4, <2>8 DEF LeafValue
  <2>10. BoxValue(n, c) = BoxValue(m, c)
    BY <2>7, <2>9 DEF BoxValue
  <2> QED BY <1>2, <2>10 DEF ChildValue
<1>3. CASE IsBox(c) /\ c.kind # "DataBufNeedParse"
  <2>1. c.kind # "OneObjectInDataBuf" /\ Kids(n, c) = c.map /\ Kids(m, c) = c.map
    BY <1>3 DEF IsBox, Kids
  <2>2. \A k \in DOMAIN c.map : LeafValue(n, c.map[k]) = LeafValue(m, c.map[k])
    <3> TAKE k \in DOMAIN c.map
    <3>1. IsLeaf(c.map[k]) /\ Uses(c.map[k]) \subseteq Uses(c)
      BY <1>3, BoxKids, UsedInside DEF IsBox
    <3>2. c.map[k].buf # Nothing /\ Typed(c.map[k]) /\ c.map[k].map = << >>
      BY <3>1, WireAssumption DEF IsLeaf
    <3>3. c.map[k].buf.block \in Uses(c)
      BY <3>1, <3>2, TypedBlock, SingleParts
    <3>4. n[c.map[k].buf.block] = m[c.map[k].buf.block]
      BY <3>3
    <3> QED BY <3>4 DEF LeafValue
  <2>3. BoxValue(n, c) = BoxValue(m, c)
    BY <2>1, <2>2 DEF BoxValue
  <2> QED BY <2>1, <2>3 DEF ChildValue
<1> QED BY <1>1, <1>2, <1>3 DEF IsChild

(* The map parsing would make of a container, and what is in it.           *)
LEMMA KidsShape ==
  ASSUME NEW o, Shape(o), NEW m, AllBacked(m, o), o.state = "Ready", ~IsOne(o)
  PROVE  \A k \in DOMAIN Kids(m, o) :
           /\ IsChild(Kids(m, o)[k]) /\ AllBacked(m, Kids(m, o)[k])
           /\ Uses(Kids(m, o)[k]) \subseteq Uses(o)
<1>0. Typed(o) /\ Storage(o) /\ \A k \in DOMAIN o.map : IsChild(o.map[k])
  BY DEF Shape
<1>1. Backed(m, o) /\ \A k \in DOMAIN o.map : AllBacked(m, o.map[k])
  BY <1>0, BackedOf
<1>2. CASE o.kind = "DataBufNeedParse"
  <2>1. PICK b, s, f : b = o.buf.block /\ s = m[b] /\ f = Parse(b, s)
    OBVIOUS
  <2>2. o.buf # Nothing /\ o.alloc /\ o.map = << >> /\ o.hdr.type = "container" /\ b \in Block
    BY <1>0, <1>2, <2>1, TypedBlock DEF Storage, IsOne
  <2>3. s \in Pieces /\ Kids(m, o) = f
    BY <1>1, <1>2, <2>1, <2>2 DEF Backed, Kids
  <2>4. b \in Uses(o)
    BY <2>1, <2>2, SingleParts
  <2>5. \A k \in DOMAIN f : IsLeaf(f[k]) /\ AllBacked(m, f[k]) /\ Uses(f[k]) = {b}
    BY <2>1, <2>2, <2>3, ParseViews
  <2> QED BY <2>3, <2>4, <2>5 DEF IsChild
<1>3. CASE o.kind # "DataBufNeedParse"
  <2>1. Kids(m, o) = o.map
    BY <1>3 DEF Kids
  <2>2. \A k \in DOMAIN o.map : Uses(o.map[k]) \subseteq Uses(o)
    BY <1>0, UsedInside
  <2> QED BY <1>0, <1>1, <2>1, <2>2
<1> QED BY <1>2, <1>3

LEMMA ContentFrame ==
  ASSUME NEW o, Shape(o), NEW m, NEW n, AllBacked(m, o), \A b \in Uses(o) : n[b] = m[b]
  PROVE  ContentIn(n, o) = ContentIn(m, o)
<1>0. Typed(o) /\ Storage(o) /\ \A k \in DOMAIN o.map : IsChild(o.map[k])
  BY DEF Shape
<1>1. CASE o.state = "Error"
  BY <1>1 DEF ContentIn
<1>2. CASE o.state # "Error" /\ IsOne(o)
  <2>1. o.buf # Nothing /\ o.buf.block \in Block
    BY <1>0, <1>2, TypedBlock DEF Storage, IsOne, Typed
  <2>2. o.buf.block \in Uses(o)
    BY <1>0, <2>1, UsesOf
  <2>3. n[o.buf.block] = m[o.buf.block]
    BY <2>2
  <2> QED BY <1>2, <2>3 DEF ContentIn
<1>3. CASE o.state # "Error" /\ ~IsOne(o)
  <2>0. o.state = "Ready"
    BY <1>0, <1>3 DEF Typed
  <2>1. Kids(n, o) = Kids(m, o)
    <3>1. CASE o.kind = "DataBufNeedParse"
      <4>1. o.buf # Nothing /\ o.buf.block \in Block
        BY <1>0, <2>0, <3>1, TypedBlock DEF Storage
      <4>2. o.buf.block \in Uses(o)
        BY <1>0, <4>1, UsesOf
      <4>3. n[o.buf.block] = m[o.buf.block]
        BY <4>2
      <4> QED BY <3>1, <4>3 DEF Kids
    <3>2. CASE o.kind # "DataBufNeedParse"
      BY <3>2 DEF Kids
    <3> QED BY <3>1, <3>2
  <2>2. PICK f : f = Kids(m, o)
    OBVIOUS
  <2>3. \A k \in DOMAIN f : IsChild(f[k]) /\ AllBacked(m, f[k]) /\ Uses(f[k]) \subseteq Uses(o)
    BY <1>3, <2>0, <2>2, KidsShape
  <2>4. \A k \in DOMAIN f : ChildValue(n, f[k]) = ChildValue(m, f[k])
    BY <2>3, ValueFrame
  <2>5. MapContent(n, f) = MapContent(m, f)
    BY <2>4 DEF MapContent
  <2> QED BY <1>3, <2>1, <2>2, <2>5 DEF ContentIn
<1> QED BY <1>1, <1>2, <1>3
-----------------------------------------------------------------------------
(* What parsing, moving, putting in and receiving do to the contents.      *)
LEMMA OpenedOne ==
  ASSUME NEW o, Shape(o), o.state = "Ready", IsOne(o)
  PROVE  /\ Opened(o).state = "Ready" /\ Opened(o).kind = "OneObjectInDataBuf"
         /\ Opened(o).hdr = o.hdr /\ Opened(o).buf = o.buf /\ Opened(o).alloc = o.alloc
<1>0. Typed(o) /\ Storage(o)
  BY DEF Shape
<1>1. CASE o.kind = "DataBufNeedParse"
  <2>1. Opened(o) = Parsed(o) /\ o.hdr.type # "container"
    BY <1>1 DEF Opened, IsOne
  <2>2. Parsed(o) \in
          Fields(o.state, "OneObjectInDataBuf", o.hdr, o.buf, o.alloc, o.bufSize, o.map)
    BY <1>0, <2>1, ParsedSingle
  <2> QED BY <2>1, <2>2, FieldsOf
<1>2. CASE o.kind # "DataBufNeedParse"
  BY <1>2 DEF Opened, IsOne
<1> QED BY <1>1, <1>2

LEMMA OpenedMany ==
  ASSUME NEW o, Shape(o), AllBacked(mem, o), o.state = "Ready", ~IsOne(o)
  PROVE  /\ Opened(o).state = "Ready" /\ Opened(o).kind = "DsonContainer"
         /\ Opened(o).map = Kids(mem, o)
<1>0. Typed(o) /\ Storage(o)
  BY DEF Shape
<1>1. ~IsSingle(o)
  BY <1>0, SingleKind DEF IsOne
<1>2. Unpacked(o, 0) = Opened(o) /\ IsOpen(Unpacked(o, 0))
  BY <1>1, UnpackedOpen
<1>3. Opened(o).kind = "DsonContainer" /\ Opened(o).state = "Ready"
  BY <1>2 DEF IsOpen
<1> QED BY <1>0, <1>3, OpenedMap

LEMMA OpenedContent ==
  ASSUME NEW o, Shape(o), AllBacked(mem, o)
  PROVE  ContentIn(mem, Opened(o)) = ContentIn(mem, o)
<1>0. o.state \in {"Ready", "Error"}
  BY DEF Shape, Typed
<1>1. PICK p : p = Opened(o)
  OBVIOUS
<1>2. CASE o.state = "Error"
  <2>1. p.state = "Error"
    BY <1>1, <1>2, OpenedShape
  <2> QED BY <1>1, <1>2, <2>1 DEF ContentIn
<1>3. CASE o.state = "Ready" /\ IsOne(o)
  <2>1. p.state = "Ready" /\ p.kind = "OneObjectInDataBuf" /\ p.hdr = o.hdr /\ p.buf = o.buf
    BY <1>1, <1>3, OpenedOne
  <2> QED BY <1>1, <1>3, <2>1 DEF ContentIn, IsOne
<1>4. CASE o.state = "Ready" /\ ~IsOne(o)
  <2>1. p.state = "Ready" /\ p.kind = "DsonContainer" /\ p.map = Kids(mem, o)
    BY <1>1, <1>4, OpenedMany
  <2>2. ~IsOne(p) /\ Kids(mem, p) = Kids(mem, o)
    BY <2>1 DEF IsOne, Kids
  <2> QED BY <1>1, <1>4, <2>1, <2>2 DEF ContentIn
<1> QED BY <1>0, <1>2, <1>3, <1>4

LEMMA OnlyAt ==
  ASSUME NEW h, NEW v, NEW k \in Key
  PROVE  Only(h, v)[k] = IF h = k THEN v ELSE Nothing
BY DEF Only, Empty

(* get() finds what the contents say.                                      *)
LEMMA FoundIs ==
  ASSUME NEW o, Shape(o), AllBacked(mem, o), NEW k \in Key
  PROVE  Found(Opened(o), k) = ContentIn(mem, o)[k]
<1>0. o.state \in {"Ready", "Error"}
  BY DEF Shape, Typed
<1>1. PICK p : p = Opened(o)
  OBVIOUS
<1>2. CASE o.state = "Error"
  <2>1. p.state = "Error"
    BY <1>1, <1>2, OpenedShape
  <2> QED BY <1>1, <1>2, <2>1 DEF ContentIn, Found, Empty
<1>3. CASE o.state = "Ready" /\ IsOne(o)
  <2>1. /\ p.state = "Ready" /\ p.kind = "OneObjectInDataBuf" /\ p.hdr = o.hdr /\ p.buf = o.buf
        /\ p.alloc = o.alloc
    BY <1>1, <1>3, OpenedOne
  <2>2. o.buf # Nothing /\ o.alloc
    BY <1>3, OneData
  <2>3. HeaderOf(p) = o.hdr /\ DataOf(p) = mem[o.buf.block]
    BY <2>1, <2>2 DEF HeaderOf, DataOf
  <2>4. Found(p, k) = IF o.hdr.key = k THEN mem[o.buf.block] ELSE Nothing
    BY <2>1, <2>3 DEF Found
  <2>5. ContentIn(mem, o)[k] = IF o.hdr.key = k THEN mem[o.buf.block] ELSE Nothing
    BY <1>3, OnlyAt DEF ContentIn
  <2> QED BY <1>1, <2>4, <2>5
<1>4. CASE o.state = "Ready" /\ ~IsOne(o)
  <2>1. p.state = "Ready" /\ p.kind = "DsonContainer" /\ p.map = Kids(mem, o)
    BY <1>1, <1>4, OpenedMany
  <2>2. \A l \in DOMAIN p.map : IsChild(p.map[l]) /\ AllBacked(mem, p.map[l])
    BY <1>4, <2>1, KidsShape
  <2>3. \A l \in DOMAIN p.map : Value(p.map[l]) = ChildValue(mem, p.map[l])
    BY <2>2, ValueIs
  <2>4. Found(p, k) = IF k \in DOMAIN p.map THEN ChildValue(mem, p.map[k]) ELSE Nothing
    BY <2>1, <2>3 DEF Found
  <2>5. ContentIn(mem, o)[k] = IF k \in DOMAIN p.map THEN ChildValue(mem, p.map[k]) ELSE Nothing
    BY <1>4, <2>1 DEF ContentIn, MapContent
  <2> QED BY <1>1, <2>4, <2>5
<1> QED BY <1>0, <1>2, <1>3, <1>4

LEMMA ContentTyped ==
  ASSUME NEW o, Shape(o), AllBacked(mem, o)
  PROVE  ContentIn(mem, o) \in [Key -> Leaf \cup {Nothing} \cup [Key -> Leaf \cup {Nothing}]]
<1>0. o.state \in {"Ready", "Error"}
  BY DEF Shape, Typed
<1>1. CASE o.state = "Error"
  BY <1>1 DEF ContentIn, Empty
<1>2. CASE o.state = "Ready" /\ IsOne(o)
  <2>1. mem[o.buf.block] \in Leaf
    BY <1>2, OneData
  <2> QED BY <1>2, <2>1 DEF ContentIn, Only, Empty
<1>3. CASE o.state = "Ready" /\ ~IsOne(o)
  <2>1. PICK f : f = Kids(mem, o)
    OBVIOUS
  <2>2. \A l \in DOMAIN f : IsChild(f[l]) /\ AllBacked(mem, f[l])
    BY <1>3, <2>1, KidsShape
  <2>3. \A l \in DOMAIN f : ChildValue(mem, f[l]) \in Leaf \cup [Key -> Leaf \cup {Nothing}]
    BY <2>2, ValueIs
  <2> QED BY <1>3, <2>1, <2>3 DEF ContentIn, MapContent
<1> QED BY <1>0, <1>1, <1>2, <1>3

LEMMA BareContent ==
  ASSUME NEW o, Bare(o), NEW m
  PROVE  ContentIn(m, o) = Empty
<1>1. CASE o.state = "Error"
  BY <1>1 DEF ContentIn
<1>2. CASE o.state # "Error"
  <2>1. o.kind = "DsonContainer" /\ o.map = << >>
    BY <1>2 DEF Bare, Typed
  <2>2. ~IsOne(o) /\ Kids(m, o) = << >>
    BY <2>1 DEF IsOne, Kids
  <2>3. MapContent(m, << >>) = Empty
    BY EmptyMap DEF MapContent, Empty
  <2> QED BY <1>2, <2>2, <2>3 DEF ContentIn
<1> QED BY <1>1, <1>2

LEMMA ResetContent ==
  ASSUME NEW o, Shape(o), AllBacked(mem, o)
  PROVE  ContentIn(mem, Opened(Reset(o))) = ContentIn(mem, o)
<1>1. ContentIn(mem, Opened(Reset(o))) = ContentIn(mem, Reset(o))
  BY ResetShape, OpenedContent
<1>2. CASE o.state = "Error"
  <2>1. ContentIn(mem, Cleared(o)) = Empty
    BY ClearedIs, BareContent
  <2> QED BY <1>1, <1>2, <2>1 DEF Reset, ContentIn
<1>3. CASE o.state # "Error"
  BY <1>1, <1>3 DEF Reset
<1> QED BY <1>2, <1>3

(* emplace() changes the value of one key.                                 *)
LEMMA PutContent ==
  ASSUME NEW u, IsOpen(u), NEW k \in Key, NEW c, IsChild(c), ~IsView(c),
         Owned(c) \cap Owned(u) = {}, NEW m, NEW n, AllBacked(m, u),
         \A b \in Owned(PutIn(u, k, c)) \cap Owned(u) : n[b] = m[b]
  PROVE  ContentIn(n, PutIn(u, k, c)) = [ContentIn(m, u) EXCEPT ![k] = ChildValue(n, c)]
<1>1. PICK r : r = PutIn(u, k, c)
  OBVIOUS
<1>2. /\ Shape(r) /\ r.state = "Ready" /\ r.map = Put(u.map, k, c) /\ r.kind = "DsonContainer"
  BY <1>1, PutShape
<1>3. \A b \in Owned(r) \cap Owned(u) : n[b] = m[b]
  BY <1>1
<1>4. Uses(r) = Owned(r) /\ Uses(u) = Owned(u)
  BY <1>2, ReadyUses DEF IsOpen
<1>5. (\A l \in DOMAIN u.map : IsChild(u.map[l])) /\ \A l \in DOMAIN r.map : IsChild(r.map[l])
  BY <1>2 DEF IsOpen, Shape
<1>6. /\ DOMAIN r.map = DOMAIN u.map \cup {k} /\ r.map[k] = c
      /\ \A j \in DOMAIN u.map : j # k => r.map[j] = u.map[j]
  BY <1>2 DEF Put, Over
<1>7. ASSUME NEW l \in DOMAIN u.map, l # k PROVE ChildValue(n, r.map[l]) = ChildValue(m, u.map[l])
  <2>1. l \in DOMAIN r.map /\ r.map[l] = u.map[l]
    BY <1>6, <1>7
  <2>2. Uses(u.map[l]) \subseteq Uses(u) /\ Uses(u.map[l]) \subseteq Uses(r)
    BY <1>5, <2>1, UsedInside
  <2>3. \A b \in Uses(u.map[l]) : n[b] = m[b]
    BY <1>3, <1>4, <2>2
  <2>4. AllBacked(m, u.map[l])
    BY <1>5, BackedOf
  <2> QED BY <1>5, <2>1, <2>3, <2>4, ValueFrame
<1>8. ContentIn(n, r) = MapContent(n, r.map)
  BY <1>2 DEF ContentIn, IsOne, Kids
<1>9. ContentIn(m, u) = MapContent(m, u.map)
  BY DEF IsOpen, ContentIn, IsOne, Kids
<1>10. MapContent(n, r.map) = [MapContent(m, u.map) EXCEPT ![k] = ChildValue(n, c)]
  BY <1>6, <1>7 DEF MapContent
<1> QED BY <1>1, <1>8, <1>9, <1>10

(* A container that is put into another keeps its contents.                *)
LEMMA RekeyedContent ==
  ASSUME NEW o, Shape(o), o.state = "Ready", ~IsSingle(o), \A c \in Children(o) : IsSingle(c),
         NEW k \in Nat, AllBacked(mem, o)
  PROVE  ChildValue(mem, Rekeyed(o, k)) = ContentIn(mem, o)
<1>0. Typed(o) /\ Storage(o)
  BY DEF Shape
<1>1. ~IsOne(o) /\ o.kind # "OneObjectInDataBuf"
  BY <1>0, SingleKind DEF IsOne
<1>2. PICK c : c = Rekeyed(o, k)
  OBVIOUS
<1>3. c.kind = o.kind /\ c.buf = o.buf /\ c.map = o.map
  <2>1. PICK h : c \in Fields(o.state, o.kind, h, o.buf, o.alloc, o.bufSize, o.map)
    BY <1>0, <1>2, RekeyedIs
  <2> QED BY <2>1, FieldsOf
<1>4. PICK f : f = Kids(mem, o)
  OBVIOUS
<1>5. Kids(mem, c) = f
  BY <1>3, <1>4 DEF Kids
<1>6. ChildValue(mem, c) = [l \in Key |-> IF l \in DOMAIN f THEN LeafValue(mem, f[l]) ELSE Nothing]
  BY <1>1, <1>3, <1>5 DEF ChildValue, BoxValue
<1>7. ContentIn(mem, o) = [l \in Key |-> IF l \in DOMAIN f THEN ChildValue(mem, f[l]) ELSE Nothing]
  BY <1>1, <1>4 DEF ContentIn, MapContent
<1>8. \A l \in DOMAIN f : f[l].kind = "OneObjectInDataBuf"
  <2>1. CASE o.kind = "DataBufNeedParse"
    <3>1. PICK b, s : b = o.buf.block /\ s = mem[b]
      OBVIOUS
    <3>2. /\ o.buf # Nothing /\ o.alloc /\ o.hdr.type = "container" /\ b \in Block
          /\ Backed(mem, o)
      BY <1>0, <1>1, <2>1, <3>1, TypedBlock, BackedOf DEF Storage, IsOne, Shape
    <3>3. s \in Pieces /\ f = Parse(b, s)
      BY <1>4, <2>1, <3>1, <3>2 DEF Backed, Kids
    <3> QED BY <3>1, <3>2, <3>3, ParseViews DEF IsLeaf
  <2>2. CASE o.kind # "DataBufNeedParse"
    <3>1. f = o.map
      BY <1>4, <2>2 DEF Kids
    <3>2. ASSUME NEW l \in DOMAIN o.map PROVE o.map[l].kind = "OneObjectInDataBuf"
      <4>1. IsSingle(o.map[l]) /\ IsChild(o.map[l])
        BY DEF Children, Shape
      <4>2. IsBox(o.map[l]) => ~IsSingle(o.map[l])
        BY SingleKind DEF IsBox
      <4> QED BY <4>1, <4>2 DEF IsChild, IsLeaf
    <3> QED BY <3>1, <3>2
  <2> QED BY <2>1, <2>2
<1>9. \A l \in DOMAIN f : ChildValue(mem, f[l]) = LeafValue(mem, f[l])
  BY <1>8 DEF ChildValue
<1> QED BY <1>2, <1>6, <1>7, <1>9

(* A received container has the contents that were sent.                   *)
LEMMA SentContent ==
  ASSUME NEW s \in Pieces, NEW b \in Block, NEW m, m[b] = s
  PROVE  MapContent(m, Parse(b, s)) =
           [k \in Key |-> IF k \in Keys(s) THEN s[LastAt(s, k)].data ELSE Nothing]
<1>1. PICK f : f = Parse(b, s)
  OBVIOUS
<1>2. DOMAIN f = Keys(s)
  BY <1>1, ParseIs
<1>3. ASSUME NEW k \in DOMAIN f PROVE ChildValue(m, f[k]) = s[LastAt(s, k)].data
  <2>1. IsLeaf(f[k]) /\ IsView(f[k]) /\ f[k].buf.block = b /\ f[k].buf.piece = LastAt(s, k)
    BY <1>1, <1>3, ParseViews
  <2> QED BY <2>1 DEF IsLeaf, IsView, ChildValue, LeafValue
<1> QED BY <1>1, <1>2, <1>3 DEF MapContent

-----------------------------------------------------------------------------
(* The contents after a step that changes one Dson, or two.                *)
LEMMA KeptContent ==
  ASSUME ObjInv, NEW S \in SUBSET Name, OthersKept(S), NEW x \in Name \ S
  PROVE  ContentIn(mem', objs'[x]) = ContentIn(mem, objs[x])
<1>1. objs'[x] = objs[x] /\ \A b \in Uses(objs[x]) : mem'[b] = mem[b]
  BY DEF OthersKept
<1>2. Shape(objs[x]) /\ AllBacked(mem, objs[x])
  BY ShapeAt
<1> QED BY <1>1, <1>2, ContentFrame

LEMMA OneContent ==
  ASSUME ObjInv, ObjInv', NEW d \in Name, OthersKept({d})
  PROVE  Contents' = [Contents EXCEPT ![d] = ContentIn(mem', objs'[d])]
<1>1. \A x \in Name \ {d} : ContentIn(mem', objs'[x]) = ContentIn(mem, objs[x])
  BY KeptContent
<1>2. Contents = [x \in Name |-> ContentIn(mem, objs[x])]
  BY ContentHere
<1>3. Contents' = [x \in Name |-> ContentIn(mem', objs'[x])]
  BY ContentNext
<1> QED BY <1>1, <1>2, <1>3

LEMMA TwoContents ==
  ASSUME ObjInv, ObjInv', NEW d \in Name, NEW e \in Name \ {d}, OthersKept({d, e})
  PROVE  Contents' = [Contents EXCEPT ![d] = ContentIn(mem', objs'[d]),
                                      ![e] = ContentIn(mem', objs'[e])]
<1>0. {d, e} \in SUBSET Name
  OBVIOUS
<1>1. \A x \in Name \ {d, e} : ContentIn(mem', objs'[x]) = ContentIn(mem, objs[x])
  BY <1>0, KeptContent
<1>2. Contents = [x \in Name |-> ContentIn(mem, objs[x])]
  BY ContentHere
<1>3. Contents' = [x \in Name |-> ContentIn(mem', objs'[x])]
  BY ContentNext
<1> QED BY <1>1, <1>2, <1>3

LEMMA ContentsAt ==
  ASSUME ObjInv, NEW d \in Name
  PROVE  Contents[d] = ContentIn(mem, objs[d])
BY ContentHere

-----------------------------------------------------------------------------
(* What each call does to the contents.                                    *)
LEMMA NewObject ==
  ASSUME ObjInv, NEW d \in Name, NEW o, objs' = [objs EXCEPT ![d] = o]
  PROVE  objs'[d] = o
BY DEF ObjInv

LEMMA ClearDoes ==
  ASSUME ObjInv, NEW d \in Name, Clear(d)
  PROVE  Contents' = [Contents EXCEPT ![d] = Empty]
<1>1. objs'[d] = Cleared(objs[d])
  BY NewObject DEF Clear
<1>2. ContentIn(mem', Cleared(objs[d])) = Empty
  BY ShapeAt, ClearedIs, BareContent
<1> QED BY <1>1, <1>2, ClearInv, OneContent

LEMMA GetDoes ==
  ASSUME ObjInv, NEW d \in Name, NEW k \in Key, Get(d, k)
  PROVE  Contents' = Contents /\ call' = <<"get", d, k, Contents[d][k]>>
<1>1. objs'[d] = Opened(objs[d]) /\ mem' = mem
  BY NewObject DEF Get
<1>2. ContentIn(mem', objs'[d]) = Contents[d]
  BY <1>1, ShapeAt, OpenedContent, ContentsAt
<1>3. Contents' = [Contents EXCEPT ![d] = Contents[d]]
  BY <1>2, GetInv, OneContent
<1>4. Contents' = Contents
  BY <1>3 DEF Contents
<1>5. Found(Opened(objs[d]), k) = Contents[d][k]
  BY ShapeAt, FoundIs, ContentsAt
<1> QED BY <1>4, <1>5 DEF Get

LEMMA IterateDoes ==
  ASSUME ~AnyCall, ObjInv, NEW d \in Name, Iterate(d)
  PROVE  /\ Contents' = Contents
         /\ \/ call' = <<"map", d, Contents[d]>>
            \/ Contents[d] = Empty /\ call'[1] = "leftovers" /\ call'[2] = d
<1>1. PICK read \in ReadKeys :
        /\ objs' = [objs EXCEPT ![d] = IF objs[d].state = "Error" THEN objs[d]
                                       ELSE Unpacked(objs[d], read)]
        /\ objs[d].state = "Error" => call' = <<"leftovers", d, Entries(objs[d])>>
        /\ objs[d].state # "Error" => call' = <<"map", d, Entries(Unpacked(objs[d], read))>>
  BY DEF Iterate
<1>2. mem' = mem /\ (~IsSingle(objs[d]) \/ objs[d].state = "Error")
  BY DEF Iterate
<1>3. objs'[d] = IF objs[d].state = "Error" THEN objs[d] ELSE Unpacked(objs[d], read)
  BY <1>1, NewObject
<1>4. ContentIn(mem, objs'[d]) = ContentIn(mem, objs[d])
  <2>1. CASE objs[d].state = "Error"
    BY <1>3, <2>1
  <2>2. CASE objs[d].state # "Error"
    <3>1. objs[d].state = "Ready"
      BY <2>2, ShapeAt DEF Shape, Typed
    <3>2. objs'[d] = Opened(objs[d])
      BY <1>2, <1>3, <2>2, <3>1, ShapeAt, UnpackedOpen
    <3> QED BY <3>2, ShapeAt, OpenedContent
  <2> QED BY <2>1, <2>2
<1>5. ContentIn(mem', objs'[d]) = Contents[d]
  BY <1>2, <1>4, ContentsAt
<1>6. Contents' = [Contents EXCEPT ![d] = Contents[d]]
  BY <1>5, IterateInv, OneContent
<1>7. Contents' = Contents
  BY <1>6 DEF Contents
<1>8. CASE objs[d].state = "Error"
  <2>1. Content(objs[d]) = Empty
    BY <1>8 DEF Content, ContentBy
  <2> QED BY <1>1, <1>7, <1>8, <2>1 DEF Contents
<1>9. CASE objs[d].state # "Error"
  <2>1. objs[d].state = "Ready" /\ ~IsSingle(objs[d])
    BY <1>2, <1>9, ShapeAt DEF Shape, Typed
  <2>2. Unpacked(objs[d], read) = Opened(objs[d])
    BY <2>1, ShapeAt, UnpackedOpen
  <2>3. Content(objs[d]) = Entries(Opened(objs[d]))
    BY <1>9, <2>1 DEF Content, ContentBy, Opened, Entries
  <2> QED BY <1>1, <1>7, <1>9, <2>2, <2>3 DEF Contents
<1> QED BY <1>8, <1>9

LEMMA LeftContent ==
  ASSUME NEW to, NEW from, Typed(from), NEW m
  PROVE  ContentIn(m, Left(to, from)) = Empty
<1>1. Left(to, from).state = "Error"
  BY LeftIs DEF Fields
<1> QED BY <1>1 DEF ContentIn

LEMMA MoveDoes ==
  ASSUME ObjInv, NEW d \in Name, NEW e \in Name \ {d}, Move(d, e)
  PROVE  Contents' = [Contents EXCEPT ![d] = Contents[e], ![e] = Empty]
<1>1. mem' = mem /\ objs'[d] = objs[e] /\ objs'[e] = Left(objs[d], objs[e])
  BY DEF Move, ObjInv
<1>2. ContentIn(mem', objs'[d]) = Contents[e]
  BY <1>1, ContentsAt
<1>3. ContentIn(mem', objs'[e]) = Empty
  BY <1>1, LeftContent, ShapeAt DEF Shape
<1> QED BY <1>2, <1>3, MoveInv, TwoContents

LEMMA InitOneDoes ==
  ASSUME ObjInv, NEW d \in Name, NEW k \in Key, NEW v \in Written, InitOne(d, k, v)
  PROVE  \/ call' = <<"clear", d>> /\ Contents' = [Contents EXCEPT ![d] = Empty]
         \/ call' = <<"init", d, k, v>> /\ Contents' = [Contents EXCEPT ![d] = Only(k, v)]
<1> DEFINE m == Without(Owned(objs[d]))
           o == Cleared(objs[d])
           s == Single(o, Malloc(m), k)
<1>0. Contents' = [Contents EXCEPT ![d] = ContentIn(mem', objs'[d])]
  BY InitOneInv, OneContent
<1>1. Bare(o) /\ Typed(o) /\ o.state = "Ready" /\ o.map = << >>
  <2>1. o \in Fields("Ready", "DsonContainer", objs[d].hdr, Nothing, FALSE, 0, << >>) /\ Bare(o)
    BY ShapeAt, ClearedIs
  <2> HIDE DEF o
  <2> QED BY <2>1 DEF Bare, Fields
<1>2. CASE IsFree(m) = {}
  <2>1. objs'[d] = o /\ call' = <<"clear", d>>
    BY <1>2, NewObject DEF InitOne
  <2> HIDE DEF o
  <2>2. ContentIn(mem', objs'[d]) = Empty
    BY <1>1, <2>1, BareContent
  <2> QED BY <1>0, <2>1, <2>2
<1>3. CASE IsFree(m) # {}
  <2>1. objs'[d] = s /\ mem' = [m EXCEPT ![Malloc(m)] = v] /\ call' = <<"init", d, k, v>>
    BY <1>3, NewObject DEF InitOne
  <2>2. Malloc(m) \in Block /\ k \in Nat
    BY <1>3, MallocFree, ObjectAssumption
  <2> HIDE DEF o
  <2>3. IsLeaf(s) /\ s.buf.block = Malloc(m) /\ s.hdr.key = k
    BY <1>1, <2>2, SingleFilled
  <2>4. m \in [Block -> Leaf \cup {Nothing} \cup Pieces]
    BY WithoutIs DEF ObjInv
  <2> HIDE DEF s, m
  <2>5. mem'[Malloc(m)] = v
    BY <2>1, <2>2, <2>4
  <2>6. ContentIn(mem', s) = Only(k, v)
    BY <2>3, <2>5 DEF ContentIn, IsLeaf, IsOne
  <2> QED BY <1>0, <2>1, <2>6
<1> QED BY <1>2, <1>3

LEMMA LoadDoes ==
  ASSUME ObjInv, NEW d \in Name, NEW w \in Wires, Load(d, w)
  PROVE  /\ call'[1] = "load" /\ call'[2] = d
         /\ Contents' = [Contents EXCEPT ![d] = call'[3]]
<1> DEFINE m == Without(Owned(objs[d]))
           c == Cleared(objs[d])
           o == [c EXCEPT !.hdr = Header(w), !.kind = "DataBufNeedParse"]
           a == Allocated(o, Malloc(m), DataSize(w))
           p == [block |-> Malloc(m), piece |-> 0]
<1>0. Contents' = [Contents EXCEPT ![d] = ContentIn(mem', objs'[d])]
  BY LoadInv, OneContent
<1>1. o \in Fields("Ready", "DataBufNeedParse", Header(w), Nothing, FALSE, 0, << >>)
  <2>1. c \in Fields("Ready", "DsonContainer", objs[d].hdr, Nothing, FALSE, 0, << >>)
    BY ShapeAt, ClearedIs
  <2> HIDE DEF c
  <2> QED BY <2>1 DEF Fields
<1>2. /\ w.type \in {"leaf", "container"} /\ Header(w).type = w.type /\ Header(w).key = w.key
      /\ Header(w) \in [key : Nat, type : Types]
  BY WireIs DEF Header, Types
<1>3. CASE DataSize(w) = 0
  <2> DEFINE e == [o EXCEPT !.kind = "DsonContainer"]
  <2>1. objs'[d] = e /\ call' = <<"load", d, Sent(w)>>
    BY <1>3, NewObject DEF Load
  <2>2. e \in Fields("Ready", "DsonContainer", Header(w), Nothing, FALSE, 0, << >>)
    <3> HIDE DEF o
    <3> QED BY <1>1 DEF Fields
  <2> HIDE DEF e
  <2>3. e.state = "Ready" /\ e.kind = "DsonContainer" /\ e.map = << >>
    BY <2>2 DEF Fields
  <2>4. ContentIn(mem', e) = Empty
    <3>1. ~IsOne(e) /\ Kids(mem', e) = << >>
      BY <2>3 DEF IsOne, Kids
    <3>2. MapContent(mem', << >>) = Empty
      BY EmptyMap DEF MapContent, Empty
    <3> QED BY <2>3, <3>1, <3>2 DEF ContentIn
  <2>5. Sent(w) = Empty
    <3>1. w.type = "container" /\ w.data \in Pieces
      BY <1>2, <1>3, WireIs DEF DataSize
    <3>2. Len(w.data) \in Nat /\ DOMAIN w.data = 1 .. Len(w.data)
      BY <3>1, LenProperties DEF Pieces
    <3>3. Len(w.data) = 0
      BY <1>3, <3>1, <3>2 DEF DataSize
    <3>4. Keys(w.data) = {}
      BY <3>2, <3>3 DEF Keys
    <3> QED BY <3>1, <3>4 DEF Sent, Empty
  <2> QED BY <1>0, <2>1, <2>4, <2>5
<1>4. CASE DataSize(w) # 0 /\ IsFree(m) = {}
  <2> DEFINE e == [o EXCEPT !.state = "Error"]
  <2>1. objs'[d] = e /\ call' = <<"load", d, Empty>>
    BY <1>4, NewObject DEF Load
  <2>2. e.state = "Error"
    <3> HIDE DEF o
    <3> QED BY <1>1 DEF Fields
  <2> HIDE DEF e
  <2>3. ContentIn(mem', e) = Empty
    BY <2>2 DEF ContentIn
  <2> QED BY <1>0, <2>1, <2>3
<1>5. CASE DataSize(w) # 0 /\ IsFree(m) # {}
  <2>1. objs'[d] = a /\ mem' = [m EXCEPT ![Malloc(m)] = w.data] /\ call' = <<"load", d, Sent(w)>>
    BY <1>5, NewObject DEF Load
  <2>2. Malloc(m) \in Block
    BY <1>5, MallocFree
  <2> HIDE DEF o
  <2>3. /\ o.state = "Ready" /\ o.kind = "DataBufNeedParse" /\ o.hdr = Header(w)
        /\ o.map = << >>
    BY <1>1 DEF Fields
  <2>4. Typed(o)
    <3>1. /\ "Ready" \in {"Ready", "Error"} /\ "DataBufNeedParse" \in Kinds
          /\ Nothing \in Places \cup {Nothing} /\ 0 \in Nat
      BY DEF Kinds
    <3> QED BY <1>1, <1>2, <3>1, FieldsTyped, Zenon
  <2>5. a \in Fields(o.state, o.kind, o.hdr, p, TRUE, DataSize(w), o.map)
    BY <2>4, AllocatedIs
  <2>6. p.block = Malloc(m)
    OBVIOUS
  <2>7. a.state = "Ready" /\ a.kind = "DataBufNeedParse" /\ a.hdr = Header(w) /\ a.buf = p
    <3> HIDE DEF a, p
    <3> QED BY <2>3, <2>5 DEF Fields
  <2>8. m \in [Block -> Leaf \cup {Nothing} \cup Pieces]
    BY WithoutIs DEF ObjInv
  <2> HIDE DEF a, p, m
  <2>9. mem'[Malloc(m)] = w.data
    BY <2>1, <2>2, <2>8
  <2>10. CASE w.type = "leaf"
    <3>1. ContentIn(mem', a) = Only(w.key, w.data)
      BY <1>2, <2>6, <2>7, <2>9, <2>10 DEF ContentIn, IsOne
    <3> QED BY <1>0, <2>1, <2>10, <3>1 DEF Sent
  <2>11. CASE w.type = "container"
    <3>1. w.data \in Pieces
      BY <2>11, WireIs
    <3>2. ContentIn(mem', a) = MapContent(mem', Parse(Malloc(m), w.data))
      BY <1>2, <2>6, <2>7, <2>9, <2>11 DEF ContentIn, IsOne, Kids
    <3>3. ContentIn(mem', a) = Sent(w)
      BY <2>2, <2>9, <2>11, <3>1, <3>2, SentContent DEF Sent
    <3> QED BY <1>0, <2>1, <3>3
  <2> QED BY <1>2, <2>10, <2>11
<1> QED BY <1>3, <1>4, <1>5

LEMMA EmplaceDoes ==
  ASSUME ~AnyCall, ObjInv, NEW d \in Name, NEW k \in Key, NEW v \in Written, Emplace(d, k, v)
  PROVE  Contents' = [Contents EXCEPT ![d][k] = v]
<1> DEFINE b == Malloc(mem)
           c == Single(Fresh, b, k)
<1>0. Contents' = [Contents EXCEPT ![d] = ContentIn(mem', objs'[d])]
  BY EmplaceInv, OneContent
<1>1. PICK read \in ReadKeys :
        LET o == Inserted(objs[d], read, k, c)
        IN /\ objs' = [objs EXCEPT ![d] = o]
           /\ mem' = [Without(Owned(objs[d]) \ Owned(o))
                        EXCEPT ![b] = IF b \in Owned(o) THEN v ELSE Nothing]
  BY DEF Emplace
<1>2. ~IsSingle(Reset(objs[d])) /\ IsFree(mem) # {}
  BY DEF Emplace
<1>3. b \in Block /\ mem[b] = Nothing /\ k \in Nat
  BY <1>2, MallocFree, ObjectAssumption
<1>4. Filled(c) /\ IsLeaf(c) /\ c.buf.block = b /\ c.alloc
  <2>1. Typed(Fresh) /\ Fresh.state = "Ready" /\ Fresh.map = << >>
    BY FreshIs DEF Bare, Fresh
  <2> QED BY <1>3, <2>1, SingleFilled
<1>5. PICK u : /\ IsOpen(u) /\ AllBacked(mem, u) /\ Owned(u) \subseteq Owned(objs[d])
               /\ Inserted(objs[d], read, k, c) = PutIn(u, k, c) /\ u = Opened(Reset(objs[d]))
  BY <1>2, InsertedIs, ShapeAt
<1> HIDE DEF b, c
<1>6. Owned(c) = {b} /\ IsChild(c) /\ ~IsView(c)
  BY <1>4, FilledShape DEF IsChild, IsView
<1>7. Owned(c) \cap Owned(u) = {}
  <2>1. \A x \in Uses(objs[d]) : mem[x] # Nothing
    BY ShapeAt, UsedHeld
  <2> QED BY <1>3, <1>5, <1>6, <2>1, OwnedUsed
<1>8. PICK r : r = PutIn(u, k, c)
  OBVIOUS
<1>9. b \in Owned(r)
  BY <1>5, <1>6, <1>7, <1>8, PutShape
<1>10. objs'[d] = r /\ mem' = [Without(Owned(objs[d]) \ Owned(r)) EXCEPT ![b] = v]
  BY <1>1, <1>5, <1>8, <1>9, NewObject
<1>11. /\ mem'[b] = v
       /\ \A x \in Block : x # b => mem'[x] = IF x \in Owned(objs[d]) \ Owned(r) THEN Nothing ELSE mem[x]
  <2>1. /\ Without(Owned(objs[d]) \ Owned(r)) \in [Block -> Leaf \cup {Nothing} \cup Pieces]
        /\ \A x \in Block : Without(Owned(objs[d]) \ Owned(r))[x] =
                              IF x \in Owned(objs[d]) \ Owned(r) THEN Nothing ELSE mem[x]
    BY WithoutIs DEF ObjInv
  <2>2. PICK n : n = Without(Owned(objs[d]) \ Owned(r))
    OBVIOUS
  <2> QED BY <1>3, <1>10, <2>1, <2>2
<1>12. \A x \in Owned(r) \cap Owned(u) : mem'[x] = mem[x]
  <2>1. \A x \in Owned(u) : x # b /\ x \in Block
    BY <1>6, <1>7 DEF Owned
  <2> QED BY <1>11, <2>1
<1>13. ContentIn(mem', r) = [ContentIn(mem, u) EXCEPT ![k] = ChildValue(mem', c)]
  BY <1>5, <1>6, <1>7, <1>8, <1>12, PutContent
<1>14. ChildValue(mem', c) = v
  BY <1>4, <1>11 DEF ChildValue, LeafValue, IsLeaf
<1>15. ContentIn(mem, u) = Contents[d]
  BY <1>5, ShapeAt, ResetContent, ContentsAt
<1> QED BY <1>0, <1>10, <1>13, <1>14, <1>15

LEMMA AdoptDoes ==
  ASSUME ~AnyCall, ObjInv, NEW d \in Name, NEW k \in Key, NEW e \in Name \ {d}, Adopt(d, k, e)
  PROVE  Contents' = [Contents EXCEPT ![d][k] = Contents[e], ![e] = Empty]
<1> DEFINE c == Rekeyed(objs[e], k)
           l == Left(Fresh, objs[e])
<1>0. Contents' = [Contents EXCEPT ![d] = ContentIn(mem', objs'[d]), ![e] = ContentIn(mem', objs'[e])]
  BY AdoptInv, TwoContents
<1>1. PICK read \in ReadKeys :
        LET o == Inserted(objs[d], read, k, c)
        IN /\ objs' = [objs EXCEPT ![d] = o, ![e] = l]
           /\ mem' = Without((Owned(objs[d]) \cup Owned(c)) \ Owned(o))
  BY DEF Adopt, Rekeyed
<1>2. /\ ~IsSingle(Reset(objs[d])) /\ objs[e].state = "Ready" /\ ~IsSingle(objs[e])
      /\ \A x \in Children(objs[e]) : IsSingle(x)
  BY DEF Adopt
<1>3. k \in Nat
  BY ObjectAssumption
<1>4. IsBox(c) /\ Owned(c) = Owned(objs[e]) /\ AllBacked(mem, c)
  BY <1>2, <1>3, RekeyedBox, ShapeAt
<1>5. PICK u : /\ IsOpen(u) /\ AllBacked(mem, u) /\ Owned(u) \subseteq Owned(objs[d])
               /\ Inserted(objs[d], read, k, c) = PutIn(u, k, c) /\ u = Opened(Reset(objs[d]))
  BY <1>2, InsertedIs, ShapeAt
<1>6. ContentIn(mem', l) = Empty
  BY LeftContent, ShapeAt DEF Shape
<1>7. ChildValue(mem, c) = Contents[e]
  BY <1>2, <1>3, ShapeAt, RekeyedContent, ContentsAt
<1> HIDE DEF c, l
<1>8. IsChild(c) /\ ~IsView(c) /\ Uses(c) = Owned(c)
  BY <1>4, NoBoxView, BoxUses DEF IsChild
<1>9. Owned(c) \cap Owned(u) = {}
  <2>1. Uses(objs[d]) \cap Uses(objs[e]) = {} /\ Uses(objs[e]) = Owned(objs[e])
    BY <1>2, ReadyUses, ShapeAt DEF ObjInv
  <2> QED BY <1>4, <1>5, <2>1, OwnedUsed
<1>10. PICK r : r = PutIn(u, k, c)
  OBVIOUS
<1>11. Owned(c) \subseteq Owned(r)
  BY <1>5, <1>8, <1>9, <1>10, PutShape
<1>12. /\ objs' = [objs EXCEPT ![d] = r, ![e] = l]
       /\ mem' = Without((Owned(objs[d]) \cup Owned(c)) \ Owned(r))
  BY <1>1, <1>5, <1>10
<1>13. objs'[d] = r /\ objs'[e] = l
  BY <1>12 DEF ObjInv
<1>14. \A x \in Owned(r) : mem'[x] = mem[x]
  <2>1. \A x \in Block : mem'[x] = IF x \in (Owned(objs[d]) \cup Owned(c)) \ Owned(r)
                                   THEN Nothing ELSE mem[x]
    BY <1>12, WithoutIs DEF ObjInv
  <2>2. \A x \in Owned(r) : x \in Block
    BY DEF Owned
  <2> QED BY <2>1, <2>2
<1>15. ContentIn(mem', r) = [ContentIn(mem, u) EXCEPT ![k] = ChildValue(mem', c)]
  BY <1>5, <1>8, <1>9, <1>10, <1>14, PutContent
<1>16. ChildValue(mem', c) = Contents[e]
  BY <1>4, <1>7, <1>8, <1>11, <1>14, ValueFrame
<1>17. ContentIn(mem, u) = Contents[d]
  BY <1>5, ShapeAt, ResetContent, ContentsAt
<1>18. ContentIn(mem', objs'[d]) = [Contents[d] EXCEPT ![k] = Contents[e]]
  BY <1>13, <1>15, <1>16, <1>17
<1> QED BY <1>0, <1>6, <1>13, <1>18

(* A container that is parsed inside of another has the same value, and    *)
(* get() on it finds the parts of that value.                              *)
LEMMA BoxParsed ==
  ASSUME NEW c, IsBox(c), AllBacked(mem, c)
  PROVE  /\ ChildValue(mem, Opened(c)) = ChildValue(mem, c)
         /\ \A i \in Key : Found(Opened(c), i) = ChildValue(mem, c)[i]
<1>0. Typed(c) /\ Storage(c) /\ c.state = "Ready" /\ ~IsOne(c)
  BY DEF IsBox, IsOne
<1>1. PICK p : p = Opened(c)
  OBVIOUS
<1>2. IsBox(p) /\ AllBacked(mem, p) /\ p.kind = "DsonContainer" /\ p.state = "Ready"
  BY <1>1, BoxOpened
<1>3. p.map = Kids(mem, c)
  BY <1>0, <1>1, OpenedMap
<1>4. Kids(mem, p) = Kids(mem, c)
  BY <1>2, <1>3 DEF Kids
<1>5. BoxValue(mem, p) = BoxValue(mem, c)
  BY <1>4 DEF BoxValue
<1>6. ChildValue(mem, p) = BoxValue(mem, c) /\ ChildValue(mem, c) = BoxValue(mem, c)
  BY <1>2, <1>5, BoxValueIs
<1>7. \A l \in DOMAIN p.map : Value(p.map[l]) = LeafValue(mem, p.map[l])
  <2>1. \A l \in DOMAIN p.map : IsLeaf(p.map[l]) /\ AllBacked(mem, p.map[l])
    BY <1>2, BoxKids, BackedOf DEF IsBox
  <2>2. \A l \in DOMAIN p.map : Backed(mem, p.map[l])
    BY <2>1, SingleParts DEF IsLeaf
  <2> QED BY <2>1, <2>2, LeafValueIs
<1>8. ASSUME NEW i \in Key PROVE Found(p, i) = BoxValue(mem, c)[i]
  <2>1. Found(p, i) = IF i \in DOMAIN p.map THEN LeafValue(mem, p.map[i]) ELSE Nothing
    BY <1>2, <1>7 DEF Found
  <2>2. BoxValue(mem, c)[i] = IF i \in DOMAIN p.map THEN LeafValue(mem, p.map[i]) ELSE Nothing
    BY <1>3 DEF BoxValue
  <2> QED BY <2>1, <2>2
<1> QED BY <1>1, <1>6, <1>8

LEMMA GetInDoes ==
  ASSUME ObjInv, NEW d \in Name, NEW k \in Key, NEW inner \in Key, GetIn(d, k, inner)
  PROVE  /\ Contents' = Contents /\ call' = <<"get", d, k, inner, Contents[d][k][inner]>>
         /\ Contents[d][k] \in [Key -> Leaf \cup {Nothing}]
         /\ Contents[d][k] \notin Leaf \cup {Nothing}
<1> DEFINE o == Opened(objs[d])
           c == Opened(o.map[k])
           r == [o EXCEPT !.map[k] = c]
<1>1. /\ o.state = "Ready" /\ ~IsSingle(o) /\ k \in DOMAIN o.map
      /\ TypeOf(o.map[k]) = "container"
      /\ objs' = [objs EXCEPT ![d] = r] /\ mem' = mem
      /\ call' = <<"get", d, k, inner, Found(c, inner)>>
  BY DEF GetIn
<1>2. Shape(o) /\ AllBacked(mem, o) /\ o.kind # "DataBufNeedParse"
  BY ShapeAt, OpenedShape
<1>3. Contents[d] = ContentIn(mem, o)
  BY ShapeAt, OpenedContent, ContentsAt
<1> HIDE DEF o
<1>4. IsChild(o.map[k]) /\ AllBacked(mem, o.map[k])
  BY <1>1, <1>2, BackedOf DEF Shape
<1>5. IsBox(o.map[k])
  <2>1. IsLeaf(o.map[k]) => TypeOf(o.map[k]) = "leaf"
    BY <1>4, LeafType, SingleParts DEF IsLeaf
  <2> QED BY <1>1, <1>4, <2>1 DEF IsChild
<1>6. o.kind = "DsonContainer"
  BY <1>1, <1>2 DEF IsSingle, Shape, Typed, Kinds
<1>7. ContentIn(mem, o) = MapContent(mem, o.map)
  BY <1>1, <1>6 DEF ContentIn, IsOne, Kids
<1>8. Contents[d][k] = ChildValue(mem, o.map[k])
  BY <1>1, <1>3, <1>7 DEF MapContent
<1>9. Contents[d][k] \in [Key -> Leaf \cup {Nothing}]
  BY <1>4, <1>5, <1>8, BoxValueIs
<1>10. Contents[d][k] \notin Leaf \cup {Nothing}
  BY <1>9, WireAssumption
<1>11. ChildValue(mem, c) = ChildValue(mem, o.map[k]) /\ Found(c, inner) = ChildValue(mem, o.map[k])[inner]
  BY <1>4, <1>5, BoxParsed
<1> HIDE DEF c
<1>12. r.state = "Ready" /\ r.kind = "DsonContainer" /\ r.map = [o.map EXCEPT ![k] = c]
  <2>1. o \in Fields(o.state, o.kind, o.hdr, o.buf, o.alloc, o.bufSize, o.map)
    BY <1>2, TypedFields DEF Shape
  <2>2. PICK f : f = [o.map EXCEPT ![k] = c]
    OBVIOUS
  <2>3. r = [o EXCEPT !.map = f]
    BY <2>2
  <2> HIDE DEF r
  <2> QED BY <1>1, <1>6, <2>1, <2>2, <2>3 DEF Fields
<1> HIDE DEF r
<1>13. ContentIn(mem, r) = MapContent(mem, r.map)
  BY <1>12 DEF ContentIn, IsOne, Kids
<1>14. MapContent(mem, r.map) = MapContent(mem, o.map)
  BY <1>11, <1>12 DEF MapContent
<1>15. ContentIn(mem', objs'[d]) = Contents[d]
  BY <1>1, <1>3, <1>7, <1>13, <1>14, NewObject
<1>16. Contents' = [Contents EXCEPT ![d] = Contents[d]]
  BY <1>15, GetInInv, OneContent
<1>17. Contents' = Contents
  BY <1>16 DEF Contents
<1> QED BY <1>1, <1>8, <1>9, <1>10, <1>11, <1>17

-----------------------------------------------------------------------------
LEMMA PromiseStep ==
  ASSUME ~AnyCall, ObjInv, Next
  PROVE  Promise!Next
<1>0. /\ Contents = [d \in Name |-> Content(objs[d])]
      /\ Contents' = [d \in Name |-> Content(objs[d])]' /\ Empty = Promise!Empty
  BY DEF Contents, Empty, Promise!Empty
<1>1. PICK d \in Name : Step(d)
  BY DEF Next
<1>2. CASE Clear(d)
  <2>1. Promise!Clear(d)
    BY <1>0, <1>2, ClearDoes DEF Clear, Promise!Clear
  <2> QED BY <2>1 DEF Promise!Next
<1>3. CASE Iterate(d)
  <2>1. Promise!Iterate(d) \/ Promise!IterateInvalid(d)
    BY <1>0, <1>3, IterateDoes DEF Promise!Iterate, Promise!IterateInvalid
  <2> QED BY <2>1 DEF Promise!Next
<1>4. CASE \E w \in Wires : Load(d, w)
  <2>1. Promise!Load(d)
    BY <1>0, <1>4, LoadDoes DEF Promise!Load
  <2> QED BY <2>1 DEF Promise!Next
<1>5. ASSUME NEW e \in Name \ {d}, Move(d, e) PROVE Promise!Next
  <2>1. Promise!Move(d, e)
    BY <1>0, <1>5, MoveDoes DEF Move, Promise!Move
  <2> QED BY <2>1 DEF Promise!Next
<1>6. ASSUME NEW e \in Name \ {d}, NEW k \in Key, Adopt(d, k, e) PROVE Promise!Next
  <2>1. Contents' = [Contents EXCEPT ![d][k] = Contents[e], ![e] = Empty]
    BY <1>6, AdoptDoes
  <2>2. call' = <<"adopt", d, k, e>>
    BY <1>6 DEF Adopt
  <2>3. Promise!Adopt(d, k, e)
    BY <1>0, <2>1, <2>2 DEF Promise!Adopt
  <2> QED BY <2>3 DEF Promise!Next
<1>7. ASSUME NEW k \in Key, Get(d, k) PROVE Promise!Next
  <2>1. Promise!Get(d, k)
    BY <1>0, <1>7, GetDoes DEF Promise!Get
  <2> QED BY <2>1 DEF Promise!Next
<1>8. ASSUME NEW k \in Key, NEW inner \in Key, GetIn(d, k, inner) PROVE Promise!Next
  <2>1. Promise!GetIn(d, k, inner)
    BY <1>0, <1>8, GetInDoes DEF Promise!GetIn
  <2> QED BY <2>1 DEF Promise!Next
<1>9. ASSUME NEW k \in Key, NEW v \in Written, InitOne(d, k, v) PROVE Promise!Next
  <2>1. Only(k, v) = Promise!Only(k, v)
    BY <1>0 DEF Only, Promise!Only
  <2>2. \/ call' = <<"clear", d>> /\ Contents' = [Contents EXCEPT ![d] = Empty]
        \/ call' = <<"init", d, k, v>> /\ Contents' = [Contents EXCEPT ![d] = Only(k, v)]
    BY <1>9, InitOneDoes
  <2>3. Promise!Clear(d) \/ Promise!Store(d, k, v)
    BY <1>0, <2>1, <2>2 DEF Promise!Clear, Promise!Store
  <2> QED BY <2>3, ObjectAssumption DEF Promise!Next
<1>10. ASSUME NEW k \in Key, NEW v \in Written, Emplace(d, k, v) PROVE Promise!Next
  <2>1. Contents' = [Contents EXCEPT ![d][k] = v]
    BY <1>10, EmplaceDoes
  <2>2. call' = <<"emplace", d, k, v>>
    BY <1>10 DEF Emplace
  <2>3. Promise!Emplace(d, k, v)
    BY <1>0, <2>1, <2>2 DEF Promise!Emplace
  <2> QED BY <2>3, ObjectAssumption DEF Promise!Next
<1> QED BY <1>1, <1>2, <1>3, <1>4, <1>5, <1>6, <1>7, <1>8, <1>9, <1>10 DEF Step

(* Whatever it keeps its objects in, a Dson is a map: what is received,    *)
(* put in, moved or parsed is what get() finds afterwards, and what        *)
(* iterating and getting do to the storage does not show (dson.h:243-253,  *)
(* 262-330, 552-560, 827-934, 975-1025).                                   *)
THEOREM DsonIsMap == ~AnyCall => (Spec => ImplementsMap)
<1> SUFFICES ASSUME ~AnyCall PROVE Spec => ImplementsMap
  OBVIOUS
<1>1. Init => Promise!Init
  <2> SUFFICES ASSUME Init PROVE Promise!Init
    OBVIOUS
  <2>1. objs = [d \in Name |-> Fresh] /\ call = << >>
    BY DEF Init
  <2>2. ObjInv
    BY InitObj
  <2>3. \A d \in Name : Content(objs[d]) = Empty
    BY <2>1, <2>2, FreshIs, BareContent, ShapeAt, ContentIs
  <2> QED BY <2>1, <2>3 DEF Promise!Init, Promise!Empty, Empty
<1>2. ObjInv /\ [Next]_vars => [Promise!Next]_(Promise!vars)
  <2> SUFFICES ASSUME ObjInv, [Next]_vars PROVE [Promise!Next]_(Promise!vars)
    OBVIOUS
  <2>1. CASE Next
    BY <2>1, PromiseStep
  <2>2. CASE UNCHANGED vars
    <3>1. Contents = [d \in Name |-> ContentIn(mem, objs[d])] /\ ObjInv'
      BY <2>2, ContentHere, StutterObj
    <3>2. Contents' = Contents
      BY <2>2, <3>1, ContentNext DEF vars
    <3>3. [d \in Name |-> Content(objs[d])]' = [d \in Name |-> Content(objs[d])]
      BY <3>2 DEF Contents
    <3> QED BY <2>2, <3>3 DEF vars, Promise!vars
  <2> QED BY <2>1, <2>2
<1>3. Spec => []ObjInv
  BY StorageKept
<1> QED BY <1>1, <1>2, <1>3, PTL DEF Spec, ImplementsMap, Promise!Spec

-----------------------------------------------------------------------------
(* Types.                                                                  *)
LEMMA PartKind ==
  ASSUME NEW o, Shape(o), NEW p \in Parts(o)
  PROVE  Storage(p) \/ IsLeaf(p)
<1>1. Storage(o)
  BY DEF Shape
<1>2. \A k \in DOMAIN o.map : Storage(o.map[k]) \/ IsLeaf(o.map[k])
  BY DEF Shape, IsChild, IsBox
<1>3. \A k \in DOMAIN o.map : \A i \in DOMAIN o.map[k].map : IsLeaf(o.map[k].map[i])
  BY EmptyMap DEF Shape, IsChild, IsLeaf, IsBox
<1> QED BY <1>1, <1>2, <1>3, PartsOf

LEMMA ObjectsTyped ==
  ASSUME ObjInv, NEW d \in Name, NEW p \in Parts(objs[d])
  PROVE  IsObject(p)
<1>1. Typed(p) /\ (Storage(p) \/ IsLeaf(p))
  BY ShapeAt, PartsTyped, PartKind
<1>2. /\ p.state \in {"Ready", "Error"} /\ p.kind \in Kinds
      /\ p.hdr.key \in Nat /\ p.hdr.type \in Types
      /\ p.buf = Nothing \/ p.buf \in Places
      /\ p.alloc \in BOOLEAN /\ p.bufSize \in Nat
  BY <1>1 DEF Typed
<1>3. /\ p.state = "Ready" => (p.alloc <=> p.bufSize > 0)
      /\ p.state = "Ready" /\ p.kind # "DsonContainer" => p.buf # Nothing /\ p.map = << >>
  BY <1>1, WireAssumption DEF Storage, IsLeaf
<1> QED BY <1>2, <1>3 DEF IsObject

LEMMA BlocksFinite ==
  ASSUME MemTyped, NEW b \in Block
  PROVE  mem[b] \in Leaf \cup {Nothing} \/ IsFiniteSet(DOMAIN mem[b])
<1>1. CASE mem[b] \in Pieces
  <2>1. DOMAIN mem[b] = 1 .. Len(mem[b]) /\ Len(mem[b]) \in Nat
    BY <1>1, LenProperties DEF Pieces
  <2> QED BY <2>1, FS_Interval
<1> QED BY <1>1 DEF MemTyped

LEMMA NextCall ==
  ASSUME ~AnyCall, ObjInv, Next
  PROVE  CallTyped'
<1>0. PICK d \in Name : Step(d)
  BY DEF Next
<1>1. SUFFICES ASSUME call'[1] = "get" PROVE call'[Len(call')] \in Values \cup [Key -> Values]
  BY DEF CallTyped
<1>2. ASSUME NEW k \in Key, Get(d, k) PROVE call'[Len(call')] \in Values \cup [Key -> Values]
  <2>1. call' = <<"get", d, k, Contents[d][k]>>
    BY <1>2, GetDoes
  <2>2. Contents[d] \in [Key -> Leaf \cup {Nothing} \cup [Key -> Leaf \cup {Nothing}]]
    BY ShapeAt, ContentTyped, ContentsAt
  <2>3. Contents[d][k] \in Leaf \cup {Nothing} \cup [Key -> Leaf \cup {Nothing}]
    BY <2>2
  <2>4. Contents[d][k] \in Values \cup [Key -> Values]
    BY <2>3 DEF Values
  <2> QED BY <2>1, <2>4
<1>3. ASSUME NEW k \in Key, NEW inner \in Key, GetIn(d, k, inner)
      PROVE  call'[Len(call')] \in Values \cup [Key -> Values]
  <2>1. /\ call' = <<"get", d, k, inner, Contents[d][k][inner]>>
        /\ Contents[d][k] \in [Key -> Leaf \cup {Nothing}]
    BY <1>3, GetInDoes
  <2>2. Contents[d][k][inner] \in Values
    BY <2>1 DEF Values
  <2> QED BY <2>1, <2>2
<1>4. CASE Clear(d)
  BY <1>1, <1>4 DEF Clear
<1>5. CASE Iterate(d)
  BY <1>1, <1>5 DEF Iterate
<1>6. CASE \E w \in Wires : Load(d, w)
  BY <1>1, <1>6, LoadDoes
<1>7. CASE \E e \in Name \ {d} : Move(d, e) \/ \E k \in Key : Adopt(d, k, e)
  <2>1. \E e \in Name : call' = <<"move", d, e>> \/ \E k \in Key : call' = <<"adopt", d, k, e>>
    BY <1>7, Zenon DEF Move, Adopt
  <2> QED BY <1>1, <2>1
<1>8. CASE \E k \in Key : \E v \in Written : InitOne(d, k, v) \/ Emplace(d, k, v)
  BY <1>1, <1>8 DEF InitOne, Emplace
<1> QED BY <1>0, <1>2, <1>3, <1>4, <1>5, <1>6, <1>7, <1>8 DEF Step

LEMMA NextCount ==
  ASSUME CountInv, Next
  PROVE  CountInv'
BY ObjectAssumption DEF CountInv, Next

(* Through any sequence of calls every Dson and all that is in it have the *)
(* fields its kind needs: a single object or one to be parsed has a buffer *)
(* and no map, a buffer has a size if its Dson allocated it and only then; *)
(* and get() answers with a leaf, a container of leaves or nothing         *)
(* (dson.h:157-172, 552-571, 811-825).                                     *)
THEOREM ObjectsTypeOK == ~AnyCall => (Spec => []TypeOK)
<1> SUFFICES ASSUME ~AnyCall PROVE Spec => []TypeOK
  OBVIOUS
<1>1. Init => CountInv /\ CallTyped
  BY ObjectAssumption DEF Init, CountInv, CallTyped
<1>2. ObjInv /\ CountInv /\ CallTyped /\ [Next]_vars => CountInv' /\ CallTyped'
  <2>1. ASSUME UNCHANGED vars, CountInv, CallTyped PROVE CountInv' /\ CallTyped'
    BY <2>1 DEF vars, CountInv, CallTyped
  <2> QED BY <2>1, NextCall, NextCount
<1>3. ObjInv /\ CountInv /\ CallTyped => TypeOK
  BY ObjectsTyped, BlocksFinite DEF ObjInv, CountInv, CallTyped, TypeOK
<1>4. Spec => []ObjInv
  BY StorageKept
<1> QED BY <1>1, <1>2, <1>3, <1>4, PTL DEF Spec
=============================================================================
