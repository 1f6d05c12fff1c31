-------------------------- MODULE ByteOrderProofs ---------------------------
(***************************************************************************)
(* Proofs about ByteOrder, for any number of machines of either kind, any  *)
(* keys, and any number of objects and copies.                             *)
(***************************************************************************)
EXTENDS ByteOrder, WellFoundedInduction, TLAPS

Order == {"little", "big"}
Asked == {"host", "network"}

Leaf ==
  [class : {"dson", "string", "route", "big"},
   type : {"word", "double", "text", "struct", "vector", "params"},
   mark : Order, data : Order \cup {"wire", "junk"},
   view : BOOLEAN, made : Machine, asked : Order, first : Order, abroad : BOOLEAN]

Container ==
  [state : {"Ready", "Error"}, top : {"container", "one"}, parsed : BOOLEAN,
   mark : Order, order : Order, kept : BOOLEAN, asked : Order,
   leaves : UNION {[S -> Leaf] : S \in SUBSET Key}]

(***************************************************************************)
(* What is true of an object wherever it is.  Text keeps the mark it had   *)
(* when it became a Dson; a double of a big machine is untouched until it  *)
(* leaves such machines.                                                   *)
(***************************************************************************)
Good(l) ==
  /\ MarkTells(l)
  /\ l.class = "dson" /\ l.type = "text" => l.mark = l.first
  /\ l.type = "double" /\ Endian[l.made] = "big" /\ ~l.abroad =>
       l.data = "big" /\ l.mark = "big"

(* What is true of it on machine m: only a Dson comes from elsewhere.      *)
Local(m, l) ==
  /\ l.class = "string" => l.type = "text"
  /\ l.class = "route"  => l.type = "vector"
  /\ l.class = "big"    => l.type = "params"
  /\ l.class # "dson"   => l.mark \in {Endian[m], "big"}
  /\ Endian[m] # Endian[l.made] => l.abroad

(* The order the writer asked for is the order of the bytes, or they were  *)
(* text in that order before.                                              *)
AskedTells(l) == l.mark = "little" => l.asked = "little" \/ (l.type = "text" /\ l.first = "little")

(* The mark of a container is that of its size and type, unless it is one  *)
(* that a big machine could not read and keeps.                            *)
HeaderTells(d) ==
  d.top = "container" => IF d.kept THEN d.mark = "little" /\ d.order = "big" ELSE d.order = d.mark

(* So is the order that the writer asked for.                              *)
HeaderAskedTells(d) == d.top = "container" /\ d.mark = "little" => d.asked = "little" \/ d.kept

DsonInv(m, d) ==
  /\ d \in Container
  /\ HeaderTells(d)
  /\ \A k \in DOMAIN d.leaves : Good(d.leaves[k]) /\ Local(m, d.leaves[k])
  /\ d.parsed => d.state = "Ready" /\ \A k \in DOMAIN d.leaves : Legible(m, d.leaves[k].mark)
  /\ ~d.parsed =>
       /\ \A k \in DOMAIN d.leaves : d.leaves[k].class = "dson" /\ AskedTells(d.leaves[k])
       /\ HeaderAskedTells(d)
  /\ d.top = "container" /\ d.state = "Ready" => d.order = Taken(m, d.mark)
  /\ d.top = "one" => DOMAIN d.leaves # {}
  /\ d.state = "Error" =>
       \/ Endian[m] = "big" /\ d.asked = "little"
       \/ \E k \in DOMAIN d.leaves : NotMeantFor(m, d.leaves[k])
       \/ Mismarked(m, d)

FileInv ==
  /\ file \in Container
  /\ HeaderTells(file)
  /\ \A k \in DOMAIN file.leaves : Good(file.leaves[k]) /\ file.leaves[k].class = "dson"
  /\ file.state = "Ready" =>
       /\ \A k \in DOMAIN file.leaves : AskedTells(file.leaves[k])
       /\ HeaderAskedTells(file)
  /\ file.top = "one" => DOMAIN file.leaves # {}
  /\ complete \/ writer # None => file.state = "Ready"

(* Only a parsed container is being uploaded, and its objects are known.   *)
UploadInv ==
  /\ writer \in Machine \cup {None} /\ complete \in BOOLEAN
  /\ writer # None => dson[writer].parsed /\ todo \subseteq DOMAIN dson[writer].leaves

OrderInv ==
  /\ DOMAIN dson = Machine
  /\ \A m \in Machine : DsonInv(m, dson[m])
  /\ FileInv
  /\ UploadInv

-----------------------------------------------------------------------------
(* The conversions of one object.                                          *)
LEMMA EmitGood ==
  ASSUME NEW m \in Machine, NEW order \in Asked, NEW l \in Leaf, Good(l), Local(m, l),
         NEW e, e = Emit(m, order, l)
  PROVE  /\ e \in Leaf /\ Good(e) /\ Local(m, e)
         /\ e.class = l.class /\ e.type = l.type /\ e.made = l.made
         /\ e.first = l.first /\ e.abroad = l.abroad
         /\ l.class # "dson" => e.mark = Wanted(m, order)
         /\ Legible(m, l.mark) /\ l.type # "text" => e.mark = Wanted(m, order)
         /\ Legible(m, l.mark) => Legible(m, e.mark)
         /\ Legible(m, l.mark) /\ e.mark = "little" =>
              \/ Wanted(m, order) = "little"
              \/ l.class = "dson" /\ l.type = "text" /\ l.first = "little"
<1> USE DEF Order, Asked
<1>1. CASE Endian[m] = "big"
  <2>1. CASE l.class = "dson"
    <3>1. e = l
      BY <1>1, <2>1 DEF Emit, ToHost, ToNetwork, HasConverter, Legible, IsHost, IsNetwork
    <3> QED BY <1>1, <2>1, <3>1 DEF Legible, IsHost, IsNetwork, Wanted
  <2>2. CASE l.class # "dson"
    <3>1. l.mark = "big"
      BY <1>1, <2>2 DEF Local
    <3>2. e.mark = "big" /\ e = l
      BY <1>1, <2>2, <3>1 DEF Leaf, Good, MarkTells, Local, Emit, StringTo, RouteTo,
         BigTo, BigParams, HeaderTo, IsIn, IsHost, IsNetwork
    <3> QED BY <1>1, <3>2 DEF Wanted
  <2> QED BY <2>1, <2>2
<1>2. CASE Endian[m] = "little"
  <2> USE <1>2 DEF IsHost, IsNetwork, IsIn, Wanted, Legible
  <2>1. ASSUME NEW mark \in Order
        PROVE  HeaderTo(m, order, mark) = Wanted(m, order) /\ Flip(m, mark) \in Order \ {mark}
    BY DEF HeaderTo, Flip
  <2>2. ASSUME NEW w \in Order, e = [l EXCEPT !.mark = w, !.data = w]
        PROVE  /\ e \in Leaf /\ e.mark = w /\ e.data = w
               /\ e.class = l.class /\ e.type = l.type /\ e.made = l.made
               /\ e.first = l.first /\ e.abroad = l.abroad
    BY <2>2 DEF Leaf
  <2>3. CASE l.class = "dson" /\ l.type = "text"
    <3>1. e = l
      BY <2>3 DEF Emit, ToHost, ToNetwork, HasConverter
    <3> QED BY <2>3, <3>1 DEF Leaf, Good
  <2>4. CASE l.class = "dson" /\ l.type # "text"
    <3>1. CASE l.mark = Wanted(m, order)
      <4>1. e = l
        BY <2>4, <3>1 DEF Emit, ToHost, ToNetwork
      <4> QED BY <3>1, <4>1 DEF Leaf
    <3>2. CASE l.mark # Wanted(m, order)
      <4> DEFINE data == Converted(m, order, l, "little")
      <4>1. e = [l EXCEPT !.mark = Wanted(m, order), !.data = data]
        BY <2>1, <2>4, <3>2 DEF Emit, ToHost, ToNetwork, HasConverter, Leaf
      <4>2. CASE l.type = "double"
        <5>1. /\ data \in Order \cup {"wire", "junk"}
              /\ Endian[l.made] # "big" => data = IF Wanted(m, order) = "little" THEN "little" ELSE "wire"
          BY <2>4, <3>2, <4>2 DEF Converted, Leaf, Good, MarkTells
        <5>2. Endian[l.made] = "big" => l.abroad
          BY DEF Local
        <5> HIDE DEF data
        <5> QED BY <2>4, <4>1, <4>2, <5>1, <5>2 DEF Leaf, Good, MarkTells, Local
      <4>3. CASE l.type # "double"
        <5>1. data = Wanted(m, order)
          BY <2>4, <3>2, <4>3 DEF Converted, StructTo, ParamsTo, Flip, Leaf, Good, MarkTells
        <5> HIDE DEF data
        <5>2. /\ e \in Leaf /\ e.mark = Wanted(m, order) /\ e.data = Wanted(m, order)
              /\ e.class = l.class /\ e.type = l.type /\ e.made = l.made
              /\ e.first = l.first /\ e.abroad = l.abroad
          BY <2>2, <4>1, <5>1
        <5> QED BY <2>4, <4>3, <5>2 DEF Good, MarkTells, Local
      <4> QED BY <4>2, <4>3
    <3> QED BY <3>1, <3>2
  <2>5. CASE l.class = "string"
    <3>1. e = [l EXCEPT !.mark = Wanted(m, order)]
      BY <2>1, <2>5 DEF Emit, StringTo, Leaf
    <3> QED BY <2>5, <3>1 DEF Leaf, Good, MarkTells, Local
  <2>6. CASE l.class \in {"route", "big"}
    <3>1. e = [l EXCEPT !.mark = Wanted(m, order), !.data = Wanted(m, order)]
      BY <2>1, <2>6 DEF Emit, RouteTo, BigTo, BigParams, Flip, Leaf, Good, MarkTells, Local
    <3>2. /\ e \in Leaf /\ e.mark = Wanted(m, order) /\ e.data = Wanted(m, order)
          /\ e.class = l.class /\ e.type = l.type /\ e.made = l.made
          /\ e.first = l.first /\ e.abroad = l.abroad
      BY <2>2, <3>1
    <3> QED BY <2>6, <3>2 DEF Good, MarkTells, Local
  <2> QED BY <2>3, <2>4, <2>5, <2>6 DEF Leaf
<1> QED BY <1>1, <1>2, ByteOrderAssumption

LEMMA NewGood ==
  ASSUME NEW m \in Machine, NEW kind \in Kind, NEW l, l = New(m, kind)
  PROVE  l \in Leaf /\ Good(l) /\ Local(m, l) /\ Legible(m, l.mark)
<1>1. Endian[m] \in Order
  BY ByteOrderAssumption DEF Order
<1>2. /\ l.class = kind[1] /\ l.type = kind[2] /\ l.mark = Endian[m] /\ l.data = Endian[m]
      /\ l.made = m /\ l.first = Endian[m] /\ l.abroad = FALSE
  BY DEF New
<1>3. l \in Leaf
  BY <1>1 DEF New, Leaf, Kind
<1>4. Good(l)
  BY <1>1, <1>2 DEF Good, MarkTells, Order, Kind
<1> QED BY <1>2, <1>3, <1>4 DEF Local, Legible, IsHost, Kind

LEMMA WrittenGood ==
  ASSUME NEW m \in Machine, NEW order \in Asked, NEW l \in Leaf, Good(l), Local(m, l),
         NEW b, b = Written(m, order, l)
  PROVE  /\ b \in Leaf /\ Good(b) /\ b.class = "dson"
         /\ Legible(m, l.mark) => AskedTells(b)
<1> DEFINE e == Emit(m, order, l)
           first == IF l.class = "dson" THEN e.first ELSE Wanted(m, order)
<1>1. /\ e \in Leaf /\ Good(e) /\ e.class = l.class /\ e.type = l.type /\ e.first = l.first
      /\ l.class # "dson" => e.mark = Wanted(m, order)
      /\ Legible(m, l.mark) /\ e.mark = "little" =>
           \/ Wanted(m, order) = "little"
           \/ l.class = "dson" /\ l.type = "text" /\ l.first = "little"
  BY EmitGood
<1>2. Wanted(m, order) \in Order
  BY ByteOrderAssumption DEF Wanted, Order
<1>3. b = [e EXCEPT !.class = "dson", !.view = TRUE, !.asked = Wanted(m, order), !.first = first]
  BY DEF Written
<1> HIDE DEF e
<1>4. /\ b \in Leaf /\ b.class = "dson" /\ b.type = e.type /\ b.mark = e.mark /\ b.data = e.data
      /\ b.made = e.made /\ b.abroad = e.abroad /\ b.asked = Wanted(m, order) /\ b.first = first
  BY <1>1, <1>2, <1>3 DEF Leaf
<1>5. Good(b)
  BY <1>1, <1>4 DEF Good, MarkTells
<1> QED BY <1>1, <1>4, <1>5 DEF AskedTells

(* Arriving on another machine an object only notes where it has been.     *)
LEMMA ArrivedGood ==
  ASSUME NEW m \in Machine, NEW l \in Leaf, Good(l), l.class = "dson",
         NEW a, a = [l EXCEPT !.abroad = @ \/ Endian[m] # Endian[l.made]]
  PROVE  /\ a \in Leaf /\ Good(a) /\ Local(m, a) /\ a.class = "dson" /\ a.mark = l.mark
         /\ AskedTells(l) => AskedTells(a)
<1>1. /\ a \in Leaf /\ a.class = "dson" /\ a.type = l.type /\ a.mark = l.mark /\ a.data = l.data
      /\ a.made = l.made /\ a.asked = l.asked /\ a.first = l.first
      /\ a.abroad = (l.abroad \/ Endian[m] # Endian[l.made])
  BY DEF Leaf
<1>2. Good(a)
  BY <1>1 DEF Good, MarkTells
<1> QED BY <1>1, <1>2 DEF Local, AskedTells

(* What a reader of a good object gets.                                    *)
LEMMA GoodReads ==
  ASSUME NEW m \in Machine, NEW l \in Leaf, Good(l), Local(m, l),
         Legible(m, l.mark) \/ AskedTells(l)
  PROVE  Reads(m, Emit(m, "host", l)) \/ ForeignDouble(m, l) \/ NotMeantFor(m, l)
<1> DEFINE e == Emit(m, "host", l)
<1>1. /\ e \in Leaf /\ Good(e) /\ Local(m, e) /\ e.class = l.class /\ e.type = l.type
      /\ e.made = l.made /\ e.abroad = l.abroad
      /\ Legible(m, l.mark) => Legible(m, e.mark)
      /\ Legible(m, l.mark) /\ l.type # "text" => e.mark = Endian[m]
  BY EmitGood DEF Asked, Wanted
<1>2. l.mark \in Order /\ e.mark \in Order /\ l.made \in Machine /\ Endian[m] \in Order /\ Endian[l.made] \in Order
  BY <1>1, ByteOrderAssumption DEF Leaf, Order
<1> HIDE DEF e
<1>3. CASE ~Legible(m, l.mark)
  BY <1>2, <1>3 DEF AskedTells, Legible, IsHost, IsNetwork, NotMeantFor, Order
<1>4. CASE Legible(m, l.mark) /\ l.type = "text"
  BY <1>1, <1>4 DEF Reads, e
<1>5. CASE Legible(m, l.mark) /\ l.type # "text"
  <2>1. CASE l.type # "double"
    <3>1. e.data = Endian[m]
      BY <1>1, <1>5, <2>1 DEF Good, MarkTells, Leaf
    <3> QED BY <1>1, <1>5, <3>1 DEF Reads, e
  <2>2. CASE l.type = "double" /\ ~ForeignDouble(m, l)
    <3>1. e.data = Endian[m]
      BY <1>1, <1>2, <1>5, <2>2 DEF Good, MarkTells, ForeignDouble, Order
    <3> QED BY <1>1, <1>5, <3>1 DEF Reads, e
  <2> QED BY <2>1, <2>2
<1> QED BY <1>3, <1>4, <1>5

-----------------------------------------------------------------------------
(* The objects of an upload come in the order of their keys.               *)
LEMMA LeastNat ==
  ASSUME NEW T \in SUBSET Nat, T # {}
  PROVE  \E x \in T : \A y \in T : x <= y
<1> DEFINE R == {ss \in Nat \X Nat : ss[1] < ss[2]}
<1>1. IsWellFoundedOn(R, Nat)
  BY NatLessThanWellFounded, Zenon DEF OpToRel
<1>2. \A x, y \in Nat : y < x => <<y, x>> \in R
  OBVIOUS
<1> HIDE DEF R
<1>3. PICK x \in T : \A y \in T : ~(<<y, x>> \in R)
  BY <1>1, WFMin
<1>4. \A y \in T : x <= y
  <2> TAKE y \in T
  <2>1. ~(y < x)
    BY <1>2, <1>3, Zenon
  <2> QED BY <2>1
<1> QED BY <1>4

LEMMA LeavesType ==
  ASSUME NEW d \in Container
  PROVE  DOMAIN d.leaves \in SUBSET Key /\ d.leaves \in [DOMAIN d.leaves -> Leaf]
BY DEF Container

(* The objects of a parsed Dson may be replaced by any that can be read,   *)
(* and its header by one whose size can.                                   *)
LEMMA ReplacedInv ==
  ASSUME NEW m \in Machine, NEW d, DsonInv(m, d), d.parsed,
         NEW mark \in Order, NEW words \in Order,
         d.top = "container" => words = Taken(m, mark),
         NEW S \in SUBSET Key, NEW f \in [S -> Leaf], d.top = "one" => S # {},
         \A k \in S : Good(f[k]) /\ Local(m, f[k]) /\ Legible(m, f[k].mark),
         NEW n, n = [d EXCEPT !.mark = mark, !.order = words, !.leaves = f], HeaderTells(n)
  PROVE  DsonInv(m, n) /\ n.parsed
<1>1. d \in Container /\ d.state = "Ready"
  BY DEF DsonInv
<1>2. /\ n \in Container /\ n.state = "Ready" /\ n.parsed /\ n.top = d.top
      /\ n.mark = mark /\ n.order = words /\ n.leaves = f
  BY <1>1 DEF Container
<1>3. DOMAIN n.leaves = S /\ \A k \in S : n.leaves[k] = f[k]
  BY <1>2
<1> QED BY <1>2, <1>3 DEF DsonInv

LEMMA ParseInv ==
  ASSUME NEW m \in Machine, NEW d, DsonInv(m, d), d.state = "Ready",
         NEW p, p = Parse(m, d)
  PROVE  /\ DsonInv(m, p) /\ p.top = d.top /\ p.mark = d.mark /\ p.leaves = d.leaves
         /\ p.order = d.order /\ p.kept = d.kept
         /\ p.state = "Ready" => p.parsed
         /\ d.parsed => p = d
<1>1. d \in Container
  BY DEF DsonInv
<1>2. CASE \A k \in DOMAIN d.leaves : Legible(m, d.leaves[k].mark)
  <2>1. p = [d EXCEPT !.parsed = TRUE]
    BY <1>2 DEF Parse
  <2>2. /\ p \in Container /\ p.state = "Ready" /\ p.parsed /\ p.top = d.top /\ p.mark = d.mark
        /\ p.order = d.order /\ p.kept = d.kept /\ p.leaves = d.leaves /\ (d.parsed => p = d)
    BY <1>1, <2>1 DEF Container
  <2> QED BY <1>2, <2>2 DEF DsonInv, HeaderTells
<1>3. CASE ~\A k \in DOMAIN d.leaves : Legible(m, d.leaves[k].mark)
  <2>1. ~d.parsed /\ p = [d EXCEPT !.state = "Error"]
    BY <1>3 DEF Parse, DsonInv
  <2>2. /\ p \in Container /\ p.state = "Error" /\ ~p.parsed /\ p.top = d.top /\ p.mark = d.mark
        /\ p.order = d.order /\ p.kept = d.kept /\ p.leaves = d.leaves /\ p.asked = d.asked
    BY <1>1, <2>1 DEF Container
  <2>3. PICK k \in DOMAIN d.leaves : ~Legible(m, d.leaves[k].mark)
    BY <1>3
  <2>4. NotMeantFor(m, d.leaves[k])
    <3>1. d.leaves[k].mark \in Order /\ Endian[m] \in Order
      BY <1>1, LeavesType, ByteOrderAssumption DEF Leaf, Order
    <3> QED BY <2>1, <2>3, <3>1 DEF DsonInv, AskedTells, NotMeantFor, Legible, IsHost, IsNetwork, Order
  <2> QED BY <2>1, <2>2, <2>4 DEF DsonInv, HeaderTells, HeaderAskedTells
<1> QED BY <1>2, <1>3

(* Without objects any mark will do, of an earlier load as well.           *)
LEMMA VacantInv ==
  ASSUME NEW m \in Machine, NEW mark \in Order, NEW v, v = Vacant(m, mark)
  PROVE  DsonInv(m, v) /\ v.parsed /\ v.state = "Ready" /\ DOMAIN v.leaves = {}
<1>1. Endian[m] \in Order
  BY ByteOrderAssumption DEF Order
<1>2. Taken(m, mark) \in Order /\ IF Legible(m, mark) THEN Taken(m, mark) = mark
                                   ELSE mark = "little" /\ Taken(m, mark) = "big"
  BY <1>1 DEF Taken, Legible, IsHost, IsNetwork, Order
<1>3. v.leaves \in [{} -> Leaf] /\ DOMAIN v.leaves = {}
  BY DEF Vacant
<1>4. /\ v \in Container /\ v.state = "Ready" /\ v.top = "container" /\ v.parsed
      /\ v.mark = mark /\ v.order = Taken(m, mark) /\ v.kept = ~Legible(m, mark)
  BY <1>1, <1>2, <1>3 DEF Vacant, Container
<1> QED BY <1>2, <1>3, <1>4 DEF DsonInv, HeaderTells

LEMMA EmptyInv ==
  ASSUME NEW m \in Machine
  PROVE  /\ DsonInv(m, Empty(m)) /\ Empty(m).state = "Ready" /\ DOMAIN Empty(m).leaves = {}
         /\ Empty(m).top = "container" /\ Empty(m).mark = Empty(m).asked
<1>1. Endian[m] \in Order
  BY ByteOrderAssumption DEF Order
<1>2. Empty(m) = Vacant(m, Endian[m]) /\ Empty(m).top = "container" /\ Empty(m).mark = Empty(m).asked
  BY DEF Empty, Vacant
<1> QED BY <1>1, <1>2, VacantInv

(* A copy writes its size in the order of the mark it then has; but that   *)
(* is still the mark that was kept, on a big machine.                      *)
LEMMA HeadedTells ==
  ASSUME NEW m \in Machine, NEW order \in Asked, NEW p \in Container, HeaderTells(p),
         p.top = "container" => p.order = Taken(m, p.mark),
         NEW h, h = Headed(m, order, p)
  PROVE  /\ h \in Container /\ HeaderTells(h)
         /\ h.top = p.top /\ h.parsed = p.parsed /\ h.state = p.state /\ h.kept = p.kept
         /\ h.leaves = p.leaves
         /\ h.order = Taken(m, h.mark)
         /\ h.top = "container" /\ h.mark = "little" => Wanted(m, order) = "little" \/ h.kept
<1> DEFINE mark == HeaderTo(m, order, p.mark)
           words == Taken(m, mark)
<1>1. Endian[m] \in Order /\ p.mark \in Order /\ p.order \in Order /\ p.kept \in BOOLEAN
  BY ByteOrderAssumption DEF Order, Container
<1>2. mark \in Order /\ words \in Order
  BY <1>1 DEF Asked, Order, HeaderTo, Flip, IsIn, IsHost, IsNetwork, Taken
<1>3. CASE Endian[m] = "big"
  <2>1. mark = p.mark /\ words = "big" /\ Taken(m, p.mark) = "big"
    BY <1>1, <1>3 DEF Asked, Order, HeaderTo, Flip, IsIn, IsHost, IsNetwork, Taken
  <2> HIDE DEF mark, words
  <2>2. h = [p EXCEPT !.mark = mark, !.order = words]
    BY DEF Headed, mark, words
  <2>3. /\ h \in Container /\ h.mark = mark /\ h.order = words /\ h.top = p.top /\ h.parsed = p.parsed
        /\ h.state = p.state /\ h.kept = p.kept /\ h.leaves = p.leaves
    BY <1>2, <2>2 DEF Container
  <2> QED BY <1>1, <1>2, <2>1, <2>2, <2>3 DEF HeaderTells, words
<1>4. CASE Endian[m] = "little"
  <2>1. mark = Wanted(m, order) /\ words = mark /\ Taken(m, p.mark) = p.mark
    BY <1>1, <1>4 DEF Asked, Order, HeaderTo, Flip, IsIn, IsHost, IsNetwork, Taken, Wanted
  <2> HIDE DEF mark, words
  <2>2. h = [p EXCEPT !.mark = mark, !.order = words]
    BY DEF Headed, mark, words
  <2>3. /\ h \in Container /\ h.mark = mark /\ h.order = words /\ h.top = p.top /\ h.parsed = p.parsed
        /\ h.state = p.state /\ h.kept = p.kept /\ h.leaves = p.leaves
    BY <1>2, <2>2 DEF Container
  <2>4. p.top = "container" => ~p.kept
    BY <2>1 DEF HeaderTells
  <2> QED BY <1>1, <1>2, <2>1, <2>2, <2>3, <2>4 DEF HeaderTells, words
<1> QED BY <1>1, <1>3, <1>4 DEF Order

-----------------------------------------------------------------------------
(* A step that only changes the Dson of a machine that does not upload.    *)
LEMMA LocalStep ==
  ASSUME OrderInv, NEW m \in Machine, writer # m, NEW n, DsonInv(m, n),
         dson' = [dson EXCEPT ![m] = n], UNCHANGED <<file, complete, todo, writer>>
  PROVE  OrderInv'
<1>1. DOMAIN dson' = Machine /\ dson'[m] = n /\ \A i \in Machine : i # m => dson'[i] = dson[i]
  BY DEF OrderInv
<1>2. \A i \in Machine : DsonInv(i, dson'[i])
  BY <1>1 DEF OrderInv
<1>3. FileInv'
  BY DEF OrderInv, FileInv
<1>4. UploadInv'
  BY <1>1 DEF OrderInv, UploadInv
<1> QED BY <1>1, <1>2, <1>3, <1>4 DEF OrderInv

LEMMA MakeInv ==
  ASSUME OrderInv, NEW m \in Machine, NEW k \in Key, NEW kind \in Kind, Make(m, k, kind)
  PROVE  OrderInv'
<1> DEFINE l == New(m, kind)
           n == [Empty(m) EXCEPT !.top = "one", !.leaves = At(k, l)]
<1>1. l \in Leaf /\ Good(l) /\ Local(m, l) /\ Legible(m, l.mark)
  BY NewGood
<1> HIDE DEF l
<1>2. At(k, l) \in [{k} -> Leaf] /\ At(k, l)[k] = l /\ DOMAIN At(k, l) = {k}
  BY <1>1 DEF At
<1>3. Endian[m] \in Order
  BY ByteOrderAssumption DEF Order
<1>4. /\ n \in Container /\ n.state = "Ready" /\ n.top = "one" /\ n.parsed
      /\ n.leaves = At(k, l)
  <2>1. Taken(m, Endian[m]) \in Order /\ Legible(m, Endian[m]) \in BOOLEAN
    BY <1>3 DEF Taken, IsHost, Legible, IsNetwork, Order
  <2> QED BY <1>2, <1>3, <2>1 DEF Empty, Vacant, Container
<1> HIDE DEF n
<1>5. DsonInv(m, n)
  BY <1>1, <1>2, <1>4 DEF DsonInv, HeaderTells
<1>6. writer # m /\ dson' = [dson EXCEPT ![m] = n] /\ UNCHANGED <<file, complete, todo, writer>>
  BY DEF Make, n, l
<1> QED BY <1>5, <1>6, LocalStep

LEMMA ClearInv ==
  ASSUME OrderInv, NEW m \in Machine, Clear(m)
  PROVE  OrderInv'
<1> DEFINE d == dson[m]
           n == Vacant(m, KeptMark(m, d))
<1>1. writer # m /\ dson' = [dson EXCEPT ![m] = n] /\ UNCHANGED <<file, complete, todo, writer>>
  BY DEF Clear
<1>2. d \in Container /\ (d.top = "one" => DOMAIN d.leaves # {}) /\ Endian[m] \in Order
  BY ByteOrderAssumption DEF OrderInv, DsonInv, Order
<1>3. KeptMark(m, d) \in Order
  <2>1. CASE d.top = "container"
    BY <1>2, <2>1 DEF KeptMark, FirstMark, Container
  <2>2. CASE d.top = "one"
    <3>1. PICK k \in DOMAIN d.leaves : FirstMark(d) = d.leaves[k].mark
      BY <1>2, <2>2 DEF FirstMark
    <3>2. FirstMark(d) \in Order
      BY <1>2, <3>1, LeavesType DEF Leaf
    <3> QED BY <1>2, <3>2 DEF KeptMark
  <2> QED BY <1>2, <2>1, <2>2 DEF Container
<1>4. DsonInv(m, n)
  BY <1>3, VacantInv
<1> HIDE DEF n
<1> QED BY <1>1, <1>4, LocalStep

LEMMA EmplaceInv ==
  ASSUME OrderInv, NEW m \in Machine, NEW k \in Key, NEW kind \in Kind, Emplace(m, k, kind)
  PROVE  OrderInv'
<1> DEFINE l == New(m, kind)
           p == Parse(m, dson[m])
           f == Over(p.leaves, At(k, l))
           n == IF p.state = "Error" THEN p ELSE [p EXCEPT !.leaves = f]
<1>1. l \in Leaf /\ Good(l) /\ Local(m, l) /\ Legible(m, l.mark)
  BY NewGood
<1>2. DsonInv(m, dson[m]) /\ dson[m].state = "Ready" /\ dson[m].top = "container"
  BY DEF OrderInv, Emplace, Free
<1>3. DsonInv(m, p) /\ p.top = "container" /\ (p.state = "Ready" => p.parsed)
  BY <1>2, ParseInv
<1>4. /\ writer # m /\ dson' = [dson EXCEPT ![m] = n]
      /\ UNCHANGED <<file, complete, todo, writer>>
  BY DEF Emplace, Free
<1> HIDE DEF l, p
<1>5. DsonInv(m, n)
  <2>1. CASE p.state = "Error"
    BY <1>3, <2>1
  <2>2. CASE p.state # "Error"
    <3>1. /\ p \in Container /\ p.parsed /\ p.mark \in Order /\ p.order \in Order
          /\ HeaderTells(p) /\ p.order = Taken(m, p.mark)
      BY <1>3, <2>2 DEF DsonInv, Container
    <3>2. DOMAIN p.leaves \in SUBSET Key /\ p.leaves \in [DOMAIN p.leaves -> Leaf]
      BY <3>1, LeavesType
    <3> DEFINE S == DOMAIN p.leaves \cup {k}
    <3>3. /\ S \in SUBSET Key /\ f \in [S -> Leaf]
          /\ \A i \in S : f[i] = IF i = k THEN l ELSE p.leaves[i]
      BY <1>1, <3>2 DEF Over, At
    <3> HIDE DEF f
    <3>4. \A i \in S : Good(f[i]) /\ Local(m, f[i]) /\ Legible(m, f[i].mark)
      BY <1>1, <1>3, <3>1, <3>3 DEF DsonInv
    <3>5. n = [p EXCEPT !.mark = p.mark, !.order = p.order, !.leaves = f] /\ HeaderTells(n)
      BY <2>2, <3>1 DEF Container, HeaderTells
    <3> HIDE DEF n, S
    <3> QED BY <1>3, <3>1, <3>3, <3>4, <3>5, ReplacedInv
  <2> QED BY <2>1, <2>2
<1> HIDE DEF n
<1> QED BY <1>4, <1>5, LocalStep

(* get() and map() convert objects to host order, or leave them alone.     *)
LEMMA ConvertedInv ==
  ASSUME NEW m \in Machine, NEW order \in Asked, NEW d, DsonInv(m, d), d.parsed,
         NEW mark \in Order, NEW words \in Order, d.top = "container" => words = Taken(m, mark),
         NEW f, DOMAIN f = DOMAIN d.leaves, f = [k \in DOMAIN f |-> f[k]],
         \A k \in DOMAIN f : f[k] \in {d.leaves[k], Emit(m, order, d.leaves[k])},
         NEW n, n = [d EXCEPT !.mark = mark, !.order = words, !.leaves = f], HeaderTells(n)
  PROVE  DsonInv(m, n) /\ n.parsed
<1>1. d \in Container /\ (d.top = "one" => DOMAIN d.leaves # {})
  BY DEF DsonInv
<1>2. DOMAIN d.leaves \in SUBSET Key /\ d.leaves \in [DOMAIN d.leaves -> Leaf]
  BY <1>1, LeavesType
<1>3. ASSUME NEW k \in DOMAIN f
      PROVE  f[k] \in Leaf /\ Good(f[k]) /\ Local(m, f[k]) /\ Legible(m, f[k].mark)
  <2>1. /\ d.leaves[k] \in Leaf /\ Good(d.leaves[k]) /\ Local(m, d.leaves[k])
        /\ Legible(m, d.leaves[k].mark)
    BY <1>2, <1>3 DEF DsonInv
  <2>2. CASE f[k] = d.leaves[k]
    BY <2>1, <2>2
  <2>3. CASE f[k] = Emit(m, order, d.leaves[k])
    BY <2>1, <2>3, EmitGood
  <2> QED BY <2>2, <2>3
<1>4. f \in [DOMAIN f -> Leaf]
  BY <1>3
<1> QED BY <1>1, <1>2, <1>3, <1>4, ReplacedInv

LEMMA GetInv ==
  ASSUME OrderInv, NEW m \in Machine, NEW k \in Key, Get(m, k)
  PROVE  OrderInv'
<1> DEFINE p == Parse(m, dson[m])
           f == [p.leaves EXCEPT ![k] = Access(m, @)]
           n == IF p.state = "Error" THEN p ELSE [p EXCEPT !.leaves[k] = Access(m, @)]
<1>1. DsonInv(m, dson[m]) /\ dson[m].state = "Ready"
  BY DEF OrderInv, Get, Free
<1>2. DsonInv(m, p) /\ (p.state = "Ready" => p.parsed)
  BY <1>1, ParseInv
<1>3. /\ writer # m /\ dson' = [dson EXCEPT ![m] = n]
      /\ UNCHANGED <<file, complete, todo, writer>>
  BY DEF Get, Free
<1> HIDE DEF p
<1>4. DsonInv(m, n)
  <2>1. CASE p.state = "Error"
    BY <1>2, <2>1
  <2>2. CASE p.state # "Error"
    <3>1. p \in Container /\ p.parsed /\ p.mark \in Order /\ p.order \in Order /\ HeaderTells(p)
      BY <1>2, <2>2 DEF DsonInv, Container
    <3>2. p.top = "container" => p.order = Taken(m, p.mark)
      BY <1>2, <3>1 DEF DsonInv
    <3>3. \A i \in DOMAIN f : f[i] \in {p.leaves[i], Emit(m, "host", p.leaves[i])}
      BY DEF Access
    <3>4. DOMAIN f = DOMAIN p.leaves /\ f = [i \in DOMAIN f |-> f[i]]
      OBVIOUS
    <3>5. n = [p EXCEPT !.mark = p.mark, !.order = p.order, !.leaves = f] /\ HeaderTells(n)
      BY <2>2, <3>1 DEF Container, HeaderTells
    <3> HIDE DEF f, n
    <3> QED BY <1>2, <3>1, <3>2, <3>3, <3>4, <3>5, ConvertedInv DEF Asked
  <2> QED BY <2>1, <2>2
<1> HIDE DEF n
<1> QED BY <1>3, <1>4, LocalStep

LEMMA MapInv ==
  ASSUME OrderInv, NEW m \in Machine, Map(m)
  PROVE  OrderInv'
<1> DEFINE p == Parse(m, dson[m])
           Host(l) == IF l.class = "dson" THEN ToHost(m, l) ELSE l
           f == [k \in DOMAIN p.leaves |-> Host(p.leaves[k])]
           n == IF p.state = "Error" THEN p ELSE [p EXCEPT !.leaves = f]
<1>1. DsonInv(m, dson[m]) /\ dson[m].state = "Ready"
  BY DEF OrderInv, Map, Free
<1>2. DsonInv(m, p) /\ (p.state = "Ready" => p.parsed)
  BY <1>1, ParseInv
<1>3. /\ writer # m /\ dson' = [dson EXCEPT ![m] = n]
      /\ UNCHANGED <<file, complete, todo, writer>>
  BY DEF Map, Free, Each
<1> HIDE DEF p
<1>4. DsonInv(m, n)
  <2>1. CASE p.state = "Error"
    BY <1>2, <2>1
  <2>2. CASE p.state # "Error"
    <3>1. p \in Container /\ p.parsed /\ p.mark \in Order /\ p.order \in Order /\ HeaderTells(p)
      BY <1>2, <2>2 DEF DsonInv, Container
    <3>2. p.top = "container" => p.order = Taken(m, p.mark)
      BY <1>2, <3>1 DEF DsonInv
    <3>3. \A i \in DOMAIN f : f[i] \in {p.leaves[i], Emit(m, "host", p.leaves[i])}
      BY DEF Emit
    <3>4. DOMAIN f = DOMAIN p.leaves /\ f = [i \in DOMAIN f |-> f[i]]
      OBVIOUS
    <3>5. n = [p EXCEPT !.mark = p.mark, !.order = p.order, !.leaves = f] /\ HeaderTells(n)
      BY <2>2, <3>1 DEF Container, HeaderTells
    <3> HIDE DEF f, n
    <3> QED BY <1>2, <3>1, <3>2, <3>3, <3>4, <3>5, ConvertedInv DEF Asked
  <2> QED BY <2>1, <2>2
<1> HIDE DEF n
<1> QED BY <1>3, <1>4, LocalStep

(* Whatever m was not sent in an order it knows was asked for in another,  *)
(* or has a mark that was kept.                                            *)
LEMMA LoadInv ==
  ASSUME OrderInv, NEW m \in Machine, Load(m)
  PROVE  OrderInv'
<1> DEFINE Arrived(l) == [l EXCEPT !.abroad = @ \/ Endian[m] # Endian[l.made]]
           f == [k \in DOMAIN file.leaves |-> Arrived(file.leaves[k])]
           state == IF Opens(m, file) THEN "Ready" ELSE "Error"
           n == [file EXCEPT !.parsed = FALSE, !.state = state, !.leaves = f]
           empty == file.leaves = Empty(m).leaves
           v == Vacant(m, file.mark)
<1>1. /\ file \in Container /\ file.state = "Ready"
      /\ \A k \in DOMAIN file.leaves :
           Good(file.leaves[k]) /\ file.leaves[k].class = "dson" /\ AskedTells(file.leaves[k])
      /\ HeaderTells(file) /\ HeaderAskedTells(file)
      /\ file.top = "one" => DOMAIN file.leaves # {}
  BY DEF OrderInv, FileInv, Load
<1>2. DOMAIN file.leaves \in SUBSET Key /\ file.leaves \in [DOMAIN file.leaves -> Leaf]
  BY <1>1, LeavesType
<1>3. ASSUME NEW k \in DOMAIN file.leaves
      PROVE  /\ f[k] \in Leaf /\ Good(f[k]) /\ Local(m, f[k]) /\ f[k].class = "dson"
             /\ f[k].mark = file.leaves[k].mark /\ AskedTells(f[k])
  <2>1. f[k] = [file.leaves[k] EXCEPT !.abroad = @ \/ Endian[m] # Endian[file.leaves[k].made]]
    BY <1>3
  <2> HIDE DEF f
  <2> QED BY <1>1, <1>2, <1>3, <2>1, ArrivedGood
<1>4. f \in [DOMAIN file.leaves -> Leaf] /\ DOMAIN f = DOMAIN file.leaves
  BY <1>3
<1>5. /\ writer # m /\ dson' = [dson EXCEPT ![m] = IF empty THEN v ELSE n]
      /\ UNCHANGED <<file, complete, todo, writer>>
  BY DEF Load, Each
<1> HIDE DEF f
<1>6. /\ n \in Container /\ ~n.parsed /\ n.state = state /\ n.top = file.top /\ n.mark = file.mark
      /\ n.order = file.order /\ n.kept = file.kept
      /\ n.asked = file.asked /\ n.leaves = f
  BY <1>1, <1>2, <1>4 DEF Container
<1> HIDE DEF n
<1>7. ASSUME state = "Error"
      PROVE  \/ Endian[m] = "big" /\ n.asked = "little"
             \/ \E k \in DOMAIN n.leaves : NotMeantFor(m, n.leaves[k])
             \/ Mismarked(m, n)
  <2>1. Endian[m] \in Order /\ ~Opens(m, file)
    BY <1>7, ByteOrderAssumption DEF Order
  <2>2. CASE file.top = "container"
    <3>1. file.mark \in Order /\ file.order \in Order /\ file.order # Taken(m, file.mark)
      BY <1>1, <2>1, <2>2 DEF Opens, Container
    <3>2. CASE Endian[m] = "little"
      <4>1. Taken(m, file.mark) = file.mark
        BY <3>1, <3>2 DEF Taken, IsHost, Order
      <4> QED BY <1>1, <1>6, <2>2, <3>1, <3>2, <4>1 DEF HeaderTells, Mismarked
    <3>3. CASE Endian[m] = "big"
      <4>1. file.order = "little" /\ ~file.kept
        BY <1>1, <2>2, <3>1, <3>3 DEF Taken, IsHost, Order, HeaderTells
      <4> QED BY <1>1, <1>6, <2>2, <3>3, <4>1 DEF HeaderTells, HeaderAskedTells
    <3> QED BY <2>1, <3>2, <3>3 DEF Order
  <2>3. CASE file.top = "one"
    <3>1. PICK k \in DOMAIN file.leaves : FirstMark(file) = file.leaves[k].mark
      BY <1>1, <2>3 DEF FirstMark
    <3>2. /\ f[k].mark \in Order /\ f[k].mark = FirstMark(file) /\ AskedTells(f[k])
          /\ ~Legible(m, FirstMark(file))
      BY <1>3, <2>1, <2>3, <3>1 DEF Leaf, Opens
    <3>3. NotMeantFor(m, f[k])
      BY <2>1, <3>2 DEF AskedTells, NotMeantFor, Legible, IsHost, IsNetwork, Order
    <3> QED BY <1>4, <1>6, <3>3
  <2> QED BY <1>1, <2>2, <2>3 DEF Container
<1>8. n.top = "container" /\ n.state = "Ready" => n.order = Taken(m, n.mark)
  BY <1>6 DEF Opens
<1>9. DsonInv(m, n)
  BY <1>1, <1>3, <1>4, <1>6, <1>7, <1>8 DEF DsonInv, HeaderTells, HeaderAskedTells
<1>10. DsonInv(m, v)
  BY <1>1, VacantInv DEF Container
<1> HIDE DEF v, empty
<1>11. DsonInv(m, IF empty THEN v ELSE n)
  BY <1>9, <1>10
<1> QED BY <1>5, <1>11, LocalStep

-----------------------------------------------------------------------------
(* What is written is marked with the order that was asked for.            *)
LEMMA BeginUploadInv ==
  ASSUME OrderInv, NEW m \in Machine, NEW order \in Asked, BeginUpload(m, order)
  PROVE  OrderInv'
<1> DEFINE d == dson[m]
           n == Headed(m, order, d)
           none == Empty(m).leaves
           w == [n EXCEPT !.asked = Wanted(m, order), !.leaves = none]
<1>1. /\ DsonInv(m, d) /\ d.parsed /\ d.state = "Ready" /\ d.top = "container" /\ d \in Container
      /\ HeaderTells(d) /\ d.order = Taken(m, d.mark)
  BY DEF OrderInv, BeginUpload, Free, DsonInv
<1>2. /\ dson' = [dson EXCEPT ![m] = n] /\ file' = w
      /\ complete' = FALSE /\ todo' = DOMAIN d.leaves /\ writer' = m
  BY DEF BeginUpload
<1>3. /\ n \in Container /\ HeaderTells(n) /\ n.top = "container" /\ n.parsed /\ n.state = "Ready"
      /\ n.leaves = d.leaves /\ n.order = Taken(m, n.mark)
      /\ n.mark = "little" => Wanted(m, order) = "little" \/ n.kept
  <2> HIDE DEF d, n
  <2>1. n = Headed(m, order, d)
    BY DEF n
  <2>2. d.top = "container" => d.order = Taken(m, d.mark)
    BY <1>1
  <2>3. d \in Container /\ HeaderTells(d)
    BY <1>1
  <2>4. /\ n \in Container /\ HeaderTells(n)
        /\ n.top = d.top /\ n.parsed = d.parsed /\ n.state = d.state /\ n.kept = d.kept
        /\ n.leaves = d.leaves
        /\ n.order = Taken(m, n.mark)
        /\ n.top = "container" /\ n.mark = "little" => Wanted(m, order) = "little" \/ n.kept
    BY <2>1, <2>2, <2>3, HeadedTells
  <2> QED BY <1>1, <2>4
<1> HIDE DEF d, n
<1>4. DsonInv(m, n)
  BY <1>1, <1>3 DEF DsonInv
<1>5. DOMAIN dson' = Machine /\ dson'[m] = n /\ \A i \in Machine : i # m => dson'[i] = dson[i]
  BY <1>2 DEF OrderInv
<1>6. \A i \in Machine : DsonInv(i, dson'[i])
  BY <1>4, <1>5 DEF OrderInv
<1>7. FileInv'
  <2>1. none \in [{} -> Leaf] /\ DOMAIN none = {}
    BY DEF Empty, Vacant
  <2>2. Wanted(m, order) \in Order
    BY ByteOrderAssumption DEF Wanted, Order
  <2> HIDE DEF none
  <2>3. /\ w \in Container /\ DOMAIN w.leaves = {} /\ w.state = "Ready" /\ w.top = "container"
        /\ w.mark = n.mark /\ w.order = n.order /\ w.kept = n.kept /\ w.asked = Wanted(m, order)
    BY <1>3, <2>1, <2>2 DEF Container
  <2> HIDE DEF w
  <2> QED BY <1>2, <1>3, <2>3 DEF FileInv, HeaderTells, HeaderAskedTells
<1>8. UploadInv'
  BY <1>2, <1>3, <1>5 DEF UploadInv
<1> QED BY <1>5, <1>6, <1>7, <1>8 DEF OrderInv

LEMMA UploadNextInv ==
  ASSUME OrderInv, NEW m \in Machine, NEW order \in Asked, UploadNext(m, order)
  PROVE  OrderInv'
<1> DEFINE d == dson[m]
           k == CHOOSE i \in todo : \A j \in todo : i <= j
           l == d.leaves[k]
           b == Written(m, order, l)
           f == [d.leaves EXCEPT ![k] = Emit(m, order, l)]
           n == [d EXCEPT !.leaves = f]
           g == Over(file.leaves, At(k, b))
<1>1. DsonInv(m, d) /\ d.parsed /\ d \in Container /\ todo \subseteq DOMAIN d.leaves /\ todo # {}
  BY ByteOrderAssumption DEF OrderInv, UploadNext, UploadInv, DsonInv
<1>2. DOMAIN d.leaves \in SUBSET Key /\ d.leaves \in [DOMAIN d.leaves -> Leaf]
  BY <1>1, LeavesType
<1>3. k \in todo
  <2>1. \E x \in todo : \A y \in todo : x <= y
    <3>1. todo \in SUBSET Nat
      BY <1>1, <1>2, ByteOrderAssumption
    <3> QED BY <1>1, <3>1, LeastNat
  <2> QED BY <2>1
<1>4. /\ dson' = [dson EXCEPT ![m] = n] /\ file' = [file EXCEPT !.leaves = g]
      /\ todo' = todo \ {k} /\ UNCHANGED <<complete, writer>> /\ writer = m
  BY DEF UploadNext
<1> HIDE DEF k, d
<1>5. /\ l \in Leaf /\ Good(l) /\ Local(m, l) /\ Legible(m, l.mark)
      /\ d.mark \in Order /\ d.order \in Order /\ HeaderTells(d)
      /\ d.top = "container" => d.order = Taken(m, d.mark)
  BY <1>1, <1>2, <1>3 DEF DsonInv, Container
<1>6. DsonInv(m, n) /\ n.parsed /\ DOMAIN n.leaves = DOMAIN d.leaves
  <2>1. \A i \in DOMAIN f : f[i] \in {d.leaves[i], Emit(m, order, d.leaves[i])}
    OBVIOUS
  <2>2. DOMAIN f = DOMAIN d.leaves /\ f = [i \in DOMAIN f |-> f[i]]
    OBVIOUS
  <2>3. /\ n = [d EXCEPT !.mark = d.mark, !.order = d.order, !.leaves = f] /\ n.leaves = f
        /\ HeaderTells(n)
    BY <1>1, <1>5 DEF Container, HeaderTells
  <2> HIDE DEF f, n, l
  <2>4. DsonInv(m, n) /\ n.parsed
    <3>1. n = [d EXCEPT !.mark = d.mark, !.order = d.order, !.leaves = f] /\ HeaderTells(n)
      BY <2>3
    <3>2. /\ DsonInv(m, d) /\ d.parsed /\ d.mark \in Order /\ d.order \in Order
          /\ d.top = "container" => d.order = Taken(m, d.mark)
      BY <1>1, <1>5
    <3> QED BY <2>1, <2>2, <3>1, <3>2, ConvertedInv, ZenonT(60)
  <2> QED BY <2>2, <2>3, <2>4
<1>7. b \in Leaf /\ Good(b) /\ b.class = "dson" /\ AskedTells(b)
  <2> HIDE DEF l
  <2> QED BY <1>5, WrittenGood
<1> HIDE DEF n, l, b
<1>8. DOMAIN dson' = Machine /\ dson'[m] = n /\ \A i \in Machine : i # m => dson'[i] = dson[i]
  BY <1>4 DEF OrderInv
<1>9. \A i \in Machine : DsonInv(i, dson'[i])
  BY <1>6, <1>8 DEF OrderInv
<1>10. FileInv'
  <2>1. /\ file \in Container /\ file.state = "Ready"
        /\ \A i \in DOMAIN file.leaves :
             Good(file.leaves[i]) /\ file.leaves[i].class = "dson" /\ AskedTells(file.leaves[i])
        /\ HeaderTells(file) /\ HeaderAskedTells(file)
    BY <1>4, ByteOrderAssumption DEF OrderInv, FileInv
  <2>2. DOMAIN file.leaves \in SUBSET Key /\ file.leaves \in [DOMAIN file.leaves -> Leaf]
    BY <2>1, LeavesType
  <2> DEFINE S == DOMAIN file.leaves \cup {k}
  <2>3. /\ S \in SUBSET Key /\ g \in [S -> Leaf]
        /\ \A i \in S : g[i] = IF i = k THEN b ELSE file.leaves[i]
    BY <1>1, <1>2, <1>3, <1>7, <2>2 DEF Over, At
  <2> HIDE DEF g
  <2>4. /\ file' \in Container /\ file'.state = "Ready" /\ file'.leaves = g
        /\ file'.top = file.top /\ file'.mark = file.mark /\ file'.asked = file.asked
        /\ file'.order = file.order /\ file'.kept = file.kept
    BY <1>4, <2>1, <2>3 DEF Container
  <2>5. DOMAIN g = S /\ S # {}
    BY <2>3
  <2>6. \A i \in S : Good(g[i]) /\ g[i].class = "dson" /\ AskedTells(g[i])
    BY <1>7, <2>1, <2>3
  <2> HIDE DEF S
  <2> QED BY <2>1, <2>4, <2>5, <2>6 DEF FileInv, HeaderTells, HeaderAskedTells
<1>11. UploadInv'
  BY <1>1, <1>4, <1>6, <1>8 DEF OrderInv, UploadInv
<1> QED BY <1>8, <1>9, <1>10, <1>11 DEF OrderInv

LEMMA EndUploadInv ==
  ASSUME OrderInv, NEW m \in Machine, EndUpload(m)
  PROVE  OrderInv'
<1>1. /\ writer = m /\ writer # None /\ complete' = TRUE /\ writer' = None
      /\ UNCHANGED <<dson, file>>
  BY ByteOrderAssumption DEF EndUpload
<1>2. FileInv'
  BY <1>1 DEF OrderInv, FileInv
<1>3. UploadInv'
  BY <1>1 DEF UploadInv
<1> QED BY <1>1, <1>2, <1>3 DEF OrderInv

LEMMA CopyInv ==
  ASSUME OrderInv, NEW m \in Machine, NEW order \in Asked, Copy(m, order)
  PROVE  OrderInv'
<1> DEFINE d == dson[m]
           P(raw) == IF raw THEN d ELSE Parse(m, d)
           N(raw) == IF raw \/ P(raw).state = "Error" THEN P(raw)
                     ELSE [Headed(m, order, P(raw)) EXCEPT
                             !.leaves = [k \in DOMAIN @ |-> Emit(m, order, @[k])]]
           W(raw) == IF raw THEN d
                     ELSE [Headed(m, order, P(raw)) EXCEPT !.asked = Wanted(m, order),
                             !.leaves = [k \in DOMAIN @ |-> Written(m, order, @[k])]]
<1>1. DsonInv(m, d) /\ d.state = "Ready"
  BY DEF OrderInv, Copy, Free
<1>2. PICK raw \in AsItCame(m, order, d) :
        /\ writer = None /\ dson' = [dson EXCEPT ![m] = N(raw)] /\ file' = W(raw)
        /\ complete' = (P(raw).state = "Ready") /\ writer' = None
  BY DEF Copy, Each
<1> DEFINE p == P(raw)
           h == Headed(m, order, p)
           n == N(raw)
           w == W(raw)
           f == [k \in DOMAIN p.leaves |-> Emit(m, order, p.leaves[k])]
           g == [k \in DOMAIN p.leaves |-> Written(m, order, p.leaves[k])]
<1>3. /\ DsonInv(m, p) /\ p.top = d.top /\ p.mark = d.mark /\ p.order = d.order
      /\ ~raw /\ p.state = "Ready" => p.parsed
  <2>1. CASE raw
    BY <1>1, <2>1
  <2>2. CASE ~raw
    <3>1. p = Parse(m, d)
      BY <2>2
    <3> HIDE DEF p, d
    <3> QED BY <1>1, <2>2, <3>1, ParseInv
  <2> QED BY <2>1, <2>2
<1>4. Wanted(m, order) \in Order
  BY ByteOrderAssumption DEF Wanted, Order
<1>5. /\ h \in Container /\ HeaderTells(h) /\ h.top = p.top /\ h.parsed = p.parsed
      /\ h.state = p.state /\ h.kept = p.kept /\ h.leaves = p.leaves
      /\ h.order = Taken(m, h.mark)
      /\ h.top = "container" /\ h.mark = "little" => Wanted(m, order) = "little" \/ h.kept
  <2>1. /\ p \in Container /\ HeaderTells(p)
        /\ p.top = "container" => p.order = Taken(m, p.mark)
    BY <1>1, <1>3 DEF DsonInv
  <2>2. h = Headed(m, order, p)
    OBVIOUS
  <2> HIDE DEF p, h
  <2> QED BY <2>1, <2>2, HeadedTells
<1>6. raw => ~d.parsed /\ p = d /\ n = d /\ w = d
  BY DEF AsItCame
<1>7. ASSUME ~raw
      PROVE  /\ n = IF p.state = "Error" THEN p
                    ELSE [h EXCEPT !.leaves = [k \in DOMAIN @ |-> Emit(m, order, @[k])]]
             /\ w = [h EXCEPT !.asked = Wanted(m, order),
                              !.leaves = [k \in DOMAIN @ |-> Written(m, order, @[k])]]
  BY <1>7
<1>8. dson' = [dson EXCEPT ![m] = n] /\ file' = w /\ complete' = (p.state = "Ready")
  BY <1>2
<1> HIDE DEF d, p, h, n, w
<1>9. ASSUME ~raw
      PROVE  /\ n = IF p.state = "Error" THEN p
                    ELSE [p EXCEPT !.mark = h.mark, !.order = h.order, !.leaves = f]
             /\ w = [h EXCEPT !.asked = Wanted(m, order), !.leaves = g]
  <2>1. h = [p EXCEPT !.mark = h.mark, !.order = h.order]
    BY <1>3, <1>5 DEF DsonInv, Headed, Container, h
  <2> QED BY <1>5, <1>7, <1>9, <2>1 DEF Container
<1>10. p \in Container /\ p.state \in {"Ready", "Error"}
  BY <1>3 DEF DsonInv, Container
<1>11. DOMAIN p.leaves \in SUBSET Key /\ p.leaves \in [DOMAIN p.leaves -> Leaf]
  BY <1>10, LeavesType
<1>12. DsonInv(m, n)
  <2>1. CASE raw \/ p.state = "Error"
    BY <1>1, <1>3, <1>6, <1>9, <2>1
  <2>2. CASE ~raw /\ p.state = "Ready"
    <3>1. n = [p EXCEPT !.mark = h.mark, !.order = h.order, !.leaves = f] /\ p.parsed
      BY <1>3, <1>9, <2>2
    <3>2. \A k \in DOMAIN f : f[k] \in {p.leaves[k], Emit(m, order, p.leaves[k])}
      OBVIOUS
    <3>3. DOMAIN f = DOMAIN p.leaves /\ f = [k \in DOMAIN f |-> f[k]]
      OBVIOUS
    <3>4. h.mark \in Order /\ h.order \in Order
      BY <1>5 DEF Container
    <3> HIDE DEF f
    <3>5. HeaderTells(n)
      BY <1>5, <1>10, <3>1 DEF HeaderTells, Container
    <3> QED BY <1>3, <1>5, <3>1, <3>2, <3>3, <3>4, <3>5, ConvertedInv
  <2> QED BY <1>10, <2>1, <2>2
<1>13. FileInv'
  <2>1. CASE raw
    <3>1. file' = d /\ complete' = TRUE /\ d \in Container
      BY <1>1, <1>6, <1>8, <2>1 DEF DsonInv
    <3> QED BY <1>1, <1>6, <2>1, <3>1 DEF DsonInv, FileInv
  <2>2. CASE ~raw
    <3>1. ASSUME NEW k \in DOMAIN p.leaves
          PROVE  /\ g[k] \in Leaf /\ Good(g[k]) /\ g[k].class = "dson"
                 /\ p.state = "Ready" => AskedTells(g[k])
      <4>1. /\ p.leaves[k] \in Leaf /\ Good(p.leaves[k]) /\ Local(m, p.leaves[k])
            /\ p.state = "Ready" => Legible(m, p.leaves[k].mark)
        BY <1>3, <1>11, <2>2 DEF DsonInv
      <4>2. g[k] = Written(m, order, p.leaves[k])
        OBVIOUS
      <4> HIDE DEF g
      <4> QED BY <4>1, <4>2, WrittenGood
    <3>2. g \in [DOMAIN p.leaves -> Leaf] /\ DOMAIN g = DOMAIN p.leaves
      BY <3>1
    <3> HIDE DEF g
    <3>3. /\ file' \in Container /\ file'.state = p.state /\ file'.top = p.top
          /\ file'.mark = h.mark /\ file'.order = h.order /\ file'.kept = h.kept
          /\ file'.asked = Wanted(m, order) /\ file'.leaves = g
      BY <1>4, <1>5, <1>8, <1>9, <1>11, <2>2, <3>2 DEF Container
    <3>4. p.top = "one" => DOMAIN p.leaves # {}
      BY <1>3 DEF DsonInv
    <3>5. HeaderTells(file') /\ HeaderAskedTells(file')
      BY <1>5, <3>3 DEF HeaderTells, HeaderAskedTells
    <3>6. writer' = None /\ complete' = (p.state = "Ready")
      BY <1>2, <1>8
    <3> QED BY <3>1, <3>2, <3>3, <3>4, <3>5, <3>6 DEF FileInv
  <2> QED BY <2>1, <2>2
<1>14. DOMAIN dson' = Machine /\ dson'[m] = n /\ \A i \in Machine : i # m => dson'[i] = dson[i]
  BY <1>8 DEF OrderInv
<1>15. \A i \in Machine : DsonInv(i, dson'[i])
  BY <1>12, <1>14 DEF OrderInv
<1>16. UploadInv'
  BY <1>2 DEF UploadInv
<1> QED BY <1>13, <1>14, <1>15, <1>16 DEF OrderInv

-----------------------------------------------------------------------------
LEMMA InitInv == Init => OrderInv
<1> SUFFICES ASSUME Init PROVE OrderInv
  OBVIOUS
<1>1. DOMAIN dson = Machine /\ \A m \in Machine : DsonInv(m, dson[m])
  BY EmptyInv DEF Init
<1>2. FileInv
  <2>1. PICK m \in Machine : file = Empty(m)
    BY DEF Init
  <2>2. /\ DsonInv(m, file) /\ DOMAIN file.leaves = {} /\ file.state = "Ready"
        /\ file.top = "container" /\ file.mark = file.asked
    BY <2>1, EmptyInv
  <2> QED BY <2>2 DEF DsonInv, FileInv, HeaderAskedTells
<1>3. UploadInv
  BY DEF Init, UploadInv
<1> QED BY <1>1, <1>2, <1>3 DEF OrderInv

LEMMA NextInv == OrderInv /\ [Next]_vars => OrderInv'
<1> SUFFICES ASSUME OrderInv, [Next]_vars PROVE OrderInv'
  OBVIOUS
<1>1. CASE UNCHANGED vars
  BY <1>1 DEF vars, OrderInv, FileInv, UploadInv
<1>2. CASE Next
  <2>1. PICK m \in Machine :
          \/ \E k \in Key, kind \in Kind : Make(m, k, kind) \/ Emplace(m, k, kind)
          \/ \E k \in Key : Get(m, k)
          \/ \E order \in Asked :
               Copy(m, order) \/ BeginUpload(m, order) \/ UploadNext(m, order)
          \/ Clear(m) \/ Map(m) \/ EndUpload(m) \/ Load(m)
    BY <1>2 DEF Next, Asked
  <2> QED BY <2>1, MakeInv, EmplaceInv, GetInv, CopyInv, BeginUploadInv, UploadNextInv,
             ClearInv, MapInv, EndUploadInv, LoadInv
<1> QED BY <1>1, <1>2

(* OrderInv is an inductive invariant of the specification.                *)
THEOREM OrderKept == Spec => []OrderInv
BY InitInv, NextInv, PTL DEF Spec

(* Copies in either order, also in one upload, reads and journeys between  *)
(* machines of either kind never leave the bytes of an object in another   *)
(* order than its mark says (dson.h:936, dson.h:946).                      *)
THEOREM MarksTellTheOrder == Spec => []MarkTellsOrder
<1>1. OrderInv => MarkTellsOrder
  <2> SUFFICES ASSUME OrderInv,
                      NEW l \in (UNION {Leaves(dson[m]) : m \in Machine}) \cup Leaves(file)
               PROVE  MarkTells(l)
    BY DEF MarkTellsOrder
  <2>1. CASE l \in Leaves(file)
    BY <2>1 DEF OrderInv, FileInv, Good, Leaves
  <2>2. CASE l \in UNION {Leaves(dson[m]) : m \in Machine}
    BY <2>2 DEF OrderInv, DsonInv, Good, Leaves
  <2> QED BY <2>1, <2>2
<1> QED BY <1>1, OrderKept, PTL

(* A reader gets the value put in, and a Dson is in Error only if it holds *)
(* what was not written for this machine (dson_obj.h:29), or was written   *)
(* by a big machine that had cleared what it could not read (dson.h:157).  *)
THEOREM EverythingReadsBack == Spec => []ReadsBack
<1>1. OrderInv => ReadsBack
  <2> SUFFICES ASSUME OrderInv, NEW m \in Machine
               PROVE  /\ \A l \in Leaves(dson[m]) :
                           \/ Reads(m, Emit(m, "host", l))
                           \/ ForeignDouble(m, l) \/ NotMeantFor(m, l)
                      /\ dson[m].state = "Error" =>
                           \/ Endian[m] = "big" /\ dson[m].asked = "little"
                           \/ \E l \in Leaves(dson[m]) : NotMeantFor(m, l)
                           \/ Mismarked(m, dson[m])
    BY DEF ReadsBack
  <2>1. DsonInv(m, dson[m]) /\ dson[m] \in Container
    BY DEF OrderInv, DsonInv
  <2>2. ASSUME NEW l \in Leaves(dson[m])
        PROVE  Reads(m, Emit(m, "host", l)) \/ ForeignDouble(m, l) \/ NotMeantFor(m, l)
    <3>1. PICK k \in DOMAIN dson[m].leaves : l = dson[m].leaves[k]
      BY <2>2 DEF Leaves
    <3>2. l \in Leaf /\ Good(l) /\ Local(m, l) /\ (Legible(m, l.mark) \/ AskedTells(l))
      BY <2>1, <3>1, LeavesType DEF DsonInv
    <3> QED BY <3>2, GoodReads
  <2>3. dson[m].state = "Error" =>
          \/ Endian[m] = "big" /\ dson[m].asked = "little"
          \/ \E l \in Leaves(dson[m]) : NotMeantFor(m, l)
          \/ Mismarked(m, dson[m])
    BY <2>1 DEF DsonInv, Leaves
  <2> QED BY <2>2, <2>3
<1> QED BY <1>1, OrderKept, PTL
=============================================================================
