----------------------------- MODULE DsonObject -----------------------------
(***************************************************************************)
(* Dson as a container: where it keeps its objects, who owns the memory    *)
(* they lie in, and what map(), get(), emplace(), init(), clear(), moves   *)
(* and loads do to both.                                                   *)
(*                                                                         *)
(* A Dson holds its objects in key_to_val_map_, or in buf_ and still to be *)
(* parsed, or is one object in buf_.  Parsing makes an object of every     *)
(* piece of the buffer, and that one is a view: its buf_ points at its     *)
(* header inside the buffer of the parent.  The header of a view is there; *)
(* that of any other Dson is its own header_.                              *)
(*                                                                         *)
(* Uploads and downloads under way are left to the other modules: here an  *)
(* object is Ready or in Error.  What arrives is a leaf or a container of  *)
(* leaves, and the containers that emplace() puts into others hold leaves: *)
(* objects nest two deep.  No Dson the program holds is itself a view.     *)
(***************************************************************************)
EXTENDS Integers, FiniteSets, Sequences

CONSTANTS
  Name,      (* The Dsons of the program.                                  *)
  Key,       (* The keys it uses.                                          *)
  Leaf,      (* The data of objects that are no containers.                *)
  Written,   (* Those the program itself makes.                            *)
  Wires,     (* Objects the program may receive, as made by Wire.          *)
  Block,     (* The places malloc may answer, a set of numbers.            *)
  Nothing,   (* No pointer, no value, nothing in a block.                  *)
  Garbage,   (* What is read where no such thing was written.              *)
  ReadKeys,  (* What the key of a header may be if it is read from data.   *)
  MaxCalls,  (* A bound on the length of runs.                             *)
  AnyCall    (* Are map() and emplace() called on single objects, too?     *)

ASSUME ObjectAssumption ==
  /\ Key \subseteq Nat \ {0} /\ Block \subseteq Nat
  /\ Written \subseteq Leaf /\ Nothing \notin Leaf /\ Garbage \notin Leaf
  /\ MaxCalls \in Nat /\ AnyCall \in BOOLEAN

VARIABLES
  objs,      (* The Dsons.                                                 *)
  mem,       (* What each block holds: a leaf, or the pieces of a          *)
             (* container, each with its header; Nothing if it is free.    *)
  call,      (* The last call, with its arguments and its answer.          *)
  calls      (* How many there were.                                       *)

vars == <<objs, mem, call, calls>>

-----------------------------------------------------------------------------
(* Serialized objects; a header and a leaf take a byte each.               *)
Wire(k, type, data) == [key |-> k, type |-> type, data |-> data]
NoWire == Wire(0, Garbage, Garbage)

LeafWire == [key : Key, type : {"leaf"}, data : Leaf]
Places   == [block : Block, piece : Nat]

(* What arrives is a leaf or a container of leaves.  The kinds of values   *)
(* are told apart: leaves, pieces, contents of a container and pointers.   *)
ASSUME WireAssumption ==
  /\ \A w \in Wires :
       w \in LeafWire \/ w \in [key : Nat, type : {"container"}, data : Seq(LeafWire)]
  /\ \A v \in Leaf \cup {Nothing} :
       v \notin Seq(LeafWire) /\ v \notin [Key -> Leaf \cup {Nothing}]
  /\ Nothing \notin Places

HeaderSize  == 1
DataSize(w) == IF w.type = "leaf" THEN 1 ELSE 2 * Len(w.data)

Fresh == [state |-> "Ready", kind |-> "DsonContainer",
          hdr |-> [key |-> 0, type |-> "Empty"],
          buf |-> Nothing, alloc |-> FALSE, bufSize |-> 0, map |-> << >>]

Header(w) == [key |-> w.key, type |-> w.type]

(* What lies at the address a view points to.  Piece 0 is the first byte   *)
(* of the block, where its data starts and no header is.                   *)
At(buf) == IF \/ buf.piece = 0
              \/ mem[buf.block] \in Leaf \cup {Nothing}
              \/ buf.piece > Len(mem[buf.block])
           THEN NoWire ELSE mem[buf.block][buf.piece]

(* header(), data() and data_type() *)
HeaderOf(o) == IF o.alloc \/ o.buf = Nothing THEN o.hdr ELSE Header(At(o.buf))
DataOf(o)   == IF o.state = "Error" \/ o.buf = Nothing THEN Nothing
               ELSE IF o.alloc THEN mem[o.buf.block] ELSE At(o.buf).data
TypeOf(o)   == IF o.state = "Error" THEN "Empty" ELSE HeaderOf(o).type

IsSingle(o) == \/ o.kind = "OneObjectInDataBuf"
               \/ o.kind = "DataBufNeedParse" /\ TypeOf(o) # "container"

(* Dson(buf) and Dson(header, buf), which leaves the header behind.        *)
View(block, piece) ==
  [Fresh EXCEPT !.kind = "OneObjectInDataBuf",
                !.buf = [block |-> block, piece |-> piece]]

-----------------------------------------------------------------------------
(* Maps: one laid over another, and insert_or_assign().                    *)
Over(f, g)   == [k \in DOMAIN f \cup DOMAIN g |-> IF k \in DOMAIN f THEN f[k] ELSE g[k]]
Put(f, k, v) == Over([i \in {k} |-> v], f)

(* The views of the pieces of a block, under their keys; the last of those *)
(* with the same key.                                                      *)
Keys(pieces)      == {pieces[i].key : i \in DOMAIN pieces}
LastAt(pieces, k) == CHOOSE i \in DOMAIN pieces :
                       /\ pieces[i].key = k
                       /\ \A j \in DOMAIN pieces : pieces[j].key = k => j <= i
Views(b, pieces)  == [k \in Keys(pieces) |-> View(b, LastAt(pieces, k))]

(* parse_buf(): single objects become what they are, the pieces of a       *)
(* container become views; a later piece replaces one with the same key.   *)
Parsed(o) ==
  IF TypeOf(o) # "container" THEN [o EXCEPT !.kind = "OneObjectInDataBuf"]
  ELSE [o EXCEPT !.kind = "DsonContainer", !.map = Over(Views(o.buf.block, DataOf(o)), @)]

(* one_object_buf_to_container(): the object made of the data is a view    *)
(* that takes the data for its header, and is filed under the key read     *)
(* there.                                                                  *)
OneToContainer(o, read) ==
  IF DataOf(o) = Nothing \/ read < 0 THEN [o EXCEPT !.state = "Error"]
  ELSE [o EXCEPT !.kind = "DsonContainer", !.hdr.type = "container",
                 !.map = Put(@, read, View(o.buf.block, 0))]

(* The switch over dson_kind_ of map() and insert_internal().              *)
Unpacked(o, read) ==
  CASE o.kind = "DataBufNeedParse"   -> Parsed(o)
    [] o.kind = "OneObjectInDataBuf" -> OneToContainer(o, read)
    [] OTHER                         -> o

(* A clear() that leaves dson_kind_ alone. *)
ClearedKeepsKind(o) == [o EXCEPT !.state = "Ready",
                                 !.buf = IF o.alloc THEN Nothing ELSE @,
                                 !.alloc = FALSE, !.bufSize = 0, !.map = << >>]

Cleared(o) == [o EXCEPT !.state = "Ready", !.kind = "DsonContainer",
                        !.buf = IF o.alloc THEN Nothing ELSE @,
                        !.alloc = FALSE, !.bufSize = 0, !.map = << >>]

Reset(o) == IF o.state = "Error" THEN Cleared(o) ELSE o

(* An insert_internal() that leaves the type in the header alone. *)
InsertedKeepsType(o, read, k, child) ==
  LET u == Unpacked(Reset(o), read)
  IN IF u.state = "Error" THEN u ELSE [u EXCEPT !.map = Put(@, k, child)]

(* One that inserts, and does not assign to a key that is there. *)
InsertedIfAbsent(o, read, k, child) ==
  LET u == Unpacked(Reset(o), read)
  IN IF u.state = "Error" THEN u
     ELSE [u EXCEPT !.map = Over(@, [i \in {k} |-> child]), !.hdr.type = "container"]

Inserted(o, read, k, child) ==
  LET u == Unpacked(Reset(o), read)
  IN IF u.state = "Error" THEN u
     ELSE [u EXCEPT !.map = Put(@, k, child), !.hdr.type = "container"]

-----------------------------------------------------------------------------
(* Memory.                                                                 *)
Children(o) == {o.map[k] : k \in DOMAIN o.map}
Parts(o)    == {o} \cup Children(o) \cup UNION {Children(c) : c \in Children(o)}

Owns(o, b)  == o.alloc /\ o.buf # Nothing /\ o.buf.block = b
Owned(o)    == {b \in Block : \E p \in Parts(o) : Owns(p, b)}

Without(blocks) == [b \in Block |-> IF b \in blocks THEN Nothing ELSE mem[b]]
IsFree(m)       == {b \in Block : m[b] = Nothing}
Malloc(m)       == CHOOSE b \in IsFree(m) : \A c \in IsFree(m) : b <= c

(* allocate() and the fields that go with it *)
Allocated(o, block, size) ==
  [o EXCEPT !.buf = [block |-> block, piece |-> 0], !.alloc = TRUE, !.bufSize = size]

(* Dson(data) and init(key, type, size), after clear()                     *)
Single(o, block, k) ==
  [Allocated(o, block, 1) EXCEPT !.hdr = [key |-> k, type |-> "leaf"],
                                 !.kind = "OneObjectInDataBuf"]

-----------------------------------------------------------------------------
(* What a Dson holds, as a map from keys to values.                        *)
Empty      == [k \in Key |-> Nothing]
Only(k, v) == [Empty EXCEPT ![k] = v]

ContentBy(o, Val(_)) ==
  LET p == IF o.kind = "DataBufNeedParse" THEN Parsed(o) ELSE o
  IN IF o.state = "Error" THEN Empty
     ELSE IF IsSingle(o) THEN Only(HeaderOf(o).key, DataOf(o))
     ELSE [k \in Key |-> IF k \in DOMAIN p.map THEN Val(p.map[k]) ELSE Nothing]

Value(o)   == IF IsSingle(o) THEN DataOf(o) ELSE ContentBy(o, DataOf)
Content(o) == ContentBy(o, Value)

(* What was sent, without a look at how it is stored.                      *)
Sent(w) ==
  IF w.type = "leaf" THEN Only(w.key, w.data)
  ELSE [k \in Key |-> IF k \in Keys(w.data) THEN w.data[LastAt(w.data, k)].data ELSE Nothing]

-----------------------------------------------------------------------------
Init ==
  /\ objs = [d \in Name |-> Fresh]
  /\ mem = [b \in Block |-> Nothing]
  /\ call = << >> /\ calls = 0

(* A whole load_from_fd(), load_from_buf() or load_from_stream().  Nothing *)
(* is allocated for an empty container.                                    *)
Load(d, w) ==
  LET m == Without(Owned(objs[d]))
      o == [Cleared(objs[d]) EXCEPT !.hdr = Header(w), !.kind = "DataBufNeedParse"]
  IN \/ /\ DataSize(w) = 0
        /\ objs' = [objs EXCEPT ![d] = [o EXCEPT !.kind = "DsonContainer"]]
        /\ mem' = m
        /\ call' = <<"load", d, Sent(w)>>
     \/ /\ DataSize(w) > 0 /\ IsFree(m) = {}
        /\ objs' = [objs EXCEPT ![d] = [o EXCEPT !.state = "Error"]]
        /\ mem' = m
        /\ call' = <<"load", d, Empty>>
     \/ /\ DataSize(w) > 0 /\ IsFree(m) # {}
        /\ objs' = [objs EXCEPT ![d] = Allocated(o, Malloc(m), DataSize(w))]
        /\ mem' = [m EXCEPT ![Malloc(m)] = w.data]
        /\ call' = <<"load", d, Sent(w)>>

(* init() and the program writing v; without memory only the clear().      *)
InitOne(d, k, v) ==
  LET m == Without(Owned(objs[d]))
      o == Cleared(objs[d])
  IN \/ /\ IsFree(m) = {}
        /\ objs' = [objs EXCEPT ![d] = o]
        /\ mem' = m
        /\ call' = <<"clear", d>>
     \/ /\ IsFree(m) # {}
        /\ objs' = [objs EXCEPT ![d] = Single(o, Malloc(m), k)]
        /\ mem' = [m EXCEPT ![Malloc(m)] = v]
        /\ call' = <<"init", d, k, v>>

(* emplace(k, Dson(v)).  What d owned and does not any more is destroyed;  *)
(* so is the new object if it was not taken.                               *)
Emplace(d, k, v) ==
  LET b == Malloc(mem)
      child == Single(Fresh, b, k)
  IN /\ IsFree(mem) # {}
     /\ AnyCall \/ ~IsSingle(Reset(objs[d]))
     /\ \E read \in ReadKeys :
          LET o == Inserted(objs[d], read, k, child)
          IN /\ objs' = [objs EXCEPT ![d] = o]
             /\ mem' = [Without(Owned(objs[d]) \ Owned(o))
                          EXCEPT ![b] = IF b \in Owned(o) THEN v ELSE Nothing]
     /\ call' = <<"emplace", d, k, v>>

(* A move that leaves the source its pointer. *)
LeftWithBuf(to, from) == [from EXCEPT !.state = "Error", !.map = to.map]

(* What move_from_other() leaves of the source, which got the map of the   *)
(* target and nothing of its buffer; the target takes all the source had.  *)
Left(to, from) == [from EXCEPT !.state = "Error", !.buf = Nothing, !.map = to.map]

(* A move assignment that frees the buffer of its target, and no more. *)
MoveFreesTarget(d, e) ==
  /\ objs' = [objs EXCEPT ![d] = objs[e], ![e] = Left(objs[d], objs[e])]
  /\ mem' = Without({b \in Block : Owns(objs[d], b)})
  /\ call' = <<"move", d, e>>

(* d = std::move(e): the buffer of d is neither freed nor kept.            *)
Move(d, e) ==
  /\ objs' = [objs EXCEPT ![d] = objs[e], ![e] = Left(objs[d], objs[e])]
  /\ call' = <<"move", d, e>>
  /\ UNCHANGED mem

(* d.emplace(k, std::move(e)) for a container e of leaves.                 *)
Adopt(d, k, e) ==
  LET child == [objs[e] EXCEPT !.hdr.key = k]
  IN /\ objs[e].state = "Ready" /\ ~IsSingle(objs[e])
     /\ \A c \in Children(objs[e]) : IsSingle(c)
     /\ AnyCall \/ ~IsSingle(Reset(objs[d]))
     /\ \E read \in ReadKeys :
          LET o == Inserted(objs[d], read, k, child)
          IN /\ objs' = [objs EXCEPT ![d] = o, ![e] = Left(Fresh, objs[e])]
             /\ mem' = Without((Owned(objs[d]) \cup Owned(child)) \ Owned(o))
     /\ call' = <<"adopt", d, k, e>>

Clear(d) ==
  /\ objs' = [objs EXCEPT ![d] = Cleared(objs[d])]
  /\ mem' = Without(Owned(objs[d]))
  /\ call' = <<"clear", d>>

(* get(): the buffer is parsed before the state is looked at.              *)
Opened(o)   == IF o.kind = "DataBufNeedParse" THEN Parsed(o) ELSE o
Found(o, k) ==
  IF o.state = "Error" THEN Nothing
  ELSE IF o.kind = "OneObjectInDataBuf"
         THEN IF HeaderOf(o).key = k THEN DataOf(o) ELSE Nothing
         ELSE IF k \in DOMAIN o.map THEN Value(o.map[k]) ELSE Nothing

Get(d, k) ==
  /\ objs' = [objs EXCEPT ![d] = Opened(objs[d])]
  /\ call' = <<"get", d, k, Found(Opened(objs[d]), k)>>
  /\ UNCHANGED mem

(* get() on the container another get() found.                             *)
GetIn(d, k, inner) ==
  LET o == Opened(objs[d])
      child == Opened(o.map[k])
  IN /\ o.state = "Ready" /\ ~IsSingle(o)
     /\ k \in DOMAIN o.map /\ TypeOf(o.map[k]) = "container"
     /\ objs' = [objs EXCEPT ![d] = [o EXCEPT !.map[k] = child]]
     /\ call' = <<"get", d, k, inner, Found(child, inner)>>
     /\ UNCHANGED mem

(* map(): all the objects; of a Dson in Error what is left in the map,     *)
(* which after a move is what the other one held.                          *)
Entries(o) == [k \in Key |-> IF k \in DOMAIN o.map THEN Value(o.map[k]) ELSE Nothing]

Iterate(d) ==
  /\ AnyCall \/ ~IsSingle(objs[d]) \/ objs[d].state = "Error"
  /\ \E read \in ReadKeys :
       LET o == IF objs[d].state = "Error" THEN objs[d] ELSE Unpacked(objs[d], read)
       IN /\ objs' = [objs EXCEPT ![d] = o]
          /\ call' = <<IF objs[d].state = "Error" THEN "leftovers" ELSE "map", d, Entries(o)>>
  /\ UNCHANGED mem

Step(d) ==
  \/ Clear(d) \/ Iterate(d)
  \/ \E w \in Wires : Load(d, w)
  \/ \E e \in Name \ {d} : Move(d, e) \/ \E k \in Key : Adopt(d, k, e)
  \/ \E k \in Key :
       \/ Get(d, k) \/ \E inner \in Key : GetIn(d, k, inner)
       \/ \E v \in Written : InitOne(d, k, v) \/ Emplace(d, k, v)

Next ==
  /\ calls < MaxCalls
  /\ calls' = calls + 1
  /\ \E d \in Name : Step(d)

Spec == Init /\ [][Next]_vars

-----------------------------------------------------------------------------
Kinds  == {"DsonContainer", "DataBufNeedParse", "OneObjectInDataBuf"}
Types  == {"Empty", "leaf", "container"}
Values == Leaf \cup {Nothing, Garbage}

IsObject(o) ==
  /\ o.state \in {"Ready", "Error"} /\ o.kind \in Kinds
  /\ o.hdr.key \in Nat /\ o.hdr.type \in Types
  /\ o.buf = Nothing \/ o.buf \in Places
  /\ o.alloc \in BOOLEAN /\ o.bufSize \in Nat
  /\ o.state = "Ready" => (o.alloc <=> o.bufSize > 0)
  /\ o.state = "Ready" /\ o.kind # "DsonContainer" => o.buf # Nothing /\ o.map = << >>

(* The objects are what their kinds say: one that is to be parsed or is a  *)
(* single object has a buffer and no map, and the size of a buffer is      *)
(* known to who allocated it, and only to him.                             *)
TypeOK ==
  /\ calls \in 0 .. MaxCalls
  /\ \A d \in Name : \A o \in Parts(objs[d]) : IsObject(o)
  /\ \A b \in Block : mem[b] \in Leaf \cup {Nothing} \/ IsFiniteSet(DOMAIN mem[b])
  /\ call # << >> /\ call[1] = "get" => call[Len(call)] \in Values \cup [Key -> Values]

(* Everything there is, by its place: a Dson, one of its objects, or one   *)
(* in such an object.                                                      *)
Paths ==
  UNION {LET o == objs[d] IN
           {<<d>>} \cup {<<d, k>> : k \in DOMAIN o.map}
                   \cup UNION {{<<d, k, i>> : i \in DOMAIN o.map[k].map} : k \in DOMAIN o.map}
         : d \in Name}
ObjectAt(p) == CASE Len(p) = 1 -> objs[p[1]]
                 [] Len(p) = 2 -> objs[p[1]].map[p[2]]
                 [] OTHER      -> objs[p[1]].map[p[2]].map[p[3]]

(* No memory is freed twice: through any sequence of moves, emplaces and   *)
(* clears a block that was allocated has at most one owner, and what is    *)
(* owned is not free.                                                      *)
OneOwner ==
  \A p \in Paths, b \in Block : Owns(ObjectAt(p), b) =>
    mem[b] # Nothing /\ \A q \in Paths \ {p} : ~Owns(ObjectAt(q), b)

(* No view outlives the buffer it looks into: the views that parse_buf()   *)
(* makes go when the buffer is freed or the map is handed on with it.      *)
NoDangling ==
  \A p \in Paths : LET o == ObjectAt(p) IN
    ~o.alloc /\ o.buf # Nothing => At(o.buf) # NoWire

(* The header goes out as it stands in an upload, and it is the type in it *)
(* by which the other side parses the data: a container says container and *)
(* a single object does not.                                               *)
HeaderTellsKind ==
  \A p \in Paths : LET o == ObjectAt(p) IN
    /\ o.state = "Ready" /\ o.map # << >> => TypeOf(o) = "container"
    /\ o.state = "Ready" /\ o.kind = "OneObjectInDataBuf" => TypeOf(o) = "leaf"

(* Whatever the storage, a Dson is a map from keys to values: what is      *)
(* received, moved, parsed or put in is what get() finds afterwards.       *)
Promise == INSTANCE KeyMap WITH map <- [d \in Name |-> Content(objs[d])],
                                Absent <- Nothing
ImplementsMap == Promise!Spec

(* What the comment on one_object_buf_to_container() says: when objects    *)
(* are added to a single one, the first is in the map, too (dson.h:867).   *)
FirstObjectReflected ==
  [][\A d \in Name, k \in Key :
       /\ objs[d].state = "Ready" /\ objs[d].kind = "OneObjectInDataBuf"
       /\ k = HeaderOf(objs[d]).key
       /\ call'[2] = d
       /\ call'[1] = "map" \/ (call'[1] = "emplace" /\ call'[3] # k)
       => (Content(objs[d])[k])' = DataOf(objs[d])]_vars

(* The assertion in copy_to_fd_internal_buf() (dson.h:1180): of every      *)
(* object an upload would come to there are bytes to write.                *)
UploadSize(o) == IF o.alloc THEN o.bufSize ELSE o.bufSize - HeaderSize
AssertsHold ==
  \A d \in Name : objs[d].state = "Ready" =>
    \A o \in Parts(objs[d]) : o.kind # "DsonContainer" => UploadSize(o) > 0
=============================================================================
