----------------------------- MODULE ByteOrder -----------------------------
(***************************************************************************)
(* The byte order of objects that travel in files between machines of      *)
(* either endianness.  Every object, and the container around them, has a  *)
(* header that begins with a mark of the order its bytes are in; copies    *)
(* convert what they write in place, readers convert what they look at,    *)
(* and each looks at the mark first.                                       *)
(*                                                                         *)
(* An order is the endianness of the bytes: host order is the machine's    *)
(* own and network order is "big".  A double in network order is a mantissa *)
(* and an exponent ("wire", see NumericConverters); "junk" is any other    *)
(* pattern of bytes.  Streams, descriptors and memory windows all end in   *)
(* the file; how writes are cut is the subject of ContainerCopy.           *)
(***************************************************************************)
EXTENDS Integers, FiniteSets

CONSTANTS
  Machine,    (* The machines ...                                          *)
  Endian,     (* ... and the byte order of each.                           *)
  Key,        (* Keys of the objects in a container.                       *)
  MaxObjects, (* Bound on the objects made ...                             *)
  MaxCopies   (* ... and on the copies written.                            *)

None == "none"

ASSUME ByteOrderAssumption ==
  /\ None \notin Machine
  /\ Endian \in [Machine -> {"little", "big"}]
  /\ Key \subseteq Nat
  /\ MaxObjects \in Nat /\ MaxCopies \in Nat

VARIABLES
  dson,      (* The Dson of each machine.                                  *)
  file,      (* What is in the file, as the Dson it was copied from ...    *)
  complete,  (* ... and whether it is a whole Dson.                        *)
  todo,      (* The objects an upload still has to write.                  *)
  writer,    (* The machine that uploads, or None.                         *)
  objects, copies   (* How many were made, and written.                    *)

vars == <<dson, file, complete, todo, writer, objects, copies>>

(* Classes of objects, and what their data is: 4 or 8 bytes, as many such  *)
(* words as the header says, a double, text, or what the users' types have *)
(* in it (MyStruct: a name and a number behind it; VeryBigStruct: four     *)
(* numbers and a name).                                                    *)
Kind == {<<"dson", "word">>, <<"dson", "double">>, <<"dson", "text">>, <<"dson", "struct">>,
         <<"string", "text">>, <<"route", "vector">>, <<"big", "params">>}

-----------------------------------------------------------------------------
(* mark_host_order and mark_network_order: where the two are the same no   *)
(* conversion ever happens.                                                *)
IsHost(m, mark)     == mark = Endian[m]
IsNetwork(m, mark)  == mark = "big"
IsIn(m, order, mark) == IF order = "network" THEN IsNetwork(m, mark) ELSE IsHost(m, mark)
Wanted(m, order)    == IF order = "network" THEN "big" ELSE Endian[m]

(* What is neither is taken for network order, and a big machine makes     *)
(* nothing of it: sizes, keys and types are wrong.                         *)
Legible(m, mark) == IsHost(m, mark) \/ IsNetwork(m, mark)

(* The order in which data_size(), data_type() and their setters take the  *)
(* words behind a mark.                                                    *)
Taken(m, mark) == IF IsHost(m, mark) THEN Endian[m] ELSE "big"

(* htonl and its kin.                                                      *)
Flip(m, order) ==
  CASE Endian[m] = "big"                          -> order
    [] Endian[m] = "little" /\ order = "little"   -> "big"
    [] Endian[m] = "little" /\ order = "big"      -> "little"
    [] OTHER                                      -> "junk"

(* A header converted without a look at its mark. *)
HeaderToBlindly(m, order, mark) == Flip(m, mark)

(* header_to_host and header_to_network.                                   *)
HeaderTo(m, order, mark) == IF IsIn(m, order, mark) THEN mark ELSE Flip(m, mark)

(* The converters of MyStruct find the number behind the name: the size of *)
(* the name is converted before it is used, or used before it is converted. *)
StructTo(m, order, data) ==
  LET size == IF order = "host" THEN Flip(m, data) ELSE data
  IN IF IsHost(m, size) THEN Flip(m, data) ELSE "junk"

(* Those of VeryBigStruct convert one number after the other.              *)
ParamsTo(m, data) == Flip(m, data)

(* The converters of the library and of the users' types.  A vector is as  *)
(* long as its header says, if that is in host order then.                 *)
Converted(m, order, l, mark) ==
  CASE l.type = "word"   -> Flip(m, l.data)
    [] l.type = "struct" -> StructTo(m, order, l.data)
    [] l.type = "params" -> ParamsTo(m, l.data)
    [] l.type = "vector" -> IF IsHost(m, mark) THEN Flip(m, l.data) ELSE "junk"
    [] l.type = "double" /\ order = "network" -> IF l.data = Endian[m] THEN "wire" ELSE "junk"
    [] l.type = "double" /\ order = "host"    -> IF l.data = "wire" THEN Endian[m] ELSE "junk"

HasConverter(m, l) == l.type # "text" /\ Legible(m, l.mark)

(* Converters::to_host: header first, then data.                           *)
ToHost(m, l) ==
  IF IsHost(m, l.mark) \/ ~HasConverter(m, l) THEN l
  ELSE LET mark == HeaderTo(m, "host", l.mark)
       IN [l EXCEPT !.mark = mark, !.data = Converted(m, "host", l, mark)]

(* Header first, then data. *)
ToNetworkHeaderFirst(m, l) ==
  IF IsNetwork(m, l.mark) \/ ~HasConverter(m, l) THEN l
  ELSE LET mark == HeaderTo(m, "network", l.mark)
       IN [l EXCEPT !.mark = mark, !.data = Converted(m, "network", l, mark)]

(* Converters::to_network: data first, then header.                        *)
ToNetwork(m, l) ==
  IF IsNetwork(m, l.mark) \/ ~HasConverter(m, l) THEN l
  ELSE [l EXCEPT !.mark = HeaderTo(m, "network", l.mark),
                 !.data = Converted(m, "network", l, l.mark)]

(* prepare_data: the numbers of a VeryBigStruct, in the order of its       *)
(* header.                                                                 *)
BigParams(m, mark) == IF IsHost(m, mark) THEN Endian[m] ELSE "big"

(* DsonStringObj converts its header, DsonRouteObj its whole buffer, and   *)
(* VeryBigStruct its header, then writes its numbers again.                *)
StringTo(m, order, l) == [l EXCEPT !.mark = HeaderTo(m, order, @)]
RouteTo(m, order, l)  ==
  IF IsIn(m, order, l.mark) THEN l
  ELSE [l EXCEPT !.mark = Flip(m, @), !.data = Flip(m, @)]
BigTo(m, order, l) ==
  LET mark == HeaderTo(m, order, l.mark)
  IN [l EXCEPT !.mark = mark, !.data = BigParams(m, mark)]

(* An object once it is written: it stays as it was converted.             *)
Emit(m, order, l) ==
  CASE l.class = "dson" /\ order = "host"    -> ToHost(m, l)
    [] l.class = "dson" /\ order = "network" -> ToNetwork(m, l)
    [] l.class = "string"                    -> StringTo(m, order, l)
    [] l.class = "route"                     -> RouteTo(m, order, l)
    [] l.class = "big"                       -> BigTo(m, order, l)

(* An object once it is looked at: get() converts a Dson and address() a   *)
(* route; the others keep their values beside the buffer they send.        *)
Access(m, l) == IF l.class \in {"dson", "route"} THEN Emit(m, "host", l) ELSE l

(* The reader of an object, once that is converted, makes sense of it:     *)
(* to_my_struct() and the library's own ones take numbers for host order.  *)
Reads(m, h) == Legible(m, h.mark) /\ (h.type = "text" \/ h.data = Endian[m])

(* The bytes of l as written by m: whatever its class, a Dson to the       *)
(* reader.  asked and first keep the order the writer wanted, now and when *)
(* it became a Dson.                                                       *)
Written(m, order, l) ==
  LET e == Emit(m, order, l)
  IN [e EXCEPT !.class = "dson", !.view = TRUE, !.asked = Wanted(m, order),
               !.first = IF l.class = "dson" THEN @ ELSE Wanted(m, order)]

New(m, kind) ==
  [class |-> kind[1], type |-> kind[2], mark |-> Endian[m], data |-> Endian[m],
   view |-> FALSE, made |-> m, asked |-> Endian[m], first |-> Endian[m], abroad |-> FALSE]

(* A container without objects behind a header that has a mark already: a  *)
(* type and a size are written behind it with the first object and the     *)
(* next copy, in the order it is taken for.  kept: the mark is that of an  *)
(* earlier load, and not one of this machine's.                            *)
Vacant(m, mark) ==
  [state |-> "Ready", top |-> "container", parsed |-> TRUE,
   mark |-> mark, order |-> Taken(m, mark), kept |-> ~Legible(m, mark),
   asked |-> Endian[m], leaves |-> [k \in {} |-> None]]

Empty(m) == Vacant(m, Endian[m])

Over(f, g) == [k \in DOMAIN f \cup DOMAIN g |-> IF k \in DOMAIN g THEN g[k] ELSE f[k]]
At(k, l)   == [i \in {k} |-> l]
Each(Op(_), f) == [k \in DOMAIN f |-> Op(f[k])]

(* The mark of the first header: of the container, or of the one object.   *)
FirstMark(d) == IF d.top = "container" THEN d.mark
                ELSE d.leaves[CHOOSE k \in DOMAIN d.leaves : TRUE].mark

(* What clear() leaves in header_: the mark of what was loaded or made     *)
(* there.  (A string or route is dropped, and a new Dson takes its place.) *)
KeptMark(m, d) ==
  IF \E k \in DOMAIN d.leaves : d.top = "one" /\ d.leaves[k].class # "dson"
    THEN Endian[m] ELSE FirstMark(d)

(* Whether the size in the first header can be read.  That of a container  *)
(* need not be in the order of its mark.                                   *)
Opens(m, d) == IF d.top = "container" THEN d.order = Taken(m, d.mark)
                                      ELSE Legible(m, FirstMark(d))

(* The header of d converted, and its size written behind the mark.        *)
Headed(m, order, d) ==
  LET mark == HeaderTo(m, order, d.mark)
  IN [d EXCEPT !.mark = mark, !.order = Taken(m, mark)]

(* parse_buf: a header that cannot be read leads nowhere.                  *)
Parse(m, d) ==
  IF \A k \in DOMAIN d.leaves : Legible(m, d.leaves[k].mark)
    THEN [d EXCEPT !.parsed = TRUE]
    ELSE IF d.parsed THEN d ELSE [d EXCEPT !.state = "Error"]

-----------------------------------------------------------------------------
Init ==
  /\ dson = [m \in Machine |-> Empty(m)]
  /\ file \in {Empty(m) : m \in Machine} /\ complete = FALSE
  /\ todo = {} /\ writer = None
  /\ objects = 0 /\ copies = 0

Free(m) == writer # m /\ dson[m].state = "Ready"

(* A new object in the place of the Dson: one of its own, or a Dson that   *)
(* objects can be put into.                                                *)
Make(m, k, kind) ==
  /\ writer # m
  /\ dson' = [dson EXCEPT ![m] =
                [Empty(m) EXCEPT !.top = "one", !.leaves = At(k, New(m, kind))]]
  /\ objects < MaxObjects /\ objects' = objects + 1
  /\ UNCHANGED <<file, complete, todo, writer, copies>>

(* clear() frees the data and forgets the objects, but not the header.     *)
Clear(m) ==
  /\ writer # m
  /\ dson' = [dson EXCEPT ![m] = Vacant(m, KeptMark(m, @))]
  /\ UNCHANGED <<file, complete, todo, writer, objects, copies>>

Emplace(m, k, kind) ==
  /\ Free(m) /\ dson[m].top = "container"
  /\ LET p == Parse(m, dson[m])
     IN dson' = [dson EXCEPT ![m] = IF p.state = "Error" THEN p
                   ELSE [p EXCEPT !.leaves = Over(@, At(k, New(m, kind)))]]
  /\ objects < MaxObjects /\ objects' = objects + 1
  /\ UNCHANGED <<file, complete, todo, writer, copies>>

Get(m, k) ==
  /\ Free(m) /\ k \in DOMAIN dson[m].leaves
  /\ LET p == Parse(m, dson[m])
     IN dson' = [dson EXCEPT ![m] = IF p.state = "Error" THEN p
                                    ELSE [p EXCEPT !.leaves[k] = Access(m, @)]]
  /\ UNCHANGED <<file, complete, todo, writer, objects, copies>>

(* map() converts every Dson in it, and nothing else.                      *)
Map(m) ==
  LET p == Parse(m, dson[m])
      Host(l) == IF l.class = "dson" THEN ToHost(m, l) ELSE l
  IN /\ Free(m) /\ dson[m].top = "container"
     /\ dson' = [dson EXCEPT ![m] = IF p.state = "Error" THEN p
                                    ELSE [p EXCEPT !.leaves = Each(Host, @)]]
     /\ UNCHANGED <<file, complete, todo, writer, objects, copies>>

(* Whether a Dson goes as it came: not parsed yet, and in that order.  In  *)
(* neither order, as a big machine may see it, it goes to a stream object  *)
(* by object, and to a descriptor or window as it came.                    *)
AsItCame(m, order, d) ==
  IF d.parsed THEN {FALSE}
  ELSE IF Legible(m, FirstMark(d)) THEN {IsIn(m, order, FirstMark(d))}
  ELSE BOOLEAN

(* A copy of the whole in one order, object by object unless it goes as it *)
(* came.  A single object, or what goes as it came, looks the same to a    *)
(* stream, a descriptor and a window.                                      *)
Copy(m, order) ==
  LET d == dson[m] IN
  \E raw \in AsItCame(m, order, d) :
    LET p == IF raw THEN d ELSE Parse(m, d)
        Leaf(l) == Emit(m, order, l)
        Byte(l) == Written(m, order, l)
        headed == Headed(m, order, p)
    IN /\ Free(m) /\ writer = None /\ copies < MaxCopies
       /\ dson' = [dson EXCEPT ![m] =
                     IF raw \/ p.state = "Error" THEN p
                     ELSE [headed EXCEPT !.leaves = Each(Leaf, @)]]
       /\ file' = IF raw THEN d
                  ELSE [headed EXCEPT !.asked = Wanted(m, order),
                                      !.leaves = Each(Byte, @)]
       /\ complete' = (p.state = "Ready")
       /\ copies' = copies + 1
       /\ UNCHANGED <<todo, writer, objects>>

(* An upload whose caller may ask for another order at every call: the     *)
(* header of the container, and then the objects, each in the order asked  *)
(* when it begins.  Objects that are views cannot be uploaded              *)
(* (see DsonObject).                                                       *)
BeginUpload(m, order) ==
  LET d == dson[m]
      headed == Headed(m, order, d)
  IN /\ Free(m) /\ writer = None /\ copies < MaxCopies
     /\ d.top = "container" /\ d.parsed
     /\ \A k \in DOMAIN d.leaves : ~d.leaves[k].view
     /\ dson' = [dson EXCEPT ![m] = headed]
     /\ file' = [headed EXCEPT !.asked = Wanted(m, order), !.leaves = Empty(m).leaves]
     /\ complete' = FALSE
     /\ todo' = DOMAIN d.leaves /\ writer' = m
     /\ copies' = copies + 1
     /\ UNCHANGED objects

UploadNext(m, order) ==
  LET k == CHOOSE i \in todo : \A j \in todo : i <= j
      l == dson[m].leaves[k]
  IN /\ writer = m /\ todo # {}
     /\ dson' = [dson EXCEPT ![m].leaves[k] = Emit(m, order, l)]
     /\ file' = [file EXCEPT !.leaves = Over(@, At(k, Written(m, order, l)))]
     /\ todo' = todo \ {k}
     /\ UNCHANGED <<complete, writer, objects, copies>>

EndUpload(m) ==
  /\ writer = m /\ todo = {}
  /\ complete' = TRUE /\ writer' = None
  /\ UNCHANGED <<dson, file, todo, objects, copies>>

(* load_from_stream and its kin: the size in a header that cannot be read  *)
(* is too large, or larger than the file, unless it is 0: a container at   *)
(* once.  abroad keeps that an object was on a machine of the other kind.  *)
Load(m) ==
  LET Arrived(l) == [l EXCEPT !.abroad = @ \/ Endian[m] # Endian[l.made]]
      state == IF Opens(m, file) THEN "Ready" ELSE "Error"
  IN /\ writer # m /\ complete
     /\ dson' = [dson EXCEPT ![m] =
                   IF file.leaves = Empty(m).leaves THEN Vacant(m, file.mark)
                   ELSE [file EXCEPT !.parsed = FALSE, !.state = state,
                                     !.leaves = Each(Arrived, @)]]
     /\ UNCHANGED <<file, complete, todo, writer, objects, copies>>

Next ==
  \E m \in Machine :
    \/ \E k \in Key, kind \in Kind : Make(m, k, kind) \/ Emplace(m, k, kind)
    \/ \E k \in Key : Get(m, k)
    \/ \E order \in {"host", "network"} :
         Copy(m, order) \/ BeginUpload(m, order) \/ UploadNext(m, order)
    \/ Clear(m) \/ Map(m) \/ EndUpload(m) \/ Load(m)

Spec == Init /\ [][Next]_vars

-----------------------------------------------------------------------------
Leaves(d) == {d.leaves[k] : k \in DOMAIN d.leaves}

(* The data of l is in the order of its mark.  Exempt are doubles of big   *)
(* machines, whose network order is not the one that others convert from.  *)
MarkTells(l) ==
  CASE l.type \in {"word", "vector", "struct", "params"} -> l.data = l.mark
    [] l.type = "double" -> \/ Endian[l.made] = "big"
                            \/ l.data = IF l.mark = "little" THEN "little" ELSE "wire"
    [] OTHER -> TRUE

(* The bytes of every object are in the order that its own mark says,      *)
(* wherever it is, and whatever order the container around it is in        *)
(* (dson.h:936, dson.h:946): no sequence of copies and reads converts data *)
(* twice, or a header without its data.                                    *)
MarkTellsOrder ==
  \A l \in (UNION {Leaves(dson[m]) : m \in Machine}) \cup Leaves(file) : MarkTells(l)

(* A double another kind of machine made, or converted: network order is   *)
(* converted to and from on little machines only (dson.h:749).             *)
ForeignDouble(m, l) ==
  /\ l.type = "double"
  /\ Endian[l.made] # Endian[m] \/ (Endian[l.made] = "big" /\ l.abroad)

(* What a big machine was never sent in an order it knows: a copy in the   *)
(* host order of a little machine, or text, which no copy converts once it *)
(* is in a Dson, header included (dson.h:741).                             *)
NotMeantFor(m, l) ==
  /\ Endian[m] = "big"
  /\ l.asked = "little" \/ (l.type = "text" /\ l.first = "little")

(* What a little machine takes for its own: the container of a big machine *)
(* that could not read what was in the same Dson before, and did not write *)
(* the mark anew (dson.h:157, dson.h:969).                                 *)
Mismarked(m, d) == Endian[m] = "little" /\ d.kept /\ d.mark = "little"

(* "Host order for IPC, network order to keep in a file or to send"        *)
(* (dson_obj.h:29): whichever way an object came, over machines of either  *)
(* kind, through copies in either order and even in both, reading it       *)
(* answers the value put in, and a Dson is in Error only if it holds       *)
(* something that was not written for this machine, or came from a Dson    *)
(* cleared after such a load.                                              *)
ReadsBack ==
  \A m \in Machine :
    /\ \A l \in Leaves(dson[m]) :
         \/ Reads(m, Emit(m, "host", l))
         \/ ForeignDouble(m, l) \/ NotMeantFor(m, l)
    /\ dson[m].state = "Error" =>
         \/ Endian[m] = "big" /\ dson[m].asked = "little"
         \/ \E l \in Leaves(dson[m]) : NotMeantFor(m, l)
         \/ Mismarked(m, dson[m])
=============================================================================
