--------------------------- MODULE ContainerCopy ---------------------------
(***************************************************************************)
(* copy_to_fd_* on a Dson that holds other objects, to any depth.          *)
(*                                                                         *)
(* The position of an upload is spread over the tree: every object has its *)
(* own state_ and offset_, a container also copy_iter_, and a call that    *)
(* goes on with an upload descends from the root along the iterators to    *)
(* the object that was being written, until a write() is short (InProcess) *)
(* or fails (Error) or the root is done (Ready).  An action is what        *)
(* happens in one frame of that recursion up to the next write(), call or  *)
(* return; between two calls the caller has control and may change the     *)
(* object.                                                                 *)
(***************************************************************************)
EXTENDS Integers, Sequences, SequencesExt

CONSTANTS
  Node,         (* The objects: the root, all it may come to hold.         *)
  Root,         (* The Dson the program uploads.                           *)
  Kind,         (* "container": a Dson with key_to_val_map_, "one": a Dson *)
                (* with one object in its buffer, "string": DsonStringObj, *)
                (* "route": DsonRouteObj, "big": VeryBigStruct.            *)
  DataSize,     (* Bytes of data of an object that is no container.        *)
  InitKids,     (* Initial contents of the containers, in key order.       *)
  Spare,        (* Objects the program may emplace later.                  *)
  HeaderSize,   (* header_size.                                            *)
  ParamSize,    (* network_ordered_buf_size: parameters of a VeryBigStruct.*)
  Midway,       (* May the caller reset or change an object in an upload?  *)
  Faults,       (* May write() fail?                                       *)
  MaxUploads    (* Bound: uploads begun in a behaviour.                    *)

(* Every object is in one place: those held by a container are held by no  *)
(* other, nor twice, the root by none, and those still to be made by none. *)
IsForest(in, unmade) ==
  \A m, n \in Node : \A i \in DOMAIN in[m] :
    /\ in[m][i] \notin unmade \cup {Root}
    /\ \A j \in DOMAIN in[n] : in[m][i] = in[n][j] => m = n /\ i = j

(* Among any objects one holds none of the others: what it holds is done   *)
(* before it, however deep the tree.                                       *)
IsFounded(in) ==
  \A X \in SUBSET Node : X # {} =>
    \E n \in X : \A i \in DOMAIN in[n] : in[n][i] \notin X

ASSUME FoundedAssumption == IsFounded(InitKids)

ASSUME CopyAssumption ==
  /\ Root \in Node
  /\ Kind \in [Node -> {"container", "one", "string", "route", "big"}]
  /\ Kind[Root] = "container"
  /\ DataSize \in [Node -> Nat] /\ ParamSize \in Nat
  /\ \A n \in Node : Kind[n] = "big" => ParamSize <= DataSize[n]
  /\ \A n \in Node : Kind[n] = "container" => DataSize[n] = 0
  /\ Spare \subseteq Node \ {Root}
  /\ InitKids \in [Node -> Seq(Node)]
  /\ \A n \in Node : Kind[n] # "container" => InitKids[n] = << >>
  /\ IsForest(InitKids, Spare)
  /\ HeaderSize \in Nat \ {0}
  /\ Midway \in BOOLEAN /\ Faults \in BOOLEAN
  /\ MaxUploads \in Nat

VARIABLES
  kids,     (* key_to_val_map_ of each container: its objects in key order. *)
  spare,    (* Objects the program has not made and emplaced yet.           *)
  state,    (* state_ of each object.                                       *)
  offset,   (* offset_ of each object.                                      *)
  iter,     (* copy_iter_ of each container, as a position in kids.         *)
  size,     (* data_size_ in the header of each object.                     *)
  stack,    (* The objects whose copy_to_fd_* is active, outermost first.   *)
  answer,   (* What the innermost call returns; "none" while it runs.       *)
  out,      (* Bytes written since the root's upload began.                 *)
  uploads,  (* How many uploads began.                                      *)
  disturbed (* The caller gave an upload up, changed the object in one or   *)
            (* met an error, and none has ended since.                      *)

held == <<kids, spare>>
tree == <<held, state, offset, iter, size>>
vars == <<kids, spare, state, offset, iter, size, stack, answer, out, uploads, disturbed>>

-----------------------------------------------------------------------------
IsContainer(n) == Kind[n] = "container"

(* Some objects write data with their header, in one part: a route object  *)
(* its address, a VeryBigStruct its parameters.  The rest follows.         *)
Inline(n) == CASE Kind[n] = "route" -> DataSize[n]
               [] Kind[n] = "big"   -> ParamSize
               [] OTHER             -> 0
HeadSize(n) == HeaderSize + Inline(n)
RestSize(n) == DataSize[n] - Inline(n)

(* Bytes from .. from + len - 1 of what an object itself writes.           *)
Own(n, from, len) == [i \in 1 .. len |-> <<n, from + i - 1>>]

Sum(s) == LET sum[k \in 0 .. Len(s)] == IF k = 0 THEN 0 ELSE sum[k - 1] + s[k]
          IN  sum[Len(s)]

DataSizeLessHeaders(n) ==
  LET total[x \in Node] ==
        IF IsContainer(x)
          THEN Sum([k \in DOMAIN kids[x] |-> total[kids[x][k]] - HeaderSize])
          ELSE DataSize[x]
  IN  total[n]

(* data_size(): for a container the sum over its objects and their headers.*)
data_size(n) ==
  LET total[x \in Node] ==
        IF IsContainer(x)
          THEN Sum([k \in DOMAIN kids[x] |-> HeaderSize + total[kids[x][k]]])
          ELSE DataSize[x]
  IN  total[n]

(* The serialized object: all of its bytes in the order they must appear.  *)
Image(n) ==
  LET image[x \in Node] ==
        IF IsContainer(x)
          THEN Own(x, 0, HeaderSize)
                 \o FlattenSeq([i \in DOMAIN kids[x] |-> image[kids[x][i]]])
          ELSE Own(x, 0, HeaderSize + DataSize[x])
  IN  image[n]

InCall    == stack # << >>
Top       == Last(stack)
Running   == InCall /\ answer = "none"
Return(a) == answer' = a /\ UNCHANGED stack

-----------------------------------------------------------------------------
Init ==
  /\ kids = InitKids /\ spare = Spare
  /\ state = [n \in Node |-> "Ready"]
  /\ offset = [n \in Node |-> 0]
  /\ iter = [n \in Node |-> 1]
  /\ size = [n \in Node |-> IF IsContainer(n) THEN 0 ELSE DataSize[n]]
  /\ stack = << >> /\ answer = "none"
  /\ out = << >> /\ uploads = 0 /\ disturbed = FALSE

(* The program calls copy_to_fd_* on the root; not after an Error, unless  *)
(* it reset the object.                                                    *)
Call ==
  /\ ~InCall /\ answer # "Error"
  /\ state[Root] = "Ready" => uploads < MaxUploads
  /\ stack' = <<Root>> /\ answer' = "none"
  /\ UNCHANGED <<tree, out, uploads, disturbed>>

(* Variants of Begin that forget offset_ = 0 and set_data_size_internal.   *)
BeginKeepsOffset ==
  /\ Running /\ state[Top] = "Ready"
  /\ state' = [state EXCEPT ![Top] = "CopyingHeader"]
  /\ size' = [size EXCEPT ![Top] = IF IsContainer(Top) THEN data_size(Top) ELSE @]
  /\ IF Top = Root THEN out' = << >> /\ uploads' = uploads + 1
                   ELSE UNCHANGED <<out, uploads>>
  /\ UNCHANGED <<held, offset, iter, stack, answer, disturbed>>

BeginKeepsSize ==
  /\ Running /\ state[Top] = "Ready"
  /\ state' = [state EXCEPT ![Top] = "CopyingHeader"]
  /\ offset' = [offset EXCEPT ![Top] = 0]
  /\ IF Top = Root THEN out' = << >> /\ uploads' = uploads + 1
                   ELSE UNCHANGED <<out, uploads>>
  /\ size' = IF size[Top] = 0 /\ IsContainer(Top)
               THEN [size EXCEPT ![Top] = data_size(Top)] ELSE size
  /\ UNCHANGED <<held, iter, stack, answer, disturbed>>

(* Case Ready: the upload of this object begins.  A container writes its   *)
(* current size into its header.                                           *)
Begin ==
  /\ Running /\ state[Top] = "Ready"
  /\ state' = [state EXCEPT ![Top] = "CopyingHeader"]
  /\ offset' = [offset EXCEPT ![Top] = 0]
  /\ size' = [size EXCEPT ![Top] = IF IsContainer(Top) THEN data_size(Top) ELSE @]
  /\ IF Top = Root THEN out' = << >> /\ uploads' = uploads + 1
                   ELSE UNCHANGED <<out, uploads>>
  /\ UNCHANGED <<held, iter, stack, answer, disturbed>>

(* Case CopyingHeader: write() takes n more bytes of the header.  When it  *)
(* is complete the same call goes on with the data.                        *)
WriteHeader(n) ==
  /\ Running /\ state[Top] = "CopyingHeader"
  /\ LET done == offset[Top] + n IN
     /\ done <= HeadSize(Top)
     /\ out' = out \o Own(Top, offset[Top], n)
     /\ \/ /\ done < HeadSize(Top)
           /\ offset' = [offset EXCEPT ![Top] = done]
           /\ Return("InProcess")
           /\ UNCHANGED <<state, iter>>
        \/ /\ done = HeadSize(Top) /\ Kind[Top] = "route"
           /\ offset' = [offset EXCEPT ![Top] = done]
           /\ state' = [state EXCEPT ![Top] = "Ready"]
           /\ Return("Ready")
           /\ UNCHANGED iter
        \/ /\ done = HeadSize(Top) /\ IsContainer(Top)
           /\ offset' = [offset EXCEPT ![Top] = done]
           /\ state' = [state EXCEPT ![Top] = "CopyingData"]
           /\ iter' = [iter EXCEPT ![Top] = 1]
           /\ UNCHANGED <<stack, answer>>
        \/ /\ done = HeadSize(Top) /\ Kind[Top] \in {"one", "string", "big"}
           /\ offset' = [offset EXCEPT ![Top] = 0]
           /\ state' = [state EXCEPT ![Top] = "CopyingData"]
           /\ UNCHANGED <<iter, stack, answer>>
  /\ UNCHANGED <<held, size, uploads, disturbed>>

(* A variant that answers Ready but leaves state_ as it was.               *)
WriteDataStaysCopying(n) ==
  /\ Running /\ state[Top] = "CopyingData" /\ ~IsContainer(Top)
  /\ offset[Top] < RestSize(Top)
  /\ LET done == offset[Top] + n IN
     /\ done <= RestSize(Top)
     /\ out' = out \o Own(Top, HeadSize(Top) + offset[Top], n)
     /\ offset' = [offset EXCEPT ![Top] = done]
     /\ Return(IF done = RestSize(Top) THEN "Ready" ELSE "InProcess")
  /\ UNCHANGED <<held, state, iter, size, uploads, disturbed>>

(* Case CopyingData of an object with a buffer: n more bytes of the data.  *)
WriteData(n) ==
  /\ Running /\ state[Top] = "CopyingData" /\ ~IsContainer(Top)
  /\ offset[Top] < RestSize(Top)
  /\ LET done == offset[Top] + n IN
     /\ done <= RestSize(Top)
     /\ out' = out \o Own(Top, HeadSize(Top) + offset[Top], n)
     /\ offset' = [offset EXCEPT ![Top] = done]
     /\ IF done = RestSize(Top)
          THEN state' = [state EXCEPT ![Top] = "Ready"] /\ Return("Ready")
          ELSE Return("InProcess") /\ UNCHANGED state
  /\ UNCHANGED <<held, iter, size, uploads, disturbed>>

(* Case CopyingData with nothing left to write: assert(false), or Error    *)
(* where assertions are compiled out.                                      *)
NothingToWrite ==
  /\ Running /\ state[Top] = "CopyingData" /\ ~IsContainer(Top)
  /\ offset[Top] >= RestSize(Top)
  /\ Return("Error")
  /\ disturbed' = TRUE
  /\ UNCHANGED <<tree, out, uploads>>

(* write() fails.  A Dson is Ready again; the other kinds of objects stay  *)
(* where they were.                                                        *)
WriteFails ==
  /\ Faults
  /\ Running
  /\ \/ state[Top] = "CopyingHeader"
     \/ state[Top] = "CopyingData" /\ ~IsContainer(Top) /\ offset[Top] < RestSize(Top)
  /\ state' = [state EXCEPT ![Top] =
                 IF Kind[Top] \in {"container", "one"} THEN "Ready" ELSE @]
  /\ Return("Error")
  /\ disturbed' = TRUE
  /\ UNCHANGED <<held, offset, iter, size, out, uploads>>

(* copy_to_fd_internal_map_*: the loop over the objects of a container.    *)
CallChild ==
  /\ Running /\ state[Top] = "CopyingData" /\ IsContainer(Top)
  /\ iter[Top] <= Len(kids[Top])
  /\ stack' = Append(stack, kids[Top][iter[Top]])
  /\ UNCHANGED <<tree, answer, out, uploads, disturbed>>

(* A variant of the end of that loop that forgets Result::Ready.           *)
EndOfMapInProcess ==
  /\ Running /\ state[Top] = "CopyingData" /\ IsContainer(Top)
  /\ iter[Top] > Len(kids[Top])
  /\ Return("InProcess")
  /\ UNCHANGED <<tree, out, uploads, disturbed>>

EndOfMap ==
  /\ Running /\ state[Top] = "CopyingData" /\ IsContainer(Top)
  /\ iter[Top] > Len(kids[Top])
  /\ state' = [state EXCEPT ![Top] = "Ready"]
  /\ Return("Ready")
  /\ disturbed' = (disturbed /\ Top # Root)
  /\ UNCHANGED <<held, offset, iter, size, out, uploads>>

(* A variant that does not look at the answer of the object: if (res !=    *)
(* Result::Ready) dropped.                                                 *)
ReturnsUnchecked ==
  /\ InCall /\ answer # "none"
  /\ stack' = Front(stack)
  /\ IF Len(stack) > 1
       THEN /\ iter' = [iter EXCEPT ![Last(stack')] = @ + 1]
            /\ answer' = "none"
       ELSE UNCHANGED <<iter, answer>>
  /\ UNCHANGED <<held, state, offset, size, out, uploads, disturbed>>

(* A call returns.  The loop of the container above goes on to the next    *)
(* object after Ready and passes any other answer on.                      *)
Returns ==
  /\ InCall /\ answer # "none"
  /\ stack' = Front(stack)
  /\ IF answer = "Ready" /\ Len(stack) > 1
       THEN /\ iter' = [iter EXCEPT ![Last(stack')] = @ + 1]
            /\ answer' = "none"
       ELSE UNCHANGED <<iter, answer>>
  /\ UNCHANGED <<held, state, offset, size, out, uploads, disturbed>>

-----------------------------------------------------------------------------
(* reset_state() on the root, by a caller that gives the upload up.        *)
Reset ==
  /\ Midway
  /\ ~InCall /\ answer \in {"InProcess", "Error"}
  /\ state' = [state EXCEPT ![Root] = "Ready"]
  /\ answer' = "none"
  /\ disturbed' = TRUE
  /\ UNCHANGED <<held, offset, iter, size, stack, out, uploads>>

(* emplace(): a new object under a new key, or in place of the one that    *)
(* was there; during an upload insert_internal resets the state first.     *)
Emplace(n, i) ==
  /\ ~InCall /\ (state[Root] = "Ready" \/ Midway)
  /\ n \in spare /\ spare' = spare \ {n}
  /\ \/ kids' = [kids EXCEPT ![Root] = InsertAt(@, i, n)]
     \/ i <= Len(kids[Root]) /\ kids' = [kids EXCEPT ![Root] = ReplaceAt(@, i, n)]
  /\ state' = [state EXCEPT ![Root] = "Ready", ![n] = "Ready"]
  /\ answer' = "none"
  /\ disturbed' = (disturbed \/ state[Root] # "Ready")
  /\ UNCHANGED <<offset, iter, size, stack, out, uploads>>

-----------------------------------------------------------------------------
Written == 0 .. HeadSize(Top)
Payload == 0 .. RestSize(Top)

(* Steps of copy_to_fd_* itself.                                           *)
Step ==
  \/ Begin
  \/ InCall /\ \E n \in Written : WriteHeader(n)
  \/ InCall /\ \E n \in Payload : WriteData(n)
  \/ NothingToWrite \/ CallChild \/ EndOfMap \/ Returns

Next ==
  \/ Call
  \/ Step
  \/ WriteFails
  \/ Reset
  \/ \E n \in spare : \E i \in 1 .. Len(kids[Root]) + 1 : Emplace(n, i)

Spec == Init /\ [][Next]_vars

(* The caller calls until it is answered Ready or Error, and the other end *)
(* keeps draining the descriptor: again and again a write() takes a byte.  *)
Progress ==
  \/ InCall /\ \E n \in Written \ {0} : WriteHeader(n)
  \/ InCall /\ \E n \in Payload \ {0} : WriteData(n)

FairSpec ==
  /\ Spec
  /\ WF_vars(Call /\ answer = "InProcess") /\ WF_vars(Step)
  /\ SF_vars(Progress)

-----------------------------------------------------------------------------
(***************************************************************************)
(* Properties                                                              *)
(***************************************************************************)
(* Every variable keeps its type.                                          *)
TypeOK ==
  /\ kids \in [Node -> Seq(Node)] /\ spare \subseteq Spare
  /\ state \in [Node -> {"Ready", "CopyingHeader", "CopyingData"}]
  /\ offset \in [Node -> Nat] /\ iter \in [Node -> Nat \ {0}]
  /\ size \in [Node -> Nat]
  /\ stack \in Seq(Node)
  /\ answer \in {"none", "InProcess", "Ready", "Error"}
  /\ out \in Seq(Node \X Nat)
  /\ uploads \in 0 .. MaxUploads /\ disturbed \in BOOLEAN

(* The calls of an upload write the object's image and nothing else, also  *)
(* when the object is changed between two uploads.  What a reset, an       *)
(* emplace in an upload or an error leaves behind may make later uploads   *)
(* incomplete, until one of them ends; none writes a byte twice or out of  *)
(* place.                                                                  *)
Upload == INSTANCE ObjectUpload
            WITH image <- Image(Root), sent <- out, busy <- state[Root] # "Ready"
ImplementsUpload == Upload!Spec

(* The sizes in the headers lead parse_buf of the other side from each     *)
(* object of the container to the next and exactly to the end.             *)
ParsesBack ==
  ~InCall /\ answer = "Ready" /\ out = Image(Root) =>
    LET in == kids[Root]
        start[k \in 1 .. Len(in) + 1] ==
          IF k = 1 THEN HeaderSize + 1
                   ELSE start[k - 1] + HeaderSize + size[in[k - 1]]
    IN  /\ size[Root] = Len(out) - HeaderSize
        /\ \A k \in DOMAIN in : out[start[k]] = <<in[k], 0>>
        /\ start[Len(in) + 1] = Len(out) + 1

(* Where an upload stands is told by one path from the root: the objects   *)
(* off the path are as if no upload ran, so the next one finds them so.    *)
(* An upload that ends restores this after a disturbance.                  *)
OnePath ==
  ~disturbed => \A n \in Node :
    IsContainer(n) =>
      \A k \in DOMAIN kids[n] :
        state[n] # "CopyingData" \/ k # iter[n] => state[kids[n][k]] = "Ready"

(* The assert(false) of the copying cases is unreachable, but for the data *)
(* of an empty string.                                                     *)
AssertsHold ==
  \A n \in Node :
    /\ state[n] = "CopyingHeader" => offset[n] < HeadSize(n)
    /\ state[n] = "CopyingData" /\ RestSize(n) > 0 => offset[n] < RestSize(n)

(* An upload that began ends with the answer Ready, unless it is disturbed.*)
EventuallyReady ==
  state[Root] # "Ready" ~> (answer = "Ready" /\ ~InCall) \/ disturbed
=============================================================================
