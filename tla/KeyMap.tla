------------------------------- MODULE KeyMap -------------------------------
(***************************************************************************)
(* What a Dson promises to the program that holds it: a map from keys to   *)
(* values, whatever it keeps its objects in.  A value is a leaf or the     *)
(* contents of another Dson.                                               *)
(***************************************************************************)
CONSTANTS
  Name,     (* The Dsons of the program.            *)
  Key,      (* The keys it uses.                    *)
  Leaf,     (* Values that are no containers.       *)
  Absent    (* The answer for a key with no value.  *)

VARIABLES
  map,      (* The contents of each Dson.           *)
  call      (* The last call with its arguments     *)
            (* and, of a get or a map, its answer.  *)

vars == <<map, call>>

Empty     == [k \in Key |-> Absent]
Only(k, v) == [Empty EXCEPT ![k] = v]

Init == map = [d \in Name |-> Empty] /\ call = << >>

(* The contents become those of what was received. *)
Load(d) ==
  /\ call'[1] = "load" /\ call'[2] = d
  /\ map' = [map EXCEPT ![d] = call'[3]]

Store(d, k, v) ==
  /\ call' = <<"init", d, k, v>>
  /\ map' = [map EXCEPT ![d] = Only(k, v)]

Emplace(d, k, v) ==
  /\ call' = <<"emplace", d, k, v>>
  /\ map' = [map EXCEPT ![d][k] = v]

(* All of e becomes one value of d. *)
Adopt(d, k, e) ==
  /\ call' = <<"adopt", d, k, e>>
  /\ map' = [map EXCEPT ![d][k] = map[e], ![e] = Empty]

Move(d, e) ==
  /\ call' = <<"move", d, e>>
  /\ map' = [map EXCEPT ![d] = map[e], ![e] = Empty]

Clear(d) ==
  /\ call' = <<"clear", d>>
  /\ map' = [map EXCEPT ![d] = Empty]

Get(d, k) ==
  /\ call' = <<"get", d, k, map[d][k]>>
  /\ UNCHANGED map

GetIn(d, k, inner) ==
  /\ map[d][k] \notin Leaf \cup {Absent}
  /\ call' = <<"get", d, k, inner, map[d][k][inner]>>
  /\ UNCHANGED map

(* Iterating over the objects finds all of them, and changes nothing. *)
Iterate(d) ==
  /\ call' = <<"map", d, map[d]>>
  /\ UNCHANGED map

(* Where a load failed or a move left nothing, what is found is no value   *)
(* of d, and never becomes one.                                            *)
IterateInvalid(d) ==
  /\ map[d] = Empty
  /\ call'[1] = "leftovers" /\ call'[2] = d
  /\ UNCHANGED map

Next ==
  \E d \in Name :
    \/ Load(d) \/ Clear(d) \/ Iterate(d) \/ IterateInvalid(d)
    \/ \E e \in Name \ {d} : Move(d, e) \/ \E k \in Key : Adopt(d, k, e)
    \/ \E k \in Key :
         \/ Get(d, k) \/ \E inner \in Key : GetIn(d, k, inner)
         \/ \E v \in Leaf : Store(d, k, v) \/ Emplace(d, k, v)

Spec == Init /\ [][Next]_vars
=============================================================================
