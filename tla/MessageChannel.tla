--------------------------- MODULE MessageChannel ---------------------------
(***************************************************************************)
(* What a Dson connection promises to the two programs at its ends,        *)
(* whatever the sizes of the partial reads and writes underneath: a        *)
(* reliable first-in first-out channel of whole objects.                   *)
(*                                                                         *)
(* A caller that loops on copy_to_fd_* until it stops answering InProcess  *)
(* has sent one object; a caller that loops on load_from_fd until it       *)
(* answers Ready has received one.                                         *)
(***************************************************************************)
EXTENDS Naturals, Sequences

CONSTANT Object       (* Whole serialized objects: header and data. *)

VARIABLES
  sent,               (* Objects whose upload has begun, in order.  *)
  received            (* Objects whose download is complete.        *)

vars == <<sent, received>>

TypeOK ==
  /\ sent \in Seq(Object)
  /\ received \in Seq(Object)

Init ==
  /\ sent = << >>
  /\ received = << >>

Send(o) ==
  /\ sent' = Append(sent, o)
  /\ UNCHANGED received

(* The next object arrives complete and unaltered. *)
Receive ==
  /\ Len(received) < Len(sent)
  /\ received' = Append(received, sent[Len(received) + 1])
  /\ UNCHANGED sent

Next == (\E o \in Object : Send(o)) \/ Receive

Spec == Init /\ [][Next]_vars
=============================================================================
