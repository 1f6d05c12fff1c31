--------------------------- MODULE FailingChannel ---------------------------
(***************************************************************************)
(* What a descriptor promises to two programs that go on after errors: it  *)
(* is the reliable first-in first-out channel of MessageChannel, in which  *)
(* a sender whose call failed at once may take its object back, until it   *)
(* fails.  From then on nothing is promised, and nothing that arrives is   *)
(* counted as received.                                                    *)
(***************************************************************************)
EXTENDS Naturals, Sequences

CONSTANT Object       (* Whole serialized objects: header and data. *)

VARIABLES
  sent,               (* Objects whose upload began, in order.      *)
  received,           (* Objects received before the failure.       *)
  failed              (* Whether it has failed.                     *)

vars == <<sent, received, failed>>

Reliable == INSTANCE MessageChannel

Init == Reliable!Init /\ failed = FALSE

Send(o) == Reliable!Send(o) /\ UNCHANGED failed

(* The last object, of which not a byte was sent, is taken back.          *)
Withdraw ==
  /\ Len(received) < Len(sent)
  /\ sent' = SubSeq(sent, 1, Len(sent) - 1)
  /\ UNCHANGED <<received, failed>>

(* The next object arrives complete and unaltered. *)
Receive ==
  /\ ~failed
  /\ Reliable!Receive
  /\ UNCHANGED failed

Fail ==
  /\ ~failed
  /\ failed' = TRUE
  /\ UNCHANGED <<sent, received>>

Next == (\E o \in Object : Send(o)) \/ Withdraw \/ Receive \/ Fail

Spec == Init /\ [][Next]_vars
=============================================================================
