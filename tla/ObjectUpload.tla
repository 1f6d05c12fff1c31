---------------------------- MODULE ObjectUpload ----------------------------
(***************************************************************************)
(* What copy_to_fd_* promises about one object, however it is made up: the *)
(* calls from the first one until one of them answers Ready write the      *)
(* object's image (its header and data, those of its children in place)    *)
(* piece by piece, in order, and nothing else.                             *)
(*                                                                         *)
(* An upload that is disturbed (the caller gives it up, changes the object *)
(* or meets an error) may leave bytes out, and so may the ones after it,   *)
(* but only until one of them ends.                                        *)
(***************************************************************************)
EXTENDS Naturals, Sequences

VARIABLES
  image,     (* The bytes of the object as it is now.                  *)
  sent,      (* Bytes written since the upload began.                  *)
  busy,      (* An upload is under way.                                *)
  disturbed  (* Since the last upload that ended one was disturbed.    *)

vars == <<image, sent, busy, disturbed>>

(* All bytes of s are in the image, each one behind the one before it.     *)
InImageOrder(s) ==
  LET Place(b) == {p \in DOMAIN image : image[p] = b}
  IN  /\ \A i \in DOMAIN s : Place(s[i]) # {}
      /\ \A i \in 2 .. Len(s) :
           \A p \in Place(s[i - 1]), q \in Place(s[i]) : p < q

Init == sent = << >> /\ busy = FALSE /\ disturbed = FALSE

(* Between uploads the program may change the object. *)
Edit ==
  /\ ~busy
  /\ image' # image
  /\ UNCHANGED <<sent, busy, disturbed>>

Begin ==
  /\ ~busy
  /\ busy' = TRUE
  /\ sent' = << >>
  /\ UNCHANGED <<image, disturbed>>

Emit ==
  /\ busy
  /\ Len(sent') > Len(sent) /\ SubSeq(sent', 1, Len(sent)) = sent
  /\ IF disturbed THEN InImageOrder(sent')
                  ELSE sent' = SubSeq(image, 1, Len(sent'))
  /\ UNCHANGED <<image, busy, disturbed>>

Disturb ==
  /\ busy
  /\ disturbed' = TRUE
  /\ busy' => image' = image
  /\ UNCHANGED sent

End ==
  /\ busy
  /\ disturbed \/ sent = image
  /\ busy' = FALSE /\ disturbed' = FALSE
  /\ UNCHANGED <<image, sent>>

Next == Edit \/ Begin \/ Emit \/ Disturb \/ End

Spec == Init /\ [][Next]_vars
=============================================================================
