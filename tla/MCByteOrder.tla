---------------------------- MODULE MCByteOrder ----------------------------
(* One machine of either kind; each also reads what it wrote itself. *)
EXTENDS ByteOrder

MCMachine == {"L", "B"}
MCEndian  == [m \in MCMachine |-> IF m = "L" THEN "little" ELSE "big"]
=============================================================================
