---------------------------- MODULE MCBufExchange ----------------------------
(* Instances of BufExchange for TLC: objects of no, two, three and four    *)
(* bytes behind headers of three, so that a window may end in the header,  *)
(* with it, in the data, with them, and be larger than the object; and a   *)
(* route, whose data belongs to its header.                                *)
EXTENDS BufExchange

MCMessage  == {"empty", "two", "three", "big", "route"}
MCDataSize == [m \in MCMessage |->
                 CASE m = "empty" -> 0 [] m \in {"two", "route"} -> 2
                   [] m = "three" -> 3 [] m = "big" -> 4]
MCInline   == [m \in MCMessage |-> IF m = "route" THEN MCDataSize[m] ELSE 0]
=============================================================================
