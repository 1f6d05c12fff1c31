---------------------------- MODULE MCFdTransfer ----------------------------
(* Instances of FdTransfer for TLC: objects of no data (header only), of   *)
(* two and of three bytes, behind headers of two bytes; the largest is one *)
(* byte too large for the reader.                                          *)
EXTENDS FdTransfer

MCMessage  == {"empty", "two", "big"}
MCDataSize == [m \in MCMessage |->
                 CASE m = "empty" -> 0 [] m = "two" -> 2 [] m = "big" -> 3]
=============================================================================
