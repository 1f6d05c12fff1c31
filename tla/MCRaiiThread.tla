---------------------------- MODULE MCRaiiThread ----------------------------
(* Two callers, three objects in a row: a server's worker_thread_, an      *)
(* object it is assigned from, and the temporary that was assigned to that.*)
EXTENDS RaiiThread

CONSTANTS member, local, temporary

OneWay == {<<member, local>>, <<local, temporary>>, <<member, temporary>>}
=============================================================================
