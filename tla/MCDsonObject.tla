---------------------------- MODULE MCDsonObject ----------------------------
(***************************************************************************)
(* Two Dsons, two keys, and memory for three buffers, so that it runs out. *)
(***************************************************************************)
EXTENDS DsonObject, TLC

CONSTANTS x, y

MCSymmetry == Permutations(Name)

MCBlock == 1 .. 3
MCReadKeys == IF AnyCall THEN {-1, 0, 1} ELSE {0}
Piece(k, v) == Wire(k, "leaf", v)
MCWires == {Wire(2, "leaf", y),
            Wire(0, "container", << >>),
            Wire(0, "container", <<Piece(1, x), Piece(2, y)>>)}
=============================================================================
