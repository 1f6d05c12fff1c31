--------------------------- MODULE MCContainerCopy ---------------------------
(* Instances of ContainerCopy for TLC: a container that holds a container, *)
(* a string and a VeryBigStruct, and two more objects to emplace, a        *)
(* container with a route object in it and the empty string.               *)
EXTENDS ContainerCopy

MCNode == {"root", "inner", "leaf", "string", "big", "box", "route", "empty"}
MCKind == [n \in MCNode |->
             CASE n \in {"root", "inner", "box"} -> "container"
               [] n = "leaf" -> "one"
               [] n \in {"string", "empty"} -> "string"
               [] n = "route" -> "route" [] n = "big" -> "big"]
MCDataSize == [n \in MCNode |->
                 CASE n \in {"root", "inner", "box", "empty"} -> 0
                   [] n \in {"string", "big"} -> 2 [] OTHER -> 1]
MCKids == [n \in MCNode |->
             CASE n = "root" -> <<"inner", "string", "big">>
               [] n = "inner" -> <<"leaf">> [] n = "box" -> <<"route">> [] OTHER -> << >>]
=============================================================================
