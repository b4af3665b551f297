--------------------------- MODULE MCMultiplexPool ---------------------------
(***************************************************************************)
(* An instance of MultiplexPool: a bundle of a plain call and a bundle,    *)
(* and a bundle of a bundle, so that two workers can be blocked, or not.   *)
(***************************************************************************)
EXTENDS MultiplexPool

MCCalls == {"A", "a", "N", "n", "B", "M", "m"}

MCParts ==
    [c \in MCCalls |->
       CASE c = "A" -> <<"a", "N">>
         [] c = "N" -> <<"n">>
         [] c = "B" -> <<"M">>
         [] c = "M" -> <<"m">>
         [] OTHER   -> <<>>]
=============================================================================
