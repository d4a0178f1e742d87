------------------------- MODULE MCNamespaceManager -------------------------
(* Instances of NamespaceManager: an Ordered container, a plain one and    *)
(* one that opted out.                                                     *)
EXTENDS NamespaceManager

CONSTANTS A, B, C
MCContainers == {A, B, C}
MCOrdered    == {A}
MCOptOut     == {C}
=============================================================================
