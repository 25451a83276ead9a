--------------------------- MODULE MCParseService ---------------------------
(***************************************************************************)
(* Two requests, one driver, and one language, which enry and the clients *)
(* call C++ and bblfsh calls cpp.                                          *)
(***************************************************************************)
EXTENDS ParseService

CONSTANTS u1, u2, d1

MCLanguages == {"C++"}
MCNormal    == [l \in MCLanguages |-> "cpp"]
=============================================================================
