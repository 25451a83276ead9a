-------------------------- MODULE MCInstallDrivers --------------------------
(***************************************************************************)
(* Three languages, and two workers instead of the three in the code: one  *)
(* of them takes a second reference.  The image of the first language, or  *)
(* another image of it, may be installed already; the others are new.      *)
(***************************************************************************)
EXTENDS InstallDrivers

CONSTANTS w1, w2, d1

MCImages == {"go:v1", "go:v2", "js:v1", "py:v1"}
MCLang   == [n \in MCImages |-> CASE n = "js:v1" -> "js" [] n = "py:v1" -> "py" [] OTHER -> "go"]
MCRefs   == <<[lang |-> "go", img |-> "go:v2"], [lang |-> "js", img |-> "js:v1"],
              [lang |-> "py", img |-> "py:v1"]>>

MCInit == CtlInit /\ root["js:v1"] = {} /\ root["py:v1"] = {}
MCSpec == MCInit /\ [][CtlNext]_allVars /\ CtlFairness
=============================================================================
