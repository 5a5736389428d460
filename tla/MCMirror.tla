------------------------------ MODULE MCMirror ------------------------------
(***************************************************************************)
(* Destinations for an instance of MirrorExecution: one for each file, or  *)
(* one shared by two items' files of the same name.                        *)
(***************************************************************************)
EXTENDS MirrorExecution

Apart(f) == f
Shared(f) == "media"
=============================================================================
