---------------------------- MODULE MCFinalButton ----------------------------
(***************************************************************************)
(* One preview of a reservation and one request that confirms it           *)
(* (LibraryPreview); no title contains another.                            *)
(***************************************************************************)
EXTENDS LibraryPreview

OneTitle == [p \in Previews |-> Parts]
=============================================================================
