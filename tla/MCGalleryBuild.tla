---------------------------- MODULE MCGalleryBuild ----------------------------
(***************************************************************************)
(* Small instances of the enrolment: two or three employees, listed in a   *)
(* fixed order.                                                            *)
(***************************************************************************)
EXTENDS GalleryBuild

CONSTANTS ann, bob, eve

Two == <<ann, bob>>
Three == <<ann, bob, eve>>
=============================================================================
