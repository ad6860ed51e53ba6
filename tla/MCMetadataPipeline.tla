------------------------- MODULE MCMetadataPipeline -------------------------
(***************************************************************************)
(* MetadataPipeline for TLC.  A job is Dead after two failures instead of  *)
(* five: one failure that is retried, one that is not.                     *)
(***************************************************************************)
EXTENDS MetadataPipeline
=============================================================================
