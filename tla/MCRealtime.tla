---------------------------- MODULE MCRealtime ----------------------------
(* Instances of RealtimePipeline.  Connections are taken in a fixed order, *)
(* so there is no symmetry to use.                                         *)
EXTENDS RealtimePipeline
===========================================================================
