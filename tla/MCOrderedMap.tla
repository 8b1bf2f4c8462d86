---------------------------- MODULE MCOrderedMap ----------------------------
(***************************************************************************)
(* OrderedMap for TLC.                                                     *)
(***************************************************************************)
EXTENDS OrderedMap, TLC
=============================================================================
