------------------------ MODULE MC_GarbageCollector ------------------------
(***************************************************************************)
(* Model-checking instance of GarbageCollector.  Blocks hold one posting   *)
(* and Repair walks one block per batch, so any index with two postings    *)
(* makes the GC yield between batches.                                     *)
(***************************************************************************)
EXTENDS GarbageCollector

CONSTANTS t1, red, blue

OneTerm    == {t1}
NoTerms    == {}
OneTag     == {red}
TwoTags    == {red, blue}
NoTags     == {}

=============================================================================
