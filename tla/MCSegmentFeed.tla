--------------------------- MODULE MCSegmentFeed ---------------------------
(* Instances of SegmentFeed for TLC.                                       *)
EXTENDS SegmentFeed
=============================================================================
