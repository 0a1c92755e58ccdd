----------------------------- MODULE MCRtmpChunk ----------------------------
(* Messages that make every format follow every other.                       *)
EXTENDS RtmpChunk

Msg(c, y, l, s, t) == [cs |-> c, type |-> y, len |-> l, sid |-> s, ts |-> t]

MixedCatalogue ==
  {Msg(2, "size", 1, 0, 0), Msg(2, "window", 1, 0, 0),
   Msg(3, "data", 2, 1, 1), Msg(3, "data", 2, 1, 2), Msg(3, "data", 2, 1, 3),
   Msg(3, "data", 1, 0, 3),
   Msg(4, "data", 4, 1, 3), Msg(4, "data", 7, 1, 4), Msg(4, "data", 4, 1, 9)}

=============================================================================
