-------------------------- MODULE MCRtmpHandShake ---------------------------
(* Packets of four bytes, five with the version byte; the stream may be cut *)
(* anywhere.                                                                *)
EXTENDS RtmpHandShake
=============================================================================
