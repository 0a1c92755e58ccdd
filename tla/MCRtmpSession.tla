---------------------------- MODULE MCRtmpSession ---------------------------
(* A client that plays or publishes, and a server.                           *)
EXTENDS RtmpAmf

\* A value that answers as a harmless event, and one both of whose halves are the
\* number of PingRequest: the answer to it asks again.
MCValues == {0, 5 * Half + 5}
=============================================================================
