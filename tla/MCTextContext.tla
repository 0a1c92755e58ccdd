--------------------------- MODULE MCTextContext ----------------------------
(* TextContext with five short messages, two of them empty, in a buffer     *)
(* that the stream does not fit into.                                        *)
EXTENDS TextContext

FiveMessages == <<<<11, 12, 13>>, <<>>, <<31, 32, 33, 34, 35, 36>>, <<41>>, <<>>>>
=============================================================================
