------------------------- MODULE MCStreamTranslator -------------------------
(* Streams of a few lines with two tool calls or three blocks.             *)
EXTENDS StreamTranslator

MCToolIndex == {0, 1}
MCBlock == 0..2
=============================================================================
