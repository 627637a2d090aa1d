---------------------------- MODULE MCEmbedding ----------------------------
(* Two threads over two starts, with and without a file of their own.      *)
EXTENDS Embedding

CONSTANTS ui, service

MCThread == {ui, service}
MCPort == {3001, 3002}
MCPath == {"app.toml"}
MCConfig == {"edited"}
=============================================================================
