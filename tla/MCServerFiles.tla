--------------------------- MODULE MCServerFiles ---------------------------
(* Two providers, one of them named like the first part of the other's     *)
(* model; a tier named like a model; a tier of a provider not configured.  *)
EXTENDS ServerFiles, TLC

Id(path, free) == [path |-> path, free |-> free]
Plain == Id(<<"m">>, FALSE)
Free == Id(<<"m">>, TRUE)
Nested == Id(<<"cohere", "m">>, FALSE)

MCLists == {{Plain}, {Free, Nested}}
MCConfigs ==
  {[tiers |-> {}, enabled |-> [p \in {"cohere", "openrouter"} |-> TRUE]],
   [tiers |-> {[name |-> Id(<<"fast">>, FALSE), entries |-> {<<"cohere", Plain>>, <<"absent", Free>>}],
               [name |-> Plain, entries |-> {<<"openrouter", Nested>>}]},
    enabled |-> [p \in {"cohere", "openrouter"} |-> p = "openrouter"]],
   [tiers |-> {}, enabled |-> [p \in {"openrouter"} |-> TRUE]]}
=============================================================================
