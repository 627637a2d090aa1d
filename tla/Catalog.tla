------------------------------ MODULE Catalog ------------------------------
(***************************************************************************)
(* The models clients can ask for: the list of GET /v1/models              *)
(* (handle_models) and how a request's model field becomes a target        *)
(* (crates/xrouter-server/src/resolve.rs).                                 *)
(*                                                                         *)
(* A model id is [path, free]: what its slashes separate, and whether it   *)
(* has a free marker (":free").  A configuration is [tiers, enabled]: a    *)
(* set of [name, entries], an entry being a pair <<provider, id>>, and for *)
(* each configured provider whether it is enabled.  `known` is the model   *)
(* cache: for each provider it has an entry for, the ids listed by it.     *)
(***************************************************************************)
EXTENDS Integers, Sequences

(* Names are not empty, nor is what slashes separate; a provider's name is *)
(* one part (config.toml may give it a slash, and then no address reaches  *)
(* it, split_once taking the first part).                                  *)
Name == STRING \ {""}
ModelId == [path : Seq(Name) \ {<<>>}, free : BOOLEAN]

IsTier(cfg, id) == \E t \in cfg.tiers : t.name = id
Configured(cfg) == DOMAIN cfg.enabled

(* The id a client sends for a provider's model, "provider/model".         *)
Address(provider, id) == [id EXCEPT !.path = <<provider>> \o @]

InTiers(cfg) == UNION {t.entries : t \in cfg.tiers}

InCache(cfg, known) ==
  UNION {{p} \X known[p] : p \in {q \in Configured(cfg) \cap DOMAIN known : cfg.enabled[q]}}

-----------------------------------------------------------------------------
(* handle_models: tiers, every pair by its address, and by its bare id if  *)
(* only one provider has it.                                               *)
Pairs(cfg, known) == InTiers(cfg) \cup InCache(cfg, known)

Aliases(pairs) == {id \in {e[2] : e \in pairs} : \A d, e \in pairs : d[2] = id /\ e[2] = id => d = e}

Listed(cfg, known) ==
  {t.name : t \in cfg.tiers}
    \cup {Address(e[1], e[2]) : e \in Pairs(cfg, known)}
    \cup Aliases(Pairs(cfg, known))

-----------------------------------------------------------------------------
Tier(id) == <<"tier", id>>
Direct(provider, id) == <<"direct", provider, id>>
NotFound == <<"not_found">>
Ambiguous == <<"ambiguous">>

(* Mutant: the lists of disabled providers count.                          *)
BareCandidatesAll(cfg, known, id) ==
  {e \in InTiers(cfg) \cup UNION {{p} \X known[p] : p \in Configured(cfg) \cap DOMAIN known} :
     e[2] = id}

BareCandidates(cfg, known, id) ==
  {e \in InTiers(cfg) \cup InCache(cfg, known) : e[2] = id}

Pick(candidates) ==
  IF \E e \in candidates : candidates = {e}
  THEN LET e == CHOOSE e \in candidates : TRUE IN Direct(e[1], e[2])
  ELSE IF candidates = {} THEN NotFound ELSE Ambiguous

(* The marker is taken off an id that has one and is not found with it.    *)
(* (The code knows several spellings, and takes one off; ids have one.)    *)
StripFree(id) == [id EXCEPT !.free = FALSE]

ResolveBare(cfg, known, id) ==
  LET asIs == BareCandidates(cfg, known, id) IN
  Pick(IF asIs # {} THEN asIs ELSE BareCandidates(cfg, known, StripFree(id)))

(* A tier's name; the address of a configured provider, whose model is     *)
(* taken as it is; a bare id.                                              *)
Resolve(cfg, known, id) ==
  IF IsTier(cfg, id) THEN Tier(id)
  ELSE IF Len(id.path) > 1 /\ Head(id.path) \in Configured(cfg)
  THEN Direct(Head(id.path), [id EXCEPT !.path = Tail(@)])
  ELSE ResolveBare(cfg, known, id)
=============================================================================
