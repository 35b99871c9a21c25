----------------------------- MODULE MCResolver -----------------------------
(* Two archetypes, one of two teams; configurations that differ in what a    *)
(* run may be asked for and in what may clash.                               *)
EXTENDS Resolver

Shape(slug, lo, hi) == [slug |-> slug, lo |-> lo, hi |-> hi]
MCArchetypes ==
    [eng |-> [teams |-> <<Shape("product", 1, 2), Shape("quality", 1, 1)>>,
              playbooks |-> <<"build">>, role |-> "eng_lead"],
     retail |-> [teams |-> <<Shape("store", 2, 2)>>, playbooks |-> <<>>, role |-> "buyer"]]
MCDeliverySlug == [d \in {"eng", "retail"}, p \in {"build", "sell"} |-> d]
MCSizes == [startup |-> [goals |-> 1, departments |-> 1, quarters |-> 0],
            medium |-> [goals |-> 2, departments |-> 2, quarters |-> 2]]

Wanted(slug, playbook, dept) == [slug |-> slug, playbook |-> playbook, department |-> dept]
Config(size, vertical, depts, projects) ==
    [size |-> size, vertical |-> vertical, departments |-> depts, projects |-> projects]
MCConfigs ==
    {Config("medium", "eng", <<"eng">>, <<Wanted("atlas", None, None)>>),
     Config("medium", "other", <<>>, <<>>),
     Config("startup", "retail", <<>>, <<Wanted("atlas", "build", None), Wanted("atlas", None, None)>>),
     Config("startup", "retail", <<"retail", "retail">>, <<>>),
     Config("startup", "eng", <<"eng">>, <<Wanted("eng", None, "eng")>>),
     Config("startup", "eng", <<"eng", "retail">>, <<Wanted("b", "build", "retail"), Wanted("c", "dance", None)>>),
     Config("startup", "eng", <<"retail">>, <<Wanted("b", None, "eng")>>),
     Config("startup", "eng", <<"gone">>, <<>>)}

Selector(anchor, where, exclude, lo, hi, distinct, relate) ==
    [anchor |-> anchor, where |-> where, exclude |-> exclude, lo |-> lo, hi |-> hi,
     distinct |-> distinct, relate |-> relate]
Field(f, op, v) == [field |-> f, op |-> op, value |-> v]
MCSelectors ==
    {Selector(<<"person", "ann", 1>>, {Field("unit", "in", {"quality", "product"})}, {}, 1, 2, TRUE, TRUE),
     Selector(<<"person", "ann", 2>>, {Field("department", "eq", "eng")}, {}, 2, 2, FALSE, TRUE),
     Selector(<<"project", "eng">>, {Field("role", "ne", "buyer")}, {}, 1, 1, TRUE, TRUE),
     Selector(<<"project", "atlas">>, {}, {<<"person", "ann", 1>>}, 0, 1, TRUE, FALSE)}
=============================================================================
