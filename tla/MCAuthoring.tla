----------------------------- MODULE MCAuthoring -----------------------------
(***************************************************************************)
(* Three families of playbooks: processes of three steps with all their     *)
(* dependencies; three activations with all graphs of events among them; and *)
(* two or three activations of processes that differ in what they declare,  *)
(* emit and apply.  Beside them, the playbooks that ship.                   *)
(***************************************************************************)
EXTENDS Authoring

AnyStep(id, after, parent, by, emits, repeat, effects, when) ==
    [id |-> id, after |-> after, parent |-> parent, by |-> by, emits |-> emits,
     repeat |-> repeat, produces |-> None, effects |-> effects, when |-> when]
Proc(name, roles, events, effects, steps) ==
    [name |-> name, roles |-> roles, events |-> events, deliverables |-> {},
     effects |-> effects, steps |-> steps]
Book(acts) == [acts |-> acts, expects |-> {}]
Emits(es) == AnyStep(1, None, None, None, es, None, {}, FALSE)

Anchored == {None, 1, 2, 3}
StepBooks ==
    {Book(<<Activation(OnStart, Proc("p", <<>>, {"x"}, {},
        [i \in 1..3 |-> AnyStep(i, f[i], g[i], None, <<"x">>, None, {}, FALSE)]))>>) :
     <<f, g>> \in {h \in [1..3 -> Anchored] \X [1..3 -> Anchored \ {3}] :
                     \A i \in 1..3 : h[1][i] = h[2][i] => h[1][i] = None}}

EventNames == <<"e1", "e2", "e3">>
GraphBooks ==
    {Book([i \in 1..3 |-> Activation(OnEvent(EventNames[i]), Proc(EventNames[i], <<>>, out[i], {}, <<>>))]) :
     out \in [1..3 -> SUBSET {"e1", "e2", "e3"}]}

Done == [kind |-> "milestone", name |-> "m"]
Worlds(where, lo, hi, external) ==
    [name |-> "rev", type |-> "Person", lo |-> lo, hi |-> hi, where |-> where,
     external |-> external, bound |-> FALSE]
Filter(field, op, value) == [field |-> field, op |-> op, value |-> value]
Owner == [name |-> "own", type |-> "Person", lo |-> 1, hi |-> 1, where |-> <<>>,
          external |-> FALSE, bound |-> TRUE]
Kinds ==
    {Proc("one", <<Owner>>, {"e1"}, {}, <<AnyStep(1, None, None, "own", <<"e1">>, None, {}, FALSE)>>),
     Proc("two", <<Owner, Worlds(<<Filter("f", "eq", <<"a">>)>>, 2, 3, FALSE)>>, {"e1", "e2"}, {},
          <<Emits(<<"e1", "e2">>)>>),
     Proc("talk", <<Worlds(<<Filter("f", "ne", <<"a">>), Filter("g", "in", <<<<"b">>>>)>>, 1, 1, FALSE)>>,
          {"e1", "e2"}, {}, <<AnyStep(1, None, None, None, <<"e1">>, "e2", {}, TRUE)>>),
     Proc("mute", <<Worlds(<<>>, 2, 2, TRUE)>>, {"e1"}, {},
          <<AnyStep(1, None, None, None, <<"e1">>, "e2", {}, FALSE)>>),
     Proc("done", <<Worlds(<<Filter("f", "eq", <<"a">>), Filter("f", "ne", <<"a">>)>>, 1, 1, FALSE)>>,
          {"e2"}, {<<"milestone", "m">>}, <<AnyStep(1, None, None, None, <<"e2">>, None, {Done}, FALSE)>>),
     Proc("hush", <<>>, {"e2"}, {}, <<AnyStep(1, None, None, None, <<"e2">>, None, {Done}, FALSE)>>),
     Proc("says", <<>>, {"e1", "e2"}, {<<"milestone", "m">>}, <<>>),
     Proc("none", <<>>, {}, {}, <<Emits(<<>>)>>)}
Made == [kind |-> "create_node", name |-> "task"]
Makers ==
    {Proc("make", <<>>, {"e1"}, {<<prefix, "task">>}, <<AnyStep(1, None, None, None, <<"e1">>, None, {Made}, FALSE)>>) :
        prefix \in {"create", "create_node"}}
Triggers == {OnStart, OnEvent("e1"), OnEvent("e2"), OnMilestone("m"), OnCondition}
Few == {p \in Kinds : p.name \in {"one", "talk", "done", "mute"}}
MixedBooks ==
    {Book(<<Activation(t[1], k[1]), Activation(t[2], k[2])>>) :
        t \in [1..2 -> Triggers], k \in [1..2 -> Kinds]}
    \cup {Book([i \in 1..3 |-> Activation(t[i], k[i])]) :
        t \in [1..3 -> {OnStart, OnEvent("e2"), OnMilestone("m")}], k \in [1..3 -> Few]}
    \cup {Book(<<Activation(OnStart, k)>>) : k \in Makers}

MCBooks == StepBooks \cup GraphBooks \cup MixedBooks \cup Plugins \cup REFERENCE_PLAYBOOKS
=============================================================================
