--------------------------- MODULE MCReconstruct ---------------------------
(* One department of two teams, the second with a lead and perhaps another   *)
(* one, who reports to the lead, who reports to the head; three names for    *)
(* them, so that most companies have namesakes and some have none; files     *)
(* with the layouts the chunker tells apart, and readings with a short form, *)
(* a repetition, an unknown type and two entities of one form.               *)
EXTENDS Reconstruct

Shape(slug, lo, hi) == [slug |-> slug, lo |-> lo, hi |-> hi]
MCArchetypes ==
    [eng |-> [teams |-> <<Shape("product", 1, 1), Shape("quality", 1, 2)>>,
              playbooks |-> <<"build", "sell">>, role |-> "eng_lead"]]
MCDeliverySlug == [d \in {"eng"}, p \in {"build", "sell"} |-> IF p = "build" THEN "delivery" ELSE "renewal"]
MCSizes == [startup |-> [goals |-> 1, departments |-> 1, quarters |-> 2]]
MCConfigs == {[size |-> "startup", vertical |-> "eng", departments |-> <<>>, projects |-> <<>>]}

Titled(id) ==
    CASE id = <<"company">> -> "Acme"
      [] id = <<"dept", "eng">> -> "Engineering"
      [] id[1] = "person" -> id[2]
      [] id[1] = "goal" -> IF Len(id) = 2 THEN "Grow." ELSE "Grow faster."
      [] id[1] = "team" -> id[3]
      [] id[1] = "project" -> id[2]
      [] id = <<"initiative", "eng">> -> "Engineering program"
      [] OTHER -> id[3]
MCTitles ==
    [id \in {<<"company">>, <<"dept", "eng">>, <<"project", "delivery">>, <<"project", "renewal">>,
             <<"goal", 1>>, <<"goal", 1, 1>>, <<"initiative", "eng">>,
             <<"initiative", "eng", "build">>, <<"initiative", "eng", "sell">>}
            \cup {<<"person", n, k>> : n \in {"ann", "bob", "cy"}, k \in 1..3}
            \cup {<<"team", "eng", s>> : s \in {"product", "quality"}}
        |-> Titled(id)]
MCAliases == <<"dept", "eng">> :> {"Engineering", "Engineering Department"}

Spec1 ==
    Page(<<"spec">>,
         <<Blank, Text, Heading(1, "Spec"), Text, Heading(3, "Deep"), Fence, Heading(1, "code"),
           Fence, Heading(2, "Side"), Blank, Heading(3, "Leaf"), Text>>)
Issue == [path |-> <<"issue">>, jira |-> TRUE, lines |-> <<Text, Blank, Text>>]
MCArtifacts == {<<>>, <<Spec1, Issue>>}

Reading(path, section, ms, ts) ==
    [path |-> path, section |-> section, envelope |-> Envelope(ms, ts)]
MCReadings ==
    {Reading(<<"spec">>, <<"Spec", "Side">>,
             <<Mention("Annie", "Person"), Mention("ann", "Person"), Mention("product", "Team"),
               Mention("Engineering", "Thing")>>,
             <<Triple("Annie", "leads", "product", 1), Triple("Annie", "reports_to", "ann", 1),
               Triple("ann", "befriends", "Annie", 2)>>),
     Reading(<<"spec">>, <<"Spec">>,
             <<Mention("ANN", "Person"), Mention("ann", "Person"), Mention("product", "Team"),
               Mention("product", "Project")>>,
             <<Triple("ANN", "leads", "product", 2), Triple("ann", "leads", "product", 1)>>),
     Reading(<<"issue">>, <<"1">>,
             <<Mention("ann!", "Person"), Mention("Engineering Department", "Department")>>, <<>>),
     Reading(<<"issue">>, <<"3">>, <<Mention("ann 2", "Person")>>, <<>>)}
MCFold == "Annie" :> "annie" @@ "ANN" :> "ann"
MCTrim == "ann!" :> "ann" @@ "Grow." :> "Grow" @@ "Grow faster." :> "Grow faster"
MCSlugs == "ann!" :> [stem |-> "ann", number |-> 1] @@ "ann 2" :> [stem |-> "ann", number |-> 2]
=============================================================================
