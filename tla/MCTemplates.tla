---------------------------- MODULE MCTemplates ----------------------------
(* Two templates, which may register one name, a built-in one, or half of    *)
(* what they mean to.                                                       *)
EXTENDS Templates, TLC

MCSymmetry == Permutations(Validators)

MCSlugs == <<"ads", "lab">>
MCBuiltin == {"engineering", "build_software"}
MCArchetypes == {"engineering", "ads_dept", "lab_dept"}

Draft(adds, raises, sound, tested) ==
    [adds |-> adds, raises |-> raises, sound |-> sound, tested |-> tested]
MCSkeleton == [s \in {"ads", "lab"} |->
                  Draft(<<IF s = "ads" THEN "ads_dept" ELSE "lab_dept">>, FALSE, TRUE, TRUE)]
MCDrafts ==
    {Draft(<<"trial">>, FALSE, TRUE, FALSE),
     Draft(<<"trial">>, FALSE, TRUE, TRUE),
     Draft(<<"trial", "lab_dept">>, TRUE, TRUE, TRUE),
     Draft(<<"trial", "build_software">>, FALSE, TRUE, FALSE),
     Draft(<<"ads_dept">>, FALSE, FALSE, TRUE)}
=============================================================================
