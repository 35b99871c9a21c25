------------------------------ MODULE Shipped ------------------------------
(***************************************************************************)
(* The playbooks that come with the program: the two plugins of playbooks/   *)
(* and the three of the pattern library (authoring/patterns.py), which shows *)
(* authors how playbooks are written.  Steps are known by their place in     *)
(* their process; durations, descriptions and payloads are left out, and of a *)
(* process implemented in Python only what it declares is here.             *)
(***************************************************************************)
EXTENDS Playbooks

-----------------------------------------------------------------------------
(* The words of the SDK.                                                   *)

Step(id, by, event) ==
    [id |-> id, by |-> by, emits |-> <<event>>, after |-> None, parent |-> None,
     repeat |-> None, produces |-> None, effects |-> {}, when |-> FALSE]
NewProcess(name, roles) ==
    [name |-> name, roles |-> roles, steps |-> <<>>, events |-> {}, deliverables |-> {},
     effects |-> {}]

\* A step that works on from an earlier one, in its thread.
From(anchor, s) == [s EXCEPT !.after = anchor, !.parent = anchor]
Spread(event, s) == [s EXCEPT !.repeat = event]
Produces(kind, s) == [s EXCEPT !.produces = kind]
Milestone(name, s) == [s EXCEPT !.effects = {[kind |-> "milestone", name |-> name]}]
Mutates(attr, s) == [s EXCEPT !.effects = {[kind |-> "mutate", name |-> attr]}]

Match(field, value) == [field |-> field, op |-> "eq", value |-> <<value>>]
Role(name, where, lo, hi) ==
    [name |-> name, type |-> "Person", lo |-> lo, hi |-> hi, where |-> where,
     external |-> FALSE, bound |-> FALSE]
External(name, type) == [Role(name, <<>>, 1, 1) EXCEPT !.type = type, !.external = TRUE]

Trig(kind, name, where) == [kind |-> kind, name |-> name, where |-> where]
OnStart == Trig("start", None, FALSE)
OnCadence == Trig("cadence", None, FALSE)
OnCondition == Trig("condition", None, FALSE)
Probabilistic == Trig("probabilistic", None, FALSE)
OnEvent(type) == Trig("event", type, FALSE)
OnMilestone(name) == Trig("milestone", name, FALSE)

Activation(trigger, process) == [trigger |-> trigger, process |-> process]

-----------------------------------------------------------------------------
(* playbooks/build_software.py                                             *)

Lead == Role("lead", <<Match("role", "eng_lead")>>, 1, 1)
Engineers == Role("engineers", <<Match("team", "engineering")>>, 3, 5)
Reviewers == Role("reviewers", <<Match("team", "engineering")>>, 2, 3)

project_kickoff ==
    [NewProcess("project_kickoff", <<Lead, Engineers>>) EXCEPT
        !.steps =
            <<Milestone("project_kicked_off",
                Produces("kickoff_brief", Step(1, "lead", "ProjectKickedOff"))),
              From(1, Spread("BacklogItemRaised",
                Produces("backlog", Step(2, "engineers", "BacklogGroomed"))))>>,
        !.events = {"ProjectKickedOff", "BacklogGroomed", "BacklogItemRaised"},
        !.deliverables = {"kickoff_brief", "backlog"},
        !.effects = {<<"milestone", "project_kicked_off">>}]

sprint_cycle ==
    [NewProcess("sprint_cycle", <<Lead, Engineers>>) EXCEPT
        !.steps =
            <<Produces("sprint_plan", Step(1, "lead", "SprintPlanned")),
              From(1, Spread("CommitPushed", Step(2, "engineers", "WorkLogged"))),
              From(2, Produces("sprint_review_notes", Step(3, "lead", "SprintReviewed")))>>,
        !.events = {"SprintPlanned", "WorkLogged", "CommitPushed", "SprintReviewed"},
        !.deliverables = {"sprint_plan", "sprint_review_notes"}]

weekly_status ==
    [NewProcess("weekly_status", <<Lead>>) EXCEPT
        !.steps = <<Produces("status_report", Step(1, "lead", "StatusReported"))>>,
        !.events = {"StatusReported"},
        !.deliverables = {"status_report"}]

design_review ==
    [NewProcess("design_review", <<Lead, Reviewers>>) EXCEPT
        !.steps =
            <<Produces("design_doc", Step(1, "lead", "DesignDrafted")),
              From(1, Spread("CommentPosted", Step(2, "reviewers", "ReviewOpened"))),
              From(2, Milestone("design_signed_off", Step(3, "lead", "DesignApproved")))>>,
        !.events = {"DesignDrafted", "ReviewOpened", "CommentPosted", "DesignApproved"},
        !.deliverables = {"design_doc"},
        !.effects = {<<"milestone", "design_signed_off">>}]

build_software ==
    [acts |-> <<Activation(OnStart, project_kickoff), Activation(OnCadence, sprint_cycle),
                Activation(OnCadence, weekly_status),
                Activation(OnEvent("SprintPlanned"), design_review)>>,
     expects |-> {"kickoff_brief", "backlog", "sprint_plan", "sprint_review_notes",
                  "status_report", "design_doc"}]

-----------------------------------------------------------------------------
(* playbooks/sell_merchandise.py                                           *)

SalesLead == Role("sales_lead", <<Match("role", "sales_lead")>>, 1, 1)
SalesTeam == Role("sales_team", <<Match("team", "sales")>>, 2, 3)
Planner == Role("planner", <<Match("role", "demand_planner")>>, 1, 1)
Buyer == Role("buyer", <<Match("role", "buyer")>>, 1, 1)
Supplier == External("supplier", "Supplier")

weekly_review ==
    [NewProcess("weekly_sales_ops_review", <<SalesLead, SalesTeam>>) EXCEPT
        !.steps =
            <<Produces("sales_review", Step(1, "sales_lead", "SalesReviewOpened")),
              From(1, Spread("SalesComment", Step(2, "sales_team", "SalesReviewDiscussed"))),
              From(2, Step(3, "sales_lead", "SalesReviewCompiled"))>>,
        !.events = {"SalesReviewOpened", "SalesReviewDiscussed", "SalesComment",
                    "SalesReviewCompiled"},
        !.deliverables = {"sales_review"}]

demand_forecast ==
    [NewProcess("demand_forecast", <<Planner>>) EXCEPT
        !.steps =
            <<Produces("demand_forecast", Step(1, "planner", "ForecastDrafted")),
              From(1, Mutates("reorder_point", Step(2, "planner", "ForecastPublished")))>>,
        !.events = {"ForecastDrafted", "ForecastPublished"},
        !.deliverables = {"demand_forecast"},
        !.effects = {<<"mutate", "reorder_point">>}]

inventory_monitor ==
    [NewProcess("inventory_monitor", <<Buyer>>) EXCEPT
        !.events = {"LowStock"}, !.effects = {<<"mutate", "stock_level">>}]

supplier_negotiation ==
    [NewProcess("supplier_negotiation", <<Buyer, Supplier>>) EXCEPT
        !.steps =
            <<Produces("rfq", Step(1, "buyer", "NegotiationOpened")),
              From(1, Mutates("terms", Step(2, "buyer", "NegotiationClosed")))>>,
        !.events = {"NegotiationOpened", "NegotiationClosed"},
        !.deliverables = {"rfq"},
        !.effects = {<<"mutate", "terms">>}]

purchase_order ==
    [NewProcess("purchase_order", <<Buyer, Supplier>>) EXCEPT
        !.events = {"PODrafted", "POApproved", "POSent", "POReceived"},
        !.deliverables = {"purchase_order"},
        !.effects = {<<"mutate", "stock_level">>}]

sell_merchandise ==
    [acts |-> <<Activation(OnCadence, weekly_review),
                Activation(OnEvent("SalesReviewCompiled"), demand_forecast),
                Activation(OnStart, inventory_monitor),
                Activation(OnCondition, supplier_negotiation),
                Activation(OnEvent("NegotiationClosed"), purchase_order)>>,
     expects |-> {"sales_review", "demand_forecast", "rfq", "purchase_order"}]

Plugins == {build_software, sell_merchandise}

-----------------------------------------------------------------------------
(* authoring/patterns.py: smaller versions of the two, in which the roles    *)
(* and the processes that the plugins have too are the same, and a third.    *)

sprint_planning ==
    [NewProcess("sprint_planning", <<Lead>>) EXCEPT
        !.steps = <<Produces("sprint_plan", Step(1, "lead", "SprintPlanned"))>>,
        !.events = {"SprintPlanned"},
        !.deliverables = {"sprint_plan"}]

pattern_design_review == design_review

ship_retro ==
    [NewProcess("ship_retro", <<Lead>>) EXCEPT
        !.steps = <<Produces("release_notes", Step(1, "lead", "Shipped"))>>,
        !.events = {"Shipped"},
        !.deliverables = {"release_notes"}]

pattern_build_software ==
    [acts |-> <<Activation(OnCadence, sprint_planning),
                Activation(OnEvent("SprintPlanned"), pattern_design_review),
                Activation(OnMilestone("release_shipped"), ship_retro)>>,
     expects |-> {"sprint_plan", "design_doc", "release_notes"}]

pattern_negotiate == supplier_negotiation

pattern_sell_merchandise ==
    [acts |-> <<Activation(OnStart, inventory_monitor),
                Activation(OnCondition, pattern_negotiate),
                Activation(OnEvent("NegotiationClosed"), purchase_order)>>,
     expects |-> {"rfq", "purchase_order"}]

Investigator == Role("investigator", <<Match("role", "investigator")>>, 1, 1)
Irb == External("irb", "IRB")
Safety == Role("safety", <<Match("team", "safety")>>, 1, 2)

author_protocol ==
    [NewProcess("author_protocol", <<Investigator>>) EXCEPT
        !.steps =
            <<Produces("protocol", Step(1, "investigator", "ProtocolDrafted")),
              From(1, Mutates("stage", Step(2, "investigator", "ProtocolApproved")))>>,
        !.events = {"ProtocolDrafted", "ProtocolApproved"},
        !.deliverables = {"protocol"},
        !.effects = {<<"mutate", "stage">>}]

irb_review ==
    [NewProcess("irb_review", <<Investigator, Irb>>) EXCEPT
        !.steps = <<Mutates("stage", Produces("irb_approval", Step(1, "irb", "IRBApproved")))>>,
        !.events = {"IRBApproved"},
        !.deliverables = {"irb_approval"},
        !.effects = {<<"mutate", "stage">>}]

start_study ==
    [NewProcess("start_study", <<Investigator>>) EXCEPT
        !.steps = <<Milestone("enrollment_open", Step(1, "investigator", "StudyStarted"))>>,
        !.events = {"StudyStarted"},
        !.effects = {<<"milestone", "enrollment_open">>}]

adverse_event ==
    [NewProcess("adverse_event_report", <<Investigator, Safety>>) EXCEPT
        !.steps =
            <<Produces("ae_report", Step(1, "investigator", "AdverseEventReported")),
              From(1, Spread("SafetyComment", Step(2, "safety", "SafetyReviewed"))),
              From(2, Milestone("ae_signed_off", Step(3, "safety", "SafetySignedOff")))>>,
        !.events = {"AdverseEventReported", "SafetyReviewed", "SafetyComment", "SafetySignedOff"},
        !.deliverables = {"ae_report"},
        !.effects = {<<"milestone", "ae_signed_off">>}]

run_clinical_study ==
    [acts |-> <<Activation(OnStart, author_protocol),
                Activation(OnEvent("ProtocolApproved"), irb_review),
                Activation(OnEvent("IRBApproved"), start_study),
                Activation(Probabilistic, adverse_event)>>,
     expects |-> {"protocol", "irb_approval", "ae_report"}]

REFERENCE_PLAYBOOKS ==
    {pattern_build_software, pattern_sell_merchandise, run_clinical_study}
=============================================================================
