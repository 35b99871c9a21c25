----------------------------- MODULE Scenarios -----------------------------
(***************************************************************************)
(* The five scenarios that ship with the program (data_products/scenarios/): *)
(* their variables with the parents of their equations, their tables, and     *)
(* what the SQL of their views and questions reads.  Coefficients, weights,    *)
(* shocks and wording are left out; numeric stands for numeric, count and      *)
(* binary, which differ in their distributions only.                          *)
(***************************************************************************)
EXTENDS DataSpec

(* _helpers.py *)

Dim(name, type) == [name |-> name, type |-> type]
Terms(parents, lagged, levels) ==
    {[parent |-> p, lagged |-> lagged, levels |-> levels] : p \in parents}
Var(name, kind, terms, inter) ==
    [name |-> name, kind |-> kind, terms |-> terms, inter |-> inter, suits |-> TRUE]
Equation(name, plain, lagged, levels, inter) ==
    Var(name, "numeric",
        Terms(plain, FALSE, FALSE) \cup Terms(lagged, TRUE, FALSE) \cup Terms(levels, FALSE, TRUE), inter)
Linear(name, plain) == Equation(name, plain, {}, {}, {})
Free(name) == Linear(name, {})
Group(name) == Var(name, "categorical", {}, {})
Utilities(name, plain) == Var(name, "categorical", Terms(plain, FALSE, FALSE), {})

Pop(name, size, identity, dims, attrs, panel) ==
    [name |-> name, size |-> size, identity |-> identity, dims |-> dims, attrs |-> attrs, panel |-> panel]

Col(name, source, ref) == [name |-> name, source |-> source, ref |-> ref]
EntityCol(name) == Col(name, "entity_id", None)
DateCol == Col("date", "date", None)
KgIdCol == Col("kg_id", "kg_id", None)
KgNameCol(name) == Col(name, "kg_name", None)
\* A column is named after the variable it shows unless it says otherwise.
Cols(source, names) == [i \in DOMAIN names |-> Col(names[i], source, names[i])]
Table(name, pop, grain, columns) == [name |-> name, pop |-> pop, grain |-> grain, columns |-> columns]

\* The columns of one relation a query reads, as dates, as numbers, or as anything.
From(rel, dates, numbers, others) ==
    {[rel |-> rel, col |-> c, as |-> IF c \in dates THEN "date" ELSE IF c \in numbers THEN "number" ELSE "any"] :
        c \in dates \cup numbers \cup others}
Same(rel, cols) == [c \in cols |-> <<rel, c>>]
\* The columns a view hands on, and those it computes, as dates or as numbers.
View(name, reads, same, dates, numbers) ==
    [name |-> name, reads |-> reads,
     gives |-> same @@ [c \in dates |-> <<"computed", "date">>] @@ [c \in numbers |-> <<"computed", "number">>]]

\* Thousands of entities: no question of the banks is left without rows by one sample.
Ask(name, reads, gap) == [name |-> name, reads |-> reads, picky |-> FALSE, gap |-> gap]
Delta(kind, target, item) == [kind |-> kind, target |-> target, item |-> item]
GapAddAttr(pop, var) == Delta("attribute", pop, var)
GapAddPanel(pop, var) == Delta("panel", pop, var)
GapAddCol(table, source, name) == Delta("column", table, Col(name, source, name))
GapAddView(view) == Delta("view", None, view)
GapAddTable(table) == Delta("table", None, table)

Factors(names) == [i \in DOMAIN names |-> [name |-> names[i]]]
Scenario(title, factors, pops, tables, views, questions) ==
    [title |-> title, factors |-> factors, pops |-> pops, tables |-> tables, views |-> views,
     questions |-> questions]

---------------------------------------------------------------------------
(* sales_pipeline.py *)

SalesFactors == Factors(<<"demand", "quarter_end_push">>)
SalesReps ==
    Pop("rep", 1, "Person", <<>>,
        <<Free("tenure_years"), Linear("skill", {"tenure_years"})>>,
        <<Linear("calls", {"demand", "quarter_end_push", "skill"}),
          Linear("meetings", {"calls", "skill", "demand"}),
          Linear("pipeline_added", {"meetings", "skill", "quarter_end_push"})>>)
SalesOpportunities ==
    Pop("opportunity", 2500, None, <<Dim("product", "Project"), Dim("owner", "Person")>>,
        <<Group("segment"), Group("source"), Group("region"), Free("competitor_present"),
          Equation("deal_size", {}, {}, {"segment", "source"}, {}),
          Equation("discount", {"competitor_present"}, {}, {"segment"}, {}),
          Equation("won", {"discount", "competitor_present", "deal_size"}, {},
                   {"owner", "segment", "source"}, {}),
          Equation("cycle_days", {"deal_size", "won"}, {}, {"segment"}, {}),
          Equation("net_price", {"deal_size"}, {}, {}, {"deal_size", "discount"}),
          Equation("acv", {}, {}, {}, {"net_price", "won"})>>,
        <<>>)
SalesTables ==
    <<Table("dim_rep", "rep", "entity",
            <<EntityCol("rep_id"), KgIdCol, KgNameCol("rep_name")>> \o Cols("attribute", <<"tenure_years">>)),
      Table("fact_rep_day", "rep", "entity_day",
            <<EntityCol("rep_id"), DateCol>> \o Cols("panel", <<"calls", "meetings", "pipeline_added">>)),
      Table("fact_opportunity", "opportunity", "entity",
            <<EntityCol("opportunity_id")>>
            \o Cols("attribute", <<"product", "owner", "segment", "source", "region", "competitor_present",
                                   "deal_size", "discount", "won", "cycle_days", "acv">>))>>
SalesViews ==
    <<View("win_rate_by_segment", From("fact_opportunity", {}, {"acv"}, {"segment", "won"}),
           Same("fact_opportunity", {"segment"}), {}, {"opportunities", "win_rate", "acv"}),
      View("pipeline_weekly", From("fact_rep_day", {"date"}, {"pipeline_added", "calls", "meetings"}, {}),
           <<>>, {"week"}, {"pipeline_added", "calls", "meetings"}),
      View("acv_by_product", From("fact_opportunity", {}, {"acv"}, {"product", "won"}),
           Same("fact_opportunity", {"product"}), {}, {"acv", "win_rate"}),
      View("leaderboard", From("fact_opportunity", {}, {"acv"}, {"owner", "won"}),
           Same("fact_opportunity", {"owner"}), {}, {"acv", "deals_won"})>>
SalesQuestions ==
    <<Ask("sp.win_rate_segment", From("win_rate_by_segment", {}, {}, {"segment", "win_rate", "opportunities"}), <<>>),
      Ask("sp.acv_product", From("acv_by_product", {}, {}, {"product", "acv", "win_rate"}), <<>>),
      Ask("sp.cycle_by_source", From("fact_opportunity", {}, {"cycle_days"}, {"source", "won"}), <<>>),
      Ask("sp.pipeline_trend", From("pipeline_weekly", {}, {}, {"week", "pipeline_added"}), <<>>),
      Ask("sp.competitor_impact", From("fact_opportunity", {}, {}, {"competitor_present", "won"}), <<>>),
      Ask("sp.leaderboard", From("leaderboard", {}, {}, {"owner", "acv", "deals_won"}), <<>>),
      Ask("sp.discount_effect", From("fact_opportunity", {}, {"discount"}, {"won"}), <<>>),
      Ask("sp.activity_per_rep",
          From("fact_rep_day", {}, {"calls", "meetings"}, {"rep_id"})
          \cup From("dim_rep", {}, {}, {"rep_id", "rep_name"}), <<>>)>>
SalesGaps ==
    <<Ask("sp.quota_attainment",
          From("fact_opportunity", {}, {"acv"}, {"owner"}) \cup From("dim_rep", {}, {"quota"}, {"rep_name"}),
          <<GapAddAttr("rep", Linear("quota", {"tenure_years"})), GapAddCol("dim_rep", "attribute", "quota")>>),
      Ask("sp.loss_reasons", From("fact_opportunity", {}, {}, {"loss_reason", "won"}),
          <<GapAddAttr("opportunity", Utilities("loss_reason", {"discount", "competitor_present"})),
            GapAddCol("fact_opportunity", "attribute", "loss_reason")>>),
      Ask("sp.funnel", From("funnel_stages", {}, {}, {"stage_reached", "deals"}),
          <<GapAddAttr("opportunity", Utilities("stage_reached", {"won"})),
            GapAddCol("fact_opportunity", "attribute", "stage_reached"),
            GapAddView(View("funnel_stages", From("fact_opportunity", {}, {}, {"stage_reached"}),
                            Same("fact_opportunity", {"stage_reached"}), {}, {"deals"}))>>)>>
SalesPipeline ==
    Scenario("sales_pipeline", SalesFactors, <<SalesReps, SalesOpportunities>>, SalesTables, SalesViews,
             SalesQuestions \o SalesGaps)

---------------------------------------------------------------------------
(* product_growth.py *)

GrowthFactors == Factors(<<"market_demand", "release_quality", "marketing_push">>)
GrowthUsers ==
    Pop("user", 4000, None, <<Dim("product_line", "Project")>>,
        <<Group("acquisition_channel"), Group("region"), Group("device"), Free("is_power_user"),
          Equation("engagement_propensity", {"is_power_user"}, {},
                   {"acquisition_channel", "device", "region", "product_line"}, {}),
          Equation("spend_propensity", {"engagement_propensity"}, {}, {"acquisition_channel"}, {})>>,
        <<Equation("active", {"engagement_propensity", "market_demand", "release_quality", "marketing_push"},
                   {"active"}, {}, {}),
          Linear("sessions", {"active", "engagement_propensity", "market_demand"}),
          Linear("minutes", {"sessions", "engagement_propensity"}),
          Equation("revenue", {"marketing_push"}, {}, {}, {"spend_propensity", "active"}),
          Linear("support_contacts", {"sessions", "release_quality"})>>)
GrowthTables ==
    <<Table("dim_user", "user", "entity",
            <<EntityCol("user_id")>>
            \o Cols("attribute", <<"acquisition_channel", "region", "device", "product_line", "is_power_user">>)),
      Table("fact_user_day", "user", "entity_day",
            <<EntityCol("user_id"), DateCol>>
            \o Cols("panel", <<"active", "sessions", "minutes", "revenue", "support_contacts">>)
            \o Cols("factor", <<"release_quality">>))>>
UserDay(dates, numbers) == From("fact_user_day", dates, numbers, {"user_id", "active"})
DimUser(groups) == From("dim_user", {}, {}, {"user_id"} \cup groups)
GrowthViews ==
    <<View("metrics_daily", UserDay({}, {"sessions", "minutes", "revenue", "support_contacts"})
                            \cup From("fact_user_day", {}, {}, {"date"}),
           Same("fact_user_day", {"date"}), {}, {"dau", "sessions", "minutes", "revenue", "support_contacts"}),
      View("metrics_weekly", UserDay({"date"}, {"revenue", "sessions"}),
           <<>>, {"week"}, {"wau", "revenue", "sessions"}),
      View("metrics_monthly", UserDay({"date"}, {"revenue"}), <<>>, {"month"}, {"mau", "revenue"}),
      View("engagement_by_product", UserDay({}, {"minutes"}) \cup From("fact_user_day", {}, {}, {"date"})
                                    \cup DimUser({"product_line"}),
           Same("fact_user_day", {"date"}) @@ Same("dim_user", {"product_line"}), {}, {"dau", "minutes"}),
      View("revenue_by_channel_weekly", UserDay({"date"}, {"revenue"}) \cup DimUser({"acquisition_channel"}),
           Same("dim_user", {"acquisition_channel"}), {"week"}, {"revenue", "wau"})>>
GrowthQuestions ==
    <<Ask("pg.dau_trend", From("metrics_daily", {}, {}, {"date", "dau"}), <<>>),
      Ask("pg.mau", From("metrics_monthly", {}, {}, {"month", "mau", "revenue"}), <<>>),
      Ask("pg.dau_by_product", From("engagement_by_product", {}, {"dau"}, {"product_line"}), <<>>),
      Ask("pg.sessions_by_device", UserDay({}, {"sessions"}) \cup DimUser({"device"}), <<>>),
      Ask("pg.minutes_by_region", UserDay({}, {"minutes"}) \cup DimUser({"region"}), <<>>),
      Ask("pg.revenue_by_channel",
          From("revenue_by_channel_weekly", {}, {"revenue"}, {"acquisition_channel"}), <<>>),
      Ask("pg.arpu", From("metrics_daily", {}, {"revenue", "dau"}, {"date"}), <<>>),
      Ask("pg.retention_daily", UserDay({"date"}, {}), <<>>),
      Ask("pg.support_vs_quality", From("fact_user_day", {}, {"support_contacts", "release_quality"}, {}), <<>>)>>
GrowthGaps ==
    <<Ask("pg.revenue_by_plan", From("fact_user_day", {}, {"revenue"}, {"user_id"}) \cup DimUser({"plan_tier"}),
          <<GapAddAttr("user", Utilities("plan_tier", {"spend_propensity"})),
            GapAddCol("dim_user", "attribute", "plan_tier")>>),
      Ask("pg.nps_weekly", From("nps_weekly", {}, {}, {"week", "avg_nps"}),
          <<GapAddPanel("user", Linear("nps", {"engagement_propensity", "release_quality"})),
            GapAddCol("fact_user_day", "panel", "nps"),
            GapAddView(View("nps_weekly", From("fact_user_day", {"date"}, {"nps"}, {"active"}),
                            <<>>, {"week"}, {"avg_nps"}))>>),
      Ask("pg.churn_by_cohort", UserDay({}, {}) \cup DimUser({"signup_cohort"}),
          <<GapAddAttr("user", Group("signup_cohort")), GapAddCol("dim_user", "attribute", "signup_cohort")>>)>>
ProductGrowth ==
    Scenario("product_growth", GrowthFactors, <<GrowthUsers>>, GrowthTables, GrowthViews,
             GrowthQuestions \o GrowthGaps)

---------------------------------------------------------------------------
(* support_ops.py *)

SupportFactors == Factors(<<"ticket_demand", "release_quality", "staffing_level">>)
SupportAgents ==
    Pop("agent", 1, "Person", <<>>,
        <<Free("experience_years"), Linear("efficiency", {"experience_years"})>>,
        <<Linear("tickets_opened", {"ticket_demand", "release_quality"}),
          Equation("tickets_resolved", {"tickets_opened", "efficiency", "staffing_level"}, {"backlog"}, {}, {}),
          Equation("backlog", {"tickets_opened", "tickets_resolved"}, {"backlog"}, {}, {}),
          Linear("avg_handle_minutes", {"efficiency", "backlog"}),
          Linear("csat", {"backlog", "avg_handle_minutes", "release_quality"})>>)
SupportTickets ==
    Pop("ticket", 6000, None, <<Dim("product_area", "Project")>>,
        <<Group("severity"), Group("channel"),
          Equation("resolution_hours", {}, {}, {"severity", "channel", "product_area"}, {}),
          Equation("escalated", {"resolution_hours"}, {}, {"severity"}, {}),
          Linear("reopened", {"resolution_hours"})>>,
        <<>>)
SupportTables ==
    <<Table("dim_agent", "agent", "entity",
            <<EntityCol("agent_id"), KgIdCol, KgNameCol("agent_name")>>
            \o Cols("attribute", <<"experience_years">>)),
      Table("fact_agent_day", "agent", "entity_day",
            <<EntityCol("agent_id"), DateCol>>
            \o Cols("panel", <<"tickets_opened", "tickets_resolved", "backlog", "avg_handle_minutes", "csat">>)),
      Table("fact_ticket", "ticket", "entity",
            <<EntityCol("ticket_id")>>
            \o Cols("attribute", <<"product_area", "severity", "channel", "resolution_hours", "escalated",
                                   "reopened">>))>>
SupportViews ==
    <<View("queue_daily", From("fact_agent_day", {}, {"tickets_opened", "tickets_resolved", "backlog", "csat"}, {"date"}),
           Same("fact_agent_day", {"date"}), {}, {"opened", "resolved", "backlog", "csat"}),
      View("csat_weekly", From("fact_agent_day", {"date"}, {"csat", "tickets_resolved"}, {}),
           <<>>, {"week"}, {"csat", "resolved"}),
      View("resolution_by_severity", From("fact_ticket", {}, {"resolution_hours"}, {"severity", "escalated"}),
           Same("fact_ticket", {"severity"}), {}, {"tickets", "avg_hours", "escalation_rate"}),
      View("area_health", From("fact_ticket", {}, {"resolution_hours"}, {"product_area", "reopened"}),
           Same("fact_ticket", {"product_area"}), {}, {"tickets", "avg_hours", "reopen_rate"})>>
SupportQuestions ==
    <<Ask("so.volume_trend", From("queue_daily", {}, {}, {"date", "opened", "resolved"}), <<>>),
      Ask("so.backlog", From("queue_daily", {}, {}, {"date", "backlog"}), <<>>),
      Ask("so.csat_trend", From("csat_weekly", {}, {}, {"week", "csat"}), <<>>),
      Ask("so.severity_resolution",
          From("resolution_by_severity", {}, {}, {"severity", "avg_hours", "escalation_rate"}), <<>>),
      Ask("so.area_hotspots", From("area_health", {}, {}, {"product_area", "tickets", "reopen_rate"}), <<>>),
      Ask("so.agent_throughput",
          From("fact_agent_day", {}, {"tickets_resolved"}, {"agent_id"})
          \cup From("dim_agent", {}, {}, {"agent_id", "agent_name"}), <<>>),
      Ask("so.weekday_pattern", From("fact_agent_day", {"date"}, {"tickets_opened"}, {}), <<>>),
      Ask("so.channel_mix", From("fact_ticket", {}, {}, {"channel"}), <<>>)>>
SupportGaps ==
    <<Ask("so.sla_breach", From("fact_ticket", {}, {}, {"severity", "sla_breached"}),
          <<GapAddAttr("ticket", Equation("sla_breached", {"resolution_hours"}, {}, {"severity"}, {})),
            GapAddCol("fact_ticket", "attribute", "sla_breached")>>),
      Ask("so.frt_trend", From("frt_weekly", {}, {}, {"week", "avg_frt_minutes"}),
          <<GapAddPanel("agent", Linear("frt_minutes", {"backlog", "efficiency"})),
            GapAddCol("fact_agent_day", "panel", "frt_minutes"),
            GapAddView(View("frt_weekly", From("fact_agent_day", {"date"}, {"frt_minutes"}, {}),
                            <<>>, {"week"}, {"avg_frt_minutes"}))>>),
      Ask("so.cost_per_ticket",
          From("fact_agent_day", {}, {"avg_handle_minutes", "tickets_resolved"}, {"agent_id"})
          \cup From("dim_agent", {}, {"hourly_cost"}, {"agent_id", "agent_name"}),
          <<GapAddAttr("agent", Linear("hourly_cost", {"experience_years"})),
            GapAddCol("dim_agent", "attribute", "hourly_cost")>>)>>
SupportOps ==
    Scenario("support_ops", SupportFactors, <<SupportAgents, SupportTickets>>, SupportTables, SupportViews,
             SupportQuestions \o SupportGaps)

---------------------------------------------------------------------------
(* subscription_finance.py *)

FinanceFactors == Factors(<<"macro_conditions", "price_increase">>)
FinanceAccounts ==
    Pop("account", 1500, None, <<Dim("owner_team", "Team")>>,
        <<Group("plan"), Group("industry"),
          Equation("seats", {}, {}, {"plan"}, {}),
          Equation("base_mrr", {"seats"}, {}, {"plan"}, {}),
          Equation("churn_risk", {}, {}, {"plan", "industry", "owner_team"}, {})>>,
        <<Equation("active", {"churn_risk", "macro_conditions", "price_increase"}, {"active"}, {}, {}),
          Equation("mrr", {}, {}, {}, {"base_mrr", "active"}),
          Linear("usage_intensity", {"active", "churn_risk", "macro_conditions"})>>)
FinanceTables ==
    <<Table("dim_account", "account", "entity",
            <<EntityCol("account_id")>>
            \o Cols("attribute", <<"plan", "industry", "owner_team", "seats", "base_mrr">>)),
      Table("fact_account_day", "account", "entity_day",
            <<EntityCol("account_id"), DateCol>> \o Cols("panel", <<"active", "mrr", "usage_intensity">>))>>
AccountDay(dates, numbers, others) == From("fact_account_day", dates, numbers, others)
DimAccount(numbers, groups) == From("dim_account", {}, numbers, {"account_id"} \cup groups)
FinanceViews ==
    <<View("mrr_daily", AccountDay({}, {"mrr"}, {"date", "active"}),
           Same("fact_account_day", {"date"}), {}, {"mrr", "active_accounts"}),
      View("mrr_monthly", AccountDay({"date"}, {"mrr"}, {}), <<>>, {"month"}, {"mrr", "peak_mrr"}),
      View("mrr_by_plan_monthly", AccountDay({"date"}, {"mrr"}, {"account_id"}) \cup DimAccount({}, {"plan"}),
           Same("dim_account", {"plan"}), {"month"}, {"mrr"}),
      View("churn_monthly", AccountDay({"date"}, {}, {"active"}), <<>>, {"month"}, {"inactive_share"})>>
FinanceQuestions ==
    <<Ask("sf.mrr_trend", From("mrr_daily", {}, {}, {"date", "mrr"}), <<>>),
      Ask("sf.mrr_monthly", From("mrr_monthly", {}, {"mrr"}, {"month"}), <<>>),
      Ask("sf.plan_mix", From("mrr_by_plan_monthly", {}, {}, {"month", "plan", "mrr"}), <<>>),
      Ask("sf.churn_trend", From("churn_monthly", {}, {}, {"month", "inactive_share"}), <<>>),
      Ask("sf.churn_by_plan", AccountDay({}, {}, {"account_id", "active"}) \cup DimAccount({}, {"plan"}), <<>>),
      Ask("sf.seats_economics", From("dim_account", {}, {"seats", "base_mrr"}, {}), <<>>),
      Ask("sf.usage_churn_signal", AccountDay({}, {"usage_intensity"}, {"active"}), <<>>),
      Ask("sf.team_book", AccountDay({}, {"mrr"}, {"account_id"}) \cup DimAccount({}, {"owner_team"}), <<>>)>>
FinanceGaps ==
    <<Ask("sf.ltv_by_industry", From("dim_account", {}, {"base_mrr", "expected_lifetime_months"}, {"industry"}),
          <<GapAddAttr("account", Linear("expected_lifetime_months", {"churn_risk"})),
            GapAddCol("dim_account", "attribute", "expected_lifetime_months")>>),
      Ask("sf.invoice_aging",
          From("fact_invoice", {}, {"days_to_pay", "amount"}, {"account_id"}) \cup DimAccount({}, {"plan"}),
          <<GapAddAttr("account", Equation("days_to_pay", {"churn_risk"}, {}, {"plan"}, {})),
            GapAddAttr("account", Linear("invoice_amount", {"base_mrr"})),
            GapAddTable(Table("fact_invoice", "account", "entity",
                              <<EntityCol("account_id"), Col("amount", "attribute", "invoice_amount"),
                                Col("days_to_pay", "attribute", "days_to_pay")>>))>>),
      Ask("sf.expansion", From("expansion_weekly", {}, {}, {"week", "expansion_mrr"}),
          <<GapAddPanel("account", Linear("expansion_mrr", {"usage_intensity", "active", "macro_conditions"})),
            GapAddCol("fact_account_day", "panel", "expansion_mrr"),
            GapAddView(View("expansion_weekly", AccountDay({"date"}, {"expansion_mrr"}, {}),
                            <<>>, {"week"}, {"expansion_mrr"}))>>)>>
SubscriptionFinance ==
    Scenario("subscription_finance", FinanceFactors, <<FinanceAccounts>>, FinanceTables, FinanceViews,
             FinanceQuestions \o FinanceGaps)

---------------------------------------------------------------------------
(* marketing_attribution.py *)

MarketingFactors == Factors(<<"market_demand", "cpm_inflation", "viral_moment">>)
MarketingCampaigns ==
    Pop("campaign", 240, None, <<Dim("product", "Project")>>,
        <<Group("channel"), Group("audience"), Free("creative_quality"),
          Equation("daily_budget", {}, {}, {"channel"}, {})>>,
        <<Linear("spend", {"daily_budget"}),
          Equation("impressions", {"spend", "market_demand", "cpm_inflation", "viral_moment"}, {}, {"channel"}, {}),
          Equation("clicks", {"impressions", "creative_quality"}, {}, {"audience"}, {}),
          Equation("conversions", {"clicks", "market_demand"}, {}, {"audience", "product"}, {})>>)
MarketingTables ==
    <<Table("dim_campaign", "campaign", "entity",
            <<EntityCol("campaign_id")>>
            \o Cols("attribute", <<"channel", "audience", "product", "creative_quality", "daily_budget">>)),
      Table("fact_campaign_day", "campaign", "entity_day",
            <<EntityCol("campaign_id"), DateCol>>
            \o Cols("panel", <<"spend", "impressions", "clicks", "conversions">>))>>
CampaignDay(dates, numbers) == From("fact_campaign_day", dates, numbers, {"campaign_id"})
DimCampaign(numbers, groups) == From("dim_campaign", {}, numbers, {"campaign_id"} \cup groups)
MarketingViews ==
    <<View("funnel_daily", From("fact_campaign_day", {}, {"spend", "impressions", "clicks", "conversions"}, {"date"}),
           Same("fact_campaign_day", {"date"}), {}, {"spend", "impressions", "clicks", "conversions"}),
      View("spend_by_channel_weekly", CampaignDay({"date"}, {"spend", "conversions"}) \cup DimCampaign({}, {"channel"}),
           Same("dim_campaign", {"channel"}), {"week"}, {"spend", "conversions"}),
      View("cac_by_channel_monthly", CampaignDay({"date"}, {"spend", "conversions"}) \cup DimCampaign({}, {"channel"}),
           Same("dim_campaign", {"channel"}), {"month"}, {"cac"}),
      View("ctr_by_audience", CampaignDay({}, {"clicks", "impressions", "conversions"}) \cup DimCampaign({}, {"audience"}),
           Same("dim_campaign", {"audience"}), {}, {"ctr", "cvr"})>>
MarketingQuestions ==
    <<Ask("ma.cac_by_channel", From("cac_by_channel_monthly", {}, {"cac"}, {"channel"}), <<>>),
      Ask("ma.spend_pacing", From("spend_by_channel_weekly", {}, {}, {"week", "channel", "spend"}), <<>>),
      Ask("ma.funnel_rates", From("funnel_daily", {}, {"clicks", "impressions", "conversions"}, {"date"}), <<>>),
      Ask("ma.audience_fit", From("ctr_by_audience", {}, {}, {"audience", "ctr", "cvr"}), <<>>),
      Ask("ma.product_conversions", CampaignDay({}, {"conversions"}) \cup DimCampaign({}, {"product"}), <<>>),
      Ask("ma.creative_ctr", CampaignDay({}, {"clicks", "impressions"}) \cup DimCampaign({"creative_quality"}, {}), <<>>),
      Ask("ma.viral_bump", From("funnel_daily", {}, {}, {"date", "impressions", "conversions"}), <<>>)>>
MarketingGaps ==
    <<Ask("ma.roas", CampaignDay({}, {"attributed_revenue", "spend"}) \cup DimCampaign({}, {"channel"}),
          <<GapAddPanel("campaign", Equation("attributed_revenue", {"conversions"}, {}, {"audience"}, {})),
            GapAddCol("fact_campaign_day", "panel", "attributed_revenue")>>),
      Ask("ma.email_assists", From("email_assists_weekly", {}, {}, {"week", "assisted"}),
          <<GapAddPanel("campaign", Equation("assisted_conversions", {"conversions"}, {}, {"channel"}, {})),
            GapAddCol("fact_campaign_day", "panel", "assisted_conversions"),
            GapAddView(View("email_assists_weekly",
                            CampaignDay({"date"}, {"assisted_conversions"}) \cup DimCampaign({}, {"channel"}),
                            <<>>, {"week"}, {"assisted"}))>>)>>
MarketingAttribution ==
    Scenario("marketing_attribution", MarketingFactors, <<MarketingCampaigns>>, MarketingTables, MarketingViews,
             MarketingQuestions \o MarketingGaps)

---------------------------------------------------------------------------
(* __init__.py: the registered scenarios. *)

DataScenarios == {MarketingAttribution, ProductGrowth, SalesPipeline, SubscriptionFinance, SupportOps}

=============================================================================
