------------------------------- MODULE Console -------------------------------
(* The pages of the dashboard beside the resolution of disputes: lists, flags,
   messages, views of disputes, and the figures and the forecast of analytics;
   and the operators' commands, migrations and the seed.  They share
   users.is_active, which flags, messages and figures read, and no other table
   that one of them writes; so a behaviour is about the page, or the command, that
   is open, while the others rest. *)
EXTENDS Listing, Risk, Notify, DisputeViews, Analytics, Forecast, Migrations, Seed

VARIABLE page

vars == <<page, listVars, riskVars, notifyVars, viewVars, dealVars, chart, scriptVars, seedVars>>

Pages == {"lists", "flags", "messages", "disputes", "figures", "forecast", "migrate", "seed"}

\* The types of the parts.
TypeOK ==
    /\ page \in Pages
    /\ ListTypeOK /\ RiskTypeOK /\ NotifyTypeOK /\ ViewsTypeOK
    /\ AnalyticsTypeOK /\ ForecastTypeOK /\ ScriptsTypeOK /\ SeedTypeOK

Init ==
    /\ page \in Pages
    /\ ListInit /\ RiskInit /\ NotifyInit /\ ViewsInit
    /\ AnalyticsInit /\ ForecastInit /\ ScriptsInit /\ SeedInit

\* What the step of a page leaves alone.
Rest(open) ==
    /\ page = open /\ UNCHANGED page
    /\ open # "lists" => UNCHANGED listVars
    /\ open # "flags" => UNCHANGED <<flags, desk, figures>>
    /\ open # "messages" => UNCHANGED <<inbox, updates, messages, confirmed, sending, budget>>
    /\ open # "disputes" => UNCHANGED viewVars
    /\ open # "figures" => UNCHANGED dealVars
    /\ open # "forecast" => UNCHANGED chart
    /\ open # "migrate" => UNCHANGED scriptVars
    /\ open # "seed" => UNCHANGED seedVars
    /\ open \notin {"flags", "messages", "figures"} => UNCHANGED active

Next ==
    \/ Rest("lists") /\ ListNext
    \/ Rest("flags") /\ RiskNext
    \/ Rest("messages") /\ NotifyNext
    \/ Rest("disputes") /\ ViewsNext
    \/ Rest("figures") /\ AnalyticsNext
    \/ Rest("forecast") /\ ForecastNext
    \/ Rest("migrate") /\ ScriptsNext
    \/ Rest("seed") /\ SeedNext

Spec == Init /\ [][Next]_vars

=============================================================================
