------------------------------ MODULE MCPages ------------------------------
(***************************************************************************)
(* The pages of the client for TLC.  A window shows one page: the list of  *)
(* one kind (DocumentLists), of which there are two forms, and a filter    *)
(* finds one; or a page that refreshes itself (Refreshes), of two          *)
(* documents.  The other one stays as it begins.                           *)
(***************************************************************************)
EXTENDS DocumentLists, Refreshes

CONSTANTS first, second

VARIABLE window

PageInit ==
    /\ ListInit /\ RefreshInit
    /\ \/ window = "list" /\ question = first
       \/ window = "refreshed" /\ kind = "incoming_letter"

PageNext ==
    \/ window = "list" /\ ListNext /\ UNCHANGED <<refreshVars, window>>
    \/ window = "refreshed" /\ RefreshNext /\ UNCHANGED <<listVars, window>>

PageSpec == PageInit /\ [][PageNext]_<<listVars, refreshVars, window>>

FormOf(content, letters, resolutions, active) ==
    [number |-> "7", content |-> content, name |-> "who", letters |-> letters,
     resolutions |-> resolutions, active |-> active, awaited |-> active]
Letter == [number |-> "7", name |-> "who"]

MCForms == [k \in DocumentKinds |->
    CASE k = "incoming_letter" -> {FormOf("plan", {Letter}, {}, TRUE), FormOf("report", {Letter}, {"plan"}, TRUE)}
      [] k = "citizen_appeal" -> {FormOf("plan", {}, {}, TRUE), FormOf("report", {Letter}, {"plan"}, TRUE)}
      [] k = "outgoing_letter" -> {FormOf("plan", {}, {}, TRUE), FormOf("report", {}, {}, TRUE)}
      [] OTHER -> {FormOf("plan", {}, {}, TRUE), FormOf("report", {}, {}, FALSE)}]

\* What the search finds.
MCFirstForm == [k \in DocumentKinds |-> CHOOSE form \in MCForms[k] : form.content = "report"]

MCFilters == [k \in DocumentKinds |->
    CASE k \in {"incoming_letter", "citizen_appeal"} -> {[NoFilter EXCEPT !.noResolution = TRUE]}
      [] k = "outgoing_letter" -> {[NoFilter EXCEPT !.name = "who"]}
      [] OTHER -> {[NoFilter EXCEPT !.status = "active"]}]
=============================================================================
