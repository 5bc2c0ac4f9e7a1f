--------------------------------- MODULE Panel ---------------------------------
(***************************************************************************)
(* PanelDO as a whole: the viewers with the report interval they call for  *)
(* (ViewerRates) and the list they are sent (ServerListCache).  Lists are  *)
(* built for viewers, so a call of buildList starts while somebody watches *)
(* and may outlast them.                                                   *)
(***************************************************************************)
EXTENDS ServerListCache, ViewerRates

panelDOVars == <<listVars, ratesVars>>

PanelTypeOK == ListTypeOK /\ RatesTypeOK

PanelInit == ListInit /\ RatesInit

\* sync of a viewer, or latest_push, which goes to every viewer
BuildList == /\ Called = "fast"
             /\ ListAsk
             /\ UNCHANGED ratesVars

PanelNext ==
  \/ BuildList
  \/ ListRest /\ UNCHANGED ratesVars
  \/ RatesNext /\ UNCHANGED listVars

PanelSpec == PanelInit /\ [][PanelNext]_panelDOVars
================================================================================
