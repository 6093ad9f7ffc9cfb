----------------------------- MODULE RepairTree -----------------------------
(***************************************************************************)
(* The repair tasks of the final verification                              *)
(* (planner/task_graph_builder.py).  A task too broad for one worker is    *)
(* replaced by its parts, a leaf by a narrower one.  Names are the titles  *)
(* of the source without "Repair final frontend".                          *)
(***************************************************************************)
EXTENDS Naturals, Sequences, SequencesExt, TLC

\* final_verification_repair_task_specs
BackendParts ==
  ("backend domain and repository contracts" :>
     <<"backend domain repository contract leftovers">>) @@
  ("backend domain repository contract leftovers" :>
     <<"backend domain account repository contract leaf">>) @@
  ("backend service handler server contracts" :> <<"backend service contract leftovers">>)

\* final_frontend_api_i18n_repair_task_specs
ApiParts ==
  ("API and i18n contracts" :>
     <<"API module contracts", "i18n locale contracts", "constants and shared types contracts">>)

\* final_frontend_api_module_repair_spec, final_frontend_i18n_locale_repair_spec
ApiLeaves ==
  ("API module contracts" :> <<"admin billing API contract leaf">>) @@
  ("admin billing API contract leaf" :> <<"payment usage API contract leaf">>) @@
  ("i18n locale contracts" :> <<"i18n locale sources">>)

\* final_frontend_routes_views_repair_task_specs, from here to PublicViewParts
RouteParts ==
  ("routes views and tests" :>
     <<"route and app shell contracts", "view and component contracts",
       "state composable utility contracts", "test and fixture contracts">>) @@
  ("route and app shell contracts" :> <<"route registration file">>)

ComposableParts ==
  ("metering entitlement composables" :>
     <<"channel monitor format composable", "model entitlement composable",
       "onboarding quota composables">>) @@
  ("composable contracts" :>
     <<"identity OAuth composables", "metering entitlement composables",
       "table navigation composables">>)

StateParts ==
  ("state composable utility contracts" :>
     <<"store contracts", "composable contracts", "utility constant type contracts">>)

TestParts ==
  ("component and composable test contracts" :>
     <<"component test contracts", "composable test contracts">>) @@
  ("test and fixture contracts" :>
     <<"API and integration test contracts", "component and composable test contracts",
       "view router i18n utility test contracts", "test config and fixture contracts">>)

AccountParts ==
  ("admin account modal components" :>
     <<"admin account test modal component", "admin account import modal component",
       "admin account reauth modal component", "admin scheduled account tests panel">>)

UserParts ==
  ("admin user create edit components" :>
     <<"admin user create modal component", "admin user edit modal component">>) @@
  ("admin user account components" :>
     <<"admin user access group components", "admin user API key component",
       "admin user create edit components">>)

IdentityParts ==
  ("admin account identity components" :>
     <<"admin account table components", "admin account modal components",
       "admin user account components", "admin user balance quota components",
       "admin announcement compliance components">>)

PaymentParts ==
  ("admin payment refund dialog component" :> <<"admin payment refund dialog file">>) @@
  ("admin payment component" :>
     <<"admin payment order detail components", "admin payment refund dialog component",
       "admin payment analytics components">>) @@
  ("admin usage payment components" :> <<"admin usage component", "admin payment component">>)

AdminParts ==
  ("admin operation component contracts" :>
     <<"admin account identity components", "admin connector channel components",
       "admin monitor components", "admin usage payment components">>)

ViewParts ==
  ("view and component contracts" :>
     <<"account component contracts", "admin operation component contracts",
       "analytics and shared component contracts", "view page contracts">>)

SettingsParts ==
  ("admin settings email compliance files" :>
     <<"admin settings view file", "admin email template editor file",
       "admin compliance dialog file", "admin settings support files">>) @@
  ("admin email template editor file" :> <<"admin email template editor leaf file">>)

AnnouncementParts ==
  ("admin announcement backup promo files" :>
     <<"admin announcements view file", "admin backup view file",
       "admin promo codes view file", "admin announcement components support files">>)

DashboardParts ==
  ("admin dashboard settings view contracts" :>
     <<"admin dashboard view file", "admin settings email compliance files",
       "admin announcement backup promo files", "admin dashboard settings support files">>)

AdminViewParts ==
  ("admin view page contracts" :>
     <<"admin dashboard settings view contracts", "admin user usage redeem view contracts",
       "admin payment order plan view contracts", "admin operations view contracts",
       "legacy admin view cleanup">>)

PublicViewParts ==
  ("setup and not-found view contracts" :>
     <<"setup view contracts", "not-found view file">>) @@
  ("auth public setup view contracts" :>
     <<"auth view contracts", "public legal view contracts",
       "setup and not-found view contracts", "auth public setup support files">>)

ViewPageParts ==
  ("view page contracts" :>
     <<"admin view page contracts", "user payment view page contracts",
       "auth public setup view contracts">>)

Parts ==
  BackendParts @@ ApiParts @@ ApiLeaves @@ RouteParts @@ ComposableParts @@ StateParts @@
  TestParts @@ AccountParts @@ UserParts @@ IdentityParts @@ PaymentParts @@ AdminParts @@
  ViewParts @@ SettingsParts @@ AnnouncementParts @@ DashboardParts @@ AdminViewParts @@
  PublicViewParts @@ ViewPageParts

\* The tasks of the first repair, before any is split.
Broad ==
  <<"backend migration contracts", "backend Ent schema contracts",
    "backend domain and repository contracts", "backend service handler server contracts",
    "API and i18n contracts", "routes views and tests">>

\* A task and all parts it can have, in the order of the graph.
Tree[task \in DOMAIN Parts \cup UNION {ToSet(Parts[w]) : w \in DOMAIN Parts} \cup ToSet(Broad)] ==
  IF task \in DOMAIN Parts
  THEN <<task>> \o FlattenSeq([i \in DOMAIN Parts[task] |-> Tree[Parts[task][i]]])
  ELSE <<task>>

Family(whole) == ToSet(Tree[whole])

Forest == FlattenSeq([i \in DOMAIN Broad |-> Tree[Broad[i]]])

Below == [whole \in DOMAIN Parts |-> Family(whole) \ {whole}]

\* The tasks left when those of cuts are replaced by their parts.
Unfold(cuts) ==
  LET gone == cuts \cup UNION {Below[w] : w \in DOMAIN Parts \ cuts}
  IN  SelectSeq(Forest, LAMBDA t : t \notin gone)
=============================================================================
